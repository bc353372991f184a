--------------------------- MODULE WsBridgeProofs ---------------------------
(***************************************************************************)
(* For any limits and any number of dials and frames: the page is told     *)
(* the truth, no freed callback is called, and the engine never reads past *)
(* a hole.                                                                 *)
(*                                                                         *)
(* The state falls into three parts that keep their invariants by          *)
(* themselves: the status (Status), the frame funnel (Frames) and the      *)
(* pump's counters (Counted).                                              *)
(***************************************************************************)
EXTENDS WsBridge, FiniteSetTheorems, FunctionTheorems, SequenceTheorems, TLAPS

\* disconnect is final, and only disconnect takes the handle.
Final(b) ==
  /\ b.stopped => b.status = "Disconnected"
  /\ ~b.handle => b.stopped

\* The last microtask, or without one the callback, has the current status.
Heard(b, t) ==
  /\ ~b.on_status => b.tasks = <<>>
  /\ b.on_status => b.status = IF b.tasks = <<>> THEN t ELSE b.tasks[Len(b.tasks)]

StatusTypes ==
  /\ options \in [auto_reconnect : BOOLEAN, urlAccepted : BOOLEAN]
  /\ shared \in Shareds
  /\ attached \subseteq Sockets
  /\ told \in Statuses \union {"nothing"}
  /\ engine \in {"dial", "handshake", "serving", "backoff", "ended"}
  /\ cur \in 0 .. MaxDials
  /\ opened \in {"pending", "open", "failed"}
  /\ recv \in {"begin", "waiting"}
  /\ stream \in {"none", "queued", "active", "ended"}
  /\ pump \in {"loop", "streaming", "sleeping", "done"}
  /\ call \in {"idle", "queued", "sent", "resolved", "failed", "timed_out"}

\* The engine's socket is the published one until somebody disconnects; a failed
\* handshake has been reported by its close event.
Status ==
  /\ StatusTypes
  /\ NoFreedCallback
  /\ Final(shared)
  /\ ~ReplayReenters => Heard(shared, told)
  /\ engine \in {"handshake", "serving"} => shared.ws = cur \/ shared.stopped
  /\ shared.status = "Connected" => engine = "serving"
  /\ engine = "ended" => shared.status = "Disconnected"
  /\ engine = "handshake" /\ opened = "failed" /\ ~options.auto_reconnect
       => shared.status = "Disconnected"

\* What the funnel f holds, and that it goes on where the engine is.
Gapless(f) ==
  /\ f \in Funnels
  /\ Len(f.frames) <= FrameQueueCap + 1
  /\ \A i \in 1 .. Len(f.frames) : f.frames[i].no = f.got + i
  /\ ~f.closed => f.arrived = f.got + Len(f.frames)
  /\ f.queued_bytes <= FrameQueueBytes
  /\ \E total \in Totals(f.frames) :
       /\ total[1] = f.queued_bytes
       /\ \A i, j \in 1 .. Len(f.frames) + 1 : i <= j => total[j] <= total[i]

Frames == Gapless(funnel)

GapsIn(s) == {i \in 1 .. Len(s) : s[i] = "gap"}

Counted ==
  /\ sink \in Seq({"update", "gap", "rejected"})
  /\ dropped \in Nat /\ gaps \in Nat
  /\ dropped + Cardinality(GapsIn(sink)) = gaps

IInv == Status /\ Frames /\ Counted

-----------------------------------------------------------------------------
(* Sequences.                                                              *)

LEMMA Appended ==
  ASSUME NEW S, NEW s \in Seq(S), NEW x \in S
  PROVE  /\ Append(s, x) \in Seq(S) /\ Len(Append(s, x)) = Len(s) + 1
         /\ Len(s) \in Nat /\ Append(s, x)[Len(s) + 1] = x
         /\ \A i \in 1 .. Len(s) : Append(s, x)[i] = s[i]
         /\ Append(s, x) # <<>>
<1>1. /\ Append(s, x) \in Seq(S) /\ Len(Append(s, x)) = Len(s) + 1
      /\ Len(s) \in Nat /\ Append(s, x)[Len(s) + 1] = x
      /\ \A i \in 1 .. Len(s) : Append(s, x)[i] = s[i]
  BY AppendProperties, LenProperties
<1>2. PICK a : a = Append(s, x)
  OBVIOUS
<1>3. Len(a) # 0
  BY <1>1, <1>2
<1>4. a # <<>>
  BY <1>3, EmptySeq
<1> QED BY <1>1, <1>2, <1>4

LEMMA HeadAndTail ==
  ASSUME NEW S, NEW s \in Seq(S), s # <<>>
  PROVE  /\ Tail(s) \in Seq(S) /\ Len(s) \in Nat \ {0} /\ Len(Tail(s)) = Len(s) - 1
         /\ Head(s) = s[1] /\ s[1] \in S
         /\ \A i \in 1 .. Len(s) - 1 : Tail(s)[i] = s[i + 1]
  BY HeadTailProperties, LenProperties, ElementOfSeq, EmptySeq

LEMMA NoElements ==
  ASSUME NEW S
  PROVE  <<>> \in Seq(S) /\ Len(<<>>) = 0
  BY EmptySeq

-----------------------------------------------------------------------------
(* The shared state.                                                       *)

LEMMA CloseSocketKeeps ==
  ASSUME NEW b \in Shareds, NEW s \in Sockets \cup {NoSocket}
  PROVE  /\ CloseSocket(b, s) \in Shareds
         /\ CloseSocket(b, s).status = b.status
         /\ CloseSocket(b, s).on_status = b.on_status
         /\ CloseSocket(b, s).tasks = b.tasks
         /\ CloseSocket(b, s).ever_connected = b.ever_connected
  BY DEF CloseSocket, Shareds

LEMMA EmitKeeps ==
  ASSUME NEW b \in Shareds, NEW status \in Statuses
  PROVE  /\ Emit(b, status) \in Shareds /\ Emit(b, status).status = status
         /\ Emit(b, status).stopped = b.stopped /\ Emit(b, status).handle = b.handle
         /\ Emit(b, status).ws = b.ws
         /\ \A t : (~b.on_status => b.tasks = <<>>) => Heard(Emit(b, status), t)
<1>1. b.tasks \in Seq(Statuses)
  BY DEF Shareds
<1>2. PICK q : q = Append(b.tasks, status)
  OBVIOUS
<1>3. q \in Seq(Statuses) /\ q # <<>> /\ q[Len(q)] = status
  BY <1>1, <1>2, Appended
<1>4. PICK r : r = IF b.on_status THEN q ELSE b.tasks
  OBVIOUS
<1>5. r \in Seq(Statuses)
  BY <1>1, <1>3, <1>4
<1>6. Emit(b, status) = [b EXCEPT !.status = status, !.tasks = r]
  BY <1>2, <1>4 DEF Emit, Shareds
<1>7. PICK e : e = Emit(b, status)
  OBVIOUS
<1>8. /\ e \in Shareds /\ e.status = status /\ e.tasks = r /\ e.on_status = b.on_status
      /\ e.stopped = b.stopped /\ e.handle = b.handle /\ e.ws = b.ws
  BY <1>5, <1>6, <1>7 DEF Shareds
<1>9. \A t : (~b.on_status => b.tasks = <<>>) => Heard(e, t)
  BY <1>3, <1>4, <1>8 DEF Heard
<1> QED BY <1>7, <1>8, <1>9

LEMMA StopKeeps ==
  ASSUME NEW b \in Shareds
  PROVE  /\ Stop(b) \in Shareds /\ Stop(b).stopped /\ Final(Stop(b))
         /\ Stop(b).status = "Disconnected"
         /\ \A t : Heard(b, t) => Heard(Stop(b), t)
<1>1. PICK d : d = CloseSocket(b, b.ws)
  OBVIOUS
<1>2. b.ws \in Sockets \cup {NoSocket}
  BY DEF Shareds
<1>3. /\ d \in Shareds /\ d.status = b.status /\ d.on_status = b.on_status
      /\ d.tasks = b.tasks
  BY <1>1, <1>2, CloseSocketKeeps
<1>4. PICK c : c = [d EXCEPT !.stopped = TRUE, !.handle = FALSE, !.ws = NoSocket]
  OBVIOUS
<1>5. /\ c \in Shareds /\ c.status = b.status /\ c.on_status = b.on_status
      /\ c.tasks = b.tasks /\ c.stopped = TRUE /\ c.handle = FALSE
  BY <1>3, <1>4 DEF Shareds
<1>6. Stop(b) = IF c.status = "Disconnected" THEN c ELSE Emit(c, "Disconnected")
  BY <1>1, <1>4 DEF Stop
<1>7. PICK z : z = Stop(b)
  OBVIOUS
<1>8. CASE c.status = "Disconnected"
  <2>1. z = c
    BY <1>6, <1>7, <1>8
  <2>2. \A t : Heard(b, t) => Heard(z, t)
    BY <1>5, <2>1 DEF Heard
  <2> QED BY <1>5, <1>7, <1>8, <2>1, <2>2 DEF Final
<1>9. CASE c.status # "Disconnected"
  <2>1. "Disconnected" \in Statuses
    BY DEF Statuses
  <2>2. z = Emit(c, "Disconnected")
    BY <1>6, <1>7, <1>9
  <2>3. /\ z \in Shareds /\ z.status = "Disconnected" /\ z.stopped = TRUE
        /\ \A t : (~c.on_status => c.tasks = <<>>) => Heard(z, t)
    BY <1>5, <2>1, <2>2, EmitKeeps
  <2>4. \A t : Heard(b, t) => Heard(z, t)
    BY <1>5, <2>3 DEF Heard
  <2> QED BY <1>7, <2>3, <2>4 DEF Final
<1> QED BY <1>8, <1>9

\* What a change of status may leave behind: the status itself, or a bridge that a
\* listener has disconnected.
LEMMA SetStatusKeeps ==
  ASSUME NEW b \in Shareds, NEW status \in Statuses, NEW c \in set_status(b, status),
         Final(b), b.stopped => status = "Disconnected"
  PROVE  /\ c \in Shareds /\ Final(c)
         /\ c.status = status \/ c.status = "Disconnected"
         /\ c.stopped \/ c.ws = b.ws
         /\ \A t : Heard(b, t) => Heard(c, t)
<1>1. CASE b.status = status
  BY <1>1 DEF set_status
<1>2. CASE b.status # status
  <2>1. PICK e : e = Emit(b, status)
    OBVIOUS
  <2>2. c = e \/ c = Stop(e)
    BY <1>2, <2>1 DEF set_status
  <2>3. /\ e \in Shareds /\ e.status = status
        /\ e.stopped = b.stopped /\ e.handle = b.handle /\ e.ws = b.ws
        /\ \A t : (~b.on_status => b.tasks = <<>>) => Heard(e, t)
    BY <2>1, EmitKeeps
  <2>4. Final(e)
    BY <2>3 DEF Final
  <2>5. \A t : Heard(b, t) => Heard(e, t)
    BY <2>3 DEF Heard
  <2>6. CASE c = e
    BY <2>3, <2>4, <2>5, <2>6
  <2>7. CASE c = Stop(e)
    BY <2>3, <2>5, <2>7, StopKeeps
  <2> QED BY <2>2, <2>6, <2>7
<1> QED BY <1>1, <1>2

-----------------------------------------------------------------------------
(* The status.                                                             *)

SmallTypes ==
  /\ recv \in {"begin", "waiting"}
  /\ stream \in {"none", "queued", "active", "ended"}
  /\ pump \in {"loop", "streaming", "sleeping", "done"}
  /\ call \in {"idle", "queued", "sent", "resolved", "failed", "timed_out"}

statusVars == <<options, shared, attached, told, engine, cur, opened>>

LEMMA StatusUntouched ==
  ASSUME Status, UNCHANGED statusVars, SmallTypes'
  PROVE  Status'
  BY DEF Status, StatusTypes, SmallTypes, statusVars, NoFreedCallback, Final, Heard

\* Steps of the pump, the calls and the frames do not touch the status.
LEMMA OthersKeepStatus ==
  ASSUME Status,
         \/ call_as_promise \/ CallTimeout \/ recv_pending \/ Command \/ Pump
         \/ \E s \in attached, text \in Texts : onmessage(s, text)
         \/ \E item \in {"update", "gap", "rejected", "reply", "other"} : recv_frame(item)
  PROVE  Status'
<1>1. UNCHANGED statusVars
  BY DEF call_as_promise, CallTimeout, recv_pending, Command, Pump, PumpSubscribe,
    PumpItem, PumpEnd, PumpWake, PumpUnchanged, onmessage, BrowserUnchanged, recv_frame,
    statusVars, dialVars
<1>2. SmallTypes
  BY DEF Status, StatusTypes, SmallTypes
<1>3. SmallTypes'
  <2>1. CASE call_as_promise \/ CallTimeout
    BY <1>2, <2>1 DEF call_as_promise, CallTimeout, SmallTypes, dialVars, pumpVars
  <2>2. CASE recv_pending \/ Command
    BY <1>2, <2>2 DEF recv_pending, Command, SmallTypes, pumpVars
  <2>3. CASE Pump
    BY <1>2, <2>3 DEF Pump, PumpSubscribe, PumpItem, PumpEnd, PumpWake, PumpUnchanged,
      SmallTypes, dialVars
  <2>4. CASE \E s \in attached, text \in Texts : onmessage(s, text)
    BY <1>2, <2>4 DEF onmessage, BrowserUnchanged, SmallTypes, pumpVars
  <2>5. CASE \E item \in {"update", "gap", "rejected", "reply", "other"} : recv_frame(item)
    <3>1. PICK item \in {"update", "gap", "rejected", "reply", "other"} : recv_frame(item)
      BY <2>5
    <3>2. recv' = "begin" /\ pump' = pump /\ Deliver(item)
      BY <3>1 DEF recv_frame
    <3>3. stream' \in {stream, "ended"} /\ call' \in {call, "resolved"}
      BY <3>2 DEF Deliver
    <3> QED BY <1>2, <3>2, <3>3 DEF SmallTypes
  <2> QED BY <2>1, <2>2, <2>3, <2>4, <2>5
<1> QED BY <1>1, <1>3, StatusUntouched

LEMMA RedialKeepsStatus ==
  ASSUME Status, Redial
  PROVE  Status'
  BY DEF Status, StatusTypes, Redial, UnchangedByDial, NoFreedCallback, Final, Heard,
    dialVars

\* A step that only replaces the shared state, by one with a true status.
LEMMA SharedKeepsStatus ==
  ASSUME Status, UNCHANGED <<options, attached, engine, cur, opened, recv, stream, pump, call>>,
         shared' \in Shareds, Final(shared'), told' \in Statuses \union {"nothing"},
         ~ReplayReenters => Heard(shared', told'),
         shared'.stopped \/ shared'.ws = shared.ws,
         shared'.status = shared.status \/ shared'.status = "Disconnected",
         shared.stopped => shared'.stopped
  PROVE  Status'
<1>1. StatusTypes'
  BY DEF Status, StatusTypes
<1>2. NoFreedCallback'
  BY DEF Status, NoFreedCallback
<1> QED BY <1>1, <1>2 DEF Status

LEMMA PageKeepsStatus ==
  ASSUME Status, disconnect \/ on_status_change \/ StatusCallback
  PROVE  Status'
<1>1. /\ UNCHANGED <<options, attached, engine, cur, opened, recv, stream, pump, call>>
  BY DEF disconnect, on_status_change, StatusCallback, dialVars, pumpVars
<1>2. /\ shared \in Shareds /\ Final(shared) /\ told \in Statuses \union {"nothing"}
      /\ ~ReplayReenters => Heard(shared, told)
  BY DEF Status, StatusTypes
<1>3. PICK c : c = shared'
  OBVIOUS
<1>4. CASE disconnect
  <2>1. c = Stop(shared) /\ told' = told
    BY <1>3, <1>4 DEF disconnect
  <2>2. /\ c \in Shareds /\ c.stopped /\ Final(c) /\ c.status = "Disconnected"
        /\ Heard(shared, told) => Heard(c, told)
    BY <1>2, <2>1, StopKeeps
  <2> QED BY <1>1, <1>2, <1>3, <2>1, <2>2, SharedKeepsStatus
<1>5. CASE on_status_change
  <2>1. PICK b : /\ b = shared \/ (ReplayReenters /\ b = Stop(shared))
                 /\ c = [b EXCEPT !.on_status = TRUE]
    BY <1>3, <1>5 DEF on_status_change
  <2>2. told' = shared.status /\ ~shared.on_status
    BY <1>5 DEF on_status_change
  <2>3. /\ b \in Shareds /\ Final(b) /\ (b.stopped \/ b.ws = shared.ws)
        /\ b.status = shared.status \/ b.status = "Disconnected"
        /\ shared.stopped => b.stopped
    BY <1>2, <2>1, StopKeeps
  <2>4. /\ c \in Shareds /\ c.stopped = b.stopped /\ c.ws = b.ws /\ c.status = b.status
        /\ c.handle = b.handle /\ c.tasks = b.tasks /\ c.on_status = TRUE
    BY <2>1, <2>3 DEF Shareds
  <2>5. Final(c)
    BY <2>3, <2>4 DEF Final
  <2>6. told' \in Statuses
    BY <1>2, <2>2 DEF Shareds
  <2>7. ~ReplayReenters => Heard(c, told')
    BY <1>2, <2>1, <2>2, <2>4 DEF Heard
  <2> QED BY <1>1, <1>3, <2>3, <2>4, <2>5, <2>6, <2>7, SharedKeepsStatus
<1>6. CASE StatusCallback
  <2>1. PICK q : q = shared.tasks
    OBVIOUS
  <2>2. PICK t : t = Tail(q)
    OBVIOUS
  <2>3. q # <<>> /\ q \in Seq(Statuses) /\ told' = Head(q)
        /\ c = [shared EXCEPT !.tasks = t]
    BY <1>2, <1>3, <1>6, <2>1, <2>2 DEF StatusCallback, Shareds
  <2>4. /\ t \in Seq(Statuses) /\ Len(q) \in Nat \ {0} /\ Len(t) = Len(q) - 1
        /\ told' = q[1] /\ q[1] \in Statuses
        /\ \A i \in 1 .. Len(q) - 1 : t[i] = q[i + 1]
    BY <2>2, <2>3, HeadAndTail
  <2>5. /\ c \in Shareds /\ c.stopped = shared.stopped /\ c.ws = shared.ws
        /\ c.status = shared.status /\ c.handle = shared.handle /\ c.tasks = t
        /\ c.on_status = shared.on_status
    BY <1>2, <2>3, <2>4 DEF Shareds
  <2>6. Final(c)
    BY <1>2, <2>5 DEF Final
  <2>7. ASSUME Heard(shared, told)
        PROVE  Heard(c, told')
    <3>1. shared.on_status /\ shared.status = q[Len(q)]
      BY <2>1, <2>3, <2>7 DEF Heard
    <3>2. CASE t = <<>>
      <4>1. Len(q) = 1
        BY <2>4, <3>2, NoElements
      <4> QED BY <2>4, <2>5, <3>1, <3>2, <4>1 DEF Heard
    <3>3. CASE t # <<>>
      <4>1. Len(t) \in 1 .. Len(q) - 1 /\ Len(t) + 1 = Len(q)
        <5>1. Len(t) # 0
          BY <2>4, <3>3, EmptySeq
        <5> QED BY <2>4, <5>1
      <4>2. t[Len(t)] = q[Len(q)]
        BY <2>4, <4>1
      <4> QED BY <2>5, <3>1, <3>3, <4>2 DEF Heard
    <3> QED BY <3>2, <3>3
  <2> QED BY <1>1, <1>2, <1>3, <2>4, <2>5, <2>6, <2>7, SharedKeepsStatus
<1> QED BY <1>4, <1>5, <1>6

LEMMA SocketKeeps ==
  ASSUME NEW b \in Shareds, NEW s \in Nat,
         NEW v \in {"none", "connecting", "open", "closing", "closed"}
  PROVE  /\ [b EXCEPT !.sock[s] = v] \in Shareds
         /\ [b EXCEPT !.sock[s] = v].status = b.status
         /\ [b EXCEPT !.sock[s] = v].stopped = b.stopped
         /\ [b EXCEPT !.sock[s] = v].handle = b.handle
         /\ [b EXCEPT !.sock[s] = v].tasks = b.tasks
         /\ [b EXCEPT !.sock[s] = v].on_status = b.on_status
         /\ [b EXCEPT !.sock[s] = v].ws = b.ws
  BY DEF Shareds

LEMMA DropStatus ==
  ASSUME NEW b
  PROVE  /\ drop_status(b) \in {"Disconnected", "Reconnecting"}
         /\ b.stopped \/ ~options.auto_reconnect => drop_status(b) = "Disconnected"
         /\ drop_status(b) \in Statuses
  BY DEF drop_status, Statuses

LEMMA BrowserKeepsStatus ==
  ASSUME Status, NEW s \in attached, onopen(s) \/ onclose(s)
  PROVE  Status'
<1>1. /\ UNCHANGED <<options, attached, told, engine, cur, recv, stream, pump, call>>
  BY DEF onopen, onclose, BrowserUnchanged, pumpVars
<1>2. /\ shared \in Shareds /\ Final(shared) /\ s \in Nat /\ s = cur
      /\ engine \in {"handshake", "serving"}
      /\ ~ReplayReenters => Heard(shared, told)
      /\ opened \in {"pending", "open", "failed"}
      /\ shared.ws = cur \/ shared.stopped
  BY DEF Status, StatusTypes, NoFreedCallback, Sockets
<1>3. NoFreedCallback'
  BY <1>1 DEF Status, NoFreedCallback
<1>4. PICK c : c = shared'
  OBVIOUS
<1>5. CASE onopen(s)
  <2>1. /\ c = [shared EXCEPT !.sock[s] = "open"]
        /\ opened' \in {"pending", "open", "failed"}
        /\ opened' = "failed" => opened = "failed"
    BY <1>2, <1>4, <1>5 DEF onopen
  <2>2. /\ c \in Shareds /\ c.status = shared.status /\ c.stopped = shared.stopped
        /\ c.handle = shared.handle /\ c.tasks = shared.tasks
        /\ c.on_status = shared.on_status /\ c.ws = shared.ws
    BY <1>2, <2>1, SocketKeeps
  <2>3. Final(c) /\ (~ReplayReenters => Heard(c, told))
    BY <1>2, <2>2 DEF Final, Heard
  <2>4. StatusTypes'
    BY <1>1, <1>4, <2>1, <2>2 DEF Status, StatusTypes
  <2> QED BY <1>1, <1>3, <1>4, <2>1, <2>2, <2>3, <2>4 DEF Status
<1>6. CASE onclose(s)
  <2>1. PICK b : b = [shared EXCEPT !.sock[s] = "closed"]
    OBVIOUS
  <2>2. c \in set_status(b, drop_status(b)) /\ opened' \in {"pending", "open", "failed"}
    BY <1>2, <1>4, <1>6, <2>1 DEF onclose
  <2>3. /\ b \in Shareds /\ b.status = shared.status /\ b.stopped = shared.stopped
        /\ b.handle = shared.handle /\ b.tasks = shared.tasks
        /\ b.on_status = shared.on_status /\ b.ws = shared.ws
    BY <1>2, <2>1, SocketKeeps
  <2>4. Final(b) /\ (~ReplayReenters => Heard(b, told))
    BY <1>2, <2>3 DEF Final, Heard
  <2>5. PICK d : d = drop_status(b)
    OBVIOUS
  <2>6. /\ d \in {"Disconnected", "Reconnecting"} /\ d \in Statuses
        /\ b.stopped \/ ~options.auto_reconnect => d = "Disconnected"
    BY <2>5, DropStatus
  <2>7. /\ c \in Shareds /\ Final(c) /\ (c.status = d \/ c.status = "Disconnected")
        /\ c.stopped \/ c.ws = b.ws
        /\ Heard(b, told) => Heard(c, told)
    BY <2>2, <2>3, <2>4, <2>5, <2>6, SetStatusKeeps
  <2>8. b.stopped => c.status = "Disconnected"
    BY <2>6, <2>7
  <2>9. shared.ws = cur => c.ws = cur \/ c.stopped
    BY <2>3, <2>7
  <2>10. shared.stopped => c.stopped
    <3>1. CASE b.status = d
      BY <2>2, <2>3, <2>5, <3>1 DEF set_status
    <3>2. CASE b.status # d
      BY <2>3, <2>4, <2>6, <3>2 DEF Final
    <3> QED BY <3>1, <3>2
  <2>11. StatusTypes'
    BY <1>1, <1>4, <2>2, <2>7 DEF Status, StatusTypes
  <2> QED BY <1>1, <1>2, <1>3, <1>4, <2>4, <2>6, <2>7, <2>9, <2>10, <2>11 DEF Status
<1> QED BY <1>5, <1>6

LEMMA AbandonedKeeps ==
  ASSUME Status
  PROVE  /\ Abandoned(shared) \in Shareds
         /\ Abandoned(shared).status = shared.status
         /\ Abandoned(shared).stopped = shared.stopped
         /\ Final(Abandoned(shared))
         /\ \A t : Heard(shared, t) => Heard(Abandoned(shared), t)
<1>1. shared \in Shareds /\ cur \in Nat /\ Final(shared)
  BY DEF Status, StatusTypes
<1>2. PICK b : b = [shared EXCEPT !.sock[cur] = "closed"]
  OBVIOUS
<1>3. /\ b \in Shareds /\ b.status = shared.status /\ b.stopped = shared.stopped
      /\ b.handle = shared.handle /\ b.tasks = shared.tasks
      /\ b.on_status = shared.on_status
  BY <1>1, <1>2, SocketKeeps
<1>4. PICK c : c = Abandoned(shared)
  OBVIOUS
<1>5. c = IF b.ws = cur THEN [b EXCEPT !.ws = NoSocket] ELSE b
  BY <1>2, <1>4 DEF Abandoned, unpublish_socket
<1>6. /\ c \in Shareds /\ c.status = shared.status /\ c.stopped = shared.stopped
      /\ c.handle = shared.handle /\ c.tasks = shared.tasks
      /\ c.on_status = shared.on_status
  BY <1>3, <1>5 DEF Shareds
<1>7. Final(c) /\ \A t : Heard(shared, t) => Heard(c, t)
  BY <1>1, <1>6 DEF Final, Heard
<1> QED BY <1>4, <1>6, <1>7

\* The end of a connection is reported, unless disconnect has reported it.
LEMMA DropKeeps ==
  ASSUME Status, engine = "serving", NEW c \in DropConnection
  PROVE  /\ c \in Shareds /\ Final(c)
         /\ c.status \in {"Disconnected", "Reconnecting"}
         /\ shared.stopped \/ ~options.auto_reconnect => c.status = "Disconnected"
         /\ \A t : Heard(shared, t) => Heard(c, t)
<1>1. PICK a : a = Abandoned(shared)
  OBVIOUS
<1>2. /\ a \in Shareds /\ a.status = shared.status /\ a.stopped = shared.stopped
      /\ Final(a) /\ \A t : Heard(shared, t) => Heard(a, t)
  BY <1>1, AbandonedKeeps
<1>3. CASE shared.ws = cur
  <2>1. PICK d : d = drop_status(shared)
    OBVIOUS
  <2>2. /\ d \in {"Disconnected", "Reconnecting"} /\ d \in Statuses
        /\ shared.stopped \/ ~options.auto_reconnect => d = "Disconnected"
    BY <2>1, DropStatus
  <2>3. c \in set_status(a, d)
    BY <1>1, <1>3, <2>1 DEF DropConnection
  <2>4. /\ c \in Shareds /\ Final(c) /\ (c.status = d \/ c.status = "Disconnected")
        /\ \A t : Heard(a, t) => Heard(c, t)
    BY <1>2, <2>2, <2>3, SetStatusKeeps
  <2> QED BY <1>2, <2>2, <2>4
<1>4. CASE shared.ws # cur
  <2>1. c = a
    BY <1>1, <1>4 DEF DropConnection
  <2>2. shared.stopped /\ shared.status = "Disconnected"
    BY <1>4 DEF Status, Final
  <2> QED BY <1>2, <2>1, <2>2
<1> QED BY <1>3, <1>4

\* The engine gives the dial up: to end, or to try again.
LEMMA GiveUpKeepsStatus ==
  ASSUME Status, EngineEnds \/ EngineRetries,
         NEW c \in Shareds, shared' = c, Final(c), \A t : Heard(shared, t) => Heard(c, t),
         c.status # "Connected", engine' = "ended" => c.status = "Disconnected",
         NoFreedCallback', attached' \subseteq attached,
         opened' \in {"pending", "open", "failed"}, recv' \in {"begin", "waiting"},
         cur' = cur, UnchangedByDial
  PROVE  Status'
<1>1. /\ engine' \in {"ended", "backoff"}
      /\ call' \in {call, "failed"} /\ stream' \in {stream, "ended"}
  BY DEF EngineEnds, EngineRetries
<1>2. StatusTypes'
  BY <1>1 DEF Status, StatusTypes, UnchangedByDial
<1>3. ~ReplayReenters => Heard(shared', told')
  BY DEF Status, UnchangedByDial
<1> QED BY <1>1, <1>2, <1>3 DEF Status

LEMMA RefusedKeepsStatus ==
  ASSUME Status, connect_refused
  PROVE  Status'
<1>1. PICK c : c = shared'
  OBVIOUS
<1>2. shared \in Shareds /\ Final(shared)
  BY DEF Status, StatusTypes
<1>3. /\ c \in Shareds /\ Final(c) /\ c.status = "Disconnected"
      /\ \A t : Heard(shared, t) => Heard(c, t)
  <2>1. CASE shared.stopped /\ UNCHANGED shared
    BY <1>1, <1>2, <2>1 DEF Final
  <2>2. CASE shared' \in set_status(shared, "Disconnected")
    <3>1. "Disconnected" \in Statuses
      BY DEF Statuses
    <3> QED BY <1>1, <1>2, <2>2, <3>1, SetStatusKeeps
  <2> QED BY <2>1, <2>2 DEF connect_refused
<1>4. /\ EngineEnds /\ UnchangedByDial /\ UNCHANGED <<attached, cur, opened, recv>>
      /\ engine = "dial"
  BY DEF connect_refused, dialVars
<1>5. NoFreedCallback'
  BY <1>4 DEF Status, NoFreedCallback
<1>6. opened \in {"pending", "open", "failed"} /\ recv \in {"begin", "waiting"}
  BY DEF Status, StatusTypes
<1> QED BY <1>1, <1>3, <1>4, <1>5, <1>6, GiveUpKeepsStatus

\* A dial that is given up: its socket held the only callbacks.
LEMMA Detached ==
  ASSUME Status, Detach(cur), DialFreed
  PROVE  /\ NoFreedCallback' /\ attached' \subseteq attached
         /\ opened' \in {"pending", "open", "failed"} /\ recv' \in {"begin", "waiting"}
<1>1. attached \subseteq {cur}
  BY DEF Status, NoFreedCallback
<1>2. attached' = {}
  BY <1>1 DEF Detach
<1> QED BY <1>2 DEF NoFreedCallback, DialFreed

LEMMA FailedKeepsStatus ==
  ASSUME Status, handshake_failed
  PROVE  Status'
<1>1. PICK c : c = shared'
  OBVIOUS
<1>2. /\ c \in Shareds /\ Final(c) /\ c.status = shared.status
      /\ \A t : Heard(shared, t) => Heard(c, t)
  BY <1>1, AbandonedKeeps DEF handshake_failed
<1>3. /\ Detach(cur) /\ DialFreed /\ UnchangedByDial /\ cur' = cur
      /\ engine = "handshake" /\ opened = "failed"
      /\ IF shared.stopped THEN EngineEnds ELSE EngineRetries
  BY DEF handshake_failed
<1>4. engine' = "ended" => shared.status = "Disconnected"
  BY <1>3 DEF EngineRetries, Status, Final
<1>5. shared.status # "Connected"
  BY <1>3 DEF Status
<1> QED BY <1>1, <1>2, <1>3, <1>4, <1>5, Detached, GiveUpKeepsStatus

LEMMA EndsKeepStatus ==
  ASSUME Status, recv_eof \/ HandlesDropped
  PROVE  Status'
<1>1. /\ ConnectionEnds /\ engine = "serving"
      /\ EngineRetries \/ (EngineEnds /\ ~shared.handle)
  BY DEF recv_eof, HandlesDropped, Waiting
<1>2. PICK c : c = shared'
  OBVIOUS
<1>3. c \in DropConnection /\ Detach(cur) /\ DialFreed /\ UnchangedByDial /\ cur' = cur
  BY <1>1, <1>2 DEF ConnectionEnds
<1>4. /\ c \in Shareds /\ Final(c) /\ c.status \in {"Disconnected", "Reconnecting"}
      /\ shared.stopped \/ ~options.auto_reconnect => c.status = "Disconnected"
      /\ \A t : Heard(shared, t) => Heard(c, t)
  BY <1>1, <1>3, DropKeeps
<1>5. ~shared.handle => shared.stopped
  BY DEF Status, Final
<1>6. engine' = "ended" => c.status = "Disconnected"
  BY <1>1, <1>4, <1>5 DEF EngineRetries
<1> QED BY <1>1, <1>2, <1>3, <1>4, <1>6, Detached, GiveUpKeepsStatus

\* A late handshake of a bridge that was disconnected is not adopted.
LEMMA DoneKeepsStatus ==
  ASSUME Status, handshake_done
  PROVE  Status'
<1>1. PICK c : c = shared'
  OBVIOUS
<1>2. shared \in Shareds /\ Final(shared)
  BY DEF Status, StatusTypes
<1>3. engine = "handshake" /\ opened = "open" /\ UnchangedByDial /\ cur' = cur
  BY DEF handshake_done
<1>4. CASE ~shared.stopped
  <2>1. PICK b : b = [shared EXCEPT !.ever_connected = TRUE]
    OBVIOUS
  <2>2. /\ c \in set_status(b, "Connected") /\ engine' = "serving"
        /\ UNCHANGED <<attached, opened, recv, call, stream>>
    BY <1>1, <1>4, <2>1 DEF handshake_done, accept_dial, dialVars
  <2>3. /\ b \in Shareds /\ b.status = shared.status /\ b.stopped = shared.stopped
        /\ b.handle = shared.handle /\ b.tasks = shared.tasks
        /\ b.on_status = shared.on_status /\ b.ws = shared.ws
    BY <1>2, <2>1 DEF Shareds
  <2>4. Final(b) /\ "Connected" \in Statuses /\ \A t : Heard(shared, t) => Heard(b, t)
    BY <1>2, <2>3 DEF Final, Heard, Statuses
  <2>5. /\ c \in Shareds /\ Final(c) /\ (c.stopped \/ c.ws = b.ws)
        /\ \A t : Heard(b, t) => Heard(c, t)
    BY <1>4, <2>2, <2>3, <2>4, SetStatusKeeps
  <2>6. StatusTypes'
    BY <1>1, <1>3, <2>2, <2>5 DEF Status, StatusTypes, UnchangedByDial
  <2>7. NoFreedCallback'
    BY <1>3, <2>2 DEF Status, NoFreedCallback
  <2>8. ~ReplayReenters => Heard(c, told')
    BY <1>3, <2>4, <2>5 DEF Status, UnchangedByDial
  <2>9. c.ws = cur \/ c.stopped
    BY <1>3, <1>4, <2>3, <2>5 DEF Status
  <2> QED BY <1>1, <1>3, <2>2, <2>5, <2>6, <2>7, <2>8, <2>9 DEF Status
<1>5. CASE shared.stopped
  <2>1. shared' = Abandoned(shared) /\ Detach(cur) /\ DialFreed /\ EngineEnds
    BY <1>5 DEF handshake_done, accept_dial
  <2>2. /\ c \in Shareds /\ Final(c) /\ c.status = shared.status
        /\ \A t : Heard(shared, t) => Heard(c, t)
    BY <1>1, <2>1, AbandonedKeeps
  <2>3. c.status = "Disconnected"
    BY <1>2, <1>5, <2>2 DEF Final
  <2> QED BY <1>1, <1>3, <2>1, <2>2, <2>3, Detached, GiveUpKeepsStatus
<1> QED BY <1>4, <1>5

\* A dial: no callback of an earlier one is left.
LEMMA ConnectKeepsStatus ==
  ASSUME Status, connect
  PROVE  Status'
<1>1. PICK c : c = shared'
  OBVIOUS
<1>2. /\ shared \in Shareds /\ Final(shared) /\ cur \in Nat /\ MaxDials \in Nat
  BY BridgeAssumption DEF Status, StatusTypes
<1>3. /\ engine = "dial" /\ ~shared.stopped /\ cur < MaxDials /\ cur' = cur + 1
      /\ attached' = attached \cup {cur + 1} /\ DialFreed /\ engine' = "handshake"
      /\ UnchangedByDial /\ UNCHANGED <<stream, call>>
  BY DEF connect
<1>4. cur + 1 \in Sockets /\ cur' \in 0 .. MaxDials
  BY <1>2, <1>3 DEF Sockets
<1>5. PICK b : b = [shared EXCEPT !.sock[cur + 1] = "connecting", !.ws = cur + 1]
  OBVIOUS
<1>6. c \in IF b.ever_connected THEN set_status(b, "Reconnecting") ELSE {b}
  BY <1>1, <1>5 DEF connect
<1>7. PICK n : n = cur + 1
  OBVIOUS
<1>8. b = [shared EXCEPT !.sock[n] = "connecting", !.ws = n] /\ n \in Sockets
  BY <1>4, <1>5, <1>7
<1>9. /\ b \in Shareds /\ b.status = shared.status /\ b.stopped = shared.stopped
      /\ b.handle = shared.handle /\ b.tasks = shared.tasks
      /\ b.on_status = shared.on_status /\ b.ws = n
  BY <1>2, <1>8 DEF Shareds
<1>10. /\ Final(b) /\ "Reconnecting" \in Statuses
       /\ \A t : Heard(shared, t) => Heard(b, t)
  BY <1>2, <1>9 DEF Final, Heard, Statuses
<1>11. shared.status # "Connected"
  BY <1>3 DEF Status
<1>12. /\ c \in Shareds /\ Final(c) /\ (c.stopped \/ c.ws = n)
       /\ c.status # "Connected"
       /\ \A t : Heard(b, t) => Heard(c, t)
  <2>1. CASE c = b
    BY <1>9, <1>10, <1>11, <2>1
  <2>2. CASE c \in set_status(b, "Reconnecting")
    BY <1>3, <1>9, <1>10, <2>2, SetStatusKeeps
  <2> QED BY <1>6, <2>1, <2>2
<1>13. StatusTypes'
  BY <1>1, <1>3, <1>4, <1>12 DEF Status, StatusTypes, UnchangedByDial, DialFreed
<1>14. attached = {}
  BY <1>3 DEF Status, NoFreedCallback
<1>15. NoFreedCallback'
  BY <1>3, <1>14 DEF NoFreedCallback
<1>16. ~ReplayReenters => Heard(c, told')
  BY <1>3, <1>10, <1>12 DEF Status, UnchangedByDial
<1>17. c.ws = cur' \/ c.stopped
  BY <1>3, <1>7, <1>12
<1>18. opened' = "pending"
  BY <1>3 DEF DialFreed
<1> QED BY <1>1, <1>3, <1>12, <1>13, <1>15, <1>16, <1>17, <1>18 DEF Status

LEMMA NextKeepsStatus ==
  ASSUME Status, Next
  PROVE  Status'
<1>1. CASE disconnect \/ on_status_change \/ StatusCallback
  BY <1>1, PageKeepsStatus
<1>2. CASE \E s \in attached : onopen(s) \/ onclose(s)
  BY <1>2, BrowserKeepsStatus
<1>3. CASE connect_refused \/ connect \/ handshake_failed \/ handshake_done \/ Redial
  BY <1>3, RefusedKeepsStatus, ConnectKeepsStatus, FailedKeepsStatus, DoneKeepsStatus,
    RedialKeepsStatus
<1>4. CASE recv_eof \/ HandlesDropped
  BY <1>4, EndsKeepStatus
<1>5. CASE \/ call_as_promise \/ CallTimeout \/ recv_pending \/ Command \/ Pump
           \/ \E s \in attached, text \in Texts : onmessage(s, text)
           \/ \E item \in {"update", "gap", "rejected", "reply", "other"} : recv_frame(item)
  BY <1>5, OthersKeepStatus
<1> QED BY <1>1, <1>2, <1>3, <1>4, <1>5 DEF Next, Page, Browser, Engine

-----------------------------------------------------------------------------
(* The frame funnel.                                                       *)

LEMMA NewIsGapless == Gapless(NewFunnel)
<1>1. <<>> \in Seq([no : Nat, len : Nat]) /\ Len(<<>>) = 0
  BY NoElements
<1>2. NewFunnel \in Funnels
  BY <1>1 DEF NewFunnel, Funnels
<1>3. PICK total : total = [i \in 1 .. 1 |-> 0]
  OBVIOUS
<1>4. FrameQueueBytes \in Nat /\ FrameQueueCap \in Nat
  BY BridgeAssumption
<1>5. total \in Totals(<<>>) /\ total[1] = 0
  BY <1>1, <1>3, <1>4 DEF Totals
<1>6. \A i, j \in 1 .. Len(<<>>) + 1 : i <= j => total[j] <= total[i]
  BY <1>1, <1>3
<1> QED BY <1>1, <1>2, <1>4, <1>5, <1>6 DEF Gapless, NewFunnel

\* A closed funnel needs no number for the next frame.
LEMMA ClosedIsGapless ==
  ASSUME NEW f, Gapless(f), NEW g \in Funnels, g.closed,
         g.frames = f.frames, g.got = f.got, g.queued_bytes = f.queued_bytes
  PROVE  Gapless(g)
  BY DEF Gapless

LEMMA FunnelTypes ==
  ASSUME NEW f \in Funnels
  PROVE  /\ f.frames \in Seq([no : Nat, len : Nat]) /\ Len(f.frames) \in Nat
         /\ f.queued_bytes \in Nat /\ f.arrived \in Nat /\ f.got \in Nat
         /\ f.overflowed \in BOOLEAN /\ f.closed \in BOOLEAN
<1>1. f.frames \in Seq([no : Nat, len : Nat])
  BY DEF Funnels
<1>2. Len(f.frames) \in Nat
  BY <1>1, LenProperties
<1> QED BY <1>1, <1>2 DEF Funnels

\* A frame of n bytes is appended within both limits.
LEMMA AppendIsGapless ==
  ASSUME NEW f, Gapless(f), ~f.closed, NEW n \in Nat,
         f.queued_bytes + n <= FrameQueueBytes, Len(f.frames) <= FrameQueueCap,
         NEW g \in Funnels,
         g.frames = Append(f.frames, [no |-> f.arrived + 1, len |-> n]),
         g.queued_bytes = f.queued_bytes + n, g.arrived = f.arrived + 1, g.got = f.got
  PROVE  Gapless(g)
<1> DEFINE x == [no |-> f.arrived + 1, len |-> n]
<1>1. /\ f \in Funnels /\ f.frames \in Seq([no : Nat, len : Nat])
      /\ Len(f.frames) \in Nat /\ f.queued_bytes \in Nat /\ f.arrived \in Nat
      /\ f.got \in Nat
  BY FunnelTypes DEF Gapless
<1>2. x \in [no : Nat, len : Nat] /\ x.no = f.arrived + 1 /\ x.len = n
  BY <1>1
<1> HIDE DEF x
<1>3. g.frames = Append(f.frames, x)
  BY DEF x
<1>4. PICK s : s = f.frames
  OBVIOUS
<1>5. PICK t : t = g.frames
  OBVIOUS
<1>6. /\ Len(s) \in Nat /\ Len(t) = Len(s) + 1 /\ t[Len(s) + 1] = x
      /\ \A i \in 1 .. Len(s) : t[i] = s[i]
  BY <1>1, <1>2, <1>3, <1>4, <1>5, Appended
<1>7. FrameQueueBytes \in Nat /\ FrameQueueCap \in Nat
  BY BridgeAssumption
<1>8. f.arrived = f.got + Len(s)
  BY <1>4 DEF Gapless
<1>9. \A i \in 1 .. Len(t) : t[i].no = g.got + i
  <2>1. \A i \in 1 .. Len(s) : s[i].no = f.got + i
    BY <1>4 DEF Gapless
  <2>2. \A i \in 1 .. Len(t) : i \in 1 .. Len(s) \/ i = Len(s) + 1
    BY <1>6
  <2>3. x.no = f.got + (Len(s) + 1)
    <3>1. PICK q \in Nat : q = f.got
      BY <1>1
    <3>2. (q + Len(s)) + 1 = q + (Len(s) + 1)
      BY <1>6
    <3> QED BY <1>2, <1>8, <3>1, <3>2
  <2> QED BY <1>6, <2>1, <2>2, <2>3
<1>10. PICK total \in Totals(s) :
         /\ total[1] = f.queued_bytes
         /\ \A i, j \in 1 .. Len(s) + 1 : i <= j => total[j] <= total[i]
  BY <1>4 DEF Gapless
<1>11. /\ total \in [1 .. Len(s) + 1 -> 0 .. FrameQueueBytes]
       /\ total[Len(s) + 1] = 0
       /\ \A i \in 1 .. Len(s) : total[i] = s[i].len + total[i + 1]
  BY DEF Totals
<1>12. \A i \in 1 .. Len(s) + 1 : total[i] \in Nat /\ total[i] <= f.queued_bytes
  <2> SUFFICES ASSUME NEW i \in 1 .. Len(s) + 1
               PROVE  total[i] \in Nat /\ total[i] <= f.queued_bytes
    OBVIOUS
  <2>1. total[i] \in 0 .. FrameQueueBytes
    BY <1>11
  <2>2. 1 \in 1 .. Len(s) + 1 /\ 1 <= i
    BY <1>6
  <2>3. total[i] <= total[1]
    BY <1>10, <2>2
  <2> QED BY <1>7, <1>10, <2>1, <2>3
<1> DEFINE more == [i \in 1 .. Len(t) + 1 |-> IF i = Len(t) + 1 THEN 0 ELSE total[i] + n]
<1>13. \A i \in 1 .. Len(t) : i \in 1 .. Len(s) + 1 /\ more[i] = total[i] + n
  BY <1>6
<1>14. Len(t) + 1 \in 1 .. Len(t) + 1 /\ more[Len(t) + 1] = 0
  BY <1>6
<1>15. more \in [1 .. Len(t) + 1 -> 0 .. FrameQueueBytes]
  <2>1. \A i \in 1 .. Len(t) + 1 :
          (IF i = Len(t) + 1 THEN 0 ELSE total[i] + n) \in 0 .. FrameQueueBytes
    <3> SUFFICES ASSUME NEW i \in 1 .. Len(t) + 1, i # Len(t) + 1
                 PROVE  total[i] + n \in 0 .. FrameQueueBytes
      BY <1>7
    <3>1. i \in 1 .. Len(s) + 1
      BY <1>6
    <3>2. PICK k : k = total[i]
      OBVIOUS
    <3>3. k \in Nat /\ k <= f.queued_bytes
      BY <1>12, <3>1, <3>2
    <3>4. k + n \in 0 .. FrameQueueBytes
      BY <1>1, <1>7, <3>3
    <3> QED BY <3>2, <3>4
  <2> QED BY <2>1
<1> HIDE DEF more
<1>16. \A i \in 1 .. Len(t) : more[i] = t[i].len + more[i + 1]
  <2> SUFFICES ASSUME NEW i \in 1 .. Len(t)
               PROVE  more[i] = t[i].len + more[i + 1]
    OBVIOUS
  <2>1. CASE i = Len(t)
    BY <1>2, <1>6, <1>11, <1>13, <1>14, <2>1
  <2>2. CASE i # Len(t)
    <3>1. i \in 1 .. Len(s) /\ i + 1 \in 1 .. Len(t)
      BY <1>6, <2>2
    <3>2. PICK k \in Nat : k = total[i + 1]
      BY <1>6, <1>12, <3>1
    <3>3. PICK m : m = s[i].len
      OBVIOUS
    <3>4. m \in Nat
      <4>1. s[i] \in [no : Nat, len : Nat]
        BY <1>1, <1>4, <3>1, ElementOfSeq
      <4> QED BY <3>3, <4>1
    <3>5. more[i] = (m + k) + n /\ more[i + 1] = k + n /\ t[i].len = m
      BY <1>6, <1>11, <1>13, <3>1, <3>2, <3>3
    <3> QED BY <3>2, <3>4, <3>5
  <2> QED BY <2>1, <2>2
<1>17. more \in Totals(t)
  BY <1>14, <1>15, <1>16 DEF Totals
<1>18. more[1] = g.queued_bytes
  BY <1>6, <1>10, <1>13
<1>19. \A i, j \in 1 .. Len(t) + 1 : i <= j => more[j] <= more[i]
  <2> SUFFICES ASSUME NEW i \in 1 .. Len(t) + 1, NEW j \in 1 .. Len(t) + 1, i <= j
               PROVE  more[j] <= more[i]
    OBVIOUS
  <2>1. CASE j = Len(t) + 1
    <3>1. more[i] \in 0 .. FrameQueueBytes
      BY <1>15
    <3> QED BY <1>7, <1>14, <2>1, <3>1
  <2>2. CASE j # Len(t) + 1
    <3>1. i \in 1 .. Len(t) /\ j \in 1 .. Len(t)
      BY <1>6, <2>2
    <3>2. total[j] <= total[i] /\ total[i] \in Nat /\ total[j] \in Nat
      BY <1>10, <1>12, <1>13, <3>1
    <3> QED BY <1>13, <3>1, <3>2
  <2> QED BY <2>1, <2>2
<1>20. Len(t) <= FrameQueueCap + 1 /\ g.arrived = g.got + Len(t)
  BY <1>1, <1>4, <1>6, <1>7, <1>8
<1> QED BY <1>5, <1>9, <1>17, <1>18, <1>19, <1>20 DEF Gapless

\* onmessage: a text is queued whole, or closes the funnel.
LEMMA TextIsGapless ==
  ASSUME NEW f, Gapless(f), NEW text \in Texts
  PROVE  Gapless(funnel_text([f EXCEPT !.arrived = @ + 1], text))
<1>1. /\ f \in Funnels /\ f.frames \in Seq([no : Nat, len : Nat])
      /\ Len(f.frames) \in Nat /\ f.queued_bytes \in Nat /\ f.arrived \in Nat
      /\ f.got \in Nat
  BY FunnelTypes DEF Gapless
<1>2. PICK h : h = [f EXCEPT !.arrived = f.arrived + 1]
  OBVIOUS
<1>3. PICK a \in Nat : a = f.arrived + 1
  BY <1>1
<1>4. h = [f EXCEPT !.arrived = a]
  BY <1>2, <1>3
<1>5. /\ h \in Funnels /\ h.frames = f.frames /\ h.queued_bytes = f.queued_bytes
      /\ h.got = f.got /\ h.closed = f.closed /\ h.arrived = a
  BY <1>1, <1>4 DEF Funnels
<1>6. PICK g : g = funnel_text(h, text)
  OBVIOUS
<1>7. text.bytes \in Nat
  BY BridgeAssumption DEF Texts
<1>8. CASE f.closed
  <2>1. g = h
    BY <1>5, <1>6, <1>8 DEF funnel_text
  <2> QED BY <1>2, <1>5, <1>6, <1>8, <2>1, ClosedIsGapless
<1>9. CASE g = overflow(h)
  <2>1. /\ g \in Funnels /\ g.closed /\ g.frames = h.frames /\ g.got = h.got
        /\ g.queued_bytes = h.queued_bytes
    BY <1>5, <1>9 DEF overflow, Funnels
  <2> QED BY <1>2, <1>5, <1>6, <2>1, ClosedIsGapless
<1>10. CASE ~f.closed /\ g # overflow(h)
  <2>1. PICK n \in Nat : n = text.bytes
    BY <1>7
  <2>2. /\ ~(h.queued_bytes + n > FrameQueueBytes) /\ ~(Len(h.frames) > FrameQueueCap)
        /\ g = [h EXCEPT !.frames = Append(@, [no |-> h.arrived, len |-> n]),
                         !.queued_bytes = @ + n]
    BY <1>5, <1>6, <1>10, <2>1 DEF funnel_text, funnel_frame
  <2>3. f.queued_bytes + n <= FrameQueueBytes /\ Len(f.frames) <= FrameQueueCap
    BY <1>1, <1>5, <2>2, BridgeAssumption
  <2>4. [no |-> a, len |-> n] \in [no : Nat, len : Nat]
    OBVIOUS
  <2>5. PICK t : t = Append(f.frames, [no |-> a, len |-> n])
    OBVIOUS
  <2>6. t \in Seq([no : Nat, len : Nat])
    BY <1>1, <2>4, <2>5, Appended
  <2>7. PICK q \in Nat : q = f.queued_bytes + n
    BY <1>1
  <2>8. g = [h EXCEPT !.frames = t, !.queued_bytes = q]
    BY <1>5, <2>2, <2>5, <2>7
  <2>9. /\ g \in Funnels /\ g.frames = t /\ g.queued_bytes = q /\ g.arrived = a
        /\ g.got = f.got
    BY <1>5, <2>6, <2>8 DEF Funnels
  <2>10. g.frames = Append(f.frames, [no |-> f.arrived + 1, len |-> n])
    BY <1>3, <2>5, <2>9
  <2>11. Gapless(g)
    BY <1>3, <1>10, <2>3, <2>7, <2>9, <2>10, AppendIsGapless
  <2> QED BY <1>2, <1>6, <2>11
<1> QED BY <1>8, <1>9, <1>10

\* recv takes the first frame.
LEMMA TakeIsGapless ==
  ASSUME NEW f, Gapless(f), f.frames # <<>>
  PROVE  Gapless(TakeFrame(f))
<1>1. /\ f \in Funnels /\ f.frames \in Seq([no : Nat, len : Nat])
      /\ f.queued_bytes \in Nat /\ f.arrived \in Nat /\ f.got \in Nat
  BY FunnelTypes DEF Gapless
<1>2. PICK s : s = f.frames
  OBVIOUS
<1>3. PICK t : t = Tail(s)
  OBVIOUS
<1>4. /\ t \in Seq([no : Nat, len : Nat]) /\ Len(s) \in Nat \ {0} /\ Len(t) = Len(s) - 1
      /\ Head(s) = s[1] /\ s[1] \in [no : Nat, len : Nat]
      /\ \A i \in 1 .. Len(t) : t[i] = s[i + 1]
  BY <1>1, <1>2, <1>3, HeadAndTail
<1>5. FrameQueueBytes \in Nat /\ FrameQueueCap \in Nat
  BY BridgeAssumption
<1>6. PICK total \in Totals(s) :
         /\ total[1] = f.queued_bytes
         /\ \A i, j \in 1 .. Len(s) + 1 : i <= j => total[j] <= total[i]
  BY <1>2 DEF Gapless
<1>7. /\ total \in [1 .. Len(s) + 1 -> 0 .. FrameQueueBytes]
       /\ total[Len(s) + 1] = 0
       /\ \A i \in 1 .. Len(s) : total[i] = s[i].len + total[i + 1]
  BY DEF Totals
<1>8. 1 \in 1 .. Len(s) /\ 2 \in 1 .. Len(s) + 1
  BY <1>4
<1>9. PICK k : k = total[2]
  OBVIOUS
<1>10. PICK m \in Nat : m = s[1].len
  BY <1>4
<1>11. k \in 0 .. FrameQueueBytes /\ f.queued_bytes = m + k
  BY <1>6, <1>7, <1>8, <1>9, <1>10
<1>12. k \in Nat /\ k <= FrameQueueBytes /\ f.queued_bytes - m = k
  BY <1>1, <1>5, <1>11
<1>13. PICK p \in Nat : p = f.got + 1
  BY <1>1
<1>14. PICK g : g = TakeFrame(f)
  OBVIOUS
<1>15. g = [f EXCEPT !.frames = t, !.queued_bytes = k, !.got = p]
  BY <1>1, <1>2, <1>3, <1>4, <1>10, <1>12, <1>13, <1>14 DEF TakeFrame, Funnels
<1>16. /\ g \in Funnels /\ g.frames = t /\ g.queued_bytes = k /\ g.got = p
       /\ g.closed = f.closed /\ g.arrived = f.arrived
  BY <1>1, <1>4, <1>12, <1>15 DEF Funnels
<1>17. Len(t) <= FrameQueueCap + 1
  <2>1. Len(s) <= FrameQueueCap + 1
    BY <1>2 DEF Gapless
  <2> QED BY <1>4, <1>5, <2>1
<1>18. \A i \in 1 .. Len(t) : i + 1 \in 1 .. Len(s)
  BY <1>4
<1>19. \A i \in 1 .. Len(t) : t[i].no = p + i
  <2>1. \A i \in 1 .. Len(s) : s[i].no = f.got + i
    BY <1>2 DEF Gapless
  <2>2. \A i \in 1 .. Len(t) : t[i].no = f.got + (i + 1)
    BY <1>4, <1>18, <2>1
  <2>3. \A i \in 1 .. Len(t) : f.got + (i + 1) = p + i
    <3>1. PICK q \in Nat : q = f.got
      BY <1>1
    <3>2. \A i \in 1 .. Len(t) : q + (i + 1) = (q + 1) + i
      BY <1>4
    <3> QED BY <1>13, <3>1, <3>2
  <2> QED BY <2>2, <2>3
<1>20. ~g.closed => g.arrived = p + Len(t)
  <2>1. ~f.closed => f.arrived = f.got + Len(s)
    BY <1>2 DEF Gapless
  <2> QED BY <1>1, <1>4, <1>13, <1>16, <2>1
<1> DEFINE less == [i \in 1 .. Len(t) + 1 |-> total[i + 1]]
<1>21. \A i \in 1 .. Len(t) + 1 : i + 1 \in 1 .. Len(s) + 1 /\ less[i] = total[i + 1]
  BY <1>4
<1>22. less \in [1 .. Len(t) + 1 -> 0 .. FrameQueueBytes]
  BY <1>7, <1>21
<1>23. 1 \in 1 .. Len(t) + 1 /\ Len(t) + 1 \in 1 .. Len(t) + 1
       /\ (Len(t) + 1) + 1 = Len(s) + 1
  BY <1>4
<1> HIDE DEF less
<1>24. less[1] = k /\ less[Len(t) + 1] = 0
  BY <1>7, <1>9, <1>21, <1>23
<1>25. \A i \in 1 .. Len(t) : less[i] = t[i].len + less[i + 1]
  <2> SUFFICES ASSUME NEW i \in 1 .. Len(t)
               PROVE  less[i] = t[i].len + less[i + 1]
    OBVIOUS
  <2>1. PICK j \in 1 .. Len(s) : j = i + 1
    BY <1>18
  <2>2. i \in 1 .. Len(t) + 1 /\ j \in 1 .. Len(t) + 1
    BY <1>4, <2>1
  <2>3. less[i] = total[j] /\ less[j] = total[j + 1] /\ t[i] = s[j]
    BY <1>4, <1>21, <2>1, <2>2
  <2> QED BY <1>7, <2>1, <2>3
<1>26. less \in Totals(t)
  BY <1>22, <1>24, <1>25 DEF Totals
<1>27. \A i, j \in 1 .. Len(t) + 1 : i <= j => less[j] <= less[i]
  <2> SUFFICES ASSUME NEW i \in 1 .. Len(t) + 1, NEW j \in 1 .. Len(t) + 1, i <= j
               PROVE  less[j] <= less[i]
    OBVIOUS
  <2>1. i + 1 <= j + 1
    BY <1>4
  <2> QED BY <1>6, <1>21, <2>1
<1>28. Gapless(g)
  BY <1>12, <1>16, <1>17, <1>19, <1>20, <1>24, <1>26, <1>27 DEF Gapless
<1> QED BY <1>14, <1>28

LEMMA NextKeepsFrames ==
  ASSUME Frames, Next
  PROVE  Frames'
<1>1. CASE funnel' = funnel
  BY <1>1 DEF Frames
<1>2. CASE DialFreed
  BY <1>2, NewIsGapless DEF Frames, DialFreed
<1>3. CASE \E s \in attached, text \in Texts : onmessage(s, text)
  BY <1>3, TextIsGapless DEF Frames, onmessage
<1>4. CASE \E s \in attached : onclose(s)
  <2>1. funnel' = [funnel EXCEPT !.closed = TRUE]
    BY <1>4 DEF onclose
  <2>2. PICK g : g = [funnel EXCEPT !.closed = TRUE]
    OBVIOUS
  <2>3. funnel \in Funnels
    BY DEF Frames, Gapless
  <2>4. /\ g \in Funnels /\ g.closed /\ g.frames = funnel.frames /\ g.got = funnel.got
        /\ g.queued_bytes = funnel.queued_bytes
    BY <2>2, <2>3 DEF Funnels
  <2>5. Gapless(g)
    BY <2>4, ClosedIsGapless DEF Frames
  <2> QED BY <2>1, <2>2, <2>5 DEF Frames
<1>5. CASE \E item \in {"update", "gap", "rejected", "reply", "other"} : recv_frame(item)
  BY <1>5, TakeIsGapless DEF Frames, recv_frame
<1>6. CASE \/ disconnect \/ on_status_change \/ StatusCallback \/ call_as_promise
           \/ CallTimeout \/ Pump \/ connect_refused \/ Redial \/ recv_pending \/ Command
           \/ \E s \in attached : onopen(s)
  <2>1. funnel' = funnel
    BY <1>6 DEF disconnect, on_status_change, StatusCallback, call_as_promise, CallTimeout,
      Pump, PumpSubscribe, PumpItem, PumpEnd, PumpWake, PumpUnchanged, connect_refused,
      Redial, recv_pending, Command, onopen, dialVars
  <2> QED BY <1>1, <2>1
<1>7. CASE connect \/ handshake_failed \/ recv_eof \/ HandlesDropped
  BY <1>2, <1>7 DEF connect, handshake_failed, recv_eof, HandlesDropped, ConnectionEnds
<1>8. CASE handshake_done
  <2>1. DialFreed \/ funnel' = funnel
    BY <1>8 DEF handshake_done, dialVars
  <2> QED BY <1>1, <1>2, <2>1
<1> QED BY <1>3, <1>4, <1>5, <1>6, <1>7, <1>8 DEF Next, Page, Browser, Engine

-----------------------------------------------------------------------------
(* The counters.                                                           *)

Items == {"update", "gap", "rejected"}

LEMMA GapsFinite ==
  ASSUME NEW s \in Seq(Items)
  PROVE  /\ IsFiniteSet(GapsIn(s)) /\ Cardinality(GapsIn(s)) \in Nat /\ Len(s) \in Nat
<1>1. Len(s) \in Nat
  BY LenProperties
<1>2. IsFiniteSet(1 .. Len(s))
  BY <1>1, FS_Interval
<1>3. GapsIn(s) \subseteq 1 .. Len(s)
  BY DEF GapsIn
<1>4. IsFiniteSet(GapsIn(s))
  BY <1>2, <1>3, FS_Subset
<1> QED BY <1>1, <1>4, FS_CardinalityType

\* A gap more at the end.
LEMMA GapsAppended ==
  ASSUME NEW s \in Seq(Items), NEW x \in Items
  PROVE  Cardinality(GapsIn(Append(s, x)))
           = Cardinality(GapsIn(s)) + (IF x = "gap" THEN 1 ELSE 0)
<1>1. PICK t : t = Append(s, x)
  OBVIOUS
<1>2. /\ Len(s) \in Nat /\ Len(t) = Len(s) + 1 /\ t[Len(s) + 1] = x
      /\ \A i \in 1 .. Len(s) : t[i] = s[i]
  BY <1>1, Appended
<1>3. \A i : i \in 1 .. Len(t) <=> i \in 1 .. Len(s) \/ i = Len(s) + 1
  BY <1>2
<1>4. IsFiniteSet(GapsIn(s)) /\ Cardinality(GapsIn(s)) \in Nat
  BY GapsFinite
<1>5. CASE x = "gap"
  <2>1. GapsIn(t) = GapsIn(s) \cup {Len(s) + 1}
    BY <1>2, <1>3, <1>5 DEF GapsIn
  <2>2. Len(s) + 1 \notin GapsIn(s)
    BY <1>2 DEF GapsIn
  <2>3. Cardinality(GapsIn(t)) = Cardinality(GapsIn(s)) + 1
    BY <1>4, <2>1, <2>2, FS_AddElement
  <2> QED BY <1>1, <1>5, <2>3
<1>6. CASE x # "gap"
  <2>1. GapsIn(t) = GapsIn(s)
    BY <1>2, <1>3, <1>6 DEF GapsIn
  <2> QED BY <1>1, <1>4, <1>6, <2>1
<1> QED BY <1>5, <1>6

\* Without the first item.
LEMMA GapsTail ==
  ASSUME NEW s \in Seq(Items), s # <<>>
  PROVE  Cardinality(GapsIn(s))
           = Cardinality(GapsIn(Tail(s))) + (IF Head(s) = "gap" THEN 1 ELSE 0)
<1>1. PICK t : t = Tail(s)
  OBVIOUS
<1>2. /\ t \in Seq(Items) /\ Len(s) \in Nat \ {0} /\ Len(t) = Len(s) - 1
      /\ Head(s) = s[1] /\ \A i \in 1 .. Len(t) : t[i] = s[i + 1]
  BY <1>1, HeadAndTail
<1>3. /\ IsFiniteSet(GapsIn(s)) /\ Cardinality(GapsIn(s)) \in Nat
      /\ IsFiniteSet(GapsIn(t)) /\ Cardinality(GapsIn(t)) \in Nat
  BY <1>2, GapsFinite
<1> DEFINE behind == GapsIn(s) \ {1}
           shift == [i \in GapsIn(t) |-> i + 1]
<1>4. \A i \in GapsIn(t) : i \in Nat /\ i + 1 \in behind
  BY <1>2 DEF GapsIn
<1>5. shift \in [GapsIn(t) -> behind]
  BY <1>4
<1>6. \A i, j \in GapsIn(t) : shift[i] = shift[j] => i = j
  BY <1>4
<1>7. \A k \in behind : \E i \in GapsIn(t) : shift[i] = k
  <2> SUFFICES ASSUME NEW k \in behind
               PROVE  \E i \in GapsIn(t) : shift[i] = k
    OBVIOUS
  <2>1. k \in 1 .. Len(s) /\ k # 1 /\ s[k] = "gap"
    BY DEF GapsIn
  <2>2. k - 1 \in 1 .. Len(t) /\ (k - 1) + 1 = k
    BY <1>2, <2>1
  <2>3. k - 1 \in GapsIn(t)
    BY <1>2, <2>1, <2>2 DEF GapsIn
  <2> QED BY <2>2, <2>3
<1> HIDE DEF shift
<1>8. shift \in Bijection(GapsIn(t), behind)
  BY <1>5, <1>6, <1>7, Fun_IsBij
<1>9. Cardinality(behind) = Cardinality(GapsIn(t))
  BY <1>3, <1>8, FS_Bijection DEF ExistsBijection
<1>10. CASE Head(s) = "gap"
  <2>1. 1 \in GapsIn(s)
    BY <1>2, <1>10 DEF GapsIn
  <2>2. Cardinality(behind) = Cardinality(GapsIn(s)) - 1
    BY <1>3, <2>1, FS_RemoveElement
  <2> QED BY <1>1, <1>3, <1>9, <1>10, <2>2
<1>11. CASE Head(s) # "gap"
  <2>1. behind = GapsIn(s)
    BY <1>2, <1>11 DEF GapsIn
  <2>2. Cardinality(GapsIn(s)) = Cardinality(GapsIn(t))
    BY <1>9, <2>1
  <2>3. Cardinality(GapsIn(s)) = Cardinality(GapsIn(t)) + 0
    BY <1>3, <2>2
  <2> QED BY <1>1, <1>11, <2>3
<1> QED BY <1>10, <1>11

LEMMA NextKeepsCounted ==
  ASSUME Counted, Next
  PROVE  Counted'
<1>1. /\ sink \in Seq(Items) /\ dropped \in Nat /\ gaps \in Nat
      /\ dropped + Cardinality(GapsIn(sink)) = gaps
      /\ Cardinality(GapsIn(sink)) \in Nat
  BY GapsFinite DEF Counted, Items
<1>2. CASE UNCHANGED <<sink, dropped, gaps>>
  BY <1>2 DEF Counted, GapsIn
<1>3. CASE \E item \in {"update", "gap", "rejected", "reply", "other"} : recv_frame(item)
  <2>1. PICK item \in {"update", "gap", "rejected", "reply", "other"} : recv_frame(item)
    BY <1>3
  <2>2. Deliver(item) /\ dropped' = dropped
    BY <2>1 DEF recv_frame
  <2>3. CASE UNCHANGED <<sink, gaps>>
    BY <1>2, <2>2, <2>3
  <2>4. CASE ~UNCHANGED <<sink, gaps>>
    <3>1. /\ item \in Items /\ sink' = Append(sink, item)
          /\ gaps' = gaps + (IF item = "gap" THEN 1 ELSE 0)
      <4>1. CASE item \in {"update", "gap"} /\ stream = "active"
        BY <2>2, <4>1 DEF Deliver, Items
      <4>2. CASE item = "rejected" /\ stream = "active"
        BY <1>1, <2>2, <4>2 DEF Deliver, Items
      <4>3. CASE ~(item \in {"update", "gap"} /\ stream = "active")
                 /\ ~(item = "rejected" /\ stream = "active")
        BY <2>2, <2>4, <4>3 DEF Deliver
      <4> QED BY <4>1, <4>2, <4>3
    <3>2. PICK t : t = Append(sink, item)
      OBVIOUS
    <3>3. /\ t \in Seq(Items)
          /\ Cardinality(GapsIn(t))
               = Cardinality(GapsIn(sink)) + (IF item = "gap" THEN 1 ELSE 0)
      BY <1>1, <3>1, <3>2, Appended, GapsAppended
    <3>4. dropped + Cardinality(GapsIn(t)) = gaps' /\ gaps' \in Nat
      BY <1>1, <3>1, <3>3
    <3>5. GapsIn(sink)' = GapsIn(t) /\ sink' = t
      BY <3>1, <3>2 DEF GapsIn
    <3> QED BY <1>1, <2>2, <3>3, <3>4, <3>5 DEF Counted, Items
  <2> QED BY <2>3, <2>4
<1>4. CASE PumpItem
  <2>1. /\ sink # <<>> /\ sink' = Tail(sink) /\ gaps' = gaps
        /\ dropped' = IF Head(sink) = "gap" THEN dropped + 1 ELSE dropped
    BY <1>4 DEF PumpItem, report_gap
  <2>2. PICK t : t = Tail(sink)
    OBVIOUS
  <2>3. /\ t \in Seq(Items)
        /\ Cardinality(GapsIn(sink))
             = Cardinality(GapsIn(t)) + (IF Head(sink) = "gap" THEN 1 ELSE 0)
    BY <1>1, <2>1, <2>2, HeadAndTail, GapsTail
  <2>4. Cardinality(GapsIn(t)) \in Nat
    BY <2>3, GapsFinite
  <2>5. dropped' + Cardinality(GapsIn(t)) = gaps /\ dropped' \in Nat
    BY <1>1, <2>1, <2>3, <2>4
  <2>6. GapsIn(sink)' = GapsIn(t) /\ sink' = t
    BY <2>1, <2>2 DEF GapsIn
  <2> QED BY <1>1, <2>1, <2>3, <2>5, <2>6 DEF Counted, Items
<1>5. CASE \/ Page \/ Browser \/ StatusCallback \/ CallTimeout
           \/ PumpSubscribe \/ PumpEnd \/ PumpWake
           \/ connect_refused \/ connect \/ handshake_failed \/ handshake_done \/ Redial
           \/ recv_eof \/ recv_pending \/ Command \/ HandlesDropped
  <2>1. UNCHANGED <<sink, dropped, gaps>>
    BY <1>5 DEF Page, disconnect, on_status_change, call_as_promise, Browser, onopen,
      onclose, onmessage, BrowserUnchanged, StatusCallback, CallTimeout, PumpSubscribe,
      PumpEnd, PumpWake, connect_refused, connect, handshake_failed, handshake_done,
      Redial, recv_eof, recv_pending, Command, HandlesDropped, ConnectionEnds,
      UnchangedByDial, pumpVars
  <2> QED BY <1>2, <2>1
<1> QED BY <1>3, <1>4, <1>5 DEF Next, Engine, Pump

-----------------------------------------------------------------------------
(* The theorems.                                                           *)

LEMMA InitInv ==
  ASSUME Init
  PROVE  IInv
<1> USE DEF Init
<1>1. <<>> \in Seq(Statuses) /\ Len(<<>>) = 0
  BY NoElements
<1>2. shared \in Shareds
  BY <1>1 DEF Shareds, Statuses, Sockets, NoSocket
<1>3. StatusTypes
  BY <1>2, BridgeAssumption DEF StatusTypes
<1>4. Status
  BY <1>3 DEF Status, NoFreedCallback, Final, Heard
<1>5. Frames
  BY NewIsGapless DEF Frames
<1>6. GapsIn(sink) = {}
  BY <1>1 DEF GapsIn
<1>7. Cardinality(GapsIn(sink)) = 0
  BY <1>6, FS_EmptySet
<1>8. Counted
  BY <1>7, NoElements DEF Counted
<1> QED BY <1>4, <1>5, <1>8 DEF IInv

LEMMA StepInv ==
  ASSUME IInv, [Next]_vars
  PROVE  IInv'
<1>1. CASE UNCHANGED vars
  <2>1. UNCHANGED <<statusVars, recv, stream, pump, call, funnel, sink, dropped, gaps>>
    BY <1>1 DEF vars, dialVars, pumpVars, statusVars
  <2>2. Status'
    BY <2>1, StatusUntouched DEF IInv, Status, StatusTypes, SmallTypes
  <2>3. Frames' /\ Counted'
    BY <2>1 DEF IInv, Frames, Counted, GapsIn
  <2> QED BY <2>2, <2>3 DEF IInv
<1>2. CASE Next
  BY <1>2, NextKeepsStatus, NextKeepsFrames, NextKeepsCounted DEF IInv
<1> QED BY <1>1, <1>2

\* The inductive invariant of the bridge.
THEOREM Invariant == Spec => []IInv
<1>1. Init => IInv
  BY InitInv
<1>2. IInv /\ [Next]_vars => IInv'
  BY StepInv
<1> QED BY <1>1, <1>2, PTL DEF Spec

\* Unless the callback disconnects while the status is replayed to it
\* (on_status_change): disconnect() is final, the status reported is the engine's,
\* the callback has heard it, and no skipped update is forgotten (set_status,
\* accept_dial, Drop of the connection, report_gap).
THEOREM PageIsToldTheTruth ==
  ASSUME ReplayReenters = FALSE
  PROVE  Spec => []StatusIsTrue
<1>1. IInv => StatusIsTrue
  <2> SUFFICES ASSUME IInv
               PROVE  StatusIsTrue
    OBVIOUS
  <2>1. TypeOK
    BY DEF IInv, Status, StatusTypes, Frames, Gapless, Counted, TypeOK
  <2>2. shared.on_status /\ shared.tasks = <<>> => told = shared.status
    BY DEF IInv, Status, Heard
  <2>3. /\ shared.stopped => shared.status = "Disconnected"
        /\ shared.status = "Connected" => engine = "serving"
        /\ engine = "ended" => shared.status = "Disconnected"
    BY DEF IInv, Status, Final
  <2>4. dropped + Cardinality({i \in 1 .. Len(sink) : sink[i] = "gap"}) = gaps
    BY DEF IInv, Counted, GapsIn
  <2> QED BY <2>1, <2>2, <2>3, <2>4 DEF StatusIsTrue
<1> QED BY <1>1, Invariant, PTL

\* shutdown_socket detaches the callbacks before their closures are freed, on
\* every path that ends a dial or a connection.
THEOREM CallbacksOfTheLiving == Spec => []NoFreedCallback
<1>1. IInv => NoFreedCallback
  BY DEF IInv, Status
<1> QED BY <1>1, Invariant, PTL

\* funnel_text, funnel_frame and recv: the frames are consecutive, both limits
\* hold, and queued_bytes is their length.
THEOREM FramesWithoutHole == Spec => []NoHole
<1>1. IInv => NoHole
  BY DEF IInv, Frames, Gapless, NoHole
<1> QED BY <1>1, Invariant, PTL
=============================================================================
