------------------------------ MODULE WsBridge ------------------------------
(***************************************************************************)
(* The browser's bridge to a server: aimdb-wasm-adapter/src/ws_bridge.rs.  *)
(* A WebSocket whose events arrive as JavaScript callbacks is adapted to   *)
(* the session client engine, which dials, receives and redials; a pump    *)
(* mirrors one subscription; the page may disconnect at any time.          *)
(*                                                                         *)
(* Everything runs on one thread, so a callback or a poll is one step.     *)
(* One thing cuts into a step: set_status dispatches a DOM event whose     *)
(* listeners run at once, and a listener may call disconnect().            *)
(***************************************************************************)
EXTENDS Integers, FiniteSets, Sequences

CONSTANTS
  FrameQueueCap,   \* FRAME_QUEUE_CAP
  MaxFrameBytes,   \* MAX_FRAME_BYTES
  FrameQueueBytes, \* FRAME_QUEUE_BYTES
  ReplayReenters,  \* the status callback may disconnect while it is replayed to
  MaxDials,        \* bound: sockets made
  MaxFrames        \* bound: text frames that arrive on the last socket

ASSUME BridgeAssumption ==
  /\ {MaxFrameBytes, FrameQueueBytes, MaxDials, MaxFrames} \subseteq Nat \ {0}
  /\ MaxFrameBytes <= FrameQueueBytes
  /\ FrameQueueCap \in Nat
  /\ ReplayReenters \in BOOLEAN

VARIABLES
  options,   \* BridgeOptions::auto_reconnect, and whether the URL is accepted
  shared,    \* BridgeShared, the bridge's handle, the browser's sockets and the
             \* microtasks that will call the status callback
  attached,  \* sockets that hold the callbacks of their dial
  told,      \* the status the callback heard last, "nothing" before it is set
  engine,    \* where the client engine is
  cur,       \* the socket of the latest dial, 0 before the first
  opened,    \* the open handshake's oneshot
  funnel,    \* the frame funnel between onmessage and recv
  recv,      \* how far the engine's recv is: "begin" or "waiting"
  stream,    \* the pump's subscription: where its command or sink is
  sink,      \* what the sink holds
  pump,      \* where pump_pattern is
  call,      \* a query or listTopics promise
  dropped,   \* dropped_total
  gaps       \* updates the sink reported as skipped (history)

dialVars == <<opened, funnel, recv>>
pumpVars == <<stream, sink, pump, dropped, gaps>>
vars == <<options, shared, attached, told, engine, cur, dialVars, pumpVars, call>>

Statuses == {"Connecting", "Connected", "Disconnected", "Reconnecting"}
Sockets  == 1 .. MaxDials
NoSocket == 0

Shareds == [status : Statuses, stopped : BOOLEAN, ever_connected : BOOLEAN,
            ws : Sockets \union {NoSocket}, handle : BOOLEAN, on_status : BOOLEAN,
            sock : [Sockets -> {"none", "connecting", "open", "closing", "closed"}],
            tasks : Seq(Statuses)]

\* A text has a length in UTF-16 units and one in bytes, never the shorter.
Texts == {t \in [units : 1 .. MaxFrameBytes + 1, bytes : 1 .. MaxFrameBytes + 1] :
            t.units <= t.bytes}

Funnels == [frames : Seq([no : Nat, len : Nat]), queued_bytes : Nat,
            overflowed : BOOLEAN, closed : BOOLEAN, arrived : Nat, got : Nat]

NewFunnel == [frames |-> <<>>, queued_bytes |-> 0, overflowed |-> FALSE,
              closed |-> FALSE, arrived |-> 0, got |-> 0]

TypeOK ==
  /\ options \in [auto_reconnect : BOOLEAN, urlAccepted : BOOLEAN]
  /\ shared \in Shareds
  /\ attached \subseteq Sockets
  /\ told \in Statuses \union {"nothing"}
  /\ engine \in {"dial", "handshake", "serving", "backoff", "ended"}
  /\ cur \in 0 .. MaxDials
  /\ opened \in {"pending", "open", "failed"}
  /\ funnel \in Funnels
  /\ recv \in {"begin", "waiting"}
  /\ stream \in {"none", "queued", "active", "ended"}
  /\ sink \in Seq({"update", "gap", "rejected"})
  /\ pump \in {"loop", "streaming", "sleeping", "done"}
  /\ call \in {"idle", "queued", "sent", "resolved", "failed", "timed_out"}
  /\ dropped \in Nat /\ gaps \in Nat

\* new_internal: the engine and the pump are spawned, nothing has run.
Init ==
  /\ options \in [auto_reconnect : BOOLEAN, urlAccepted : BOOLEAN]
  /\ shared = [status |-> "Connecting", stopped |-> FALSE, ever_connected |-> FALSE,
               ws |-> NoSocket, handle |-> TRUE, on_status |-> FALSE,
               sock |-> [s \in Sockets |-> "none"], tasks |-> <<>>]
  /\ attached = {} /\ told = "nothing"
  /\ engine = "dial" /\ cur = 0
  /\ opened = "pending" /\ funnel = NewFunnel /\ recv = "begin"
  /\ stream = "none" /\ sink = <<>> /\ pump = "loop"
  /\ call = "idle" /\ dropped = 0 /\ gaps = 0

-----------------------------------------------------------------------------
(* The shared state.                                                       *)

\* WebSocket.close: the close event follows later.
CloseSocket(b, s) ==
  IF s # NoSocket /\ b.sock[s] \in {"connecting", "open"}
  THEN [b EXCEPT !.sock[s] = "closing"]
  ELSE b

\* emit_status calls the callback from a microtask.
Emit(b, status) ==
  [b EXCEPT !.status = status,
            !.tasks = IF b.on_status THEN Append(@, status) ELSE @]

\* Variant: disconnect leaves the published socket to itself.
StopOnly(b) ==
  LET c == [b EXCEPT !.stopped = TRUE, !.handle = FALSE, !.ws = NoSocket]
  IN  IF c.status = "Disconnected" THEN c ELSE Emit(c, "Disconnected")

\* disconnect: stop, drop the handle, close the published socket, report.
\* Its own report finds nothing left to stop when a listener disconnects again.
Stop(b) ==
  LET c == [CloseSocket(b, b.ws)
              EXCEPT !.stopped = TRUE, !.handle = FALSE, !.ws = NoSocket]
  IN  IF c.status = "Disconnected" THEN c ELSE Emit(c, "Disconnected")

\* set_status ignores a status that is already there; otherwise the DOM
\* event's listeners have run when it returns, and one may have disconnected.
set_status(b, status) ==
  IF b.status = status THEN {b}
  ELSE LET e == Emit(b, status) IN {e, Stop(e)}

drop_status(b) ==
  IF b.stopped \/ ~options.auto_reconnect THEN "Disconnected" ELSE "Reconnecting"

\* unpublish_socket: only its own socket.
unpublish_socket(b, s) == IF b.ws = s THEN [b EXCEPT !.ws = NoSocket] ELSE b

-----------------------------------------------------------------------------
(* The page.                                                               *)

\* disconnect(), and the bridge's Drop, which calls it.
disconnect ==
  /\ shared.handle
  /\ shared' = Stop(shared)
  /\ UNCHANGED <<options, attached, told, engine, cur, dialVars, pumpVars, call>>

\* Variant: a callback set late hears only what changes afterwards.
on_status_change_silent ==
  /\ ~shared.on_status
  /\ shared' = [shared EXCEPT !.on_status = TRUE]
  /\ UNCHANGED <<options, attached, told, engine, cur, dialVars, pumpVars, call>>

\* on_status_change: the callback hears the current status, then is stored.
\* The page sets one callback, once.
on_status_change ==
  /\ ~shared.on_status
  /\ told' = shared.status
  /\ \E b \in {shared} \union (IF ReplayReenters THEN {Stop(shared)} ELSE {}) :
       shared' = [b EXCEPT !.on_status = TRUE]
  /\ UNCHANGED <<options, attached, engine, cur, dialVars, pumpVars, call>>

\* The microtask of emit_status.
StatusCallback ==
  /\ shared.tasks # <<>>
  /\ told' = Head(shared.tasks)
  /\ shared' = [shared EXCEPT !.tasks = Tail(@)]
  /\ UNCHANGED <<options, attached, engine, cur, dialVars, pumpVars, call>>

\* call_as_promise: without a handle, or with the engine gone, it is rejected.
call_as_promise ==
  /\ call = "idle"
  /\ call' = IF shared.handle /\ engine # "ended" THEN "queued" ELSE "failed"
  /\ UNCHANGED <<options, shared, attached, told, engine, cur, dialVars, pumpVars>>

\* The timeout wins the race and drops the call.  No fairness is asked of it:
\* with query_timeout_ms = 0 it never does.
CallTimeout ==
  /\ call \in {"queued", "sent"}
  /\ call' = "timed_out"
  /\ UNCHANGED <<options, shared, attached, told, engine, cur, dialVars, pumpVars>>

-----------------------------------------------------------------------------
(* The frame funnel.  The channel has FrameQueueCap slots and one more for *)
(* the sender.                                                             *)

\* Variant: a funnel over a limit drops the frame and goes on.
DropFrame(f) == f

\* overflow, and an oversize text: mark the stream and close the channel.
overflow(f) == [f EXCEPT !.overflowed = TRUE, !.closed = TRUE]

funnel_frame(f, len) ==
  IF \/ f.queued_bytes + len > FrameQueueBytes
     \/ Len(f.frames) > FrameQueueCap
  THEN overflow(f)
  ELSE [f EXCEPT !.frames = Append(@, [no |-> f.arrived, len |-> len]),
                 !.queued_bytes = @ + len]

funnel_text(f, text) ==
  IF f.closed THEN f
  ELSE IF text.units <= MaxFrameBytes /\ text.bytes <= MaxFrameBytes
       THEN funnel_frame(f, text.bytes)
       ELSE overflow(f)

\* Variant: the bytes of a frame that recv took stay counted.
TakeFrameUncounted(f) ==
  [f EXCEPT !.frames = Tail(@), !.got = @ + 1]

\* recv took a frame.
TakeFrame(f) ==
  [f EXCEPT !.frames = Tail(@), !.queued_bytes = @ - Head(f.frames).len, !.got = @ + 1]

-----------------------------------------------------------------------------
(* The browser: events of a socket that holds callbacks.                   *)

BrowserUnchanged == UNCHANGED <<options, attached, told, engine, cur, recv, pumpVars, call>>

\* onopen: the first of open and close decides the handshake.
onopen(s) ==
  /\ shared.sock[s] = "connecting"
  /\ shared' = [shared EXCEPT !.sock[s] = "open"]
  /\ opened' = IF opened = "pending" THEN "open" ELSE opened
  /\ BrowserUnchanged /\ UNCHANGED funnel

\* Bound: the sockets before the last get one frame.
FramesOn(s) == IF s = MaxDials THEN MaxFrames ELSE 1

\* onmessage with a text frame.
onmessage(s, text) ==
  /\ shared.sock[s] = "open"
  /\ funnel.arrived < FramesOn(s)
  /\ funnel' = funnel_text([funnel EXCEPT !.arrived = @ + 1], text)
  /\ BrowserUnchanged /\ UNCHANGED <<shared, opened>>

\* onclose: fail the handshake or end the frames, and report.
onclose(s) ==
  /\ shared.sock[s] \in {"connecting", "open", "closing"}
  /\ opened' = IF opened = "pending" THEN "failed" ELSE opened
  /\ funnel' = [funnel EXCEPT !.closed = TRUE]
  /\ LET b == [shared EXCEPT !.sock[s] = "closed"]
     IN  shared' \in set_status(b, drop_status(b))
  /\ BrowserUnchanged

-----------------------------------------------------------------------------
(* The dialer.                                                             *)

\* Variant: the callbacks are freed while the socket holds them.
KeepAttached(s) == UNCHANGED attached

\* shutdown_socket: detach the callbacks, then close.
Detach(s) == attached' = attached \ {s}

\* The engine returns: DrainOnExit fails what waits in its queue.
EngineEnds ==
  /\ engine' = "ended"
  /\ call' = IF call \in {"queued", "sent"} THEN "failed" ELSE call
  /\ stream' = IF stream \in {"queued", "active"} THEN "ended" ELSE stream

\* reconnect_after, without a limit of attempts.  What was sent has died with
\* the connection.
EngineRetries ==
  IF options.auto_reconnect
  THEN /\ engine' = "backoff"
       /\ call' = IF call = "sent" THEN "failed" ELSE call
       /\ stream' = IF stream = "active" THEN "ended" ELSE stream
  ELSE EngineEnds

UnchangedByDial == UNCHANGED <<options, told, sink, pump, dropped, gaps>>

\* What belongs to one dial is freed.
DialFreed == opened' = "pending" /\ funnel' = NewFunnel /\ recv' = "begin"

\* connect of a stopped bridge, or of a URL the browser does not accept.
connect_refused ==
  /\ engine = "dial"
  /\ \/ shared.stopped /\ UNCHANGED shared
     \/ /\ ~shared.stopped /\ ~options.urlAccepted
        /\ shared' \in set_status(shared, "Disconnected")
  /\ EngineEnds
  /\ UnchangedByDial /\ UNCHANGED <<attached, cur, dialVars>>

\* connect up to its await: make and publish the socket, report a redial,
\* install the callbacks.
connect ==
  /\ engine = "dial" /\ ~shared.stopped /\ options.urlAccepted
  /\ cur < MaxDials
  /\ cur' = cur + 1
  /\ LET b == [shared EXCEPT !.sock[cur + 1] = "connecting", !.ws = cur + 1]
     IN  shared' \in IF b.ever_connected THEN set_status(b, "Reconnecting") ELSE {b}
  /\ attached' = attached \union {cur + 1}
  /\ DialFreed
  /\ engine' = "handshake"
  /\ UnchangedByDial /\ UNCHANGED <<stream, call>>

\* The dial's socket is given up: shut down and unpublished.  Nobody hears of
\* the rest of its life.
Abandoned(b) == unpublish_socket([b EXCEPT !.sock[cur] = "closed"], cur)

\* The handshake failed.
handshake_failed ==
  /\ engine = "handshake" /\ opened = "failed"
  /\ shared' = Abandoned(shared)
  /\ Detach(cur)
  /\ DialFreed
  /\ IF shared.stopped THEN EngineEnds ELSE EngineRetries
  /\ UnchangedByDial /\ UNCHANGED cur

\* Variant: accept_dial adopts whatever opened.
accept_any == TRUE

\* accept_dial refuses a handshake that a disconnect overtook.
accept_dial == ~shared.stopped

\* The handshake came through: adopt the socket, or abandon it.
handshake_done ==
  /\ engine = "handshake" /\ opened = "open"
  /\ IF accept_dial
     THEN /\ shared' \in set_status([shared EXCEPT !.ever_connected = TRUE], "Connected")
          /\ engine' = "serving"
          /\ UNCHANGED <<attached, dialVars, call, stream>>
     ELSE /\ shared' = Abandoned(shared)
          /\ Detach(cur)
          /\ DialFreed
          /\ EngineEnds
  /\ UnchangedByDial /\ UNCHANGED cur

Redial ==
  /\ engine = "backoff"
  /\ engine' = "dial"
  /\ UnchangedByDial /\ UNCHANGED <<shared, attached, cur, dialVars, stream, call>>

-----------------------------------------------------------------------------
(* The engine over a connection (session/client.rs, see SessionClient).    *)

\* Variant: a dropped connection reports nothing.
DropSilently == {Abandoned(shared)}

\* Drop of the connection: shut its socket down; report the end unless
\* disconnect() has taken the socket.
DropConnection ==
  IF shared.ws = cur
  THEN set_status(Abandoned(shared), drop_status(shared))
  ELSE {Abandoned(shared)}

\* drive_connection returns and drops the connection.
ConnectionEnds ==
  /\ shared' \in DropConnection
  /\ Detach(cur)
  /\ DialFreed
  /\ UnchangedByDial /\ UNCHANGED cur

\* Variant: an overflow does not reach a recv that waits already.
EofUnwoken == \/ recv = "begin" /\ funnel.overflowed
              \/ funnel.frames = <<>> /\ funnel.closed /\ ~funnel.overflowed

\* recv checks for an overflow when it starts, and only then.
Eof == \/ recv = "begin" /\ funnel.overflowed
       \/ funnel.frames = <<>> /\ funnel.closed

recv_eof ==
  /\ engine = "serving" /\ Eof
  /\ ConnectionEnds
  /\ EngineRetries

\* A frame for the pump's subscription, for the call, or for neither.
Deliver(item) ==
  CASE item \in {"update", "gap"} /\ stream = "active" ->
         /\ sink' = Append(sink, item)
         /\ gaps' = gaps + (IF item = "gap" THEN 1 ELSE 0)
         /\ UNCHANGED <<stream, call>>
    [] item = "rejected" /\ stream = "active" ->
         /\ sink' = Append(sink, item)
         /\ stream' = "ended"
         /\ UNCHANGED <<gaps, call>>
    [] item = "reply" /\ call = "sent" ->
         call' = "resolved" /\ UNCHANGED <<sink, stream, gaps>>
    [] OTHER -> UNCHANGED <<sink, stream, gaps, call>>

recv_frame(item) ==
  /\ engine = "serving" /\ ~Eof /\ funnel.frames # <<>>
  /\ funnel' = TakeFrame(funnel)
  /\ recv' = "begin"
  /\ Deliver(item)
  /\ UNCHANGED <<options, shared, attached, told, engine, cur, opened, pump, dropped>>

\* recv waits, and the select goes on to its other arms.
recv_pending ==
  /\ engine = "serving" /\ recv = "begin"
  /\ ~Eof /\ funnel.frames = <<>>
  /\ recv' = "waiting"
  /\ UNCHANGED <<options, shared, attached, told, engine, cur, opened, funnel, pumpVars, call>>

Waiting == engine = "serving" /\ recv = "waiting" /\ funnel.frames = <<>> /\ ~funnel.closed

\* The command arm: the call or the subscription goes out.
Command ==
  /\ Waiting
  /\ \/ call = "queued" /\ call' = "sent" /\ UNCHANGED stream
     \/ stream = "queued" /\ stream' = "active" /\ UNCHANGED call
  /\ recv' = "begin"
  /\ UNCHANGED <<options, shared, attached, told, engine, cur, opened, funnel,
                 sink, pump, dropped, gaps>>

\* Every handle is gone: the bridge's, the pump's and the call's.
HandlesDropped ==
  /\ Waiting
  /\ ~shared.handle /\ pump = "done" /\ call \notin {"queued", "sent"}
  /\ ConnectionEnds
  /\ EngineEnds

-----------------------------------------------------------------------------
(* The subscription pump.                                                  *)

PumpUnchanged == UNCHANGED <<options, shared, attached, told, engine, cur, dialVars, call>>

\* The top of the loop: stop, or subscribe (the engine may be gone).
PumpSubscribe ==
  /\ pump = "loop"
  /\ IF shared.stopped \/ engine = "ended"
     THEN pump' = "done" /\ UNCHANGED stream
     ELSE pump' = "streaming" /\ stream' = "queued"
  /\ PumpUnchanged /\ UNCHANGED <<sink, dropped, gaps>>

\* report_gap adds to the total.
report_gap(n) == dropped + n

\* An item of the stream: mirror it, report its gap, or stop on a rejection.
PumpItem ==
  /\ pump = "streaming" /\ sink # <<>>
  /\ sink' = Tail(sink)
  /\ dropped' = IF Head(sink) = "gap" THEN report_gap(1) ELSE dropped
  /\ IF Head(sink) = "rejected"
     THEN pump' = "done" /\ stream' = "none"
     ELSE UNCHANGED <<pump, stream>>
  /\ PumpUnchanged /\ UNCHANGED gaps

\* The stream ended without a rejection: pause before subscribing again.
PumpEnd ==
  /\ pump = "streaming" /\ sink = <<>> /\ stream = "ended"
  /\ pump' = "sleeping" /\ stream' = "none"
  /\ PumpUnchanged /\ UNCHANGED <<sink, dropped, gaps>>

PumpWake ==
  /\ pump = "sleeping"
  /\ pump' = "loop"
  /\ PumpUnchanged /\ UNCHANGED <<stream, sink, dropped, gaps>>

-----------------------------------------------------------------------------
Page == disconnect \/ on_status_change \/ call_as_promise

Browser ==
  \E s \in attached : onopen(s) \/ onclose(s) \/ \E text \in Texts : onmessage(s, text)

Engine ==
  \/ connect_refused \/ connect \/ handshake_failed \/ handshake_done \/ Redial
  \/ recv_eof \/ recv_pending \/ Command \/ HandlesDropped
  \/ \E item \in {"update", "gap", "rejected", "reply", "other"} : recv_frame(item)

Pump == PumpSubscribe \/ PumpItem \/ PumpEnd \/ PumpWake

Next == Page \/ Browser \/ Engine \/ Pump \/ StatusCallback \/ CallTimeout

\* The browser runs the tasks that are ready, and a socket that is closing
\* fires its close event in the end.
Fairness ==
  /\ WF_vars(Engine) /\ WF_vars(Pump) /\ WF_vars(StatusCallback)
  /\ WF_vars(\E s \in attached : shared.sock[s] = "closing" /\ onclose(s))

Spec == Init /\ [][Next]_vars /\ Fairness

-----------------------------------------------------------------------------
\* The page is told the truth.  disconnect() is final: no late handshake, close
\* event, dropped connection or redial ever reports another status again.
\* Connected is reported only while the engine holds a connection, and an engine
\* that gave up has reported Disconnected.  Once no microtask is left, the status
\* callback knows the current status.  Every update the streams skipped is in
\* droppedUpdates() or on its way there, across all subscriptions of the pump.
StatusIsTrue ==
  /\ TypeOK
  /\ shared.stopped => shared.status = "Disconnected"
  /\ shared.status = "Connected" => engine = "serving"
  /\ engine = "ended" => shared.status = "Disconnected"
  /\ shared.on_status /\ shared.tasks = <<>> => told = shared.status
  /\ dropped + Cardinality({i \in 1 .. Len(sink) : sink[i] = "gap"}) = gaps

\* A socket holds callbacks only as long as the dial or the connection that
\* owns their closures lives (shutdown_socket detaches before they are freed).
NoFreedCallback ==
  attached # {} => attached = {cur} /\ engine \in {"handshake", "serving"}

\* The lengths of the frames from each one to the last, added up.
Totals(frames) ==
  {total \in [1 .. Len(frames) + 1 -> 0 .. FrameQueueBytes] :
     /\ total[Len(frames) + 1] = 0
     /\ \A i \in 1 .. Len(frames) : total[i] = frames[i].len + total[i + 1]}

\* The engine never reads past a hole: what it got and what waits for it are
\* the first frames of the socket, without a gap, although the funnel keeps both
\* its bounds.  queued_bytes is what it holds.
NoHole ==
  /\ \A i \in 1 .. Len(funnel.frames) : funnel.frames[i].no = funnel.got + i
  /\ \E total \in Totals(funnel.frames) : total[1] = funnel.queued_bytes
  /\ funnel.queued_bytes <= FrameQueueBytes
  /\ Len(funnel.frames) <= FrameQueueCap + 1

\* What was given up ends.  After disconnect() the engine and the pump end and no
\* promise stays open, whatever the server does and even without a timeout.  A
\* connection whose funnel overflowed is dropped, so that the pump can subscribe
\* from scratch.
GivenUpEnds ==
  /\ shared.stopped ~> (engine = "ended" /\ pump = "done" /\ call \notin {"queued", "sent"})
  /\ funnel.overflowed ~> engine # "serving"
=============================================================================
