--------------------------- MODULE ServerSession ---------------------------
(***************************************************************************)
(* One accepted connection of the session server, run_session and          *)
(* pump_subscription of aimdb-core/src/session/server.rs.                  *)
(*                                                                         *)
(* One task serves the connection.  Its select is biased: a frame of the   *)
(* client first, then an update from the event funnel, then the pumps of   *)
(* the subscriptions, which run only while that last arm is polled.  The   *)
(* client numbers its subscriptions and may use an id again after          *)
(* unsubscribing; a generation tells the pumps of one id apart.            *)
(***************************************************************************)
EXTENDS Integers, FiniteSets, Sequences

CONSTANTS
  SubIds,      \* subscription ids the client uses
  NoGen,       \* no generation
  MaxSubs,     \* SessionLimits::max_subs_per_connection
  FunnelCap,   \* EVENT_BUFFER
  MaxGen,      \* bound: subscriptions opened on the connection
  MaxVal,      \* bound: updates a subscription's stream yields
  MaxSnaps,    \* bound: snapshots of one late-join burst
  MaxFrames    \* bound: frames the client sends

ASSUME SessionAssumption ==
  /\ SubIds # {}
  /\ MaxSubs \in Nat /\ FunnelCap \in Nat \ {0}
  /\ MaxGen \in Nat \ {0} /\ MaxVal \in Nat /\ MaxSnaps \in Nat
  /\ MaxFrames \in Nat
  /\ NoGen \notin 0 .. MaxGen

VARIABLES
  epc,       \* where the task is
  cancels,   \* cancels[s]: generation of the live subscription s, or NoGen
  pumps,     \* generations whose pump is in the FuturesUnordered
  pump,      \* pump[g]: the pump's id, sequence number and updates so far
  dry,       \* generations whose stream has ended
  nextGen,   \* next_generation
  burst,     \* the late-join burst being sent: [sub, next, total]
  ending,    \* the generation whose end is being reported
  funnel,    \* the event funnel
  greeted,   \* the connection has seen a handshake
  out,       \* the last frame sent
  oldGens,   \* generations of sessions a handshake has ended (history)
  wanted,    \* generations the client holds open (history)
  said,      \* generations whose end has been reported (history)
  lastSeq,   \* lastSeq[g]: the last number sent for generation g (history)
  newest,    \* newest[s]: the latest generation an update went out for under
             \* the id s; 0 before the first (history)
  frames     \* frames received so far (bound)

subVars  == <<cancels, pumps, pump, dry, nextGen>>
histVars == <<oldGens, wanted, said, lastSeq, newest>>
vars == <<epc, subVars, burst, ending, funnel, greeted, out, histVars, frames>>

Gens == 0 .. MaxGen - 1

NoBurst == [sub |-> CHOOSE s \in SubIds : TRUE, next |-> 0, total |-> 0]

Quiet == [type |-> "none"]

\* Variant: the pump counts from the beginning again.
NewPumpFromZero(s, seq) == [sub |-> s, seq |-> 0, vals |-> 0]

NewPump(s, seq) == [sub |-> s, seq |-> seq, vals |-> 0]

Init ==
  /\ epc = "auth"
  /\ cancels = [s \in SubIds |-> NoGen]
  /\ pumps = {}
  /\ pump = [g \in Gens |-> NewPump(NoBurst.sub, 0)]
  /\ dry = {}
  /\ nextGen = 0
  /\ burst = NoBurst
  /\ ending = NoGen
  /\ funnel = <<>>
  /\ greeted = FALSE
  /\ out = Quiet
  /\ oldGens = {} /\ wanted = {} /\ said = {}
  /\ lastSeq = [g \in Gens |-> 0] /\ newest = [s \in SubIds |-> 0]
  /\ frames = 0

-----------------------------------------------------------------------------
(* Frames of the client.                                                   *)

\* The Hello frame, if the protocol has one, and the peer are accepted; when
\* they are not, the task returns (Close).
Authenticate ==
  /\ epc = "auth"
  /\ epc' = "recv"
  /\ UNCHANGED <<subVars, burst, ending, funnel, greeted, out, histVars, frames>>

Frame == epc = "recv" /\ frames < MaxFrames /\ frames' = frames + 1

NoFrame ==
  /\ epc = "recv"
  /\ epc' = "event"
  /\ UNCHANGED <<subVars, burst, ending, funnel, greeted, out, histVars, frames>>

\* Variant: a new handshake keeps the old session's funnel.
HandshakeResetKeepingFunnel ==
  /\ pumps' = {}
  /\ cancels' = [s \in SubIds |-> NoGen]
  /\ UNCHANGED funnel

\* A handshake on a connection that never closed: pumps, cancel handles and
\* queued events of the old session are dropped.
HandshakeReset ==
  /\ pumps' = {}
  /\ cancels' = [s \in SubIds |-> NoGen]
  /\ funnel' = <<>>

\* A Request that starts a session; a reply that does not encode is not sent.
Hello ==
  /\ Frame
  /\ IF greeted
     THEN HandshakeReset /\ oldGens' = 0 .. nextGen - 1 /\ wanted' = {}
     ELSE UNCHANGED <<pumps, cancels, funnel, oldGens, wanted>>
  /\ greeted' = TRUE
  /\ out' \in {out, [type |-> "reply"]}
  /\ UNCHANGED <<epc, pump, dry, nextGen, burst, ending, said, lastSeq, newest>>

\* Any other Request, or a frame that does not decode.
OtherRequest ==
  /\ Frame
  /\ out' \in {out, [type |-> "reply"]}
  /\ UNCHANGED <<epc, subVars, burst, ending, funnel, greeted, histVars>>

\* A Write is not answered, a Ping is.
WriteOrPing ==
  /\ Frame
  /\ out' \in {out, [type |-> "pong"]}
  /\ UNCHANGED <<epc, subVars, burst, ending, funnel, greeted, histVars>>

Live == {s \in SubIds : cancels[s] # NoGen}

\* An id that names a live subscription is refused, and so is one too many.
Refused(s) == s \in Live \/ Cardinality(Live) >= MaxSubs

\* Subscribe: refused here or by the session, or opened with a burst of n
\* snapshots after the optional acknowledgement.
Subscribe(s) ==
  /\ Frame /\ nextGen < MaxGen
  /\ \/ /\ out' = [type |-> "error", sub |-> s]
        /\ UNCHANGED <<epc, burst>>
     \/ /\ ~Refused(s)
        /\ \E n \in 0 .. MaxSnaps : burst' = [sub |-> s, next |-> 1, total |-> n]
        /\ epc' = "burst"
        /\ out' \in {out, [type |-> "ack", sub |-> s]}
  /\ UNCHANGED <<subVars, ending, funnel, greeted, histVars>>

\* One snapshot of the burst; one that does not encode is skipped, its number
\* is not.
SendSnapshot(encoded) ==
  /\ epc = "burst" /\ burst.next <= burst.total
  /\ burst' = [burst EXCEPT !.next = @ + 1]
  /\ IF encoded
     THEN /\ out' = [type |-> "snapshot", sub |-> burst.sub, gen |-> nextGen,
                     seq |-> burst.next]
          /\ lastSeq' = [lastSeq EXCEPT ![nextGen] = burst.next]
     ELSE UNCHANGED <<out, lastSeq>>
  /\ UNCHANGED <<epc, subVars, ending, funnel, greeted, oldGens, wanted, said,
                 newest, frames>>

\* The burst is out: register the cancel handle and start the pump.  A handle
\* that was there is dropped.
Register ==
  /\ epc = "burst" /\ burst.next > burst.total
  /\ cancels' = [cancels EXCEPT ![burst.sub] = nextGen]
  /\ pumps' = pumps \union {nextGen}
  /\ pump' = [pump EXCEPT ![nextGen] = NewPump(burst.sub, burst.total)]
  /\ nextGen' = nextGen + 1
  /\ wanted' = wanted \union {nextGen}
  /\ epc' = "recv" /\ burst' = NoBurst
  /\ UNCHANGED <<dry, ending, funnel, greeted, out, oldGens, said, lastSeq, newest,
                 frames>>

Unsubscribe(s) ==
  /\ Frame
  /\ cancels' = [cancels EXCEPT ![s] = NoGen]
  /\ wanted' = {g \in wanted : pump[g].sub # s}
  /\ UNCHANGED <<epc, pumps, pump, dry, nextGen, burst, ending, funnel, greeted,
                 out, oldGens, said, lastSeq, newest>>

-----------------------------------------------------------------------------
(* Updates and pumps.                                                      *)

\* send_event: an update that does not encode is skipped.
SendEvent(encoded) ==
  IF encoded
  THEN /\ out' = Head(funnel)
       /\ lastSeq' = [lastSeq EXCEPT ![Head(funnel).gen] = Head(funnel).seq]
       /\ newest' = [newest EXCEPT ![Head(funnel).sub] = Head(funnel).gen]
  ELSE UNCHANGED <<out, lastSeq, newest>>

ForwardEvent(encoded) ==
  /\ epc = "event" /\ funnel # <<>>
  /\ funnel' = Tail(funnel)
  /\ SendEvent(encoded)
  /\ epc' = "recv"
  /\ UNCHANGED <<subVars, burst, ending, greeted, oldGens, wanted, said, frames>>

NoEvent ==
  /\ epc = "event" /\ funnel = <<>>
  /\ epc' = "pumps"
  /\ UNCHANGED <<subVars, burst, ending, funnel, greeted, out, histVars, frames>>

\* The stream of g ends: its source closed, or never opened.
StreamEnds(g) ==
  /\ g \in pumps /\ g \notin dry
  /\ dry' = dry \union {g}
  /\ UNCHANGED <<epc, cancels, pumps, pump, nextGen, burst, ending, funnel,
                 greeted, out, histVars, frames>>

\* The pump's cancel handle has been dropped.
Cancelled(g) == cancels[pump[g].sub] # g

\* A pump takes an update and numbers it, counting what the stream skipped; a
\* full funnel drops it.
PumpUpdate(g, skipped) ==
  /\ epc = "pumps" /\ g \in pumps /\ ~Cancelled(g)
  /\ g \notin dry /\ pump[g].vals < MaxVal
  /\ LET seq == pump[g].seq + skipped + 1
     IN  /\ pump' = [pump EXCEPT ![g].seq = seq, ![g].vals = @ + 1]
         /\ funnel' = IF Len(funnel) < FunnelCap
                      THEN Append(funnel, [type |-> "event", sub |-> pump[g].sub,
                                           gen |-> g, seq |-> seq])
                      ELSE funnel
  /\ UNCHANGED <<epc, cancels, pumps, dry, nextGen, burst, ending, greeted, out,
                 histVars, frames>>

\* Variant: a pump does not notice the end of its stream.
EndedByCancel(g) == Cancelled(g)

\* The pump's loop has broken out.
Ended(g) == Cancelled(g) \/ g \in dry

\* The pump ended with its stream: the cancel arm is polled first.
Exhausted(g) == ~Cancelled(g)

\* Variant: the ended pump's id is freed whoever holds it now.
OwnsAny(g) == cancels[pump[g].sub] # NoGen

\* The cancel handle under the ended pump's id is its own.
OwnsEntry(g) == cancels[pump[g].sub] = g

\* Variant: the ended subscription's handle stays.
PrunedNever(g) == cancels

\* The ended subscription's handle is dropped.
Pruned(g) == [cancels EXCEPT ![pump[g].sub] = NoGen]

\* Variant: the error overtakes what is left in the funnel.
ReportUnflushed == "report"

\* The last events go out before the end is reported.
BeforeReport == "flush"

\* A pump ends, cancelled or with its stream, and is reaped.
SubDrained(g) ==
  /\ epc = "pumps" /\ g \in pumps
  /\ Ended(g)
  /\ pumps' = pumps \ {g}
  /\ IF ~OwnsEntry(g)
     THEN epc' = "recv" /\ UNCHANGED <<cancels, ending>>
     ELSE /\ cancels' = Pruned(g)
          /\ IF Exhausted(g)
             THEN epc' = BeforeReport /\ ending' = g
             ELSE epc' = "recv" /\ UNCHANGED ending
  /\ UNCHANGED <<pump, dry, nextGen, burst, funnel, greeted, out, histVars,
                 frames>>

\* No pump has anything to do.
PumpsPending ==
  /\ epc = "pumps"
  /\ \A g \in pumps : ~Ended(g)
  /\ epc' = "recv"
  /\ UNCHANGED <<subVars, burst, ending, funnel, greeted, out, histVars, frames>>

\* The end of a subscription the client holds: first what the funnel holds,
Flush(encoded) ==
  /\ epc = "flush" /\ funnel # <<>>
  /\ funnel' = Tail(funnel)
  /\ SendEvent(encoded)
  /\ UNCHANGED <<epc, subVars, burst, ending, greeted, oldGens, wanted, said,
                 frames>>

Flushed ==
  /\ epc = "flush" /\ funnel = <<>>
  /\ epc' = "report"
  /\ UNCHANGED <<subVars, burst, ending, funnel, greeted, out, histVars, frames>>

\* ... then the error reply to its subscribe id.
ReportEnd ==
  /\ epc = "report"
  /\ out' = [type |-> "error", sub |-> pump[ending].sub]
  /\ said' = said \union {ending}
  /\ wanted' = wanted \ {ending}
  /\ ending' = NoGen
  /\ epc' = "recv"
  /\ UNCHANGED <<subVars, burst, funnel, greeted, oldGens, lastSeq, newest, frames>>

\* The connection ends, between two steps or in the middle of a send.
Close ==
  /\ epc # "closed"
  /\ epc' = "closed"
  /\ pumps' = {} /\ cancels' = [s \in SubIds |-> NoGen] /\ funnel' = <<>>
  /\ wanted' = {}
  /\ UNCHANGED <<pump, dry, nextGen, burst, ending, greeted, out, oldGens, said,
                 lastSeq, newest, frames>>

Closed == epc = "closed" /\ UNCHANGED vars

-----------------------------------------------------------------------------
Client ==
  \/ Hello \/ OtherRequest \/ WriteOrPing
  \/ \E s \in SubIds : Subscribe(s) \/ Unsubscribe(s)

Pumps == \E g \in Gens : (\E k \in 0 .. 1 : PumpUpdate(g, k)) \/ SubDrained(g)

Sends == \E encoded \in BOOLEAN :
           SendSnapshot(encoded) \/ ForwardEvent(encoded) \/ Flush(encoded)

Session == Authenticate \/ NoFrame \/ Register \/ NoEvent \/ PumpsPending \/ Flushed \/ ReportEnd

Next ==
  \/ Client \/ Pumps \/ Sends \/ Session
  \/ (\E g \in Gens : StreamEnds(g))
  \/ Close \/ Closed

Spec == Init /\ [][Next]_vars

\* The executor polls the session's task whenever it can go on.
FairSpec == Spec /\ WF_vars(Session) /\ WF_vars(Sends) /\ WF_vars(Pumps)

-----------------------------------------------------------------------------
Frames ==
  [type : {"none", "reply", "pong"}] \union [type : {"error", "ack"}, sub : SubIds]
  \union [type : {"event", "snapshot"}, sub : SubIds, gen : Gens, seq : Nat]

\* Every variable has its type; the funnel and the subscriptions stay bounded.
TypeOK ==
  /\ epc \in {"auth", "recv", "event", "pumps", "burst", "flush", "report", "closed"}
  /\ cancels \in [SubIds -> Gens \union {NoGen}]
  /\ Cardinality(Live) <= MaxSubs
  /\ pumps \subseteq Gens /\ dry \subseteq Gens
  /\ pump \in [Gens -> [sub : SubIds, seq : Nat, vals : 0 .. MaxVal]]
  /\ nextGen \in 0 .. MaxGen
  /\ burst \in [sub : SubIds, next : Nat, total : 0 .. MaxSnaps]
  /\ ending \in Gens \union {NoGen}
  /\ funnel \in Seq(Frames) /\ Len(funnel) <= FunnelCap
  /\ greeted \in BOOLEAN
  /\ out \in Frames
  /\ frames \in 0 .. MaxFrames

\* The table of handles and the pumps agree.  A subscription the client holds
\* open keeps its pump and its handle, whatever became of earlier subscriptions
\* with the same id (the generation check); and every registered handle belongs
\* to a pump that is still there, so that an ended subscription does not keep
\* counting against the limit, which is kept (TypeOK).
SlotsMatchPumps ==
  /\ TypeOK
  /\ \A g \in wanted :
       \/ g \in pumps /\ cancels[pump[g].sub] = g
       \/ ending = g
  /\ \A s \in Live : cancels[s] \in pumps /\ pump[cancels[s]].sub = s

\* What goes out of one subscription, its burst included, is numbered in growing
\* order; none of it follows the report of its end ("so the error is the
\* subscription's last word") or a new handshake ("nothing of the old session may
\* reach it").  An id may be used again, and an update carries the id only: an
\* update the cancelled use left in the funnel still goes out under it, with the
\* old use's number, after the burst of the new one.  Such stragglers end with the
\* first update of the new use: the updates under an id go out use by use.
UpdatesInOrder ==
  [][out' # out =>
       /\ out'.type = "event" => /\ out'.gen \notin said \union oldGens
                                 /\ out'.gen >= newest[out'.sub]
       /\ out'.type \in {"event", "snapshot"} => out'.seq > lastSeq[out'.gen]]_vars

\* A stream the client still holds has ended, or a subscription was let go of
\* and its pump is still there.
Over(g) == (g \in dry /\ g \in wanted) \/ (g \in pumps /\ Cancelled(g))

\* The end of a stream the client still holds is reported, unless the client
\* lets go of it or the connection ends; and the pump of a subscription that was
\* let go of ends, however long its stream could go on.
EndIsReported == \A g \in Gens : Over(g) ~> ~Over(g)
=============================================================================
