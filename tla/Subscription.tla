---------------------------- MODULE Subscription ---------------------------
(***************************************************************************)
(* One subscription from the records to the subscriber.                    *)
(*                                                                         *)
(*   record buffers -> record_updates -> pump_subscription -> event funnel *)
(*     -> run_session -> wire -> deliver -> sink -> the subscriber         *)
(*                                                                         *)
(* An update can be lost at five places: overwritten in a ring, dropped at *)
(* a full funnel, not encodable, dropped at a full sink, or gone with the  *)
(* connection.  Losses are not repaired but counted: the server numbers    *)
(* what the records produced, the client reports the gaps.                 *)
(*                                                                         *)
(* What a record has to offer depends on its buffer.  A ring is read from  *)
(* its end and has no current value.  A SingleLatest has one, which is its *)
(* snapshot and which a fresh stream yields once more; a Mailbox has one   *)
(* until some reader has taken it.  These two overwrite without a word.    *)
(*                                                                         *)
(* Sources: aimdb-core/src/remote/stream.rs (record_updates),              *)
(* session/aimx/dispatch.rs (subscribe, snapshots), session/server.rs      *)
(* (pump_subscription, run_session), session/client.rs (deliver, end_sub); *)
(* aimdb-tokio-adapter/src/buffer.rs (subscribe, peek).                    *)
(***************************************************************************)
EXTENDS Integers, FiniteSets, Sequences, SequencesExt, FiniteSetsExt

CONSTANTS
  Records,    \* records the topic covers
  NoRec,      \* no record
  RingCap,    \* capacity of a record's ring
  FunnelCap,  \* EVENT_BUFFER
  SinkCap,    \* SUBSCRIBE_CHANNEL_CAP
  WireCap,    \* bound: frames in flight
  MaxVal      \* bound: values written to all records

ASSUME SubscriptionAssumption ==
  /\ IsFiniteSet(Records) /\ NoRec \notin Records
  /\ RingCap \in Nat \ {0} /\ FunnelCap \in Nat \ {0}
  /\ SinkCap \in Nat /\ SinkCap > 1
  /\ WireCap \in Nat \ {0} /\ MaxVal \in Nat

VARIABLES
  \* The records: a record's values are 1, 2, ... in the order written.
  kind,     \* kind[r]: the kind of its buffer
  written,  \* written[r]: values written so far
  closed,   \* the buffers have been closed
  \* The server's half.
  spc,      \* where the subscription is
  wild,     \* the topic is a wildcard
  fan,      \* the records that can stream and whose streams have not ended
  cursor,   \* cursor[r]: last value the stream of r has read or skipped
  skipped,  \* skipped[r]: lag not yet attached to a value
  reading,  \* the record whose stream has lagged and reads on
  burst,    \* snapshots still to be sent
  seq,      \* the subscription's sequence number
  funnel,   \* the event funnel
  wire,     \* frames on their way to the client
  \* The client's half.
  held,     \* the engine holds the subscription's sink
  lastSeq,  \* last_seq
  sink,     \* the sink
  gone,     \* the subscriber has dropped its stream
  \* History.
  made,     \* the updates made: the burst, then what the streams yielded, each
            \* value with those of its record that were lost before it
  opened,   \* opened[r]: the value after which the stream of r began
  passed,   \* passed[r]: the last value of r it has yielded, or opened[r]
  accounted,\* updates the subscriber received or was told it missed
  upTo,     \* updates there had been when the last one it received was made
  missed,   \* updates it was told it missed
  known     \* known[r]: last value of r the subscriber received

recVars    == <<kind, written, closed>>
streamVars == <<fan, cursor, skipped, reading>>
serverVars == <<spc, wild, streamVars, burst, seq, funnel, wire>>
clientVars == <<held, lastSeq, sink, gone>>
madeVars   == <<made, opened, passed>>
takenVars  == <<accounted, upTo, missed, known>>
histVars   == <<madeVars, takenVars>>
vars == <<recVars, serverVars, clientVars, histVars>>

\* An update and the number of updates made up to and with it (history).
Update(type, r, v, n, upto) ==
  [type |-> type, rec |-> r, val |-> v, seq |-> n, upTo |-> upto]

Kinds == {"SpmcRing", "SingleLatest", "Mailbox"}

Init ==
  /\ kind \in [Records -> Kinds] /\ written \in [Records -> 0 .. 1] /\ closed = FALSE
  /\ spc = "open" /\ wild \in BOOLEAN
  /\ fan \in (IF wild THEN SUBSET Records ELSE {{r} : r \in Records})
  /\ \A r \in Records \ fan : kind[r] = "SpmcRing" /\ written[r] = 0
  /\ cursor = [r \in Records |-> 0]
  /\ skipped = [r \in Records |-> 0]
  /\ reading = NoRec
  /\ burst = <<>> /\ seq = 0 /\ funnel = <<>> /\ wire = <<>>
  /\ held = TRUE /\ lastSeq = 0 /\ sink = <<>> /\ gone = FALSE
  /\ made = <<>>
  /\ opened = [r \in Records |-> 0] /\ passed = [r \in Records |-> 0]
  /\ accounted = 0 /\ upTo = 0 /\ missed = 0
  /\ known = [r \in Records |-> 0]

-----------------------------------------------------------------------------
(* The records.                                                            *)

\* A record that does not stream is of no concern here.
Write(r) ==
  /\ r \in fan /\ ~closed /\ SumFunction(written) < MaxVal
  /\ written' = [written EXCEPT ![r] = @ + 1]
  /\ UNCHANGED <<kind, closed, serverVars, clientVars, histVars>>

\* Another reader takes what waits in a mailbox.
TakenByAnother(r) ==
  /\ kind[r] = "Mailbox" /\ cursor[r] < written[r]
  /\ cursor' = [cursor EXCEPT ![r] = written[r]]
  /\ UNCHANGED <<recVars, spc, wild, fan, skipped, reading, burst, seq, funnel, wire,
                 clientVars, histVars>>

CloseBuffers ==
  /\ ~closed /\ closed' = TRUE
  /\ UNCHANGED <<kind, written, serverVars, clientVars, histVars>>

-----------------------------------------------------------------------------
(* The server.                                                             *)

\* Variant: every stream starts at the end.
StartsAtEnd(r) == written[r]

\* A fresh ring reader starts at the end; a fresh reader of a SingleLatest sees
\* the current value once; one of a mailbox what waits in it.
StartsAfter(r) ==
  CASE kind[r] = "SpmcRing" -> written[r]
    [] kind[r] = "SingleLatest" -> 0
    [] kind[r] = "Mailbox" -> cursor[r]

\* Session::subscribe: the streams are opened first.  A record of a wildcard that
\* cannot stream is left out, an exact topic of one is refused.
Open ==
  /\ spc = "open"
  /\ cursor' = [r \in Records |-> StartsAfter(r)]
  /\ opened' = cursor' /\ passed' = cursor'
  /\ spc' = "snapshots"
  /\ UNCHANGED <<recVars, wild, fan, skipped, reading, burst, seq, funnel, wire,
                 clientVars, made, takenVars>>

\* peek: a ring has no current value.
HasCurrent(r) ==
  CASE kind[r] = "SpmcRing" -> FALSE
    [] kind[r] = "SingleLatest" -> written[r] > 0
    [] kind[r] = "Mailbox" -> cursor[r] < written[r]

\* Session::snapshots: the current value of every covered record that has one
\* which serializes; none for an exact topic.
ReadSnapshots ==
  /\ spc = "snapshots"
  /\ \E covered \in SUBSET {r \in fan : wild /\ HasCurrent(r)} :
       \E order \in SetToSeqs(covered) :
         burst' = [i \in DOMAIN order |-> <<order[i], written[order[i]]>>]
  /\ made' = burst'
  /\ spc' = "burst"
  /\ UNCHANGED <<recVars, wild, streamVars, seq, funnel, wire, clientVars, opened, passed,
                 takenVars>>

\* One snapshot; the last one says so.  The number moves on also when a
\* snapshot does not encode.
SendSnapshot(encoded) ==
  /\ spc = "burst" /\ burst # <<>> /\ Len(wire) < WireCap
  /\ LET s == Head(burst)
         type == IF Len(burst) = 1 THEN "burstEnd" ELSE "burstBody"
         nth == Len(made) - Len(burst) + 1
     IN  wire' = IF encoded
                 THEN Append(wire, Update(type, s[1], s[2], seq + 1, nth))
                 ELSE wire
  /\ seq' = seq + 1
  /\ burst' = Tail(burst)
  /\ UNCHANGED <<recVars, spc, wild, streamVars, funnel, clientVars, histVars>>

\* The pump starts, at the number the burst has reached.
StartPump ==
  /\ spc = "burst" /\ burst = <<>>
  /\ spc' = "live"
  /\ UNCHANGED <<recVars, wild, streamVars, burst, seq, funnel, wire, clientVars,
                 histVars>>

\* A ring keeps the last RingCap values, the other kinds the last one.
Oldest(r) == 1 + (IF written[r] > RingCap THEN written[r] - RingCap ELSE 0)
NextOf(r) == IF kind[r] = "SpmcRing" THEN cursor[r] + 1 ELSE written[r]

\* The stream of r is polled, and the next thing it finds is a value.
Ready(r) ==
  /\ spc = "live" /\ r \in fan /\ reading \in {NoRec, r}
  /\ cursor[r] < written[r]
  /\ kind[r] = "SpmcRing" => cursor[r] + 1 >= Oldest(r)

\* Variant: only the last lag before a value counts.
AddLagReplacing(r, lag) == [skipped EXCEPT ![r] = lag]

\* record_updates accumulates lag until a value carries it.
AddLag(r, lag) == [skipped EXCEPT ![r] = @ + lag]

\* BufferLagged: values of r were overwritten before they were read.
Lag(r) ==
  /\ spc = "live" /\ r \in fan /\ reading \in {NoRec, r}
  /\ kind[r] = "SpmcRing" /\ cursor[r] + 1 < Oldest(r)
  /\ skipped' = AddLag(r, Oldest(r) - 1 - cursor[r])
  /\ cursor' = [cursor EXCEPT ![r] = Oldest(r) - 1]
  /\ reading' = r
  /\ UNCHANGED <<recVars, spc, wild, fan, burst, seq, funnel, wire, clientVars, histVars>>

\* try_send to the funnel: a full one drops the update.
Offered(u) == IF Len(funnel) < FunnelCap THEN Append(funnel, u) ELSE funnel

\* What the value v of r adds to the updates made.
MadeBy(r, v) ==
  LET before == IF kind[r] = "SpmcRing" THEN passed[r] ELSE v - 1
  IN  [i \in 1 .. v - before |-> <<r, before + i>>]

\* The next value of r, numbered with what was skipped before it and offered
\* to the funnel.
Pump(r) ==
  /\ Ready(r)
  /\ cursor' = [cursor EXCEPT ![r] = NextOf(r)]
  /\ made' = made \o MadeBy(r, NextOf(r))
  /\ passed' = [passed EXCEPT ![r] = NextOf(r)]
  /\ seq' = seq + skipped[r] + 1
  /\ funnel' = Offered(Update("event", r, NextOf(r), seq + skipped[r] + 1, Len(made')))
  /\ skipped' = [skipped EXCEPT ![r] = 0]
  /\ reading' = NoRec
  /\ UNCHANGED <<recVars, spc, wild, fan, burst, wire, clientVars, opened, takenVars>>

\* A value that does not serialize ends the stream of its record, and the lag
\* before it is told to nobody.
EndStream(r) ==
  /\ Ready(r)
  /\ fan' = fan \ {r}
  /\ cursor' = [cursor EXCEPT ![r] = NextOf(r)]
  /\ skipped' = [skipped EXCEPT ![r] = 0]
  /\ reading' = NoRec
  /\ UNCHANGED <<recVars, spc, wild, burst, seq, funnel, wire, clientVars, histVars>>

\* send_event: an event that does not encode is skipped.
Forward(encoded) ==
  /\ spc \in {"live", "ending"} /\ funnel # <<>> /\ Len(wire) < WireCap
  /\ funnel' = Tail(funnel)
  /\ wire' = IF encoded THEN Append(wire, Head(funnel)) ELSE wire
  /\ UNCHANGED <<recVars, spc, wild, streamVars, burst, seq, clientVars, histVars>>

\* Every stream has ended, closed and read out or broken: the pump is exhausted.
Exhausted ==
  /\ spc = "live" /\ reading = NoRec
  /\ \A r \in fan : closed /\ cursor[r] = written[r]
  /\ spc' = "ending"
  /\ UNCHANGED <<recVars, wild, streamVars, burst, seq, funnel, wire, clientVars,
                 histVars>>

\* The funnel is flushed and the subscribe id gets its error reply.
ReportEnd ==
  /\ spc = "ending" /\ funnel = <<>> /\ Len(wire) < WireCap
  /\ wire' = Append(wire, [type |-> "error"])
  /\ spc' = "over"
  /\ UNCHANGED <<recVars, wild, streamVars, burst, seq, funnel, clientVars, histVars>>

-----------------------------------------------------------------------------
(* The client.                                                             *)

\* Variant: an update leaves no slot for the terminal error.
ReservedForBurst(type) == IF type = "burstBody" THEN 1 ELSE 0

\* Variant: a burst's body may fill the slot of its end.
ReservedForError(type) == 1

\* Slots an update of this kind leaves free.
Reserved(type) == IF type = "burstBody" THEN 2 ELSE 1

\* Variant: a drop moves the cursor as well.
CursorAfterAll(u, delivered) == u.seq

\* The cursor moves only when the update is delivered.
CursorAfter(u, delivered) ==
  IF delivered /\ u.seq > lastSeq THEN u.seq ELSE lastSeq

\* The gap before an update.
Skipped(u) == IF u.seq > lastSeq + 1 THEN u.seq - (lastSeq + 1) ELSE 0

\* deliver: without a free slot the update is dropped, and counted with the
\* next; a dropped stream is pruned.
Deliver(u) ==
  IF ~held
  THEN UNCHANGED <<held, lastSeq, sink>>
  ELSE LET fits == Len(sink) + Reserved(u.type) < SinkCap
       IN  /\ held' = ~(fits /\ gone)
           /\ sink' = IF fits /\ ~gone
                      THEN Append(sink, [type |-> u.type, rec |-> u.rec, val |-> u.val,
                                         skipped |-> Skipped(u), upTo |-> u.upTo])
                      ELSE sink
           /\ lastSeq' = IF fits /\ gone THEN 0 ELSE CursorAfter(u, fits)

\* end_sub: the terminal error, if there is room for it, and no more sink.
EndSub ==
  /\ held' = FALSE
  /\ lastSeq' = 0
  /\ sink' = IF held /\ ~gone /\ Len(sink) < SinkCap
             THEN Append(sink, [type |-> "error"]) ELSE sink

Recv ==
  /\ wire # <<>>
  /\ wire' = Tail(wire)
  /\ IF Head(wire).type = "error" THEN EndSub ELSE Deliver(Head(wire))
  /\ UNCHANGED <<recVars, spc, wild, streamVars, burst, seq, funnel, gone, histVars>>

\* A frame whose value has no stamp ends the subscription.
RecvStampless ==
  /\ wire # <<>> /\ Head(wire).type # "error"
  /\ wire' = Tail(wire)
  /\ EndSub
  /\ UNCHANGED <<recVars, spc, wild, streamVars, burst, seq, funnel, gone, histVars>>

\* The connection is lost: so is what was in flight, and the sink's sender.
Disconnect ==
  /\ spc # "lost"
  /\ spc' = "lost"
  /\ funnel' = <<>> /\ wire' = <<>> /\ burst' = <<>>
  /\ held' = FALSE /\ lastSeq' = 0
  /\ UNCHANGED <<recVars, wild, streamVars, seq, sink, gone, histVars>>

-----------------------------------------------------------------------------
(* The subscriber.                                                         *)

Take ==
  /\ sink # <<>> /\ ~gone
  /\ sink' = Tail(sink)
  /\ LET u == Head(sink)
     IN  IF u.type = "error"
         THEN UNCHANGED takenVars
         ELSE /\ accounted' = accounted + 1 + u.skipped
              /\ missed' = missed + u.skipped
              /\ upTo' = u.upTo
              /\ known' = [known EXCEPT ![u.rec] = u.val]
  /\ UNCHANGED <<recVars, serverVars, held, lastSeq, gone, madeVars>>

DropStream ==
  /\ ~gone /\ gone' = TRUE
  /\ UNCHANGED <<recVars, serverVars, held, lastSeq, sink, histVars>>

-----------------------------------------------------------------------------
Next ==
  \/ \E r \in Records : Write(r) \/ TakenByAnother(r) \/ Lag(r) \/ Pump(r) \/ EndStream(r)
  \/ \E encoded \in BOOLEAN : SendSnapshot(encoded) \/ Forward(encoded)
  \/ CloseBuffers \/ Open \/ ReadSnapshots \/ StartPump \/ Exhausted \/ ReportEnd
  \/ Recv \/ RecvStampless \/ Disconnect
  \/ Take \/ DropStream

Spec == Init /\ [][Next]_vars

\* The records are interchangeable.
RecordSymmetry == Permutations(Records)

-----------------------------------------------------------------------------
Updates ==
  [type : {"event", "burstBody", "burstEnd"}, rec : Records, val : Nat, seq : Nat,
   upTo : Nat]

Items ==
  [type : {"event", "burstBody", "burstEnd"}, rec : Records, val : Nat,
   skipped : Nat, upTo : Nat]
  \union [type : {"error"}]

\* Every variable has its type; the funnel and the sink stay bounded.
TypeOK ==
  /\ kind \in [Records -> Kinds] /\ written \in [Records -> Nat] /\ closed \in BOOLEAN
  /\ spc \in {"open", "snapshots", "burst", "live", "ending", "over", "lost"}
  /\ wild \in BOOLEAN /\ fan \subseteq Records
  /\ cursor \in [Records -> Nat] /\ skipped \in [Records -> Nat]
  /\ reading \in Records \union {NoRec}
  /\ burst \in Seq(Records \X Nat) /\ seq \in Nat
  /\ funnel \in Seq(Updates) /\ Len(funnel) <= FunnelCap
  /\ wire \in Seq(Updates \union [type : {"error"}]) /\ Len(wire) <= WireCap
  /\ held \in BOOLEAN /\ gone \in BOOLEAN /\ lastSeq \in Nat
  /\ sink \in Seq(Items) /\ Len(sink) <= SinkCap
  /\ made \in Seq(Records \X Nat)
  /\ opened \in [Records -> Nat] /\ passed \in [Records -> Nat]
  /\ accounted \in Nat /\ upTo \in Nat /\ missed \in Nat
  /\ known \in [Records -> Nat]

\* "one delta against the last delivered seq captures every loss point": with
\* each update it receives, the subscriber has received or been told of exactly
\* the updates there were by then: the snapshots, the values the streams yielded
\* and what a ring lost before one of these.  (Outside this count: what a ring
\* loses before a value that ends its stream, and what the other kinds overwrite.)
EveryLossCounted == accounted = upTo

\* The streams have read all there is, and the subscriber accounts for all of it
\* and was told of no loss.
Complete ==
  /\ spc \in {"live", "ending", "over"}
  /\ \A r \in fan : cursor[r] = written[r]
  /\ accounted = Len(made) /\ missed = 0

\* A subscriber is to know the current value of a SingleLatest from the start, of a
\* ring what was written since its stream was opened, of a mailbox nothing.
Promised(r) ==
  CASE kind[r] = "SpmcRing" -> written[r] > opened[r]
    [] kind[r] = "SingleLatest" -> written[r] > 0
    [] kind[r] = "Mailbox" -> FALSE

\* A subscriber that was told of no loss knows the last value of every record that
\* still streams: a SingleLatest's by its replay, on an exact topic as on a
\* wildcard, and whatever was written between the opening of the streams and the
\* reading of the snapshots.  And what it knows of a record never goes back: no
\* snapshot is newer than what the stream yields next.  (With the types and the
\* queues' bounds.)
NothingInBetween ==
  /\ TypeOK
  /\ Complete => \A r \in fan : Promised(r) => known[r] = written[r]
  /\ \A i \in DOMAIN sink :
       sink[i].type # "error" => sink[i].val >= known[sink[i].rec]

\* The slots that deliver holds back are there when they are needed, however slow
\* the subscriber.  "the burst's final snapshot is delivered unconditionally"; and
\* a subscription that is ended by the server or by a broken frame ends with its
\* error ("it reaches the subscriber even behind a full queue").
ReservedSlotsHold ==
  [][/\ wire # <<>> /\ Head(wire).type = "burstEnd" /\ wire' = Tail(wire)
        /\ held /\ held' /\ ~gone
          => Len(sink') = Len(sink) + 1
     /\ held /\ ~held' /\ ~gone /\ spc' # "lost"
          => sink' # <<>> /\ Last(sink').type = "error"]_vars
=============================================================================
