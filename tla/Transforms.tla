----------------------------- MODULE Transforms -----------------------------
(***************************************************************************)
(* The tasks of derived records: single-input transforms and joins, from   *)
(* aimdb-core/src/transform/single.rs and join.rs.  A join has a forwarder *)
(* per input; the forwarders feed a bounded channel that the handler, user *)
(* code, reads until every forwarder has ended or it has seen enough.      *)
(*                                                                         *)
(* A record's values are numbered in the order they are written.  Records  *)
(* are rings, the buffer whose readers can lag (see BufferContract).  The  *)
(* tasks hold the database, so an input cannot close while one of them     *)
(* reads it.                                                               *)
(***************************************************************************)
EXTENDS InboundDispatch

CONSTANTS
  Ring,       \* capacity of a record's ring
  QueueCap    \* JOIN_QUEUE_CAPACITY

ASSUME TransformsAssumption == Ring \in Nat \ {0} /\ QueueCap \in Nat \ {0}

VARIABLES
  written,   \* written[k]: values written to record k
  reader,    \* the tasks that read an input, by derived record and input
  fanin,     \* fanin[k]: the join channel of k, the forwarded inputs
  handler    \* handler[k]: the join handler of k

transformVars == <<written, reader, fanin, handler>>

Derived == {[record |-> tasks[i].record, of |-> tasks[i].of] :
              i \in {i \in DOMAIN tasks : tasks[i].does = "transform"}}

Joins == {t \in Derived : t.of.join}

\* heard, missed and first are histories: values the handler was given, values
\* lost to lag, and the number of values before the first that can be read.
NewReader == [at |-> "start", seen |-> 0, first |-> 0, missed |-> 0, heard |-> 0]

TransformsInit ==
  /\ written = [k \in Keys |-> 0]
  /\ reader = <<>>
  /\ fanin = <<>>
  /\ handler = <<>>

\* The futures are first polled once build() has returned them.
StartRunner ==
  /\ reader' = [x \in UNION {{<<t.record, i>> : i \in DOMAIN t.of.inputs} : t \in Derived}
                  |-> NewReader]
  /\ fanin' = [k \in {t.record : t \in Joins} |-> <<>>]
  /\ handler' = [k \in {t.record : t \in Joins} |-> "running"]
  /\ UNCHANGED written

InputOf(x) == LET t == CHOOSE t \in Derived : t.record = x[1] IN t.of.inputs[x[2]]

Ends(x) == reader' = [reader EXCEPT ![x].at = "ended"]

\* RecordWriter::push: a record without a buffer drops the value.
Written(w, k) == [w EXCEPT ![k] = IF rec[k].buffer THEN @ + 1 ELSE @]

\* The transform or the handler returns an output or none.
MayProduce(k) == written' \in {written, Written(written, k)}

\* db.consumer() and subscribe(): an input without a buffer ends the task.
Subscribe(x) ==
  /\ reader[x].at = "start"
  /\ IF rec[InputOf(x)].buffer
       THEN reader' = [reader EXCEPT ![x] =
              [reader[x] EXCEPT !.at = "reading", !.seen = written[InputOf(x)],
                                !.first = written[InputOf(x)]]]
       ELSE Ends(x)
  /\ UNCHANGED <<written, fanin, handler>>

Behind(x) == written[InputOf(x)] - reader[x].seen

\* Variant: a lagging forwarder gives up its input.
GiveUp(x) ==
  /\ reader[x].at = "reading" /\ Behind(x) > Ring
  /\ Ends(x)
  /\ UNCHANGED <<written, fanin, handler>>

\* Variant: the lagging task asks again from where it was.
AskAgain(x) ==
  /\ reader[x].at = "reading" /\ Behind(x) > Ring
  /\ UNCHANGED transformVars

\* recv() reports a lag and moves to the oldest value left; the task goes on.
Lag(x) ==
  /\ reader[x].at = "reading" /\ Behind(x) > Ring
  /\ reader' = [reader EXCEPT ![x] =
       [reader[x] EXCEPT !.seen = written[InputOf(x)] - Ring, !.missed = @ + Behind(x) - Ring]]
  /\ UNCHANGED <<written, fanin, handler>>

\* recv() returns a value: a transform runs on it, a forwarder sends it.
Recv(x) ==
  /\ reader[x].at = "reading" /\ Behind(x) \in 1 .. Ring
  /\ IF x[1] \in DOMAIN handler
       THEN /\ reader' = [reader EXCEPT ![x] = [reader[x] EXCEPT !.at = "sending", !.seen = @ + 1]]
            /\ UNCHANGED written
       ELSE /\ reader' = [reader EXCEPT ![x] = [reader[x] EXCEPT !.seen = @ + 1, !.heard = @ + 1]]
            /\ MayProduce(x[1])
  /\ UNCHANGED <<fanin, handler>>

\* Variant: a value that finds the channel full is not sent.
TrySend(x) ==
  /\ reader[x].at = "sending"
  /\ reader' = [reader EXCEPT ![x].at = IF handler[x[1]] = "ended" THEN "ended" ELSE "reading"]
  /\ fanin' = IF handler[x[1]] = "ended" \/ Len(fanin[x[1]]) = QueueCap THEN fanin
              ELSE [fanin EXCEPT ![x[1]] = Append(@, x[2])]
  /\ UNCHANGED <<written, handler>>

\* tx.send().await: it waits while the channel is full, and fails once the
\* handler has dropped its end.
Send(x) ==
  /\ reader[x].at = "sending"
  /\ \/ /\ handler[x[1]] = "ended"
        /\ Ends(x)
        /\ UNCHANGED fanin
     \/ /\ handler[x[1]] = "running" /\ Len(fanin[x[1]]) < QueueCap
        /\ fanin' = [fanin EXCEPT ![x[1]] = Append(@, x[2])]
        /\ reader' = [reader EXCEPT ![x].at = "reading"]
  /\ UNCHANGED <<written, handler>>

\* The handler takes the next trigger.
Trigger(k) ==
  /\ handler[k] = "running" /\ fanin[k] # <<>>
  /\ fanin' = [fanin EXCEPT ![k] = Tail(@)]
  /\ reader' = [reader EXCEPT ![<<k, Head(fanin[k])>>].heard = @ + 1]
  /\ MayProduce(k)
  /\ UNCHANGED handler

Forwarders(k) == {x \in DOMAIN reader : x[1] = k}

\* The channel is closed once every forwarder has dropped its sender, and the
\* handler is told when it is also empty; or the handler returns on its own.
HandlerEnds(k) ==
  /\ handler[k] = "running"
  /\ handler' = [handler EXCEPT ![k] = "ended"]
  /\ fanin' = [fanin EXCEPT ![k] = <<>>]
  /\ UNCHANGED <<written, reader>>

QueueClosed(k) ==
  /\ fanin[k] = <<>> /\ \A x \in Forwarders(k) : reader[x].at = "ended"
  /\ HandlerEnds(k)

Returns(k) == HandlerEnds(k)

RunTransforms ==
  \/ \E x \in DOMAIN reader : Subscribe(x) \/ Lag(x) \/ Recv(x) \/ Send(x)
  \/ \E k \in DOMAIN handler : Trigger(k) \/ QueueClosed(k) \/ Returns(k)

-----------------------------------------------------------------------------
(***************************************************************************)
(* Every value of an input reaches the transform or the handler, is on its *)
(* way through the join's channel, or is counted as lagged: backpressure   *)
(* never drops a value without a report, and the channel keeps its bound.  *)
(* However far an input runs ahead, the task that reads it goes on: it     *)
(* ends only for want of a buffer or of somebody who listens.              *)
(***************************************************************************)
EveryValueCounted ==
  /\ \A k \in DOMAIN fanin : Len(fanin[k]) <= QueueCap
  /\ \A x \in DOMAIN reader :
       LET r == reader[x]
           queued == IF x[1] \in DOMAIN fanin
                       THEN Cardinality({i \in DOMAIN fanin[x[1]] : fanin[x[1]][i] = x[2]}) ELSE 0
       IN  \/ x[1] \in DOMAIN handler /\ handler[x[1]] = "ended"
           \/ /\ r.seen - r.first = r.missed + r.heard + queued + (IF r.at = "sending" THEN 1 ELSE 0)
              /\ r.at = "ended" => ~rec[InputOf(x)].buffer
=============================================================================
