------------------------------- MODULE Serve -------------------------------
(***************************************************************************)
(* The accept loop of the session server, serve of                         *)
(* aimdb-core/src/session/server.rs: one task that accepts connections and *)
(* drives them all.  Its select polls the accept first and the connections *)
(* only when the accept is pending.  A connection here is something that   *)
(* is woken, polled and one day ends; ServerSession models what it does.   *)
(***************************************************************************)
EXTENDS Integers, FiniteSets, Sequences, SequencesExt

CONSTANTS
  Conns,          \* connection slots
  MaxConnections, \* SessionLimits::max_connections
  MaxAccepts      \* bound: connections the listener hands out

ASSUME ServeAssumption ==
  /\ IsFiniteSet(Conns) /\ MaxConnections \in Nat
  /\ Cardinality(Conns) > MaxConnections
  /\ MaxAccepts \in Nat

VARIABLES
  pc,          \* the arm the task is at
  conns,       \* connections in the FuturesUnordered
  ready,       \* its queue of woken connections
  polled,      \* connections polled in this call of poll_next
  yielded,     \* those of them that were woken again while they were polled
  afterError,  \* after_error
  yieldFirst,  \* this iteration's PendingOnce still has to yield
  turn,        \* flips with every failed accept, so that each is a step (history)
  missed,      \* failed accepts each woken connection has waited through (history)
  accepts      \* connections handed out so far (bound)

connVars == <<conns, ready>>
pollVars == <<polled, yielded>>
serveVars == <<pc, connVars, pollVars, afterError, yieldFirst, turn, missed, accepts>>

ServeInit ==
  /\ pc = "accept"
  /\ conns = {} /\ ready = <<>> /\ polled = 0 /\ yielded = 0
  /\ afterError = FALSE /\ yieldFirst = FALSE
  /\ turn = FALSE /\ missed = [c \in Conns |-> 0]
  /\ accepts = 0

-----------------------------------------------------------------------------
(* The accept arm.                                                         *)

\* The next iteration of the loop: a new PendingOnce, which yields after an
\* error.
Iterate(error) ==
  /\ pc' = "accept"
  /\ afterError' = error
  /\ yieldFirst' = error

\* A call of FuturesUnordered::poll_next begins.
NewPass == polled' = 0 /\ yielded' = 0

\* The accept arm is pending; the connections are polled.
FallThrough ==
  /\ pc = "accept"
  /\ pc' = "conns"
  /\ NewPass
  /\ yieldFirst' = FALSE
  /\ UNCHANGED <<connVars, afterError, turn, missed, accepts>>

\* The soft cap counts connections that are not reaped yet.
Full == Cardinality(conns) >= MaxConnections

\* A connection is accepted, and dropped over the cap.
AcceptOk ==
  /\ pc = "accept" /\ ~yieldFirst /\ accepts < MaxAccepts
  /\ accepts' = accepts + 1
  /\ \/ Full /\ UNCHANGED connVars
     \/ /\ ~Full
        /\ \E c \in Conns \ conns :
             conns' = conns \union {c} /\ ready' = Append(ready, c)
  /\ Iterate(FALSE)
  /\ UNCHANGED <<pollVars, turn, missed>>

\* Every woken connection has waited through one more failed accept; counted up
\* to the first number that is too high.
Missed == [c \in Conns |-> IF c \in Range(ready) /\ missed[c] <= MaxConnections
                           THEN missed[c] + 1 ELSE missed[c]]

\* Variant: the next accept is polled at once.
RetryAtOnce == Iterate(FALSE)

\* The next accept yields before it starts.
Retry == Iterate(TRUE)

\* The accept fails, now and possibly every time.
AcceptError ==
  /\ pc = "accept" /\ ~yieldFirst
  /\ turn' = ~turn
  /\ missed' = Missed
  /\ Retry
  /\ UNCHANGED <<connVars, pollVars, accepts>>

\* Variant: a closed listener is asked again, like one that failed once.
ListenerAskedAgain ==
  /\ pc = "accept" /\ ~yieldFirst
  /\ missed' = Missed
  /\ RetryAtOnce
  /\ UNCHANGED <<connVars, pollVars, turn, accepts>>

\* The listener hands out no more connections: every further accept would fail,
\* and none is asked for.
ListenerClosed ==
  /\ pc = "accept" /\ ~yieldFirst
  /\ missed' = Missed
  /\ pc' = "drain" /\ NewPass
  /\ UNCHANGED <<connVars, afterError, yieldFirst, turn, accepts>>

-----------------------------------------------------------------------------
(* The connections.                                                        *)

\* A connection has something to do: a frame, an update, the end.
Wake(c) ==
  /\ c \in conns /\ c \notin Range(ready)
  /\ ready' = Append(ready, c)
  /\ UNCHANGED <<pc, conns, pollVars, afterError, yieldFirst, turn, missed, accepts>>

\* FuturesUnordered polls at most as many connections in one call as it holds,
\* and none after the second that was woken while it was polled.
MayPoll == ready # <<>> /\ polled < Cardinality(conns) /\ yielded < 2

\* The first woken connection runs until it waits again, woken anew while it ran
\* or not ...
PollConn ==
  /\ pc \in {"conns", "drain"} /\ MayPoll
  /\ polled' = polled + 1
  /\ \/ ready' = Tail(ready) /\ UNCHANGED yielded
     \/ ready' = Append(Tail(ready), Head(ready)) /\ yielded' = yielded + 1
  /\ missed' = [missed EXCEPT ![Head(ready)] = 0]
  /\ UNCHANGED <<pc, conns, afterError, yieldFirst, turn, accepts>>

\* ... or until it ends, and is reaped.
ConnEnds ==
  /\ pc \in {"conns", "drain"} /\ MayPoll
  /\ ready' = Tail(ready)
  /\ conns' = conns \ {Head(ready)}
  /\ missed' = [missed EXCEPT ![Head(ready)] = 0]
  /\ IF pc = "conns"
     THEN Iterate(afterError) /\ UNCHANGED pollVars
     ELSE NewPass /\ UNCHANGED <<pc, afterError, yieldFirst>>
  /\ UNCHANGED <<turn, accepts>>

\* The task is woken again and polls its select, or its drain, anew.
Repoll ==
  /\ pc \in {"conns", "drain"} /\ ~MayPoll /\ conns # {}
  /\ pc' = IF pc = "conns" THEN "accept" ELSE "drain"
  /\ NewPass
  /\ UNCHANGED <<connVars, afterError, yieldFirst, turn, missed, accepts>>

\* With no connection, the select waits for the accept alone.
NothingToPoll ==
  /\ pc = "conns" /\ conns = {}
  /\ pc' = "accept"
  /\ UNCHANGED <<connVars, pollVars, afterError, yieldFirst, turn, missed, accepts>>

\* Every open connection has ended.
Done == conns = {}

Return ==
  /\ pc = "drain" /\ Done
  /\ pc' = "returned"
  /\ UNCHANGED <<connVars, pollVars, afterError, yieldFirst, turn, missed, accepts>>

Returned == pc = "returned" /\ UNCHANGED serveVars

-----------------------------------------------------------------------------
Task ==
  \/ FallThrough \/ AcceptOk \/ AcceptError
  \/ PollConn \/ ConnEnds \/ Repoll \/ NothingToPoll \/ Return

ServeNext == Task \/ ListenerClosed \/ (\E c \in Conns : Wake(c)) \/ Returned

ServeSpec == ServeInit /\ [][ServeNext]_serveVars

\* The executor keeps polling the task.
FairServeSpec == ServeSpec /\ WF_serveVars(Task)

-----------------------------------------------------------------------------
\* Every variable has its type, and no more connections are open than allowed.
ServeTypeOK ==
  /\ pc \in {"accept", "conns", "drain", "returned"}
  /\ conns \subseteq Conns /\ Cardinality(conns) <= MaxConnections
  /\ ready \in Seq(Conns) /\ polled \in Nat /\ yielded \in 0 .. 2
  /\ afterError \in BOOLEAN /\ yieldFirst \in BOOLEAN
  /\ turn \in BOOLEAN /\ missed \in [Conns -> Nat]
  /\ accepts \in 0 .. MaxAccepts

\* Accept attempts that fail, one after the other or between successes, cost a
\* woken connection at most one turn of the queue each: it waits through no more of
\* them than connections may be open.  A loop that asked a failing or a closed
\* listener again at once would let it wait for ever.
FailuresPassBy == ServeTypeOK /\ \A c \in Conns : missed[c] <= MaxConnections

\* "a listener that fails at once, every time, cannot starve them": a connection
\* with something to do is polled, one that is always woken again is polled again
\* and again.
WokenIsPolled ==
  \A c \in Conns :
    []<>(c \notin Range(ready)) \/ []<><<PollConn /\ Head(ready) = c>>_serveVars

=============================================================================
