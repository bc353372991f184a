--------------------------- MODULE OutboundRoutes ---------------------------
(***************************************************************************)
(* The outbound links of one connector scheme, pulled by its transport     *)
(* task: aimdb-core/src/outbound/ready.rs (which routes woke) and          *)
(* aimdb-core/src/outbound/routes.rs (staging and per-route counters).     *)
(*                                                                         *)
(* Every route's record is a ring buffer with one reader.  A write takes   *)
(* the reader's waker out of the buffer, sets the route's bit and wakes    *)
(* the transport task; none of these steps takes a lock, so they           *)
(* interleave with every step of the transport task's scan.  A reader that *)
(* returned a value keeps no waker: a bit that is lost stalls the route.   *)
(***************************************************************************)
EXTENDS Integers, FiniteSets, Sequences

CONSTANTS
  N,             \* number of routes; a RouteId is 0 .. N-1
  WordSize,      \* routes whose bits share one atomic word (32 in the code)
  SkipBudget,    \* skips in a row one route may take in a pass (32)
  Capacity,      \* capacity of every record's ring
  Kinds,         \* outcomes of serializing a value that are exercised
  MaxProduced    \* bound: values written to any two routes together

Outcomes == {"staged", "topic_overflow", "serialize_failed"}

ASSUME RoutesAssumption ==
  /\ N \in Nat \ {0}
  /\ WordSize \in Nat \ {0}
  /\ SkipBudget \in Nat \ {0}
  /\ Capacity \in Nat \ {0}
  /\ Kinds \subseteq Outcomes
  /\ MaxProduced \in Nat

VARIABLES
  buf,        \* buf[r]: values in the ring, each the outcome of serializing it
  missed,     \* missed[r]: values overwritten that the reader has yet to report
  closed,     \* closed[r]: the record's buffer is gone
  rwaker,     \* rwaker[r]: the buffer holds the route's waker
  ppc,        \* ppc[r]: how far the writer of r is in waking the task
  ready,      \* routes whose bit is set
  deferred,   \* routes whose waker the executor fires once the task yields
  taskWaker,  \* the AtomicWaker holds the transport task's waker
  notified,   \* the executor has been told to poll the transport task
  tpc,        \* where the transport task is
  cur,        \* the route taken by the scan
  skips,      \* skips in a row on the current route
  start,      \* Pass::start
  next,       \* Pass::next, in positions start .. start + N
  cursor,     \* the route served last
  open,       \* routes that are not closed
  staged,     \* the staged message's route, or NoRoute
  inHand,     \* the message lent to the connector: its route, or NoRoute
  produced,   \* produced[r]: values written so far (history)
  stats,      \* RouteStats of every route
  owed        \* owed[r]: routes ready when r was last served and not polled
              \* since (history)

bufferVars == <<buf, missed, closed, rwaker, ppc, produced>>
taskVars   == <<tpc, cur, skips, start, next, cursor, open>>
vars == <<bufferVars, ready, deferred, taskWaker, notified, taskVars,
          staged, inHand, stats, owed>>

Routes  == 0 .. N - 1
NoRoute == -1

StatFields == {"sent", "rejected", "lagged", "topic_overflow", "serialize_failed"}

RouteStats == [StatFields -> Nat]

NewStats == [f \in StatFields |-> 0]

TaskStates == {"running", "register", "scan", "clear", "poll", "parked", "done"}

(***************************************************************************)
(* OutboundRoutes::new and ReadyRoutes::new: all routes open and all bits  *)
(* set, since no reader has registered a waker; the first pass starts at   *)
(* route 0.                                                                *)
(***************************************************************************)
Init ==
  /\ buf = [r \in Routes |-> <<>>]
  /\ missed = [r \in Routes |-> 0]
  /\ closed = [r \in Routes |-> FALSE]
  /\ rwaker = [r \in Routes |-> FALSE]
  /\ ppc = [r \in Routes |-> "idle"]
  /\ ready = Routes
  /\ deferred = {}
  /\ taskWaker = FALSE
  /\ notified = FALSE
  /\ tpc = "running"
  /\ cur = 0
  /\ skips = 0
  /\ start = 0
  /\ next = 0
  /\ cursor = N - 1
  /\ open = Routes
  /\ staged = NoRoute
  /\ inHand = NoRoute
  /\ produced = [r \in Routes |-> 0]
  /\ stats = [r \in Routes |-> NewStats]
  /\ owed = [r \in Routes |-> {}]

-----------------------------------------------------------------------------
(* The AtomicWaker that holds the transport task (futures-util).           *)

\* Some writer has taken the slot's lock and not released it yet.
Waking == \E r \in Routes : ppc[r] = "waking"

\* register: a wake in progress makes it wake the task instead of storing.
RegisterTask ==
  /\ taskWaker' = (taskWaker \/ ~Waking)
  /\ notified' = (notified \/ Waking)

\* wake, from a context nothing interleaves with: it does nothing while
\* another wake is in progress, and takes the waker out otherwise.
WakeTask ==
  IF Waking
  THEN UNCHANGED <<taskWaker, notified>>
  ELSE /\ taskWaker' = FALSE
       /\ notified' = (notified \/ taskWaker)

-----------------------------------------------------------------------------
(* Writers.  One per route: a record has one writer.                       *)

\* The waker a write finds in the buffer is taken out and fired afterwards.
TakeReaderWaker(r) ==
  /\ rwaker' = [rwaker EXCEPT ![r] = FALSE]
  /\ ppc' = [ppc EXCEPT ![r] = IF rwaker[r] THEN "set" ELSE "idle"]

\* The bound on writes; a route's own share falls with its number.
WithinBound(r) ==
  /\ produced[r] + r < MaxProduced
  /\ \A s \in Routes \ {r} : produced[r] + produced[s] < MaxProduced

\* Push onto the ring; a full ring overwrites its oldest value.
Push(r, kind) ==
  /\ ppc[r] = "idle" /\ ~closed[r]
  /\ WithinBound(r)
  /\ produced' = [produced EXCEPT ![r] = @ + 1]
  /\ IF Len(buf[r]) < Capacity
     THEN /\ buf' = [buf EXCEPT ![r] = Append(@, kind)]
          /\ missed' = missed
     ELSE /\ buf' = [buf EXCEPT ![r] = Append(Tail(@), kind)]
          /\ missed' = [missed EXCEPT ![r] = @ + 1]
  /\ TakeReaderWaker(r)
  /\ UNCHANGED <<closed, ready, deferred, taskWaker, notified, taskVars,
                 staged, inHand, stats, owed>>

\* The record's buffer is dropped.
CloseBuffer(r) ==
  /\ ppc[r] = "idle" /\ ~closed[r]
  /\ closed' = [closed EXCEPT ![r] = TRUE]
  /\ TakeReaderWaker(r)
  /\ UNCHANGED <<buf, missed, produced, ready, deferred, taskWaker, notified,
                 taskVars, staged, inHand, stats, owed>>

\* RouteWake::wake_by_ref, first half: set the route's bit.
SetBit(r) ==
  /\ ppc[r] = "set"
  /\ ready' = ready \union {r}
  /\ ppc' = [ppc EXCEPT ![r] = "wake"]
  /\ UNCHANGED <<buf, missed, closed, rwaker, produced, deferred, taskWaker,
                 notified, taskVars, staged, inHand, stats, owed>>

\* RouteWake::wake_by_ref, second half: enter the task's waker slot.
WakeBegin(r) ==
  /\ ppc[r] = "wake"
  /\ ppc' = [ppc EXCEPT ![r] = IF Waking THEN "idle" ELSE "waking"]
  /\ UNCHANGED <<buf, missed, closed, rwaker, produced, ready, deferred,
                 taskWaker, notified, taskVars, staged, inHand, stats, owed>>

\* ... and take the task's waker out, if there is one, and fire it.
WakeEnd(r) ==
  /\ ppc[r] = "waking"
  /\ ppc' = [ppc EXCEPT ![r] = "idle"]
  /\ taskWaker' = FALSE
  /\ notified' = (notified \/ taskWaker)
  /\ UNCHANGED <<buf, missed, closed, rwaker, produced, ready, deferred,
                 taskVars, staged, inHand, stats, owed>>

\* The executor fires a waker a reader deferred when the budget was spent.
FireDeferred(r) ==
  /\ r \in deferred
  /\ deferred' = deferred \ {r}
  /\ ready' = ready \union {r}
  /\ WakeTask
  /\ UNCHANGED <<bufferVars, taskVars, staged, inHand, stats, owed>>

-----------------------------------------------------------------------------
(* The transport task.                                                     *)

\* The executor runs the parked task because it was notified, or because
\* another arm of its select woke it.
Resume ==
  /\ tpc = "parked"
  /\ tpc' = "running"
  /\ notified' = FALSE
  /\ UNCHANGED <<bufferVars, ready, deferred, taskWaker, cur, skips, start,
                 next, cursor, open, staged, inHand, stats, owed>>

\* poll_stage with nothing staged: poll_ready starts, or is already final.
PollStage ==
  /\ tpc = "running" /\ staged = NoRoute /\ inHand = NoRoute
  /\ tpc' = IF open = {} THEN "done" ELSE "register"
  /\ UNCHANGED <<bufferVars, ready, deferred, taskWaker, notified, cur, skips,
                 start, next, cursor, open, staged, inHand, stats, owed>>

\* The Pass and the route being polled are locals of poll_ready.
DropLocals == cur' = 0 /\ skips' = 0 /\ start' = 0 /\ next' = 0

\* Variant: every pass starts at the first route.
PassStartAtZero == 0

\* The pass starts at the route after the one served last.
PassStart == (cursor + 1) % N

\* Register the task before any bit is read, then start the pass.
BeginPass ==
  /\ tpc = "register"
  /\ RegisterTask
  /\ start' = PassStart
  /\ next' = PassStart
  /\ tpc' = "scan"
  /\ UNCHANGED <<bufferVars, ready, deferred, cur, skips, cursor, open,
                 staged, inHand, stats, owed>>

\* Routes of the word at the scan's position, as far as this pass goes.
WordEnd(id) == ((id \div WordSize) + 1) * WordSize

SegmentEnd(id, hi) == IF WordEnd(id) < hi THEN WordEnd(id) ELSE hi

\* first_ready loads one word of bits; take_next takes its lowest open bit
\* and leaves the position after it.
ScanWord ==
  /\ tpc = "scan" /\ next < start + N
  /\ LET wrapped == next >= N
         id      == IF wrapped THEN next - N ELSE next
         end     == SegmentEnd(id, IF wrapped THEN start ELSE N)
         hits    == {j \in id .. end - 1 : j \in ready /\ j \in open}
     IN  IF hits = {}
         THEN /\ next' = next + (end - id)
              /\ UNCHANGED <<tpc, cur, skips>>
         ELSE \E j \in hits :
                /\ \A i \in hits : j <= i
                /\ cur' = j
                /\ next' = next + (j - id) + 1
                /\ skips' = 0
                /\ tpc' = "clear"
  /\ UNCHANGED <<bufferVars, ready, deferred, taskWaker, notified, start,
                 cursor, open, staged, inHand, stats, owed>>

\* Shared::clear, before the route is polled.
ClearBit ==
  /\ tpc = "clear"
  /\ ready' = ready \ {cur}
  /\ owed' = [r \in Routes |-> owed[r] \ {cur}]
  /\ tpc' = "poll"
  /\ UNCHANGED <<bufferVars, deferred, taskWaker, notified, cur, skips, start,
                 next, cursor, open, staged, inHand, stats>>

\* The pass is over: final once every route is closed, else Pending.
EndPass ==
  /\ tpc = "scan" /\ next = start + N
  /\ tpc' = IF open = {} THEN "done" ELSE "parked"
  /\ DropLocals
  /\ UNCHANGED <<bufferVars, ready, deferred, taskWaker, notified, cursor,
                 open, staged, inHand, stats, owed>>

Count(r, field, n) == [stats EXCEPT ![r][field] = @ + n]

\* Polled::Staged: served(id) sets the bit again without a wake and moves the
\* cursor, and poll_ready returns Ready.
Served ==
  /\ ready' = ready \union {cur}
  /\ cursor' = cur
  /\ tpc' = "running"
  /\ owed' = [owed EXCEPT ![cur] = (ready \intersect open) \ {cur}]
  /\ DropLocals
  /\ UNCHANGED <<taskWaker, notified>>

PollStaged ==
  /\ tpc = "poll" /\ missed[cur] = 0 /\ buf[cur] # <<>>
  /\ Head(buf[cur]) = "staged"
  /\ buf' = [buf EXCEPT ![cur] = Tail(@)]
  /\ stats' = Count(cur, "sent", 1)
  /\ staged' = cur
  /\ Served
  /\ UNCHANGED <<missed, closed, rwaker, ppc, produced, deferred, open, inHand>>

\* The scan goes on after the route just polled.
GoOn == tpc' = "scan" /\ cur' = 0 /\ skips' = 0

\* Variant: a route that used up its budget is left without a wake-up.
SkipAndForget ==
  /\ IF skips + 1 = SkipBudget
     THEN GoOn
     ELSE skips' = skips + 1 /\ UNCHANGED <<tpc, cur>>
  /\ UNCHANGED <<ready, taskWaker, notified, cursor, owed>>

\* Polled::Skipped: poll the route again, until the budget is spent; then its
\* own waker sets its bit and wakes the task, and the scan goes on.
Skip ==
  /\ IF skips + 1 = SkipBudget
     THEN /\ ready' = ready \union {cur}
          /\ WakeTask
          /\ GoOn
     ELSE /\ skips' = skips + 1
          /\ UNCHANGED <<ready, taskWaker, notified, tpc, cur>>
  /\ UNCHANGED <<cursor, owed>>

\* The reader lagged: it reports every overwritten value at once.
PollLagged ==
  /\ tpc = "poll" /\ missed[cur] > 0
  /\ missed' = [missed EXCEPT ![cur] = 0]
  /\ stats' = Count(cur, "lagged", missed[cur])
  /\ Skip
  /\ UNCHANGED <<buf, closed, rwaker, ppc, produced, deferred, start, next,
                 open, staged, inHand>>

\* Variant: a value that could not be staged is not counted.
PollSkippedUncounted ==
  /\ tpc = "poll" /\ missed[cur] = 0 /\ buf[cur] # <<>>
  /\ Head(buf[cur]) # "staged"
  /\ buf' = [buf EXCEPT ![cur] = Tail(@)]
  /\ Skip
  /\ UNCHANGED <<missed, closed, rwaker, ppc, produced, deferred, start, next,
                 open, staged, inHand, stats>>

\* A value was taken; its topic did not fit or serializing it failed.
PollSkipped ==
  /\ tpc = "poll" /\ missed[cur] = 0 /\ buf[cur] # <<>>
  /\ Head(buf[cur]) # "staged"
  /\ buf' = [buf EXCEPT ![cur] = Tail(@)]
  /\ stats' = Count(cur, Head(buf[cur]), 1)
  /\ Skip
  /\ UNCHANGED <<missed, closed, rwaker, ppc, produced, deferred, start, next,
                 open, staged, inHand>>

\* Variant: a closed buffer ends the route with values still in it.
PollClosedEarly ==
  /\ tpc = "poll" /\ closed[cur]
  /\ open' = open \ {cur}
  /\ GoOn
  /\ UNCHANGED <<bufferVars, ready, deferred, taskWaker, notified, start, next,
                 cursor, staged, inHand, stats, owed>>

\* Polled::Closed: a drained, closed buffer; the route is never taken again.
PollClosed ==
  /\ tpc = "poll" /\ missed[cur] = 0 /\ buf[cur] = <<>> /\ closed[cur]
  /\ open' = open \ {cur}
  /\ GoOn
  /\ UNCHANGED <<bufferVars, ready, deferred, taskWaker, notified, start, next,
                 cursor, staged, inHand, stats, owed>>

\* Polled::Pending: the reader keeps the route's waker.
PollPending ==
  /\ tpc = "poll" /\ missed[cur] = 0 /\ buf[cur] = <<>> /\ ~closed[cur]
  /\ rwaker' = [rwaker EXCEPT ![cur] = TRUE]
  /\ GoOn
  /\ UNCHANGED <<buf, missed, closed, ppc, produced, ready, deferred,
                 taskWaker, notified, start, next, cursor, open, staged, inHand,
                 stats, owed>>

\* Polled::Pending because the task's cooperative budget is spent: the reader
\* looked at nothing, and its waker fires once the task yields.
PollBudgetSpent ==
  /\ tpc = "poll"
  /\ deferred' = deferred \union {cur}
  /\ GoOn
  /\ UNCHANGED <<bufferVars, ready, taskWaker, notified, start, next, cursor,
                 open, staged, inHand, stats, owed>>

\* Variant: the message is lent and stays staged.
PeekStaged ==
  /\ tpc = "running" /\ staged # NoRoute
  /\ inHand' = staged
  /\ UNCHANGED <<bufferVars, ready, deferred, taskWaker, notified, taskVars,
                 staged, stats, owed>>

\* take_staged lends the message and clears it.
TakeStaged ==
  /\ tpc = "running" /\ staged # NoRoute
  /\ staged' = NoRoute
  /\ inHand' = staged
  /\ UNCHANGED <<bufferVars, ready, deferred, taskWaker, notified, taskVars,
                 stats, owed>>

\* The connector is done with the message: sent, or counted by reject(id).
Send(rejected) ==
  /\ tpc = "running" /\ inHand # NoRoute
  /\ inHand' = NoRoute
  /\ stats' = IF rejected THEN Count(inHand, "rejected", 1) ELSE stats
  /\ UNCHANGED <<bufferVars, ready, deferred, taskWaker, notified, taskVars,
                 staged, owed>>

\* Once every route is closed the transport stops pulling.
Finished ==
  /\ tpc = "done" /\ \A r \in Routes : closed[r] /\ ppc[r] = "idle"
  /\ deferred = {}
  /\ UNCHANGED vars

-----------------------------------------------------------------------------
Wake(r) == SetBit(r) \/ WakeBegin(r) \/ WakeEnd(r)

Writer(r) == (\E kind \in Kinds : Push(r, kind)) \/ CloseBuffer(r)

Poll ==
  \/ PollStaged \/ PollLagged \/ PollSkipped \/ PollClosed \/ PollPending
  \/ PollBudgetSpent

\* The steps of a poll of the task, one after the other.
Running ==
  \/ PollStage \/ BeginPass \/ ScanWord \/ ClearBit \/ EndPass
  \/ Poll \/ TakeStaged \/ \E rejected \in BOOLEAN : Send(rejected)

Transport == Resume \/ Running

Next ==
  \/ \E r \in Routes : Writer(r) \/ Wake(r) \/ FireDeferred(r)
  \/ Transport
  \/ Finished

Spec == Init /\ [][Next]_vars

\* A write's wake-up runs to its end: ready.rs asks for a transport that does
\* not outrank its producers.  The executor polls a notified task and fires
\* deferred wakers.  Tokio refills a task's budget whenever it yields, so a
\* route polled again and again is at some point really looked at.
Fairness ==
  /\ WF_vars(\E r \in Routes : Wake(r))
  /\ \A r \in Routes : WF_vars(FireDeferred(r))
  /\ WF_vars((notified /\ Resume) \/ Running)
  /\ \A r \in Routes :
       SF_vars(cur = r /\ (PollStaged \/ PollLagged \/ PollSkipped \/ PollClosed
                           \/ PollPending))

FairSpec == Spec /\ Fairness

-----------------------------------------------------------------------------
BufferTypes ==
  /\ buf \in [Routes -> Seq(Outcomes)]
  /\ missed \in [Routes -> Nat]
  /\ closed \in [Routes -> BOOLEAN]
  /\ rwaker \in [Routes -> BOOLEAN]
  /\ ppc \in [Routes -> {"idle", "set", "wake", "waking"}]
  /\ produced \in [Routes -> Nat]

WakeTypes ==
  /\ ready \in SUBSET Routes
  /\ deferred \in SUBSET Routes
  /\ taskWaker \in BOOLEAN
  /\ notified \in BOOLEAN

TaskTypes ==
  /\ tpc \in TaskStates
  /\ cur \in Routes
  /\ skips \in Nat
  /\ start \in Routes
  /\ next \in start .. start + N
  /\ cursor \in Routes
  /\ open \in SUBSET Routes

StageTypes ==
  /\ staged \in Routes \union {NoRoute}
  /\ inHand \in Routes \union {NoRoute}
  /\ stats \in [Routes -> RouteStats]
  /\ owed \in [Routes -> SUBSET Routes]

\* Every variable has its type; the pass position stays within one pass.
TypeOK == BufferTypes /\ WakeTypes /\ TaskTypes /\ StageTypes

\* The reader of r has something to return: a value, a lag or the closure.
Hungry(r) == buf[r] # <<>> \/ missed[r] > 0 \/ closed[r]

\* No wake-up is lost (the claim ready.rs is built around): when the transport
\* task sleeps, nothing has notified it and no writer or deferred waker is
\* still about to, every open route's buffer is drained and open.
NoLostWake ==
  (/\ tpc = "parked" /\ ~notified /\ deferred = {}
   /\ \A r \in Routes : ppc[r] = "idle")
  => \A r \in open : ~Hungry(r)

\* The values of r that its RouteStats have counted; a rejected one was sent.
Booked(r) == stats[r]["sent"] + stats[r]["lagged"]
             + stats[r]["topic_overflow"] + stats[r]["serialize_failed"]

\* Every value written to a route is accounted for exactly once: it is still
\* in the ring, or RouteStats counts it as sent, lagged or skipped.
Accounting == \A r \in Routes : produced[r] = Len(buf[r]) + missed[r] + Booked(r)

\* Ready(None) is final and leaves nothing behind: every buffer is closed and
\* drained, and no message is staged.
FinalMeansDrained ==
  tpc = "done" =>
    /\ staged = NoRoute
    /\ \A r \in Routes : closed[r] /\ buf[r] = <<>> /\ missed[r] = 0

\* Round robin (the contract of poll_ready): every other route that was ready
\* when a route was served is polled before that route is served again.
RoundRobin ==
  [][staged' # staged /\ staged' # NoRoute => owed[staged'] = {}]_vars

\* A route with something to return is eventually polled, whatever the other
\* routes' writers do.
HungryRouteIsPolled ==
  \A r \in Routes :
    (r \in open /\ Hungry(r)) ~> (tpc = "poll" /\ cur = r)

-----------------------------------------------------------------------------
(* The inductive invariant behind NoLostWake.                              *)

InPass == tpc \in {"scan", "clear", "poll"}

\* Position of route r in the current pass.
Position(r) == IF r >= start THEN r ELSE r + N

\* The task will look at r's bit without having to be woken.
Ahead(r) ==
  \/ tpc \in {"running", "register"}
  \/ InPass /\ Position(r) >= next
  \/ tpc = "clear" /\ cur = r

\* While the task scans or sleeps, its waker is stored or has been fired.
TaskReachable == InPass \/ tpc = "parked" => taskWaker \/ notified

\* A set bit is still ahead of the scan, or the task is being woken for it.
BitsAreSeen ==
  \A r \in ready \intersect open :
    Ahead(r) \/ notified \/ Waking \/ ppc[r] = "wake"

\* Every open route's next event reaches its bit.
RouteArmed(r) ==
  \/ rwaker[r] /\ ~Hungry(r)
  \/ ppc[r] = "set"
  \/ r \in ready
  \/ r \in deferred
  \/ tpc = "poll" /\ cur = r

RoutesArmed == \A r \in open : RouteArmed(r)

\* A route the scan has taken is open, and its bit set until it is cleared;
\* the task is done only when no route is open.
ScanSound ==
  /\ tpc \in {"clear", "poll"} => cur \in open
  /\ tpc = "clear" => cur \in ready
  /\ tpc = "done" => open = {}

NoLostWakeInv == TaskReachable /\ BitsAreSeen /\ RoutesArmed /\ ScanSound

-----------------------------------------------------------------------------
(* The inductive invariants behind FinalMeansDrained and RoundRobin.       *)

\* A route is closed for good only once its buffer is closed and drained, and
\* a staged message is taken before the next poll.
FinalInv ==
  /\ \A r \in Routes \ open : closed[r] /\ buf[r] = <<>> /\ missed[r] = 0
  /\ staged # NoRoute => tpc = "running"
  /\ tpc = "done" => open = {}

\* When it is r's turn, counted from the route after the one served last.
Turn(r) == IF r > cursor THEN r ELSE r + N

\* A route r owes a turn to is ready and comes before r.
OwedComeFirst ==
  \A r \in Routes : \A q \in owed[r] : q \in ready \intersect open /\ Turn(q) < Turn(r)

\* A pass starts after the route served last, has not gone past a route that
\* is owed a turn, and the route it has taken is the one before its position.
PassInOrder ==
  /\ InPass => start = PassStart
  /\ InPass => \A r \in Routes : \A q \in owed[r] :
                 Position(q) >= next \/ (tpc = "clear" /\ cur = q)
  /\ tpc \in {"clear", "poll"} => Position(cur) = next - 1

RoundRobinInv == OwedComeFirst /\ PassInOrder

=============================================================================
