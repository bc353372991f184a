------------------------ MODULE OutboundRoutesProofs ------------------------
(***************************************************************************)
(* For any number of routes, any word size, any skip budget and any ring   *)
(* capacity: OutboundRoutes is type correct, loses no wake-up, counts each *)
(* value once, ends drained and serves its routes round robin.             *)
(***************************************************************************)
EXTENDS OutboundRoutes, TLAPS

\* A word of bits ends after every route in it (ReadyRoutes::first_ready).
LEMMA WordEndAfter ==
  ASSUME NEW id \in Nat
  PROVE  WordEnd(id) \in Int /\ WordEnd(id) > id
  BY RoutesAssumption DEF WordEnd

\* One load of the scan stays within the word and within the pass.
LEMMA SegmentEndBounds ==
  ASSUME NEW id \in Nat, NEW hi \in Nat, id < hi
  PROVE  SegmentEnd(id, hi) \in id + 1 .. hi
  BY WordEndAfter DEF SegmentEnd

\* The scan starts at a route, whatever route was served last.
LEMMA PassStartIsRoute ==
  ASSUME TaskTypes
  PROVE  PassStart \in Routes
  BY RoutesAssumption DEF TaskTypes, PassStart, Routes

\* Type correctness of the initial state.
LEMMA TypeInit == Init => TypeOK
  BY RoutesAssumption
  DEF Init, TypeOK, BufferTypes, WakeTypes, TaskTypes, StageTypes, Routes,
      NoRoute, NewStats, RouteStats, TaskStates

\* A counter update keeps RouteStats well typed.
LEMMA CountType ==
  ASSUME StageTypes, NEW r \in Routes, NEW n \in Nat, NEW f \in StatFields
  PROVE  Count(r, f, n) \in [Routes -> RouteStats]
<1>1. stats \in [Routes -> RouteStats] /\ stats[r] \in [StatFields -> Nat]
  BY DEF StageTypes, RouteStats
<1>2. [stats[r] EXCEPT ![f] = @ + n] \in RouteStats
  BY <1>1 DEF RouteStats
<1> QED
  BY <1>1, <1>2 DEF Count

\* What one load of ready bits leaves: either the scan moves on, or it takes
\* the route cur', which has its bit set, is open and lies in this pass.
LEMMA ScanStep ==
  ASSUME TaskTypes, ScanWord
  PROVE  /\ next' \in next + 1 .. start + N
         /\ \A r \in ready \intersect open :
              Position(r) >= next => Position(r) >= next' \/ (tpc' = "clear" /\ cur' = r)
         /\ \/ tpc' = "scan" /\ cur' = cur /\ skips' = skips
            \/ tpc' = "clear" /\ cur' \in ready \intersect open /\ skips' = 0
<1> USE RoutesAssumption
<1> DEFINE wrapped == next >= N
           id   == IF wrapped THEN next - N ELSE next
           hi   == IF wrapped THEN start ELSE N
           end  == SegmentEnd(id, hi)
           hits == {j \in id .. end - 1 : j \in ready /\ j \in open}
<1>1. start \in Nat /\ next \in Nat /\ start < N /\ next < start + N /\ start <= next
  BY DEF ScanWord, TaskTypes, Routes
<1>2. id \in Nat /\ hi \in Nat /\ id < hi /\ hi <= N
  BY <1>1
<1>3. end \in id + 1 .. hi
  BY <1>2, SegmentEndBounds
<1> HIDE DEF end
<1>4. open \subseteq Routes /\ \A r \in Routes : r \in Int /\ Position(r) \in Int
  BY <1>1 DEF TaskTypes, Routes, Position
<1>5. \A r \in Routes : Position(r) >= next /\ Position(r) < next + (end - id) => r \in id .. end - 1
  BY <1>1, <1>2, <1>3 DEF Position, Routes
<1>6. CASE hits = {}
  <2>1. next' = next + (end - id) /\ UNCHANGED <<tpc, cur, skips>> /\ tpc = "scan"
    BY <1>6 DEF ScanWord, end
  <2>2. \A r \in ready \intersect open : Position(r) >= next => Position(r) >= next'
    <3> SUFFICES ASSUME NEW r \in ready \intersect open, Position(r) >= next, Position(r) < next'
                 PROVE  FALSE
      BY <1>1, <1>2, <1>3, <1>4, <2>1
    <3> QED BY <1>4, <1>5, <1>6, <2>1
  <2> QED BY <2>1, <2>2, <1>1, <1>2, <1>3
<1>7. CASE hits # {}
  <2>1. PICK j \in hits : /\ \A i \in hits : j <= i
                          /\ cur' = j /\ next' = next + (j - id) + 1
                          /\ skips' = 0 /\ tpc' = "clear"
    BY <1>7 DEF ScanWord, end
  <2>0. j \in Int /\ j \in id .. end - 1
    BY <1>2, <1>3
  <2>2. \A r \in ready \intersect open : Position(r) >= next => Position(r) >= next' \/ cur' = r
    <3> SUFFICES ASSUME NEW r \in ready \intersect open, Position(r) >= next, Position(r) < next', r # j
                 PROVE  FALSE
      BY <1>1, <1>2, <1>3, <1>4, <2>0, <2>1
    <3>0. r \in Routes /\ r \in Int
      BY <1>4
    <3>1. r \in id .. end - 1
      BY <1>1, <1>2, <1>3, <1>4, <1>5, <2>0, <2>1, <3>0
    <3>3. r < j
      BY <1>1, <1>2, <2>0, <2>1, <3>0 DEF Position, Routes
    <3>2. r \in hits
      BY <3>1
    <3> QED BY <3>0, <3>2, <3>3, <2>0, <2>1
  <2> QED BY <2>1, <2>2, <1>1, <1>2, <1>3
<1> QED BY <1>6, <1>7

\* The route a scan takes is the one just before the position it leaves.
LEMMA ScanTakes ==
  ASSUME TaskTypes, ScanWord, tpc' = "clear"
  PROVE  Position(cur') = next' - 1
<1> USE RoutesAssumption
<1> DEFINE id  == IF next >= N THEN next - N ELSE next
           end == SegmentEnd(id, IF next >= N THEN start ELSE N)
<1>1. start \in Nat /\ next \in Nat /\ start < N /\ next < start + N /\ start <= next
  BY DEF ScanWord, TaskTypes, Routes
<1>2. /\ next >= N => end \in id + 1 .. start
      /\ next < N => end \in id + 1 .. N
  BY <1>1, SegmentEndBounds
<1> HIDE DEF end
<1>3. PICK j \in id .. end - 1 : cur' = j /\ next' = next + (j - id) + 1
  BY DEF ScanWord, end
<1> QED BY <1>1, <1>2, <1>3 DEF Position

\* Taking the reader's waker out keeps the buffers well typed.
LEMMA TakeReaderWakerTypes ==
  ASSUME BufferTypes, NEW r \in Routes, TakeReaderWaker(r)
  PROVE  /\ rwaker' \in [Routes -> BOOLEAN]
         /\ ppc' \in [Routes -> {"idle", "set", "wake", "waking"}]
  BY DEF BufferTypes, TakeReaderWaker

\* So does a write, whether or not the ring is full.
LEMMA PushTypes ==
  ASSUME BufferTypes, NEW r \in Routes, NEW kind \in Kinds, Push(r, kind)
  PROVE  BufferTypes'
<1> USE RoutesAssumption
<1>1. buf[r] \in Seq(Outcomes) /\ kind \in Outcomes
  BY DEF BufferTypes
<1>2. buf' \in [Routes -> Seq(Outcomes)]
  <2>1. CASE Len(buf[r]) < Capacity
    <3>1. Append(buf[r], kind) \in Seq(Outcomes)
      BY <1>1
    <3> QED BY <2>1, <3>1 DEF Push, BufferTypes
  <2>2. CASE ~(Len(buf[r]) < Capacity)
    <3>1. buf[r] # <<>>
      BY <1>1, <2>2
    <3>2. Append(Tail(buf[r]), kind) \in Seq(Outcomes)
      BY <1>1, <3>1
    <3> QED BY <2>2, <3>2 DEF Push, BufferTypes
  <2> QED BY <2>1, <2>2
<1>3. missed' \in [Routes -> Nat] /\ produced' \in [Routes -> Nat]
  BY DEF Push, BufferTypes
<1> QED
  BY <1>2, <1>3, TakeReaderWakerTypes DEF Push, BufferTypes

\* A skipped value leaves the task and the ready set well typed.
LEMMA SkipTypes ==
  ASSUME TypeOK, Skip, UNCHANGED <<start, next, open, deferred>>
  PROVE  TaskTypes' /\ WakeTypes'
<1>1. 0 \in Routes
  BY RoutesAssumption DEF Routes
<1>2. WakeTypes'
  BY DEF Skip, GoOn, WakeTask, TypeOK, WakeTypes, TaskTypes
<1>3. TaskTypes'
  BY <1>1 DEF Skip, GoOn, TypeOK, TaskTypes, TaskStates
<1> QED BY <1>2, <1>3

\* Dropping the pass leaves its locals well typed.
LEMMA DropLocalsTypes ==
  ASSUME DropLocals
  PROVE  cur' \in Routes /\ skips' \in Nat /\ start' \in Routes /\ next' \in start' .. start' + N
  BY RoutesAssumption DEF DropLocals, Routes

\* Every step keeps every variable in its type.
LEMMA TypeNext == TypeOK /\ [Next]_vars => TypeOK'
<1> SUFFICES ASSUME TypeOK, [Next]_vars PROVE TypeOK'
  OBVIOUS
<1> USE RoutesAssumption
<1>0. 0 \in Routes
  BY DEF Routes
<1>1. ASSUME NEW r \in Routes, NEW kind \in Kinds, Push(r, kind) PROVE TypeOK'
  BY <1>1, PushTypes DEF Push, TypeOK, WakeTypes, TaskTypes, StageTypes, taskVars
<1>2. ASSUME NEW r \in Routes, CloseBuffer(r) PROVE TypeOK'
  <2>1. BufferTypes'
    BY <1>2, TakeReaderWakerTypes DEF CloseBuffer, TypeOK, BufferTypes
  <2> QED
    BY <1>2, <2>1 DEF CloseBuffer, TypeOK, WakeTypes, TaskTypes, StageTypes, taskVars
<1>3. ASSUME NEW r \in Routes, Wake(r) PROVE TypeOK'
  <2>1. BufferTypes'
    BY <1>3 DEF Wake, SetBit, WakeBegin, WakeEnd, TypeOK, BufferTypes
  <2>2. WakeTypes'
    BY <1>3 DEF Wake, SetBit, WakeBegin, WakeEnd, TypeOK, WakeTypes
  <2> QED
    BY <1>3, <2>1, <2>2
    DEF Wake, SetBit, WakeBegin, WakeEnd, TypeOK, TaskTypes, StageTypes, taskVars
<1>4. ASSUME NEW r \in Routes, FireDeferred(r) PROVE TypeOK'
  BY <1>4 DEF FireDeferred, WakeTask, TypeOK, BufferTypes, WakeTypes, TaskTypes,
              StageTypes, bufferVars, taskVars
<1>5. CASE Resume
  BY <1>5 DEF Resume, TypeOK, BufferTypes, WakeTypes, TaskTypes, StageTypes,
              bufferVars, TaskStates
<1>6. CASE PollStage
  BY <1>6 DEF PollStage, TypeOK, BufferTypes, WakeTypes, TaskTypes, StageTypes,
              bufferVars, TaskStates
<1>7. CASE BeginPass
  <2>1. TaskTypes'
    BY <1>7, PassStartIsRoute DEF BeginPass, TypeOK, TaskTypes, TaskStates, Routes
  <2>2. WakeTypes'
    BY <1>7 DEF BeginPass, RegisterTask, TypeOK, WakeTypes
  <2> QED
    BY <1>7, <2>1, <2>2 DEF BeginPass, TypeOK, BufferTypes, StageTypes, bufferVars
<1>8. CASE ScanWord
  <2>1. TaskTypes'
    <3>1. next' \in start .. start + N /\ start' = start /\ cursor' = cursor /\ open' = open
      BY <1>8, ScanStep DEF TypeOK, TaskTypes, Routes, ScanWord
    <3> QED BY <1>8, <3>1, ScanStep DEF TypeOK, TaskTypes, TaskStates
  <2> QED
    BY <1>8, <2>1 DEF ScanWord, TypeOK, BufferTypes, WakeTypes, StageTypes, bufferVars
<1>9. CASE ClearBit
  <2>1. owed' \in [Routes -> SUBSET Routes] /\ ready' \in SUBSET Routes
    BY <1>9 DEF ClearBit, TypeOK, StageTypes, WakeTypes
  <2> QED
    BY <1>9, <2>1 DEF ClearBit, TypeOK, BufferTypes, WakeTypes, TaskTypes, StageTypes,
                      bufferVars, TaskStates
<1>10. CASE EndPass
  <2>1. TaskTypes'
    BY <1>10, DropLocalsTypes DEF EndPass, TypeOK, TaskTypes, TaskStates
  <2> QED
    BY <1>10, <2>1 DEF EndPass, TypeOK, BufferTypes, WakeTypes, StageTypes, bufferVars
<1>11. CASE PollStaged
  <2>1. buf[cur] \in Seq(Outcomes) /\ buf[cur] # <<>> /\ cur \in Routes
    BY <1>11 DEF PollStaged, TypeOK, BufferTypes, TaskTypes
  <2>2. BufferTypes'
    BY <1>11, <2>1 DEF PollStaged, TypeOK, BufferTypes
  <2>3. stats' \in [Routes -> RouteStats]
    BY <1>11, <2>1, CountType DEF PollStaged, StatFields, TypeOK
  <2>4. StageTypes'
    BY <1>11, <2>1, <2>3 DEF PollStaged, Served, TypeOK, StageTypes, WakeTypes
  <2>5. WakeTypes'
    BY <1>11, <2>1 DEF PollStaged, Served, TypeOK, WakeTypes
  <2>6. TaskTypes'
    BY <1>11, DropLocalsTypes, <2>1 DEF PollStaged, Served, TypeOK, TaskTypes, TaskStates
  <2> QED
    BY <2>2, <2>4, <2>5, <2>6 DEF TypeOK
<1>12. CASE PollLagged
  <2>1. BufferTypes' /\ cur \in Routes /\ missed[cur] \in Nat
    BY <1>12 DEF PollLagged, TypeOK, BufferTypes, TaskTypes
  <2>2. stats' \in [Routes -> RouteStats]
    BY <1>12, <2>1, CountType DEF PollLagged, TypeOK, StatFields
  <2>3. TaskTypes' /\ WakeTypes'
    BY <1>12, SkipTypes DEF PollLagged
  <2> QED
    BY <1>12, <2>1, <2>2, <2>3 DEF PollLagged, Skip, TypeOK, StageTypes
<1>13. CASE PollSkipped
  <2>1. buf[cur] \in Seq(Outcomes) /\ buf[cur] # <<>> /\ cur \in Routes
    BY <1>13 DEF PollSkipped, TypeOK, BufferTypes, TaskTypes
  <2>2. BufferTypes'
    BY <1>13, <2>1 DEF PollSkipped, TypeOK, BufferTypes
  <2>3. Head(buf[cur]) \in StatFields
    <3>1. Head(buf[cur]) \in Outcomes
      BY <2>1
    <3> QED BY <3>1, <1>13 DEF PollSkipped, Outcomes, StatFields
  <2>4. stats' \in [Routes -> RouteStats]
    BY <1>13, <2>1, <2>3, CountType DEF PollSkipped, TypeOK
  <2>5. TaskTypes' /\ WakeTypes'
    BY <1>13, SkipTypes DEF PollSkipped
  <2> QED
    BY <1>13, <2>2, <2>4, <2>5 DEF PollSkipped, Skip, TypeOK, StageTypes
<1>14. CASE PollClosed
  <2>1. TaskTypes'
    BY <1>14, <1>0 DEF PollClosed, GoOn, TypeOK, TaskTypes, TaskStates
  <2> QED
    BY <1>14, <2>1 DEF PollClosed, TypeOK, BufferTypes, WakeTypes, StageTypes, bufferVars
<1>15. CASE PollPending
  <2>1. TaskTypes'
    BY <1>15, <1>0 DEF PollPending, GoOn, TypeOK, TaskTypes, TaskStates
  <2>2. BufferTypes'
    BY <1>15 DEF PollPending, TypeOK, BufferTypes
  <2> QED
    BY <1>15, <2>1, <2>2 DEF PollPending, TypeOK, WakeTypes, StageTypes
<1>16. CASE PollBudgetSpent
  <2>1. TaskTypes'
    BY <1>16, <1>0 DEF PollBudgetSpent, GoOn, TypeOK, TaskTypes, TaskStates
  <2>2. WakeTypes'
    BY <1>16 DEF PollBudgetSpent, TypeOK, WakeTypes, TaskTypes
  <2> QED
    BY <1>16, <2>1, <2>2 DEF PollBudgetSpent, TypeOK, BufferTypes, StageTypes, bufferVars
<1>17. CASE TakeStaged
  BY <1>17 DEF TakeStaged, TypeOK, BufferTypes, WakeTypes, TaskTypes, StageTypes,
               bufferVars, taskVars
<1>18. ASSUME NEW rejected \in BOOLEAN, Send(rejected) PROVE TypeOK'
  <2>1. StageTypes'
    BY <1>18, CountType DEF Send, TypeOK, StageTypes, NoRoute, StatFields
  <2> QED
    BY <1>18, <2>1 DEF Send, TypeOK, BufferTypes, WakeTypes, TaskTypes, bufferVars, taskVars
<1>19. CASE Finished \/ UNCHANGED vars
  BY <1>19 DEF Finished, vars, bufferVars, taskVars, TypeOK, BufferTypes, WakeTypes,
               TaskTypes, StageTypes
<1> QED
  BY <1>1, <1>2, <1>3, <1>4, <1>5, <1>6, <1>7, <1>8, <1>9, <1>10, <1>11, <1>12,
     <1>13, <1>14, <1>15, <1>16, <1>17, <1>18, <1>19
  DEF Next, Writer, Transport, Running, Poll

\* The model of the outbound routes is type correct.
THEOREM TypeCorrect == Spec => []TypeOK
<1> QED BY TypeInit, TypeNext, PTL DEF Spec

-----------------------------------------------------------------------------
\* Nothing is set in motion before the first poll, and every bit is set.
LEMMA WakeInit == Init => NoLostWakeInv
  BY DEF Init, NoLostWakeInv, TaskReachable, InPass, BitsAreSeen, Ahead,
         RoutesArmed, RouteArmed, ScanSound

\* Every step of a writer, of the executor or of the transport task keeps each
\* open route armed and each set bit on its way to the task.
LEMMA WakeNext == TypeOK /\ NoLostWakeInv /\ [Next]_vars => NoLostWakeInv'
<1> SUFFICES ASSUME TypeOK, NoLostWakeInv, [Next]_vars PROVE NoLostWakeInv'
  OBVIOUS
<1> USE RoutesAssumption
<1>t. /\ rwaker \in [Routes -> BOOLEAN] /\ closed \in [Routes -> BOOLEAN]
      /\ ppc \in [Routes -> {"idle", "set", "wake", "waking"}]
      /\ buf \in [Routes -> Seq(Outcomes)] /\ missed \in [Routes -> Nat]
      /\ ready \in SUBSET Routes /\ open \in SUBSET Routes /\ cur \in Routes
  BY DEF TypeOK, BufferTypes, WakeTypes, TaskTypes
<1> USE <1>t DEF NoLostWakeInv
<1>1. ASSUME NEW r \in Routes, NEW kind \in Kinds, Push(r, kind) PROVE NoLostWakeInv'
  <2>1. Waking' = Waking /\ (\A q \in Routes : ppc'[q] = "wake" <=> ppc[q] = "wake")
    BY <1>1 DEF Push, TakeReaderWaker, Waking
  <2>2. BitsAreSeen'
    BY <1>1, <2>1 DEF Push, BitsAreSeen, Ahead, InPass, Position, taskVars
  <2>3. RoutesArmed'
    BY <1>1 DEF Push, TakeReaderWaker, RoutesArmed, RouteArmed, Hungry, taskVars
  <2> QED
    BY <1>1, <2>2, <2>3 DEF Push, TaskReachable, InPass, ScanSound, taskVars
<1>2. ASSUME NEW r \in Routes, CloseBuffer(r) PROVE NoLostWakeInv'
  <2>1. Waking' = Waking /\ (\A q \in Routes : ppc'[q] = "wake" <=> ppc[q] = "wake")
    BY <1>2 DEF CloseBuffer, TakeReaderWaker, Waking
  <2>2. BitsAreSeen'
    BY <1>2, <2>1 DEF CloseBuffer, BitsAreSeen, Ahead, InPass, Position, taskVars
  <2>3. RoutesArmed'
    BY <1>2 DEF CloseBuffer, TakeReaderWaker, RoutesArmed, RouteArmed, Hungry, taskVars
  <2> QED
    BY <1>2, <2>2, <2>3 DEF CloseBuffer, TaskReachable, InPass, ScanSound, taskVars
<1>3. ASSUME NEW r \in Routes, SetBit(r) PROVE NoLostWakeInv'
  <2>1. Waking' = Waking /\ (\A q \in Routes : ppc[q] = "wake" => ppc'[q] = "wake") /\ ppc'[r] = "wake"
    BY <1>3 DEF SetBit, Waking
  <2>2. BitsAreSeen'
    BY <1>3, <2>1 DEF SetBit, BitsAreSeen, Ahead, InPass, Position, taskVars
  <2>3. RoutesArmed'
    BY <1>3 DEF SetBit, RoutesArmed, RouteArmed, Hungry, taskVars
  <2> QED
    BY <1>3, <2>2, <2>3 DEF SetBit, TaskReachable, InPass, ScanSound, taskVars
<1>4. ASSUME NEW r \in Routes, WakeBegin(r) PROVE NoLostWakeInv'
  <2>1. Waking' /\ \A q \in Routes : ppc[q] = "set" => ppc'[q] = "set"
    BY <1>4 DEF WakeBegin, Waking
  <2>2. BitsAreSeen'
    BY <2>1 DEF BitsAreSeen
  <2>3. RoutesArmed'
    BY <1>4, <2>1 DEF WakeBegin, RoutesArmed, RouteArmed, Hungry, taskVars
  <2> QED
    BY <1>4, <2>2, <2>3 DEF WakeBegin, TaskReachable, InPass, ScanSound, taskVars
<1>5. ASSUME NEW r \in Routes, WakeEnd(r) PROVE NoLostWakeInv'
  <2>1. \A q \in Routes : ppc[q] = "set" => ppc'[q] = "set"
    BY <1>5 DEF WakeEnd
  <2>2. InPass \/ tpc = "parked" => notified'
    BY <1>5 DEF WakeEnd, TaskReachable
  <2>3. BitsAreSeen'
    BY <1>5, <2>2 DEF WakeEnd, BitsAreSeen, Ahead, InPass, ScanSound, taskVars,
                      TypeOK, TaskTypes, TaskStates
  <2>4. RoutesArmed'
    BY <1>5, <2>1 DEF WakeEnd, RoutesArmed, RouteArmed, Hungry, taskVars
  <2> QED
    BY <1>5, <2>2, <2>3, <2>4 DEF WakeEnd, TaskReachable, InPass, ScanSound, taskVars
<1>6. ASSUME NEW r \in Routes, FireDeferred(r) PROVE NoLostWakeInv'
  <2>1. ppc' = ppc /\ (Waking' <=> Waking)
    BY <1>6 DEF FireDeferred, bufferVars, Waking
  <2>2. (InPass \/ tpc = "parked") => notified' \/ (Waking /\ taskWaker' = taskWaker /\ notified' = notified)
    BY <1>6 DEF FireDeferred, WakeTask, TaskReachable
  <2>3. BitsAreSeen'
    BY <1>6, <2>1, <2>2 DEF FireDeferred, BitsAreSeen, Ahead, InPass, ScanSound, taskVars,
                            TypeOK, TaskTypes, TaskStates
  <2>4. RoutesArmed'
    BY <1>6 DEF FireDeferred, RoutesArmed, RouteArmed, Hungry, bufferVars, taskVars
  <2> QED
    BY <1>6, <2>2, <2>3, <2>4 DEF FireDeferred, TaskReachable, InPass, ScanSound, taskVars
<1>7. CASE Resume \/ PollStage
  BY <1>7 DEF Resume, PollStage, TaskReachable, InPass, BitsAreSeen, Ahead, RoutesArmed,
              RouteArmed, Hungry, ScanSound, bufferVars
<1>8. CASE BeginPass
  <2>1. \A q \in Routes : Position(q)' >= next'
    BY <1>8, PassStartIsRoute DEF BeginPass, Position, Routes, TypeOK
  <2> QED
    BY <1>8, <2>1 DEF BeginPass, RegisterTask, TaskReachable, InPass, BitsAreSeen, Ahead,
                      RoutesArmed, RouteArmed, Hungry, ScanSound, bufferVars
<1>9. CASE ScanWord
  <2>1. tpc = "scan" /\ UNCHANGED <<bufferVars, ready, deferred, taskWaker, notified, start, open>>
    BY <1>9 DEF ScanWord
  <2>2. \A q \in ready \intersect open : Ahead(q) => Ahead(q)'
    BY <1>9, <2>1, ScanStep DEF Ahead, InPass, Position, TypeOK
  <2>3. BitsAreSeen'
    BY <2>1, <2>2 DEF BitsAreSeen, bufferVars, Waking
  <2>4. ScanSound'
    BY <1>9, <2>1, ScanStep DEF ScanSound, TypeOK
  <2>5. RoutesArmed'
    BY <2>1 DEF RoutesArmed, RouteArmed, Hungry, bufferVars
  <2> QED
    BY <2>1, <2>3, <2>4, <2>5 DEF TaskReachable, InPass
<1>10. CASE ClearBit
  <2>1. BitsAreSeen'
    BY <1>10 DEF ClearBit, BitsAreSeen, Ahead, InPass, Position, Waking, bufferVars
  <2>2. RoutesArmed'
    BY <1>10 DEF ClearBit, RoutesArmed, RouteArmed, Hungry, bufferVars
  <2> QED
    BY <1>10, <2>1, <2>2 DEF ClearBit, TaskReachable, InPass, ScanSound
<1>11. CASE EndPass
  <2>1. \A q \in Routes : ~(Position(q) >= next)
    BY <1>11 DEF EndPass, Position, Routes, TypeOK, TaskTypes
  <2>2. BitsAreSeen'
    BY <1>11, <2>1 DEF EndPass, BitsAreSeen, Ahead, Waking, bufferVars
  <2>3. RoutesArmed'
    BY <1>11 DEF EndPass, RoutesArmed, RouteArmed, Hungry, bufferVars
  <2> QED
    BY <1>11, <2>2, <2>3 DEF EndPass, TaskReachable, InPass, ScanSound
<1>12. CASE PollStaged
  <2>1. RoutesArmed'
    BY <1>12 DEF PollStaged, Served, RoutesArmed, RouteArmed, Hungry
  <2> QED
    BY <1>12, <2>1 DEF PollStaged, Served, TaskReachable, InPass, BitsAreSeen, Ahead, ScanSound
<1>13. CASE PollLagged \/ PollSkipped
  <2>1. /\ tpc = "poll" /\ Skip
        /\ UNCHANGED <<closed, rwaker, ppc, deferred, start, next, open>>
        /\ \A q \in Routes : q # cur => buf'[q] = buf[q] /\ missed'[q] = missed[q]
    BY <1>13 DEF PollLagged, PollSkipped
  <2>2. CASE tpc' = "poll" /\ cur' = cur /\ UNCHANGED <<ready, taskWaker, notified>>
    <3>1. BitsAreSeen'
      BY <2>1, <2>2 DEF BitsAreSeen, Ahead, InPass, Position, Waking
    <3>2. RoutesArmed'
      BY <2>1, <2>2 DEF RoutesArmed, RouteArmed, Hungry
    <3> QED
      BY <2>1, <2>2, <3>1, <3>2 DEF TaskReachable, InPass, ScanSound
  <2>3. CASE tpc' = "scan" /\ ready' = ready \union {cur} /\ WakeTask
    <3>1. notified' \/ (Waking /\ Waking' /\ UNCHANGED <<taskWaker, notified>>)
      BY <2>1, <2>3 DEF WakeTask, TaskReachable, InPass, Waking
    <3>2. BitsAreSeen'
      BY <3>1 DEF BitsAreSeen
    <3>3. RoutesArmed'
      BY <2>1, <2>3 DEF RoutesArmed, RouteArmed, Hungry
    <3> QED
      BY <2>1, <2>3, <3>1, <3>2, <3>3 DEF TaskReachable, InPass, ScanSound
  <2> QED
    BY <2>1, <2>2, <2>3 DEF Skip, GoOn
<1>14. CASE PollClosed \/ PollPending \/ PollBudgetSpent
  <2>1. /\ tpc = "poll" /\ tpc' = "scan" /\ open' \subseteq open
        /\ UNCHANGED <<buf, missed, closed, ppc, ready, taskWaker, notified, start, next>>
    BY <1>14 DEF PollClosed, PollPending, PollBudgetSpent, GoOn, bufferVars
  <2>2. BitsAreSeen'
    BY <2>1 DEF BitsAreSeen, Ahead, InPass, Position, Waking
  <2>3. RoutesArmed'
    BY <1>14, <2>1 DEF PollClosed, PollPending, PollBudgetSpent, RoutesArmed, RouteArmed,
                       Hungry, bufferVars
  <2> QED
    BY <2>1, <2>2, <2>3 DEF TaskReachable, InPass, ScanSound
<1>15. CASE TakeStaged \/ (\E rejected \in BOOLEAN : Send(rejected)) \/ Finished \/ UNCHANGED vars
  <2>1. UNCHANGED <<bufferVars, ready, deferred, taskWaker, notified, taskVars>>
    BY <1>15 DEF TakeStaged, Send, Finished, vars
  <2> QED
    BY <2>1 DEF bufferVars, taskVars, TaskReachable, InPass, BitsAreSeen, Ahead, Position,
                Waking, RoutesArmed, RouteArmed, Hungry, ScanSound
<1> QED
  BY <1>1, <1>2, <1>3, <1>4, <1>5, <1>6, <1>7, <1>8, <1>9, <1>10, <1>11, <1>12,
     <1>13, <1>14, <1>15
  DEF Next, Writer, Wake, Transport, Running, Poll

\* When the task sleeps and nothing is about to wake it, an armed route can
\* only be one whose reader holds the waker and has nothing to return.
LEMMA InvImpliesNoLostWake == TypeOK /\ NoLostWakeInv => NoLostWake
  BY DEF TypeOK, WakeTypes, TaskTypes, NoLostWakeInv, NoLostWake, BitsAreSeen, Ahead, InPass, Waking,
         RoutesArmed, RouteArmed, Routes

\* No wake-up of an outbound route is lost, for any number of routes per
\* scheme, any word size, skip budget and ring capacity: a sleeping transport
\* task that nobody is about to wake has left no open route unserved.
THEOREM NoWakeIsLost == Spec => []NoLostWake
<1>1. TypeOK /\ NoLostWakeInv /\ [Next]_vars => (TypeOK /\ NoLostWakeInv)'
  BY TypeNext, WakeNext
<1>2. Init => TypeOK /\ NoLostWakeInv
  BY TypeInit, WakeInit
<1> QED BY <1>1, <1>2, InvImpliesNoLostWake, PTL DEF Spec

-----------------------------------------------------------------------------
\* What a counter update changes: one field of one route.
LEMMA CountValue ==
  ASSUME StageTypes, NEW r \in Routes, NEW n \in Nat, NEW f \in StatFields,
         NEW q \in Routes, NEW g \in StatFields
  PROVE  Count(r, f, n)[q][g] = IF q = r /\ g = f THEN stats[r][f] + n ELSE stats[q][g]
<1>1. stats \in [Routes -> RouteStats] /\ stats[r] \in [StatFields -> Nat]
  BY DEF StageTypes, RouteStats
<1> QED
  BY <1>1 DEF Count

\* What the counters have booked is a number.
LEMMA BookedNat == ASSUME StageTypes, NEW r \in Routes PROVE Booked(r) \in Nat
<1>1. \A g \in StatFields : stats[r][g] \in Nat
  BY DEF StageTypes, RouteStats
<1>2. stats[r]["sent"] \in Nat /\ stats[r]["lagged"] \in Nat
      /\ stats[r]["topic_overflow"] \in Nat /\ stats[r]["serialize_failed"] \in Nat
  BY <1>1 DEF StatFields
<1> QED BY <1>2 DEF Booked

\* A counter other than "rejected" books what it counts, and "rejected" nothing.
LEMMA BookedCount ==
  ASSUME StageTypes, NEW r \in Routes, NEW n \in Nat, NEW f \in StatFields,
         stats' = Count(r, f, n), NEW q \in Routes
  PROVE  Booked(q)' = IF q = r /\ f # "rejected" THEN Booked(q) + n ELSE Booked(q)
<1>1. \A g \in StatFields : stats[q][g] \in Nat
  BY DEF StageTypes, RouteStats
<1> DEFINE a == stats[q]["sent"]            b == stats[q]["lagged"]
           c == stats[q]["topic_overflow"]  d == stats[q]["serialize_failed"]
<1>2. a \in Nat /\ b \in Nat /\ c \in Nat /\ d \in Nat
  BY <1>1 DEF StatFields
<1>3. \A g \in StatFields : stats'[q][g] = IF q = r /\ g = f THEN stats[q][g] + n ELSE stats[q][g]
  <2> SUFFICES ASSUME NEW g \in StatFields
               PROVE  stats'[q][g] = IF q = r /\ g = f THEN stats[q][g] + n ELSE stats[q][g]
    OBVIOUS
  <2>1. Count(r, f, n)[q][g] = IF q = r /\ g = f THEN stats[r][f] + n ELSE stats[q][g]
    BY CountValue
  <2> QED BY <2>1
<1>4. /\ a' = IF q = r /\ f = "sent" THEN a + n ELSE a
      /\ b' = IF q = r /\ f = "lagged" THEN b + n ELSE b
      /\ c' = IF q = r /\ f = "topic_overflow" THEN c + n ELSE c
      /\ d' = IF q = r /\ f = "serialize_failed" THEN d + n ELSE d
  BY <1>3 DEF StatFields
<1>5. Booked(q) = a + b + c + d /\ Booked(q)' = a' + b' + c' + d'
  BY DEF Booked
<1> HIDE DEF a, b, c, d
<1> QED BY <1>2, <1>4, <1>5 DEF StatFields

\* Every step moves a value from one place to another, or adds one to both sides.
LEMMA AccountingNext == TypeOK /\ Accounting /\ [Next]_vars => Accounting'
<1> SUFFICES ASSUME TypeOK, Accounting, [Next]_vars, NEW r \in Routes
             PROVE  produced'[r] = Len(buf'[r]) + missed'[r] + Booked(r)'
  BY DEF Accounting
<1> USE RoutesAssumption
<1>1. /\ buf \in [Routes -> Seq(Outcomes)] /\ missed \in [Routes -> Nat]
      /\ produced \in [Routes -> Nat] /\ cur \in Routes /\ StageTypes
  BY DEF TypeOK, BufferTypes, TaskTypes
<1>2. Booked(r) \in Nat
  BY <1>1, BookedNat
<1>3. produced[r] = Len(buf[r]) + missed[r] + Booked(r)
  BY DEF Accounting
<1>4. ASSUME NEW q \in Routes, NEW kind \in Kinds, Push(q, kind)
      PROVE  produced'[r] = Len(buf'[r]) + missed'[r] + Booked(r)'
  <2>1. Booked(r)' = Booked(r)
    BY <1>4 DEF Push, Booked
  <2>2. kind \in Outcomes /\ Len(buf[q]) \in Nat /\ Len(buf[r]) \in Nat /\ missed[r] \in Nat
    BY <1>1
  <2>3. produced'[r] = IF r = q THEN produced[r] + 1 ELSE produced[r]
    BY <1>1, <1>4 DEF Push
  <2>4. CASE Len(buf[q]) < Capacity
    <3>1. Len(Append(buf[q], kind)) = Len(buf[q]) + 1
      BY <1>1, <2>2
    <3>2. missed' = missed /\ buf' = [buf EXCEPT ![q] = Append(@, kind)]
      BY <1>4, <2>4 DEF Push
    <3>3. Len(buf'[r]) = IF r = q THEN Len(buf[r]) + 1 ELSE Len(buf[r])
      BY <1>1, <3>1, <3>2
    <3> QED BY <1>2, <1>3, <2>1, <2>2, <2>3, <3>2, <3>3
  <2>5. CASE ~(Len(buf[q]) < Capacity)
    <3>1. buf[q] # <<>>
      BY <1>1, <2>5
    <3>2. Len(Append(Tail(buf[q]), kind)) = Len(buf[q])
      BY <1>1, <2>2, <3>1
    <3>3. /\ buf' = [buf EXCEPT ![q] = Append(Tail(@), kind)]
          /\ missed' = [missed EXCEPT ![q] = @ + 1]
      BY <1>4, <2>5 DEF Push
    <3>4. /\ Len(buf'[r]) = Len(buf[r])
          /\ missed'[r] = IF r = q THEN missed[r] + 1 ELSE missed[r]
      BY <1>1, <3>2, <3>3
    <3>5. CASE r = q
      <4>1. produced'[r] = produced[r] + 1 /\ missed'[r] = missed[r] + 1
        BY <2>3, <3>4, <3>5
      <4>2. Len(buf[r]) + missed[r] + Booked(r) + 1 = Len(buf[r]) + (missed[r] + 1) + Booked(r)
        BY <1>2, <2>2
      <4> QED BY <1>3, <2>1, <3>4, <4>1, <4>2
    <3>6. CASE r # q
      BY <1>3, <2>1, <2>3, <3>4, <3>6
    <3> QED BY <3>5, <3>6
  <2> QED BY <2>4, <2>5
<1>5. ASSUME NEW f \in StatFields, f # "rejected", buf[cur] # <<>>,
             buf' = [buf EXCEPT ![cur] = Tail(@)],
             stats' = Count(cur, f, 1), UNCHANGED <<missed, produced>>
      PROVE  produced'[r] = Len(buf'[r]) + missed'[r] + Booked(r)'
  <2>1. Len(Tail(buf[cur])) = Len(buf[cur]) - 1 /\ Len(buf[cur]) \in Nat
    BY <1>1, <1>5
  <2>2. Booked(r)' = IF r = cur THEN Booked(r) + 1 ELSE Booked(r)
    BY <1>1, <1>5, BookedCount
  <2>3. Len(buf'[r]) = IF r = cur THEN Len(buf[r]) - 1 ELSE Len(buf[r])
    BY <1>1, <1>5, <2>1
  <2>4. Len(buf[r]) \in Nat /\ missed[r] \in Nat
    BY <1>1
  <2> QED BY <1>2, <1>3, <1>5, <2>2, <2>3, <2>4
<1>6. CASE PollStaged
  BY <1>5, <1>6 DEF PollStaged, StatFields
<1>7. CASE PollSkipped
  <2>1. Head(buf[cur]) \in Outcomes /\ Head(buf[cur]) # "staged"
    BY <1>1, <1>7 DEF PollSkipped
  <2>2. Head(buf[cur]) \in StatFields /\ Head(buf[cur]) # "rejected"
    BY <2>1 DEF Outcomes, StatFields
  <2> QED BY <1>5, <1>7, <2>2 DEF PollSkipped
<1>8. CASE PollLagged
  <2>1. missed[cur] \in Nat /\ "lagged" \in StatFields
    BY <1>1 DEF StatFields
  <2>2. Booked(r)' = IF r = cur THEN Booked(r) + missed[cur] ELSE Booked(r)
    BY <1>1, <1>8, <2>1, BookedCount DEF PollLagged
  <2>3. buf' = buf /\ produced' = produced /\ missed' = [missed EXCEPT ![cur] = 0]
    BY <1>8 DEF PollLagged
  <2> QED BY <1>1, <1>2, <1>3, <2>1, <2>2, <2>3
<1>9. ASSUME NEW rejected \in BOOLEAN, Send(rejected)
      PROVE  UNCHANGED <<buf, missed, produced>> /\ Booked(r)' = Booked(r)
  <2>1. CASE ~rejected
    BY <1>9, <2>1 DEF Send, bufferVars, Booked
  <2>2. CASE rejected
    <3>1. inHand \in Routes /\ "rejected" \in StatFields /\ stats' = Count(inHand, "rejected", 1)
      BY <1>1, <1>9, <2>2 DEF Send, StageTypes, NoRoute, StatFields
    <3>2. Booked(r)' = Booked(r)
      BY <1>1, <3>1, BookedCount
    <3> QED BY <1>9, <3>2 DEF Send, bufferVars
  <2> QED BY <2>1, <2>2
<1>10. ASSUME UNCHANGED <<buf, missed, produced, stats>>
       PROVE  produced'[r] = Len(buf'[r]) + missed'[r] + Booked(r)'
  <2>1. Booked(r)' = Booked(r)
    BY <1>10 DEF Booked
  <2> QED BY <1>3, <1>10, <2>1
<1>11. ASSUME NEW q \in Routes, CloseBuffer(q) \/ Wake(q) \/ FireDeferred(q)
       PROVE  UNCHANGED <<buf, missed, produced, stats>>
  BY <1>11 DEF CloseBuffer, Wake, SetBit, WakeBegin, WakeEnd, FireDeferred, bufferVars
<1>12. ASSUME Resume \/ PollStage \/ BeginPass \/ ScanWord \/ ClearBit \/ EndPass \/ PollClosed
              \/ PollPending \/ PollBudgetSpent \/ TakeStaged \/ Finished \/ UNCHANGED vars
       PROVE  UNCHANGED <<buf, missed, produced, stats>>
  BY <1>12 DEF Resume, PollStage, BeginPass, ScanWord, ClearBit, EndPass, PollClosed,
               PollPending, PollBudgetSpent, TakeStaged, Finished, vars, bufferVars
<1> QED
  BY <1>3, <1>4, <1>6, <1>7, <1>8, <1>9, <1>10, <1>11, <1>12 DEF Next, Writer, Transport, Running, Poll

\* Every value written to an outbound route is in its ring, reported as lost,
\* or counted by exactly one of the RouteStats, for any number of routes and
\* any capacity.
THEOREM EveryValueCounted == Spec => []Accounting
<1>1. Init => Accounting
  BY DEF Init, Accounting, Booked, NewStats, StatFields
<1>2. TypeOK /\ Accounting /\ [Next]_vars => (TypeOK /\ Accounting)'
  BY TypeNext, AccountingNext
<1> QED BY <1>1, <1>2, TypeInit, PTL DEF Spec

-----------------------------------------------------------------------------
\* Only a poll that finds the buffer closed and drained closes a route, and no
\* write or lag comes after that; a staged message stops the polling.
LEMMA FinalNext == TypeOK /\ FinalInv /\ [Next]_vars => FinalInv'
<1> SUFFICES ASSUME TypeOK, FinalInv, [Next]_vars PROVE FinalInv'
  OBVIOUS
<1>1. /\ buf \in [Routes -> Seq(Outcomes)] /\ missed \in [Routes -> Nat]
      /\ closed \in [Routes -> BOOLEAN] /\ open \in SUBSET Routes /\ cur \in Routes
  BY DEF TypeOK, BufferTypes, TaskTypes
<1> USE DEF FinalInv
<1>2. ASSUME NEW r \in Routes, NEW kind \in Kinds, Push(r, kind) PROVE FinalInv'
  <2>1. \A q \in Routes : q # r => buf'[q] = buf[q] /\ missed'[q] = missed[q]
    BY <1>1, <1>2 DEF Push
  <2> QED BY <1>1, <1>2, <2>1 DEF Push, taskVars
<1>3. ASSUME NEW r \in Routes, CloseBuffer(r) PROVE FinalInv'
  BY <1>1, <1>3 DEF CloseBuffer, taskVars
<1>4. ASSUME NEW r \in Routes, Wake(r) \/ FireDeferred(r) PROVE FinalInv'
  BY <1>4 DEF Wake, SetBit, WakeBegin, WakeEnd, FireDeferred, bufferVars, taskVars
<1>5. CASE Resume \/ PollStage \/ BeginPass \/ ScanWord \/ ClearBit \/ EndPass
  <2>1. UNCHANGED <<bufferVars, open, staged>> /\ (tpc' = "done" => open = {})
    BY <1>5, ScanStep DEF Resume, PollStage, BeginPass, ScanWord, ClearBit, EndPass, TypeOK
  <2>2. staged # NoRoute => tpc' = "running"
    BY <1>5 DEF Resume, PollStage, BeginPass, ScanWord, ClearBit, EndPass
  <2> QED BY <2>1, <2>2 DEF bufferVars
<1>6. CASE PollStaged
  BY <1>1, <1>6 DEF PollStaged, Served
<1>7. CASE PollLagged \/ PollSkipped
  <2>1. /\ tpc = "poll" /\ staged' = staged /\ open' = open /\ closed' = closed
        /\ tpc' \in {"poll", "scan"}
        /\ \A q \in Routes \ open : buf'[q] = buf[q] /\ missed'[q] = missed[q]
    BY <1>1, <1>7 DEF PollLagged, PollSkipped, Skip, GoOn
  <2> QED BY <2>1
<1>8. CASE PollClosed \/ PollPending \/ PollBudgetSpent
  BY <1>1, <1>8 DEF PollClosed, PollPending, PollBudgetSpent, GoOn, bufferVars
<1>9. CASE TakeStaged \/ (\E rejected \in BOOLEAN : Send(rejected)) \/ Finished \/ UNCHANGED vars
  BY <1>9 DEF TakeStaged, Send, Finished, vars, bufferVars, taskVars
<1> QED
  BY <1>2, <1>3, <1>4, <1>5, <1>6, <1>7, <1>8, <1>9 DEF Next, Writer, Transport, Running, Poll

\* When the routes report their end, for any number of them, nothing is left
\* behind: every buffer is closed and drained and no message is staged.
THEOREM EndMeansDrained == Spec => []FinalMeansDrained
<1>1. Init => FinalInv
  BY DEF Init, FinalInv
<1>2. TypeOK /\ FinalInv /\ [Next]_vars => (TypeOK /\ FinalInv)'
  BY TypeNext, FinalNext
<1>3. FinalInv => FinalMeansDrained
  BY DEF FinalInv, FinalMeansDrained
<1> QED BY <1>1, <1>2, <1>3, TypeInit, PTL DEF Spec

-----------------------------------------------------------------------------
\* In a pass that starts after the route served last, routes come in the order
\* of their turns, and the route served last comes last.
LEMMA TurnsInOrder ==
  ASSUME TaskTypes, start = PassStart, NEW q \in Routes, NEW r \in Routes
  PROVE  /\ Turn(q) < Turn(r) <=> Position(q) < Position(r)
         /\ Position(r) \in start .. start + N - 1
         /\ Position(q) = Position(r) => q = r
<1> USE RoutesAssumption
<1>1. cursor \in 0 .. N - 1 /\ q \in 0 .. N - 1 /\ r \in 0 .. N - 1 /\ N \in Nat
  BY DEF TaskTypes, Routes
<1>2. start = IF cursor = N - 1 THEN 0 ELSE cursor + 1
  BY <1>1 DEF PassStart
<1> QED BY <1>1, <1>2 DEF Turn, Position

\* When a route is polled, the routes still owed a turn lie ahead of the scan,
\* so the polled route owes none.
LEMMA NothingOwedWhenPolled ==
  ASSUME TypeOK, RoundRobinInv, tpc = "poll"
  PROVE  /\ start = PassStart /\ Position(cur) = next - 1 /\ next \in Int
         /\ \A r \in Routes : \A q \in owed[r] : q \in Routes /\ Position(q) >= next /\ q # cur
         /\ owed[cur] = {}
<1> USE RoutesAssumption
<1>1. cur \in Routes /\ owed \in [Routes -> SUBSET Routes] /\ TaskTypes
  BY DEF TypeOK, TaskTypes, StageTypes
<1>2. start = PassStart /\ Position(cur) = next - 1
  BY DEF RoundRobinInv, PassInOrder, InPass
<1>3. next \in Int /\ \A q \in Routes : Position(q) \in Int
  BY <1>1 DEF TaskTypes, Routes, Position
<1>4. \A r \in Routes : \A q \in owed[r] : q \in Routes /\ Position(q) >= next
  BY <1>1 DEF RoundRobinInv, PassInOrder, InPass
<1>5. \A r \in Routes : \A q \in owed[r] : q # cur
  BY <1>1, <1>2, <1>3, <1>4
<1>6. owed[cur] = {}
  <2> SUFFICES ASSUME NEW q \in owed[cur] PROVE FALSE
    OBVIOUS
  <2>1. q \in Routes /\ Position(q) >= next /\ Turn(q) < Turn(cur)
    BY <1>1, <1>4 DEF RoundRobinInv, OwedComeFirst
  <2>2. Position(q) < Position(cur)
    BY <1>1, <1>2, <2>1, TurnsInOrder
  <2> QED BY <1>1, <1>2, <1>3, <2>1, <2>2
<1> QED BY <1>2, <1>3, <1>4, <1>5, <1>6

\* Every step keeps the routes that are owed a turn ready and ahead of the scan.
LEMMA RoundRobinNext == TypeOK /\ RoundRobinInv /\ [Next]_vars => RoundRobinInv'
<1> SUFFICES ASSUME TypeOK, RoundRobinInv, [Next]_vars PROVE RoundRobinInv'
  OBVIOUS
<1> USE RoutesAssumption
<1>1. /\ ready \in SUBSET Routes /\ open \in SUBSET Routes /\ cur \in Routes
      /\ owed \in [Routes -> SUBSET Routes] /\ TaskTypes
  BY DEF TypeOK, WakeTypes, TaskTypes, StageTypes
<1> USE DEF RoundRobinInv
\* Steps outside the task touch neither the pass nor what is owed.
<1>2. ASSUME UNCHANGED <<taskVars, owed>>, ready \subseteq ready' PROVE RoundRobinInv'
  BY <1>1, <1>2 DEF taskVars, OwedComeFirst, Turn, PassInOrder, InPass, Position, PassStart
<1>3. ASSUME NEW r \in Routes, Writer(r) \/ Wake(r) \/ FireDeferred(r) PROVE RoundRobinInv'
  <2>1. UNCHANGED <<taskVars, owed>> /\ ready \subseteq ready'
    BY <1>3 DEF Writer, Push, CloseBuffer, Wake, SetBit, WakeBegin, WakeEnd, FireDeferred
  <2> QED BY <1>2, <2>1
<1>4. CASE TakeStaged \/ (\E rejected \in BOOLEAN : Send(rejected)) \/ Finished \/ UNCHANGED vars
  <2>1. UNCHANGED <<taskVars, owed>> /\ ready \subseteq ready'
    BY <1>4 DEF TakeStaged, Send, Finished, vars
  <2> QED BY <1>2, <2>1
<1>5. CASE Resume \/ PollStage \/ EndPass
  <2>1. UNCHANGED <<ready, open, owed, cursor>> /\ tpc' \notin {"scan", "clear", "poll"}
    BY <1>5 DEF Resume, PollStage, EndPass
  <2> QED BY <2>1 DEF OwedComeFirst, Turn, PassInOrder, InPass
<1>6. CASE BeginPass
  <2>1. UNCHANGED <<ready, open, owed, cursor>> /\ tpc' = "scan"
        /\ start' = PassStart /\ next' = start' /\ PassStart' = PassStart
    BY <1>6 DEF BeginPass, PassStart
  <2>2. PassStart \in Routes
    BY <1>1, PassStartIsRoute
  <2>3. \A q \in Routes : Position(q)' >= next'
    BY <2>1, <2>2 DEF Position, Routes
  <2> QED BY <1>1, <2>1, <2>3 DEF OwedComeFirst, Turn, PassInOrder
<1>7. CASE ScanWord
  <2>1. tpc = "scan" /\ UNCHANGED <<ready, open, owed, cursor, start>> /\ InPass
    BY <1>7 DEF ScanWord, InPass
  <2>2. OwedComeFirst'
    BY <2>1 DEF OwedComeFirst, Turn
  <2>3. \A r \in Routes : \A q \in owed[r] :
          q \in ready \intersect open /\ Position(q) >= next
    BY <2>1 DEF OwedComeFirst, PassInOrder
  <2>4. \A r \in Routes : \A q \in owed[r] :
          Position(q) >= next' \/ (tpc' = "clear" /\ cur' = q)
    BY <1>1, <1>7, <2>3, ScanStep
  <2>5. tpc' = "clear" => Position(cur)' = next' - 1
    BY <1>1, <1>7, ScanTakes, <2>1 DEF Position
  <2>6. tpc' \in {"scan", "clear"}
    BY <1>1, <1>7, ScanStep
  <2> QED BY <2>1, <2>2, <2>4, <2>5, <2>6 DEF PassInOrder, Position, PassStart, InPass
<1>8. CASE ClearBit
  <2>1. /\ tpc = "clear" /\ tpc' = "poll" /\ UNCHANGED <<cur, start, next, cursor, open>>
        /\ ready' = ready \ {cur} /\ \A r \in Routes : owed'[r] = owed[r] \ {cur}
    BY <1>1, <1>8 DEF ClearBit
  <2> QED BY <1>1, <2>1 DEF OwedComeFirst, Turn, PassInOrder, InPass, Position, PassStart
<1>9. CASE PollStaged
  <2>1. /\ tpc = "poll" /\ tpc' = "running" /\ cursor' = cur /\ open' = open
        /\ ready' = ready \union {cur}
        /\ owed' = [owed EXCEPT ![cur] = (ready \intersect open) \ {cur}]
    BY <1>9 DEF PollStaged, Served
  <2>2. OwedComeFirst'
    <3> SUFFICES ASSUME NEW r \in Routes, NEW q \in owed'[r]
                 PROVE  q \in ready' \intersect open' /\ Turn(q)' < Turn(r)'
      BY DEF OwedComeFirst
    <3>1. CASE r = cur
      <4>1. q \in ready \intersect open /\ q # cur /\ q \in 0 .. N - 1 /\ cur \in 0 .. N - 1
        BY <1>1, <2>1, <3>1 DEF Routes
      <4> QED BY <2>1, <3>1, <4>1 DEF Turn
    <3>2. CASE r # cur
      <4>1. q \in owed[r] /\ q \in Routes
        BY <1>1, <2>1, <3>2
      <4>2. q \in ready \intersect open /\ Turn(q) < Turn(r)
        BY <4>1 DEF OwedComeFirst
      <4>3. Position(cur) < Position(q) /\ Position(q) < Position(r)
        BY <1>1, NothingOwedWhenPolled, <2>1, <4>1, <4>2, TurnsInOrder DEF Position, Routes
      <4>4. start \in 0 .. N - 1 /\ q \in 0 .. N - 1 /\ r \in 0 .. N - 1 /\ cur \in 0 .. N - 1
        BY <1>1, <4>1 DEF TaskTypes, Routes
      <4>5. Turn(q)' < Turn(r)'
        BY <2>1, <4>3, <4>4 DEF Turn, Position
      <4> QED BY <2>1, <4>2, <4>5
    <3> QED BY <3>1, <3>2
  <2> QED BY <2>1, <2>2 DEF PassInOrder, InPass
<1>10. CASE PollLagged \/ PollSkipped
  <2>1. /\ tpc = "poll" /\ ready \subseteq ready'
        /\ UNCHANGED <<cursor, owed, start, next, open>>
        /\ tpc' = "scan" \/ (tpc' = "poll" /\ cur' = cur)
    BY <1>10 DEF PollLagged, PollSkipped, Skip, GoOn
  <2> QED BY <1>1, NothingOwedWhenPolled, <2>1 DEF OwedComeFirst, Turn, PassInOrder, InPass, Position, PassStart
<1>11. CASE PollClosed \/ PollPending \/ PollBudgetSpent
  <2>1. /\ tpc = "poll" /\ tpc' = "scan" /\ open \ {cur} \subseteq open'
        /\ UNCHANGED <<ready, cursor, owed, start, next>>
    BY <1>11 DEF PollClosed, PollPending, PollBudgetSpent, GoOn
  <2> QED BY <1>1, NothingOwedWhenPolled, <2>1 DEF OwedComeFirst, Turn, PassInOrder, InPass, Position, PassStart
<1> QED
  BY <1>3, <1>4, <1>5, <1>6, <1>7, <1>8, <1>9, <1>10, <1>11 DEF Next, Transport, Running, Poll

\* Round robin, for any number of routes: every other route that was ready when
\* a route was served is polled before that route is served again.
THEOREM ServedInTurn == Spec => RoundRobin
<1> DEFINE Inv == TypeOK /\ RoundRobinInv
<1>1. Init => Inv
  <2>1. Init => RoundRobinInv
    BY DEF Init, RoundRobinInv, OwedComeFirst, PassInOrder, InPass
  <2> QED BY <2>1, TypeInit
<1>2. Inv /\ [Next]_vars => Inv'
  BY TypeNext, RoundRobinNext
<1>3. Inv /\ [Next]_vars => [staged' # staged /\ staged' # NoRoute => owed[staged'] = {}]_vars
  <2> SUFFICES ASSUME Inv, [Next]_vars, staged' # staged, staged' # NoRoute
               PROVE  owed[staged'] = {}
    OBVIOUS
  <2>1. PollStaged
    BY DEF Next, Writer, Push, CloseBuffer, Wake, SetBit, WakeBegin, WakeEnd, FireDeferred,
           Transport, Running, Resume, PollStage, BeginPass, ScanWord, ClearBit, EndPass, Poll,
           PollLagged, PollSkipped, PollClosed, PollPending, PollBudgetSpent, TakeStaged,
           Send, Finished, vars
  <2>2. tpc = "poll" /\ staged' = cur
    BY <2>1 DEF PollStaged
  <2> QED BY <2>2, NothingOwedWhenPolled
<1> QED BY <1>1, <1>2, <1>3, PTL DEF Spec, RoundRobin

=============================================================================
