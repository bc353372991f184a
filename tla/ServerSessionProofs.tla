------------------------ MODULE ServerSessionProofs ------------------------
(***************************************************************************)
(* For any set of subscription ids, any limits and any funnel capacity:    *)
(* ServerSession keeps the table of cancel handles and the pumps in step   *)
(* and sends the updates of each use of an id in order, one use after the  *)
(* other; and for any number of connections, Serve keeps its soft cap and  *)
(* no woken connection waits through more failed accepts than the cap.     *)
(***************************************************************************)
EXTENDS ServerSession, Serve, FiniteSetTheorems, TLAPS

Events == [type : {"event"}, sub : SubIds, gen : Gens, seq : Nat]

\* The types the variables' histories and the funnel have besides TypeOK.
HistOK ==
  /\ funnel \in Seq(Events)
  /\ lastSeq \in [Gens -> Nat]
  /\ oldGens \subseteq Gens /\ wanted \subseteq Gens /\ said \subseteq Gens
  /\ IsFiniteSet(Live)

\* Where the task is, and what that says of the burst and of the subscription
\* whose end is being reported.
Shape ==
  /\ epc = "burst" => /\ nextGen < MaxGen
                      /\ burst.sub \notin Live /\ Cardinality(Live) < MaxSubs
                      /\ burst.next >= 1 /\ burst.next <= burst.total + 1
  /\ epc \in {"flush", "report"} => ending \in Gens /\ ending \notin pumps
  /\ epc \notin {"flush", "report", "closed"} => ending = NoGen
  /\ epc = "report" => funnel = <<>>

\* The table of cancel handles and the pumps agree.
Slots ==
  /\ \A g \in wanted :
       \/ g \in pumps /\ cancels[pump[g].sub] = g
       \/ ending = g
  /\ \A s \in Live : cancels[s] \in pumps /\ pump[cancels[s]].sub = s

\* Generations are handed out once: what is in use was handed out, and a
\* generation that is over has no pump and nothing in the funnel.
GensOnce ==
  /\ \A g \in pumps \union wanted \union said \union oldGens : g < nextGen
  /\ ending # NoGen => ending < nextGen
  /\ pumps \intersect (said \union oldGens) = {}
  /\ \A i \in DOMAIN funnel : /\ funnel[i].gen < nextGen
                              /\ funnel[i].gen \notin said \union oldGens

\* The numbers of a generation grow: sent, then in the funnel, then the pump's.
NumbersGrow ==
  /\ \A g \in Gens : g < nextGen => lastSeq[g] <= pump[g].seq
  /\ \A g \in Gens : g >= nextGen /\ epc # "closed" =>
       IF epc = "burst" /\ g = nextGen THEN lastSeq[g] < burst.next ELSE lastSeq[g] = 0
  /\ \A i \in DOMAIN funnel : /\ lastSeq[funnel[i].gen] < funnel[i].seq
                              /\ funnel[i].seq <= pump[funnel[i].gen].seq
  /\ \A i, j \in DOMAIN funnel :
       i < j /\ funnel[i].gen = funnel[j].gen => funnel[i].seq < funnel[j].seq

IInv == TypeOK /\ HistOK /\ Shape /\ Slots /\ GensOnce /\ NumbersGrow

-----------------------------------------------------------------------------
\* The frames the task sends.
LEMMA FrameTypes ==
  /\ \A t \in {"none", "reply", "pong"} : [type |-> t] \in Frames
  /\ \A t \in {"error", "ack"}, s \in SubIds : [type |-> t, sub |-> s] \in Frames
  /\ \A t \in {"event", "snapshot"}, s \in SubIds, g \in Gens, n \in Nat :
       [type |-> t, sub |-> s, gen |-> g, seq |-> n] \in Frames
  /\ Events \subseteq Frames
<1>1. \A t \in {"none", "reply", "pong"} : [type |-> t] \in [type : {"none", "reply", "pong"}]
  OBVIOUS
<1>2. \A t \in {"error", "ack"}, s \in SubIds :
        [type |-> t, sub |-> s] \in [type : {"error", "ack"}, sub : SubIds]
  OBVIOUS
<1>3. \A t \in {"event", "snapshot"}, s \in SubIds, g \in Gens, n \in Nat :
        [type |-> t, sub |-> s, gen |-> g, seq |-> n]
          \in [type : {"event", "snapshot"}, sub : SubIds, gen : Gens, seq : Nat]
  OBVIOUS
<1>4. Events \subseteq [type : {"event", "snapshot"}, sub : SubIds, gen : Gens, seq : Nat]
  BY DEF Events
<1> QED BY <1>1, <1>2, <1>3, <1>4 DEF Frames

\* Generations are naturals below MaxGen, and NoGen is none of them.
LEMMA GenFacts ==
  /\ Gens \subseteq Nat /\ NoGen \notin Gens /\ \A g \in Gens : g < MaxGen
  /\ \A n \in 0 .. MaxGen : n < MaxGen => n \in Gens
  BY SessionAssumption DEF Gens

\* The initial state.
LEMMA InitIInv == Init => IInv
<1> SUFFICES ASSUME Init PROVE IInv
  OBVIOUS
<1> USE DEF Init
<1>1. NoBurst.sub \in SubIds /\ NoBurst \in [sub : SubIds, next : Nat, total : 0 .. MaxSnaps]
  <2>1. (CHOOSE s \in SubIds : TRUE) \in SubIds
    BY SessionAssumption
  <2> QED BY <2>1, SessionAssumption DEF NoBurst
<1>2. Live = {}
  BY DEF Live
<1>3. IsFiniteSet(Live) /\ Cardinality(Live) = 0
  BY <1>2, FS_EmptySet
<1>4. pump \in [Gens -> [sub : SubIds, seq : Nat, vals : 0 .. MaxVal]]
  BY <1>1, SessionAssumption DEF NewPump
<1>5. TypeOK
  <2>1. funnel \in Seq(Frames) /\ Len(funnel) <= FunnelCap /\ frames \in 0 .. MaxFrames /\ nextGen \in 0 .. MaxGen
    BY SessionAssumption
  <2>2. out \in Frames
    BY FrameTypes DEF Quiet
  <2>3. Cardinality(Live) <= MaxSubs
    BY <1>3, SessionAssumption
  <2>4. cancels \in [SubIds -> Gens \union {NoGen}]
    OBVIOUS
  <2> QED BY <1>1, <1>4, <2>1, <2>2, <2>3, <2>4 DEF TypeOK
<1>6. HistOK
  BY <1>3 DEF HistOK
<1>7. Shape /\ Slots
  BY <1>2 DEF Shape, Slots
<1>8. GensOnce
  BY DEF GensOnce
<1>9. NumbersGrow
  BY GenFacts DEF NumbersGrow
<1> QED BY <1>5, <1>6, <1>7, <1>8, <1>9 DEF IInv

\* The task moves on, or sends something that is no update.
LEMMA TaskMoves ==
  ASSUME IInv, UNCHANGED <<cancels, pumps, pump, nextGen, burst, ending, funnel, histVars>>,
         dry' \subseteq Gens, greeted' \in BOOLEAN, out' \in Frames, frames' \in 0 .. MaxFrames,
         \/ epc' = epc
         \/ epc \notin {"burst", "flush", "report", "closed"} /\ epc' \in {"recv", "event", "pumps"}
         \/ epc = "flush" /\ epc' = "report" /\ funnel = <<>>
  PROVE  IInv'
<1> USE DEF IInv
<1>1. Live' = Live
  BY DEF Live
<1>2. TypeOK' /\ HistOK'
  BY <1>1 DEF TypeOK, HistOK, histVars
<1>3. Shape' /\ Slots' /\ GensOnce'
  BY <1>1 DEF Shape, Slots, GensOnce, histVars
<1>4. NumbersGrow'
  BY DEF NumbersGrow, histVars
<1> QED BY <1>2, <1>3, <1>4

\* The handles, the pumps and the funnel are dropped: a handshake on a used
\* connection, or its end.
LEMMA SessionDropped ==
  ASSUME IInv, pumps' = {}, cancels' = [s \in SubIds |-> NoGen], funnel' = <<>>, wanted' = {},
         oldGens' \in {oldGens, 0 .. nextGen - 1},
         epc' = "closed" \/ (epc = "recv" /\ epc' = epc),
         greeted' \in BOOLEAN, out' \in Frames, frames' \in 0 .. MaxFrames,
         UNCHANGED <<pump, dry, nextGen, burst, ending, said, lastSeq>>
  PROVE  IInv'
<1> USE DEF IInv
<1>1. Live' = {}
  BY DEF Live
<1>2. IsFiniteSet(Live)' /\ Cardinality(Live') = 0
  BY <1>1, FS_EmptySet
<1>3. TypeOK'
  <2>1. funnel' \in Seq(Frames) /\ Len(funnel') <= FunnelCap
    BY SessionAssumption
  <2> QED BY <1>2, <2>1, SessionAssumption DEF TypeOK
<1>4. nextGen \in 0 .. MaxGen /\ 0 .. nextGen - 1 \subseteq Gens
  BY SessionAssumption DEF TypeOK, Gens
<1>5. HistOK'
  BY <1>2, <1>4 DEF HistOK
<1>6. Shape' /\ Slots'
  BY <1>1 DEF Shape, Slots
<1>7. GensOnce'
  BY <1>4 DEF GensOnce, TypeOK
<1>8. NumbersGrow'
  BY DEF NumbersGrow
<1> QED BY <1>3, <1>5, <1>6, <1>7, <1>8

\* A handshake.
LEMMA HelloStep ==
  ASSUME IInv, Hello
  PROVE  IInv'
<1>1. /\ epc = "recv" /\ epc' = epc /\ greeted' = TRUE /\ out' \in Frames /\ frames' \in 0 .. MaxFrames
      /\ UNCHANGED <<pump, dry, nextGen, burst, ending, said, lastSeq>>
  BY FrameTypes, SessionAssumption DEF Hello, Frame, IInv, TypeOK
<1>2. CASE greeted
  BY <1>1, <1>2, SessionDropped DEF Hello, HandshakeReset
<1>3. CASE ~greeted
  BY <1>1, <1>3, TaskMoves DEF Hello, histVars, IInv, TypeOK
<1> QED BY <1>2, <1>3

\* A Subscribe is refused, or its burst begins.
LEMMA SubscribeStep ==
  ASSUME IInv, NEW s \in SubIds, Subscribe(s)
  PROVE  IInv'
<1> USE DEF IInv
<1>1. /\ epc = "recv" /\ nextGen < MaxGen /\ frames' \in 0 .. MaxFrames
      /\ UNCHANGED <<subVars, ending, funnel, greeted, histVars>>
  BY SessionAssumption DEF Subscribe, Frame, TypeOK
<1>2. CASE out' = [type |-> "error", sub |-> s] /\ UNCHANGED <<epc, burst>>
  BY <1>1, <1>2, FrameTypes, TaskMoves DEF subVars, TypeOK
<1>3. CASE /\ ~Refused(s) /\ epc' = "burst"
           /\ \E n \in 0 .. MaxSnaps : burst' = [sub |-> s, next |-> 1, total |-> n]
           /\ out' \in {out, [type |-> "ack", sub |-> s]}
  <2>1. PICK n \in 0 .. MaxSnaps : burst' = [sub |-> s, next |-> 1, total |-> n]
    BY <1>3
  <2>2. Live' = Live /\ s \notin Live /\ ~(Cardinality(Live) >= MaxSubs)
    BY <1>1, <1>3 DEF Live, Refused, subVars
  <2>3. Cardinality(Live) < MaxSubs
    BY <2>2, FS_CardinalityType, SessionAssumption DEF HistOK
  <2>4. TypeOK' /\ HistOK'
    BY <1>1, <1>3, <2>1, <2>2, FrameTypes, SessionAssumption DEF TypeOK, HistOK, subVars, histVars
  <2>5. Shape' /\ Slots' /\ GensOnce'
    BY <1>1, <1>3, <2>1, <2>2, <2>3 DEF Shape, Slots, GensOnce, subVars, histVars
  <2>6. NumbersGrow'
    BY <1>1, <1>3, <2>1 DEF NumbersGrow, subVars, histVars
  <2> QED BY <2>4, <2>5, <2>6
<1> QED BY <1>2, <1>3 DEF Subscribe

\* A snapshot of the burst goes out, or is skipped.
LEMMA SnapshotStep ==
  ASSUME IInv, NEW encoded \in BOOLEAN, SendSnapshot(encoded)
  PROVE  IInv' /\ (out' # out => /\ out'.type = "snapshot"
                                 /\ out'.seq > lastSeq[out'.gen])
<1> USE DEF IInv
<1>1. /\ epc = "burst" /\ burst.next <= burst.total /\ burst' = [burst EXCEPT !.next = @ + 1]
      /\ UNCHANGED <<epc, subVars, ending, funnel, greeted, oldGens, wanted, said, frames>>
      /\ nextGen \in Gens /\ burst.sub \in SubIds /\ burst.next \in Nat /\ burst.total \in 0 .. MaxSnaps
  BY GenFacts DEF SendSnapshot, Shape, TypeOK
<1>2. /\ burst' \in [sub : SubIds, next : Nat, total : 0 .. MaxSnaps]
      /\ burst'.sub = burst.sub /\ burst'.next = burst.next + 1 /\ burst'.total = burst.total
  <2>1. burst \in [sub : SubIds, next : Nat, total : 0 .. MaxSnaps]
    BY DEF TypeOK
  <2> QED BY <1>1, <2>1
<1>3. \/ /\ out' = [type |-> "snapshot", sub |-> burst.sub, gen |-> nextGen, seq |-> burst.next]
         /\ lastSeq' = [lastSeq EXCEPT ![nextGen] = burst.next]
      \/ UNCHANGED <<out, lastSeq>>
  BY DEF SendSnapshot
<1>4. out' \in Frames /\ lastSeq' \in [Gens -> Nat] /\ Live' = Live
  <2>1. out' \in Frames
    BY <1>1, <1>3, FrameTypes DEF TypeOK
  <2>2. lastSeq' \in [Gens -> Nat]
    BY <1>1, <1>3 DEF HistOK
  <2>3. Live' = Live
    BY <1>1 DEF Live, subVars
  <2> QED BY <2>1, <2>2, <2>3
<1>5. TypeOK' /\ HistOK'
  BY <1>1, <1>2, <1>4 DEF TypeOK, HistOK, subVars
<1>6. Shape' /\ Slots' /\ GensOnce'
  BY <1>1, <1>2, <1>4, SessionAssumption DEF Shape, Slots, GensOnce, subVars
<1>7. \A g \in Gens : lastSeq'[g] = lastSeq[g] \/ (g = nextGen /\ lastSeq'[g] = burst.next)
  BY <1>3 DEF HistOK
<1>8. lastSeq[nextGen] < burst.next
  BY <1>1, GenFacts DEF NumbersGrow
<1>9. NumbersGrow'
  <2>1. \A i \in DOMAIN funnel : funnel[i].gen \in Gens /\ funnel[i].gen # nextGen
    <3>1. \A i \in DOMAIN funnel : funnel[i] \in Events
      BY DEF HistOK
    <3>2. \A i \in DOMAIN funnel : funnel[i].gen \in Gens /\ funnel[i].gen < nextGen
      BY <3>1 DEF Events, GensOnce
    <3> QED BY <1>1, <3>2, GenFacts
  <2>2. \A g \in Gens : g < nextGen => lastSeq'[g] = lastSeq[g]
    BY <1>1, <1>7, GenFacts
  <2>3. \A g \in Gens : g >= nextGen =>
          IF g = nextGen THEN lastSeq'[g] < burst'.next ELSE lastSeq'[g] = 0
    BY <1>1, <1>2, <1>7, <1>8 DEF NumbersGrow, HistOK
  <2> QED BY <1>1, <1>7, <2>1, <2>2, <2>3 DEF NumbersGrow, subVars
<1> QED BY <1>3, <1>5, <1>6, <1>8, <1>9

\* Fewer handles are fewer live subscriptions.
LEMMA FewerLive ==
  ASSUME IInv, Live' \subseteq Live
  PROVE  IsFiniteSet(Live)' /\ Cardinality(Live)' <= MaxSubs
<1>1. IsFiniteSet(Live) /\ Cardinality(Live) <= MaxSubs
  BY DEF IInv, HistOK, TypeOK
<1>2. IsFiniteSet(Live') /\ Cardinality(Live') <= Cardinality(Live)
  BY <1>1, FS_Subset
<1>3. Cardinality(Live') \in Nat /\ Cardinality(Live) \in Nat
  BY <1>1, <1>2, FS_CardinalityType
<1> QED BY <1>1, <1>2, <1>3, SessionAssumption

\* The subscription is registered under a generation nobody has.
LEMMA RegisterStep ==
  ASSUME IInv, Register
  PROVE  IInv'
<1> USE DEF IInv
<1>1. PICK n \in Gens : n = nextGen
  BY GenFacts DEF Register, Shape, TypeOK
<1>2. PICK b \in SubIds : b = burst.sub
  BY DEF TypeOK
<1>3. /\ epc = "burst" /\ burst.next > burst.total /\ epc' = "recv" /\ burst' = NoBurst
      /\ cancels' = [cancels EXCEPT ![b] = n]
      /\ pumps' = pumps \union {n} /\ nextGen' = n + 1 /\ wanted' = wanted \union {n}
      /\ pump' = [pump EXCEPT ![n] = [sub |-> b, seq |-> burst.total, vals |-> 0]]
      /\ UNCHANGED <<dry, ending, funnel, greeted, out, oldGens, said, lastSeq, frames>>
      /\ burst.total \in Nat /\ burst.next \in Nat /\ burst.next <= burst.total + 1
      /\ b \notin Live /\ Cardinality(Live) < MaxSubs /\ IsFiniteSet(Live)
  BY <1>1, <1>2 DEF Register, NewPump, TypeOK, Shape, HistOK
<1>4. Live' = Live \union {b}
  BY <1>3, GenFacts DEF Live, TypeOK
<1>5. IsFiniteSet(Live)' /\ Cardinality(Live)' <= MaxSubs
  <2>1. IsFiniteSet(Live \union {b}) /\ Cardinality(Live \union {b}) = Cardinality(Live) + 1
    BY <1>3, FS_AddElement
  <2>2. Cardinality(Live) \in Nat
    BY <1>3, FS_CardinalityType
  <2> QED BY <1>3, <1>4, <2>1, <2>2, SessionAssumption
<1>6. NoBurst \in [sub : SubIds, next : Nat, total : 0 .. MaxSnaps]
  <2>1. (CHOOSE s \in SubIds : TRUE) \in SubIds
    BY SessionAssumption
  <2> QED BY <2>1, SessionAssumption DEF NoBurst
<1>7. pump' \in [Gens -> [sub : SubIds, seq : Nat, vals : 0 .. MaxVal]]
  BY <1>3, SessionAssumption DEF TypeOK
<1>8. nextGen' \in 0 .. MaxGen /\ n \in Nat
  BY <1>1, <1>3, GenFacts, SessionAssumption
<1>9. TypeOK' /\ HistOK'
  BY <1>3, <1>5, <1>6, <1>7, <1>8 DEF TypeOK, HistOK
<1>10. /\ \A g \in Gens : g # n => pump'[g] = pump[g]
       /\ pump'[n].sub = b /\ pump'[n].seq = burst.total
       /\ cancels'[b] = n /\ \A s \in SubIds : s # b => cancels'[s] = cancels[s]
  BY <1>3 DEF TypeOK
<1>11. \A g \in pumps \union wanted \union said \union oldGens : g < n /\ g # n /\ g \in Gens
  BY <1>1, <1>8, GenFacts DEF GensOnce, TypeOK, HistOK
<1>12. Shape'
  BY <1>3 DEF Shape
<1>13. Slots'
  <2>1. ASSUME NEW g \in wanted' PROVE (g \in pumps' /\ cancels'[pump'[g].sub] = g) \/ ending' = g
    <3>1. CASE g = n
      BY <1>3, <1>10, <3>1
    <3>2. CASE g # n
      <4>1. g \in wanted /\ ending = NoGen /\ g \in Gens
        BY <1>3, <1>11, <3>2 DEF Shape
      <4>2. g \in pumps /\ cancels[pump[g].sub] = g /\ pump[g].sub \in SubIds
        BY <4>1, GenFacts DEF Slots, TypeOK
      <4>3. pump[g].sub \in Live
        BY <4>1, <4>2, GenFacts DEF Live
      <4> QED BY <1>3, <1>10, <3>2, <4>1, <4>2, <4>3
    <3> QED BY <3>1, <3>2
  <2>2. ASSUME NEW s \in Live' PROVE cancels'[s] \in pumps' /\ pump'[cancels'[s]].sub = s
    <3>1. CASE s = b
      BY <1>3, <1>10, <3>1
    <3>2. CASE s # b
      <4>1. s \in Live /\ s \in SubIds /\ cancels'[s] = cancels[s]
        BY <1>4, <1>10, <3>2 DEF Live
      <4>2. cancels[s] \in pumps /\ pump[cancels[s]].sub = s
        BY <4>1 DEF Slots
      <4> QED BY <1>3, <1>10, <1>11, <4>1, <4>2
    <3> QED BY <3>1, <3>2
  <2> QED BY <2>1, <2>2 DEF Slots
<1>14. \A i \in DOMAIN funnel : funnel[i].gen \in Gens /\ funnel[i].gen < n
  <2>1. \A i \in DOMAIN funnel : funnel[i] \in Events
    BY DEF HistOK
  <2> QED BY <1>1, <2>1 DEF Events, GensOnce
<1>15. \A g \in Gens : g < n => g < n + 1 /\ g # n
  BY <1>8, GenFacts
<1>16. GensOnce'
  <2>1. \A i \in DOMAIN funnel : funnel[i].gen < nextGen'
    BY <1>3, <1>14, <1>15
  <2>2. \A g \in pumps' \union wanted' \union said' \union oldGens' : g < nextGen'
    <3>1. n < n + 1
      BY <1>8
    <3> QED BY <1>3, <1>11, <1>15, <3>1
  <2>3. ending' = NoGen
    BY <1>3 DEF Shape
  <2> QED BY <1>3, <1>11, <2>1, <2>2, <2>3 DEF GensOnce
<1>17. NumbersGrow'
  <2>1. lastSeq[n] \in Nat /\ lastSeq[n] < burst.next
    BY <1>1, <1>3, <1>8 DEF NumbersGrow, HistOK
  <2>2. \A g \in Gens : g < nextGen' => lastSeq'[g] <= pump'[g].seq
    <3>1. ASSUME NEW g \in Gens, g < n + 1 PROVE lastSeq[g] <= pump'[g].seq
      <4>1. CASE g = n
        BY <1>3, <1>10, <2>1, <4>1
      <4>2. CASE g # n
        <5>1. g < n
          BY <1>8, <3>1, <4>2, GenFacts
        <5> QED BY <1>1, <1>10, <4>2, <5>1 DEF NumbersGrow
      <4> QED BY <4>1, <4>2
    <3> QED BY <1>3, <3>1
  <2>3. \A g \in Gens : g >= nextGen' => lastSeq'[g] = 0
    BY <1>1, <1>3, <1>8, GenFacts DEF NumbersGrow
  <2>4. \A i \in DOMAIN funnel : pump'[funnel[i].gen] = pump[funnel[i].gen]
    BY <1>10, <1>14, <1>15
  <2> QED BY <1>3, <2>2, <2>3, <2>4 DEF NumbersGrow
<1> QED BY <1>9, <1>12, <1>13, <1>16, <1>17

\* The client lets go of an id.
LEMMA UnsubscribeStep ==
  ASSUME IInv, NEW s \in SubIds, Unsubscribe(s)
  PROVE  IInv'
<1> USE DEF IInv
<1>1. /\ epc = "recv" /\ frames' \in 0 .. MaxFrames
      /\ cancels' = [cancels EXCEPT ![s] = NoGen] /\ wanted' = {g \in wanted : pump[g].sub # s}
      /\ UNCHANGED <<epc, pumps, pump, dry, nextGen, burst, ending, funnel, greeted, out, oldGens, said, lastSeq>>
  BY SessionAssumption DEF Unsubscribe, Frame, TypeOK
<1>2. /\ cancels' \in [SubIds -> Gens \union {NoGen}]
      /\ cancels'[s] = NoGen /\ \A t \in SubIds : t # s => cancels'[t] = cancels[t]
  BY <1>1 DEF TypeOK
<1>3. Live' \subseteq Live /\ s \notin Live'
  BY <1>2 DEF Live
<1>4. TypeOK' /\ HistOK'
  BY <1>1, <1>2, <1>3, FewerLive DEF TypeOK, HistOK
<1>5. Shape' /\ GensOnce' /\ NumbersGrow'
  BY <1>1 DEF Shape, GensOnce, NumbersGrow
<1>6. Slots'
  <2>1. \A g \in wanted : pump[g].sub \in SubIds
    BY DEF TypeOK, HistOK
  <2>2. \A t \in Live' : t \in SubIds /\ t # s
    BY <1>3 DEF Live
  <2> QED BY <1>1, <1>2, <1>3, <2>1, <2>2 DEF Slots
<1> QED BY <1>4, <1>5, <1>6

\* The oldest event of the funnel.
LEMMA FunnelPop ==
  ASSUME HistOK, funnel # <<>>, funnel' = Tail(funnel)
  PROVE  /\ funnel' \in Seq(Events) /\ Len(funnel') = Len(funnel) - 1 /\ Len(funnel) \in Nat
         /\ 1 \in DOMAIN funnel /\ Head(funnel) = funnel[1] /\ Head(funnel) \in Events
         /\ \A i \in DOMAIN funnel' : /\ i \in Nat /\ i + 1 \in DOMAIN funnel /\ 1 < i + 1
                                       /\ funnel'[i] = funnel[i + 1]
  BY DEF HistOK

\* An event is taken from the funnel and sent, or skipped: its number is above
\* every number sent before and below those that follow.
LEMMA EventStep ==
  ASSUME IInv, NEW encoded \in BOOLEAN, funnel # <<>>, funnel' = Tail(funnel), SendEvent(encoded),
         (epc = "event" /\ epc' = "recv") \/ (epc = "flush" /\ epc' = epc),
         UNCHANGED <<subVars, burst, ending, greeted, oldGens, wanted, said, frames>>
  PROVE  IInv' /\ (out' # out => /\ out'.type = "event"
                                 /\ out'.gen \notin said \union oldGens
                                 /\ out'.seq > lastSeq[out'.gen])
<1> USE DEF IInv
<1>1. PICK f \in Events : f = Head(funnel)
  BY FunnelPop
<1>2. /\ funnel' \in Seq(Events) /\ Len(funnel') = Len(funnel) - 1 /\ Len(funnel) \in Nat
      /\ 1 \in DOMAIN funnel /\ f = funnel[1]
      /\ \A i \in DOMAIN funnel' : /\ i \in Nat /\ i + 1 \in DOMAIN funnel /\ 1 < i + 1
                                    /\ funnel'[i] = funnel[i + 1]
  BY <1>1, FunnelPop
<1>3. f.type = "event" /\ f.sub \in SubIds /\ f.gen \in Gens /\ f.seq \in Nat /\ f \in Frames
  BY FrameTypes DEF Events
<1>4. \/ out' = f /\ lastSeq' = [lastSeq EXCEPT ![f.gen] = f.seq]
      \/ UNCHANGED <<out, lastSeq>>
  BY <1>1 DEF SendEvent
<1>5. f.gen \notin said \union oldGens /\ f.gen < nextGen /\ f.seq > lastSeq[f.gen] /\ f.seq <= pump[f.gen].seq
  <2>1. lastSeq[f.gen] < f.seq /\ lastSeq[f.gen] \in Nat
    BY <1>2, <1>3 DEF NumbersGrow, HistOK
  <2> QED BY <1>2, <1>3, <2>1 DEF GensOnce, NumbersGrow
<1>6. Live' = Live /\ lastSeq' \in [Gens -> Nat] /\ out' \in Frames
  <2>1. Live' = Live
    BY DEF Live, subVars
  <2> QED BY <1>3, <1>4, <2>1 DEF HistOK, TypeOK
<1>7. \A i \in DOMAIN funnel' : funnel'[i] \in Events /\ funnel'[i].gen \in Gens /\ funnel'[i].seq \in Nat
  <2>1. \A i \in DOMAIN funnel' : funnel'[i] \in Events
    BY <1>2
  <2> QED BY <2>1 DEF Events
<1>8. TypeOK' /\ HistOK'
  <2>1. funnel' \in Seq(Frames)
    BY <1>2, FrameTypes
  <2>2. Len(funnel') <= FunnelCap
    BY <1>2, SessionAssumption DEF TypeOK
  <2> QED BY <1>2, <1>6, <2>1, <2>2 DEF TypeOK, HistOK, subVars
<1>9. Shape' /\ Slots'
  BY <1>6 DEF Shape, Slots, subVars
<1>10. GensOnce'
  BY <1>2 DEF GensOnce, subVars
<1>11. \A g \in Gens : lastSeq'[g] = lastSeq[g] \/ (g = f.gen /\ lastSeq'[g] = f.seq)
  BY <1>4 DEF HistOK
<1>12. NumbersGrow'
  <2>1. \A g \in Gens : g < nextGen => lastSeq'[g] <= pump[g].seq
    BY <1>5, <1>11 DEF NumbersGrow
  <2>2. \A g \in Gens : g >= nextGen => g # f.gen
    BY <1>3, <1>5, GenFacts DEF TypeOK
  <2>3. \A g \in Gens : g >= nextGen /\ epc' # "closed" =>
          IF epc' = "burst" /\ g = nextGen THEN lastSeq'[g] < burst.next ELSE lastSeq'[g] = 0
    BY <1>11, <2>2 DEF NumbersGrow
  <2>4. ASSUME NEW i \in DOMAIN funnel'
        PROVE  lastSeq'[funnel'[i].gen] < funnel'[i].seq /\ funnel'[i].seq <= pump[funnel'[i].gen].seq
    <3>1. lastSeq[funnel'[i].gen] < funnel'[i].seq /\ funnel'[i].seq <= pump[funnel'[i].gen].seq
      BY <1>2 DEF NumbersGrow
    <3>2. funnel'[i].gen = f.gen => f.seq < funnel'[i].seq
      BY <1>2 DEF NumbersGrow
    <3> QED BY <1>7, <1>11, <3>1, <3>2
  <2>5. ASSUME NEW i \in DOMAIN funnel', NEW j \in DOMAIN funnel', i < j, funnel'[i].gen = funnel'[j].gen
        PROVE  funnel'[i].seq < funnel'[j].seq
    <3>1. i + 1 < j + 1
      BY <1>2, <2>5
    <3> QED BY <1>2, <2>5, <3>1 DEF NumbersGrow
  <2> QED BY <2>1, <2>3, <2>4, <2>5 DEF NumbersGrow, subVars
<1> QED BY <1>3, <1>4, <1>5, <1>8, <1>9, <1>10, <1>12

\* A pump numbers an update; it is queued behind the ones before it, or dropped.
LEMMA PumpStep ==
  ASSUME IInv, NEW g \in Gens, NEW k \in 0 .. 1, PumpUpdate(g, k)
  PROVE  IInv'
<1> USE DEF IInv
<1>1. PICK seq \in Nat : seq = pump[g].seq + k + 1
  BY DEF TypeOK
<1>2. PICK s \in SubIds : s = pump[g].sub
  BY DEF TypeOK
<1> DEFINE f == [type |-> "event", sub |-> s, gen |-> g, seq |-> seq]
<1>3. /\ epc = "pumps" /\ g \in pumps /\ pump[g].vals < MaxVal
      /\ pump' = [pump EXCEPT ![g].seq = seq, ![g].vals = @ + 1]
      /\ funnel' = IF Len(funnel) < FunnelCap THEN Append(funnel, f) ELSE funnel
      /\ UNCHANGED <<epc, cancels, pumps, dry, nextGen, burst, ending, greeted, out, histVars, frames>>
  BY <1>1, <1>2 DEF PumpUpdate
<1>4. f \in Events /\ f.gen = g /\ f.seq = seq
  BY DEF Events
<1> HIDE DEF f
<1>5. /\ pump' \in [Gens -> [sub : SubIds, seq : Nat, vals : 0 .. MaxVal]]
      /\ \A h \in Gens : pump'[h].sub = pump[h].sub
      /\ \A h \in Gens : h # g => pump'[h] = pump[h]
      /\ pump'[g].seq = seq /\ pump[g].seq < seq /\ pump[g].seq \in Nat
  <2>1. /\ pump \in [Gens -> [sub : SubIds, seq : Nat, vals : 0 .. MaxVal]]
        /\ pump[g].seq \in Nat /\ pump[g].vals \in 0 .. MaxVal /\ pump[g].vals + 1 \in 0 .. MaxVal
    BY <1>3, SessionAssumption, SMTT(30) DEF TypeOK
  <2>2. pump[g].seq < seq
    BY <1>1, <2>1
  <2>3. pump' = [pump EXCEPT ![g] = [sub |-> pump[g].sub, seq |-> seq, vals |-> pump[g].vals + 1]]
    BY <1>3, <2>1
  <2> QED BY <2>1, <2>2, <2>3
<1>6. Live' = Live
  BY <1>3 DEF Live
<1>7. /\ funnel' \in Seq(Events) /\ Len(funnel') <= FunnelCap
      /\ \A i \in DOMAIN funnel' :
           \/ i \in DOMAIN funnel /\ funnel'[i] = funnel[i]
           \/ i = Len(funnel) + 1 /\ funnel'[i] = f
  <2>1. funnel \in Seq(Events) /\ Len(funnel) <= FunnelCap /\ FunnelCap \in Nat
    BY SessionAssumption DEF HistOK, TypeOK
  <2>2. CASE Len(funnel) < FunnelCap
    <3>1. funnel' = Append(funnel, f)
      BY <1>3, <2>2
    <3> QED BY <1>4, <2>1, <2>2, <3>1
  <2>3. CASE ~(Len(funnel) < FunnelCap)
    BY <1>3, <2>1, <2>3
  <2> QED BY <2>2, <2>3
<1>8. TypeOK' /\ HistOK'
  <2>1. funnel' \in Seq(Frames)
    BY <1>7, FrameTypes
  <2> QED BY <1>3, <1>5, <1>6, <1>7, <2>1 DEF TypeOK, HistOK, histVars
<1>9. Shape' /\ Slots'
  <2>1. \A h \in wanted : h \in Gens
    BY DEF HistOK
  <2>2. \A t \in Live : cancels[t] \in Gens
    BY DEF Slots, TypeOK
  <2> QED BY <1>3, <1>5, <1>6, <2>1, <2>2 DEF Shape, Slots, histVars
<1>10. GensOnce'
  <2>1. g < nextGen /\ g \notin said \union oldGens
    BY <1>3 DEF GensOnce
  <2> QED BY <1>3, <1>4, <1>7, <2>1 DEF GensOnce, histVars
<1>11. \A i \in DOMAIN funnel : funnel[i] \in Events /\ funnel[i].gen \in Gens /\ funnel[i].seq \in Nat
  <2>1. \A i \in DOMAIN funnel : funnel[i] \in Events
    BY DEF HistOK
  <2> QED BY <2>1 DEF Events
<1>12. NumbersGrow'
  <2>1. g < nextGen /\ lastSeq[g] <= pump[g].seq /\ lastSeq[g] \in Nat
    BY <1>3 DEF GensOnce, NumbersGrow, HistOK
  <2>2. \A h \in Gens : h < nextGen => lastSeq[h] <= pump'[h].seq
    BY <1>5, <2>1 DEF NumbersGrow
  <2>3. \A i \in DOMAIN funnel :
          /\ lastSeq[funnel[i].gen] < funnel[i].seq /\ funnel[i].seq <= pump'[funnel[i].gen].seq
          /\ funnel[i].gen = g => funnel[i].seq < seq
    BY <1>5, <1>11 DEF NumbersGrow
  <2>4. ASSUME NEW i \in DOMAIN funnel'
        PROVE  lastSeq[funnel'[i].gen] < funnel'[i].seq /\ funnel'[i].seq <= pump'[funnel'[i].gen].seq
    BY <1>4, <1>5, <1>7, <2>1, <2>3
  <2>5. ASSUME NEW i \in DOMAIN funnel', NEW j \in DOMAIN funnel', i < j, funnel'[i].gen = funnel'[j].gen
        PROVE  funnel'[i].seq < funnel'[j].seq
    <3>1. i \in DOMAIN funnel
      BY <1>7, <2>5 DEF HistOK
    <3> QED BY <1>4, <1>7, <2>3, <2>5, <3>1 DEF NumbersGrow, HistOK
  <2> QED BY <1>3, <2>2, <2>4, <2>5 DEF NumbersGrow, histVars
<1> QED BY <1>8, <1>9, <1>10, <1>12

\* A pump that has ended is reaped; if its id is still its own, the end of its
\* stream is to be reported.
LEMMA SubDrainedStep ==
  ASSUME IInv, NEW g \in Gens, SubDrained(g)
  PROVE  IInv'
<1> USE DEF IInv
<1>1. /\ epc = "pumps" /\ g \in pumps /\ pumps' = pumps \ {g}
      /\ UNCHANGED <<pump, dry, nextGen, burst, funnel, greeted, out, histVars, frames>>
      /\ ending = NoGen /\ pump[g].sub \in SubIds
  BY DEF SubDrained, Shape, TypeOK
<1>2. PICK s \in SubIds : s = pump[g].sub
  BY <1>1
<1>3. \/ /\ cancels[s] # g /\ epc' = "recv" /\ UNCHANGED <<cancels, ending>>
      \/ /\ cancels[s] = g /\ cancels' = [cancels EXCEPT ![s] = NoGen]
         /\ epc' = "flush" /\ ending' = g
  BY <1>2 DEF SubDrained, OwnsEntry, Pruned, Exhausted, Cancelled, BeforeReport
<1>4. /\ cancels' \in [SubIds -> Gens \union {NoGen}]
      /\ \A t \in SubIds : cancels'[t] = cancels[t] \/ (t = s /\ cancels[t] = g /\ cancels'[t] = NoGen)
      /\ cancels'[s] # g
  BY <1>3, GenFacts DEF TypeOK
<1>5. Live' \subseteq Live
  BY <1>4 DEF Live
<1>6. TypeOK' /\ HistOK'
  BY <1>1, <1>3, <1>4, <1>5, FewerLive DEF TypeOK, HistOK, histVars
<1>7. Shape'
  BY <1>1, <1>3, GenFacts DEF Shape
<1>8. Slots'
  <2>1. ASSUME NEW h \in wanted PROVE (h \in pumps' /\ cancels'[pump[h].sub] = h) \/ ending' = h
    <3>1. h \in Gens /\ h \in pumps /\ cancels[pump[h].sub] = h /\ pump[h].sub \in SubIds
      BY <1>1, GenFacts DEF Slots, HistOK, TypeOK
    <3>2. CASE h = g
      BY <1>2, <1>3, <3>1, <3>2
    <3>3. CASE h # g
      BY <1>1, <1>4, <3>1, <3>3
    <3> QED BY <3>2, <3>3
  <2>2. ASSUME NEW t \in Live' PROVE cancels'[t] \in pumps' /\ pump[cancels'[t]].sub = t
    <3>1. t \in SubIds /\ t \in Live /\ cancels'[t] = cancels[t]
      BY <1>4, <1>5 DEF Live
    <3>2. cancels[t] \in pumps /\ pump[cancels[t]].sub = t
      BY <3>1 DEF Slots
    <3>3. cancels[t] # g
      BY <1>2, <1>4, <3>1, <3>2
    <3> QED BY <1>1, <3>1, <3>2, <3>3
  <2> QED BY <1>1, <2>1, <2>2 DEF Slots, histVars
<1>9. GensOnce'
  BY <1>1, <1>3 DEF GensOnce, histVars
<1>10. NumbersGrow'
  BY <1>1, <1>3 DEF NumbersGrow, histVars
<1> QED BY <1>6, <1>7, <1>8, <1>9, <1>10

\* The end of a subscription is reported once the funnel is empty.
LEMMA ReportStep ==
  ASSUME IInv, ReportEnd
  PROVE  IInv'
<1> USE DEF IInv
<1>1. /\ epc = "report" /\ epc' = "recv" /\ said' = said \union {ending} /\ wanted' = wanted \ {ending}
      /\ ending' = NoGen /\ out' = [type |-> "error", sub |-> pump[ending].sub]
      /\ UNCHANGED <<subVars, burst, funnel, greeted, oldGens, lastSeq, frames>>
      /\ ending \in Gens /\ ending \notin pumps /\ funnel = <<>> /\ pump[ending].sub \in SubIds
  BY DEF ReportEnd, Shape, TypeOK
<1>2. Live' = Live /\ out' \in Frames
  BY <1>1, FrameTypes DEF Live, subVars
<1>3. TypeOK' /\ HistOK'
  BY <1>1, <1>2 DEF TypeOK, HistOK, subVars
<1>4. Shape' /\ Slots'
  BY <1>1, <1>2 DEF Shape, Slots, subVars
<1>5. GensOnce'
  BY <1>1, GenFacts DEF GensOnce, subVars
<1>6. NumbersGrow'
  BY <1>1 DEF NumbersGrow, subVars
<1> QED BY <1>3, <1>4, <1>5, <1>6

\* What a step may send.
MaySend ==
  out' # out =>
    /\ out'.type = "event" => out'.gen \notin said \union oldGens
    /\ out'.type \in {"event", "snapshot"} => out'.seq > lastSeq[out'.gen]

\* Every step keeps the invariant and sends what it may.
LEMMA NextIInv == IInv /\ [Next]_vars => IInv' /\ MaySend
<1> SUFFICES ASSUME IInv, [Next]_vars PROVE IInv' /\ MaySend
  OBVIOUS
<1>1. ASSUME out' \in {out} \union {[type |-> t] : t \in {"reply", "pong"}}
                    \union {[type |-> t, sub |-> s] : t \in {"error", "ack"}, s \in SubIds}
      PROVE  MaySend
  BY <1>1 DEF MaySend
<1>2. CASE Hello
  <2>1. out' \in {out, [type |-> "reply"]}
    BY <1>2 DEF Hello
  <2> QED BY <1>1, <1>2, <2>1, HelloStep
<1>3. CASE OtherRequest \/ WriteOrPing
  <2>1. /\ out' \in {out, [type |-> "reply"], [type |-> "pong"]} /\ epc' = epc /\ frames' \in 0 .. MaxFrames
        /\ UNCHANGED <<epc, subVars, burst, ending, funnel, greeted, histVars>>
    BY <1>3, SessionAssumption DEF OtherRequest, WriteOrPing, Frame, IInv, TypeOK
  <2>2. out' \in Frames /\ dry' \subseteq Gens /\ greeted' \in BOOLEAN
    BY <2>1, FrameTypes DEF IInv, TypeOK, subVars
  <2> QED BY <1>1, <2>1, <2>2, TaskMoves DEF subVars
<1>4. ASSUME NEW s \in SubIds, Subscribe(s) PROVE IInv' /\ MaySend
  <2>1. out' \in {out, [type |-> "error", sub |-> s], [type |-> "ack", sub |-> s]}
    BY <1>4 DEF Subscribe
  <2> QED BY <1>1, <1>4, <2>1, SubscribeStep
<1>5. ASSUME NEW s \in SubIds, Unsubscribe(s) PROVE IInv' /\ MaySend
  BY <1>5, UnsubscribeStep DEF Unsubscribe, MaySend
<1>6. ASSUME NEW g \in Gens, NEW k \in 0 .. 1, PumpUpdate(g, k) PROVE IInv' /\ MaySend
  BY <1>6, PumpStep DEF PumpUpdate, MaySend
<1>7. ASSUME NEW g \in Gens, SubDrained(g) PROVE IInv' /\ MaySend
  BY <1>7, SubDrainedStep DEF SubDrained, MaySend
<1>8. ASSUME NEW encoded \in BOOLEAN, SendSnapshot(encoded) PROVE IInv' /\ MaySend
  BY <1>8, SnapshotStep DEF MaySend
<1>9. ASSUME NEW encoded \in BOOLEAN, ForwardEvent(encoded) \/ Flush(encoded) PROVE IInv' /\ MaySend
  BY <1>9, EventStep DEF ForwardEvent, Flush, MaySend
<1>10. CASE Authenticate \/ NoFrame \/ NoEvent \/ PumpsPending \/ Flushed
  <2>1. /\ UNCHANGED <<subVars, burst, ending, funnel, greeted, out, histVars, frames>>
        /\ \/ epc \in {"auth", "recv", "event", "pumps"} /\ epc' \in {"recv", "event", "pumps"}
           \/ epc = "flush" /\ epc' = "report" /\ funnel = <<>>
    BY <1>10 DEF Authenticate, NoFrame, NoEvent, PumpsPending, Flushed
  <2> QED BY <2>1, TaskMoves DEF subVars, IInv, TypeOK, MaySend
<1>11. CASE Register
  BY <1>11, RegisterStep DEF Register, MaySend
<1>12. CASE ReportEnd
  <2>1. out' = [type |-> "error", sub |-> pump[ending].sub] /\ pump[ending].sub \in SubIds
    BY <1>12 DEF ReportEnd, IInv, Shape, TypeOK
  <2> QED BY <1>1, <1>12, <2>1, ReportStep
<1>13. ASSUME NEW g \in Gens, StreamEnds(g) PROVE IInv' /\ MaySend
  <2>1. /\ dry' \subseteq Gens
        /\ UNCHANGED <<epc, cancels, pumps, pump, nextGen, burst, ending, funnel, greeted, out, histVars, frames>>
    BY <1>13 DEF StreamEnds, IInv, TypeOK
  <2> QED BY <2>1, TaskMoves DEF IInv, TypeOK, MaySend
<1>14. CASE Close
  <2>1. IInv'
    BY <1>14, SessionDropped DEF Close, IInv, TypeOK
  <2> QED BY <1>14, <2>1 DEF Close, MaySend
<1>15. CASE Closed \/ UNCHANGED vars
  <2>1. UNCHANGED <<epc, subVars, burst, ending, funnel, greeted, out, histVars, frames>>
    BY <1>15 DEF Closed, vars
  <2> QED BY <2>1, TaskMoves DEF subVars, IInv, TypeOK, MaySend
<1> QED
  BY <1>2, <1>3, <1>4, <1>5, <1>6, <1>7, <1>8, <1>9, <1>10, <1>11, <1>12, <1>13, <1>14, <1>15
  DEF Next, Client, Pumps, Sends, Session

\* The inductive invariant holds of every behaviour.
THEOREM Invariant == Spec => []IInv
<1>1. IInv /\ [Next]_vars => IInv'
  BY NextIInv
<1> QED BY InitIInv, <1>1, PTL DEF Spec

\* The cancel handles and the pumps of run_session stay in step, whatever ids
\* the client reuses, and the subscription limit and the funnel's capacity are
\* kept.
THEOREM HandlesMatchPumps == Spec => []SlotsMatchPumps
<1>1. IInv => SlotsMatchPumps
  BY DEF IInv, Slots, SlotsMatchPumps
<1> QED BY <1>1, Invariant, PTL

-----------------------------------------------------------------------------
(* An id used again.  An update of the use before may still be in the      *)
(* funnel; it goes out before those of the use that follows.               *)

UseByUse ==
  /\ newest \in [SubIds -> Nat]
  /\ \A s \in SubIds : newest[s] < nextGen \/ newest[s] = 0
  /\ \A i, j \in DOMAIN funnel :
       i < j /\ funnel[i].sub = funnel[j].sub => funnel[i].gen <= funnel[j].gen
  /\ \A i \in DOMAIN funnel : newest[funnel[i].sub] <= funnel[i].gen
  /\ \A s \in Live : /\ newest[s] <= cancels[s]
                     /\ \A i \in DOMAIN funnel : funnel[i].sub = s => funnel[i].gen <= cancels[s]

\* What the funnel holds.
LEMMA FunnelTypes ==
  ASSUME HistOK
  PROVE  /\ funnel \in Seq(Events) /\ Len(funnel) \in Nat /\ DOMAIN funnel = 1 .. Len(funnel)
         /\ \A i \in DOMAIN funnel : /\ funnel[i] \in Events /\ funnel[i].sub \in SubIds
                                     /\ funnel[i].gen \in Gens /\ funnel[i].gen \in Nat
<1>1. funnel \in Seq(Events)
  BY DEF HistOK
<1>2. \A i \in DOMAIN funnel : funnel[i] \in Events
  BY <1>1
<1>3. \A i \in DOMAIN funnel : funnel[i].sub \in SubIds /\ funnel[i].gen \in Gens
  BY <1>2 DEF Events
<1>4. \A i \in DOMAIN funnel : funnel[i].gen \in Nat
  BY <1>3, GenFacts
<1>5. Len(funnel) \in Nat /\ DOMAIN funnel = 1 .. Len(funnel)
  BY <1>1
<1> QED BY <1>1, <1>2, <1>3, <1>4, <1>5

\* A registered use is the latest of its id.
LEMMA UseRegistered ==
  ASSUME IInv, UseByUse, Register
  PROVE  UseByUse'
<1>1. PICK n \in Gens : n = nextGen
  BY GenFacts DEF Register, IInv, Shape, TypeOK
<1>2. PICK b \in SubIds : b = burst.sub
  BY DEF IInv, TypeOK
<1>3. /\ cancels' = [cancels EXCEPT ![b] = n] /\ nextGen' = n + 1 /\ n \in Nat
      /\ UNCHANGED <<funnel, newest>>
  BY <1>1, <1>2, GenFacts DEF Register
<1>4. /\ cancels'[b] = n /\ \A s \in SubIds : s # b => cancels'[s] = cancels[s]
  BY <1>3 DEF IInv, TypeOK
<1>5. \A s \in SubIds : newest[s] \in Nat /\ (newest[s] < n \/ newest[s] = 0)
  BY <1>1 DEF UseByUse
<1>6. \A i \in DOMAIN funnel : funnel[i].gen <= n
  BY <1>1, <1>3, FunnelTypes DEF IInv, GensOnce
<1>7. ASSUME NEW s \in Live'
      PROVE  newest[s] <= cancels'[s] /\ \A i \in DOMAIN funnel : funnel[i].sub = s => funnel[i].gen <= cancels'[s]
  <2>0. s \in SubIds /\ cancels'[s] # NoGen
    BY DEF Live
  <2>1. CASE s = b
    BY <1>3, <1>4, <1>5, <1>6, <2>0, <2>1
  <2>2. CASE s # b
    BY <1>4, <2>0, <2>2 DEF Live, UseByUse
  <2> QED BY <2>1, <2>2
<1>8. \A s \in SubIds : newest[s] < nextGen' \/ newest[s] = 0
  BY <1>3, <1>5
<1> QED BY <1>3, <1>7, <1>8 DEF UseByUse

\* An update taken from the funnel is of the latest use that has sent one, or of a
\* later one.
LEMMA UseForwarded ==
  ASSUME IInv, UseByUse, NEW encoded \in BOOLEAN, funnel # <<>>, funnel' = Tail(funnel),
         SendEvent(encoded), UNCHANGED subVars
  PROVE  UseByUse' /\ (out' # out => out'.type = "event" /\ out'.gen >= newest[out'.sub])
<1>1. PICK f \in Events : f = Head(funnel)
  BY FunnelPop DEF IInv
<1>2. /\ 1 \in DOMAIN funnel /\ f = funnel[1]
      /\ \A i \in DOMAIN funnel' : /\ i \in Nat /\ i + 1 \in DOMAIN funnel /\ 1 < i + 1
                                    /\ funnel'[i] = funnel[i + 1]
  BY <1>1, FunnelPop DEF IInv
<1>3. f.type = "event" /\ f.sub \in SubIds /\ f.gen \in Gens /\ f.gen \in Nat /\ f.gen < nextGen
  BY <1>2, GenFacts DEF Events, IInv, GensOnce
<1>4. \/ out' = f /\ newest' = [newest EXCEPT ![f.sub] = f.gen]
      \/ UNCHANGED <<out, newest>>
  BY <1>1 DEF SendEvent
<1>5. newest[f.sub] <= f.gen
  BY <1>2 DEF UseByUse
<1>6. /\ newest' \in [SubIds -> Nat]
      /\ \A s \in SubIds : newest'[s] = newest[s] \/ (s = f.sub /\ newest'[s] = f.gen)
  BY <1>3, <1>4 DEF UseByUse
<1>7. nextGen' = nextGen /\ cancels' = cancels /\ Live' = Live
  BY DEF subVars, Live
<1>8. \A i \in DOMAIN funnel' : funnel'[i].sub \in SubIds /\ funnel'[i].gen \in Nat
  BY <1>2, FunnelTypes DEF IInv
<1>9. \A i \in DOMAIN funnel' : newest'[funnel'[i].sub] <= funnel'[i].gen
  <2> SUFFICES ASSUME NEW i \in DOMAIN funnel' PROVE newest'[funnel'[i].sub] <= funnel'[i].gen
    OBVIOUS
  <2>1. newest[funnel'[i].sub] <= funnel'[i].gen
    BY <1>2 DEF UseByUse
  <2>2. f.sub = funnel'[i].sub => f.gen <= funnel'[i].gen
    BY <1>2 DEF UseByUse
  <2> QED BY <1>6, <1>8, <2>1, <2>2
<1>10. \A i, j \in DOMAIN funnel' :
         i < j /\ funnel'[i].sub = funnel'[j].sub => funnel'[i].gen <= funnel'[j].gen
  <2> SUFFICES ASSUME NEW i \in DOMAIN funnel', NEW j \in DOMAIN funnel',
                      i < j, funnel'[i].sub = funnel'[j].sub
               PROVE  funnel'[i].gen <= funnel'[j].gen
    OBVIOUS
  <2>1. i + 1 < j + 1
    BY <1>2
  <2> QED BY <1>2, <2>1 DEF UseByUse
<1>11. ASSUME NEW s \in Live
       PROVE  newest'[s] <= cancels[s] /\ \A i \in DOMAIN funnel' : funnel'[i].sub = s => funnel'[i].gen <= cancels[s]
  <2>1. s \in SubIds /\ newest[s] <= cancels[s] /\ (f.sub = s => f.gen <= cancels[s])
    BY <1>2 DEF UseByUse, Live
  <2>2. \A i \in DOMAIN funnel' : funnel'[i].sub = s => funnel'[i].gen <= cancels[s]
    BY <1>2 DEF UseByUse
  <2> QED BY <1>6, <2>1, <2>2
<1>12. \A s \in SubIds : newest'[s] < nextGen \/ newest'[s] = 0
  BY <1>3, <1>6 DEF UseByUse
<1> QED BY <1>3, <1>4, <1>5, <1>6, <1>7, <1>9, <1>10, <1>11, <1>12 DEF UseByUse

\* A pump that is not cancelled is its id's latest use.
LEMMA UseQueued ==
  ASSUME IInv, UseByUse, NEW g \in Gens, NEW k \in 0 .. 1, PumpUpdate(g, k)
  PROVE  UseByUse'
<1>1. PICK s \in SubIds : s = pump[g].sub
  BY DEF IInv, TypeOK
<1>2. PICK seq : seq = pump[g].seq + k + 1
  OBVIOUS
<1> DEFINE f == [type |-> "event", sub |-> s, gen |-> g, seq |-> seq]
<1>3. /\ cancels[s] = g /\ s \in Live
      /\ funnel' \in {funnel, Append(funnel, f)}
      /\ UNCHANGED <<cancels, nextGen, newest>>
  BY <1>1, <1>2, GenFacts DEF PumpUpdate, Cancelled, histVars, Live
<1>4. f.sub = s /\ f.gen = g /\ g \in Nat
  BY GenFacts
<1> HIDE DEF f
<1>5. Live' = Live
  BY <1>3 DEF Live
<1>6. CASE funnel' = funnel
  BY <1>3, <1>5, <1>6 DEF UseByUse
<1>7. CASE funnel' = Append(funnel, f)
  <2>1. \A i \in DOMAIN funnel' : \/ i \in DOMAIN funnel /\ funnel'[i] = funnel[i] /\ i <= Len(funnel)
                                  \/ i = Len(funnel) + 1 /\ funnel'[i] = f
    BY <1>7, FunnelTypes DEF IInv
  <2>2. /\ newest[s] <= g
        /\ \A i \in DOMAIN funnel : funnel[i].sub = s => funnel[i].gen <= g
    BY <1>3 DEF UseByUse
  <2>3. ASSUME NEW i \in DOMAIN funnel', NEW j \in DOMAIN funnel',
               i < j, funnel'[i].sub = funnel'[j].sub
        PROVE  funnel'[i].gen <= funnel'[j].gen
    <3>1. i \in DOMAIN funnel /\ funnel'[i] = funnel[i]
      BY <1>7, <2>1, <2>3, FunnelTypes DEF IInv
    <3>2. CASE j \in DOMAIN funnel /\ funnel'[j] = funnel[j]
      BY <2>3, <3>1, <3>2 DEF UseByUse
    <3>3. CASE funnel'[j] = f
      BY <1>4, <2>2, <2>3, <3>1, <3>3
    <3> QED BY <2>1, <3>2, <3>3
  <2>4. \A i \in DOMAIN funnel' : newest[funnel'[i].sub] <= funnel'[i].gen
    BY <1>4, <2>1, <2>2 DEF UseByUse
  <2>5. ASSUME NEW t \in Live, NEW i \in DOMAIN funnel', funnel'[i].sub = t
        PROVE  funnel'[i].gen <= cancels[t]
    <3>1. CASE i \in DOMAIN funnel /\ funnel'[i] = funnel[i]
      BY <2>5, <3>1 DEF UseByUse
    <3>2. CASE funnel'[i] = f
      BY <1>3, <1>4, <2>5, <3>2
    <3> QED BY <2>1, <3>1, <3>2
  <2> QED BY <1>3, <1>5, <2>3, <2>4, <2>5 DEF UseByUse
<1> QED BY <1>3, <1>6, <1>7

\* Every other step leaves the funnel, or empties it, and registers nothing.
LEMMA UseKept ==
  ASSUME IInv, UseByUse, funnel' \in {funnel, <<>>}, UNCHANGED <<nextGen, newest>>,
         \A s \in SubIds : cancels'[s] \in {cancels[s], NoGen}
  PROVE  UseByUse'
<1>1. Live' \subseteq Live /\ \A s \in Live' : cancels'[s] = cancels[s]
  BY DEF Live
<1>2. CASE funnel' = funnel
  BY <1>1, <1>2 DEF UseByUse
<1>3. CASE funnel' = <<>>
  BY <1>1, <1>3 DEF UseByUse
<1> QED BY <1>2, <1>3

LEMMA UseStep == IInv /\ UseByUse /\ [Next]_vars =>
                   UseByUse' /\ (out' # out /\ out'.type = "event" => out'.gen >= newest[out'.sub])
<1> SUFFICES ASSUME IInv, UseByUse, [Next]_vars
             PROVE  UseByUse' /\ (out' # out /\ out'.type = "event" => out'.gen >= newest[out'.sub])
  OBVIOUS
<1>1. CASE \E g \in Gens, k \in 0 .. 1 : PumpUpdate(g, k)
  BY <1>1, UseQueued DEF PumpUpdate
<1>2. CASE \E encoded \in BOOLEAN : ForwardEvent(encoded) \/ Flush(encoded)
  BY <1>2, UseForwarded DEF ForwardEvent, Flush
<1>3. CASE Register
  BY <1>3, UseRegistered DEF Register
<1>4. ASSUME NEW encoded \in BOOLEAN, SendSnapshot(encoded)
      PROVE  UseByUse' /\ (out' # out => out'.type # "event")
  BY <1>4, UseKept DEF SendSnapshot, subVars
<1>5. CASE Hello \/ OtherRequest \/ WriteOrPing \/ \E s \in SubIds : Subscribe(s) \/ Unsubscribe(s)
  <2>1. /\ funnel' \in {funnel, <<>>} /\ UNCHANGED <<nextGen, newest>>
        /\ out' # out => out'.type # "event"
    BY <1>5 DEF Hello, HandshakeReset, OtherRequest, WriteOrPing, Subscribe, Unsubscribe, subVars, histVars
  <2>2. \A s \in SubIds : cancels'[s] \in {cancels[s], NoGen}
    BY <1>5 DEF Hello, HandshakeReset, OtherRequest, WriteOrPing, Subscribe, Unsubscribe, subVars, IInv, TypeOK
  <2> QED BY <2>1, <2>2, UseKept
<1>6. ASSUME NEW g \in Gens, SubDrained(g)
      PROVE  UseByUse' /\ UNCHANGED out
  <2>1. UNCHANGED <<funnel, nextGen, newest, out>>
    BY <1>6 DEF SubDrained, histVars
  <2>2. \A s \in SubIds : cancels'[s] \in {cancels[s], NoGen}
    BY <1>6 DEF SubDrained, Pruned, IInv, TypeOK
  <2> QED BY <2>1, <2>2, UseKept
<1>7. CASE \/ Authenticate \/ NoFrame \/ NoEvent \/ PumpsPending \/ Flushed \/ ReportEnd
           \/ (\E g \in Gens : StreamEnds(g)) \/ Closed \/ UNCHANGED vars
  <2>1. /\ UNCHANGED <<funnel, nextGen, newest, cancels>>
        /\ out' # out => out'.type # "event"
    BY <1>7 DEF Authenticate, NoFrame, NoEvent, PumpsPending, Flushed, ReportEnd, StreamEnds, Closed,
      vars, subVars, histVars
  <2> QED BY <2>1, UseKept
<1>8. CASE Close
  BY <1>8, UseKept DEF Close
<1> QED
  BY <1>1, <1>2, <1>3, <1>4, <1>5, <1>6, <1>7, <1>8 DEF Next, Client, Pumps, Sends, Session

\* What goes out of a subscription is numbered in growing order, and no event
\* follows the report of its end or a new handshake (send_event, the flush
\* before the report, and the reset on a handshake).  Where an id is used again,
\* what the use before left in the funnel goes out first: no update of it follows
\* one of the new use (the biased select and the pump's cancel arm).
THEOREM UpdatesSentInOrder == Spec => UpdatesInOrder
<1>1. Init => UseByUse
  BY DEF Init, UseByUse, Live
<1>2. IInv /\ UseByUse /\ [Next]_vars => UseByUse'
  BY UseStep
<1>3. IInv /\ UseByUse /\ [Next]_vars =>
        [out' # out =>
           /\ out'.type = "event" => /\ out'.gen \notin said \union oldGens
                                     /\ out'.gen >= newest[out'.sub]
           /\ out'.type \in {"event", "snapshot"} => out'.seq > lastSeq[out'.gen]]_vars
  BY NextIInv, UseStep DEF MaySend
<1> QED BY <1>1, <1>2, <1>3, Invariant, PTL DEF Spec, UpdatesInOrder

-----------------------------------------------------------------------------
(* The accept loop.  A woken connection at place i of the queue has at     *)
(* most i - 1 turns of the queue to wait, and a failed accept is paid for  *)
(* by the pass over the connections that follows it before the next one.   *)

\* A failed accept has not been followed by a polled connection yet.
PassOwed == yieldFirst \/ pc \in {"drain", "returned"} \/ (pc = "conns" /\ polled = 0)

\* No connection of the queue q has waited longer than its place allows.
InTime(q, n, most) == \A i \in 1 .. Len(q) : n[q[i]] + i <= most

ServeInv ==
  /\ ServeTypeOK
  /\ Range(ready) \subseteq conns /\ Cardinality(Range(ready)) = Len(ready)
  /\ \A i, j \in 1 .. Len(ready) : ready[i] = ready[j] => i = j
  /\ pc = "conns" => ~yieldFirst
  /\ yielded <= polled
  /\ \A c \in Conns \ Range(ready) : missed[c] = 0
  /\ InTime(ready, missed, IF PassOwed THEN MaxConnections + 1 ELSE MaxConnections)

LEMMA ReadyRange ==
  ASSUME NEW s \in Seq(Conns)
  PROVE  Len(s) \in Nat /\ DOMAIN s = 1 .. Len(s) /\ Range(s) = {s[i] : i \in 1 .. Len(s)}
         /\ \A i \in 1 .. Len(s) : s[i] \in Conns /\ s[i] \in Range(s)
  BY DEF Range

LEMMA FewConns ==
  ASSUME ServeInv
  PROVE  /\ conns \subseteq Conns /\ IsFiniteSet(conns) /\ Cardinality(conns) \in Nat
         /\ Cardinality(conns) <= MaxConnections /\ MaxConnections \in Nat
         /\ IsFiniteSet(Range(ready)) /\ Len(ready) \in Nat /\ Len(ready) <= Cardinality(conns)
         /\ missed \in [Conns -> Nat] /\ ready \in Seq(Conns)
<1>1. /\ conns \subseteq Conns /\ IsFiniteSet(conns) /\ Cardinality(conns) \in Nat
      /\ Cardinality(conns) <= MaxConnections /\ MaxConnections \in Nat
  BY ServeAssumption, FS_Subset, FS_CardinalityType DEF ServeInv, ServeTypeOK
<1>2. IsFiniteSet(Range(ready)) /\ Cardinality(Range(ready)) <= Cardinality(conns)
  BY <1>1, FS_Subset DEF ServeInv
<1>3. ready \in Seq(Conns) /\ missed \in [Conns -> Nat]
  BY DEF ServeInv, ServeTypeOK
<1> QED BY <1>1, <1>2, <1>3 DEF ServeInv

\* A connection joins the queue of the woken.
LEMMA JoinsQueue ==
  ASSUME NEW q \in Seq(Conns), NEW c \in Conns, c \notin Range(q),
         IsFiniteSet(Range(q)), Cardinality(Range(q)) = Len(q),
         \A i, j \in 1 .. Len(q) : q[i] = q[j] => i = j
  PROVE  /\ Append(q, c) \in Seq(Conns) /\ Range(Append(q, c)) = Range(q) \union {c}
         /\ Cardinality(Range(Append(q, c))) = Len(Append(q, c))
         /\ \A i, j \in 1 .. Len(Append(q, c)) : Append(q, c)[i] = Append(q, c)[j] => i = j
<1>2. PICK s : s = Append(q, c)
  OBVIOUS
<1>3. /\ s \in Seq(Conns) /\ Len(s) = Len(q) + 1 /\ Len(q) \in Nat
      /\ s[Len(q) + 1] = c /\ \A i \in 1 .. Len(q) : s[i] = q[i]
  BY <1>2
<1>4. \A i \in 1 .. Len(s) : i \in 1 .. Len(q) \/ i = Len(q) + 1
  BY <1>3
<1>5. \A i \in 1 .. Len(q) : q[i] # c /\ q[i] \in Range(q)
  BY ReadyRange
<1>6. \A i, j \in 1 .. Len(s) : s[i] = s[j] => i = j
  BY <1>3, <1>4, <1>5
<1>7. Range(s) = Range(q) \union {c}
  <2>1. Range(s) = {s[i] : i \in 1 .. Len(s)} /\ Range(q) = {q[i] : i \in 1 .. Len(q)}
    BY <1>3, ReadyRange
  <2>2. Len(q) + 1 \in 1 .. Len(s) /\ \A i \in 1 .. Len(q) : i \in 1 .. Len(s)
    BY <1>3
  <2>3. ASSUME NEW x \in Range(s) PROVE x \in Range(q) \union {c}
    <3>1. PICK i \in 1 .. Len(s) : x = s[i]
      BY <2>1
    <3>2. CASE i \in 1 .. Len(q)
      BY <1>3, <2>1, <3>1, <3>2
    <3>3. CASE i = Len(q) + 1
      BY <1>3, <3>1, <3>3
    <3> QED BY <1>4, <3>2, <3>3
  <2>4. c \in Range(s)
    BY <1>3, <2>1, <2>2
  <2>5. ASSUME NEW x \in Range(q) PROVE x \in Range(s)
    <3>1. PICK i \in 1 .. Len(q) : x = q[i]
      BY <2>1
    <3> QED BY <1>3, <2>1, <2>2, <3>1
  <2> QED BY <2>3, <2>4, <2>5
<1>8. Cardinality(Range(s)) = Len(s)
  <2>1. Cardinality(Range(q) \union {c}) = Cardinality(Range(q)) + 1
    BY FS_AddElement
  <2> QED BY <1>3, <1>7, <2>1
<1> QED BY <1>2, <1>3, <1>6, <1>7, <1>8

\* The first of the woken leaves the queue, is in it no more, and the others move
\* up by one place.
LEMMA LeavesQueue ==
  ASSUME ServeInv, ready # <<>>
  PROVE  /\ Tail(ready) \in Seq(Conns) /\ Head(ready) \in Range(ready) /\ Head(ready) \in Conns
         /\ Range(Tail(ready)) = Range(ready) \ {Head(ready)}
         /\ Len(Tail(ready)) = Len(ready) - 1
         /\ Cardinality(Range(Tail(ready))) = Len(Tail(ready))
         /\ \A i, j \in 1 .. Len(Tail(ready)) : Tail(ready)[i] = Tail(ready)[j] => i = j
         /\ \A i \in 1 .. Len(Tail(ready)) : /\ Tail(ready)[i] = ready[i + 1]
                                             /\ i + 1 \in 1 .. Len(ready)
                                             /\ Tail(ready)[i] # Head(ready)
<1>1. ready \in Seq(Conns)
  BY FewConns
<1>2. PICK s : s = Tail(ready)
  OBVIOUS
<1>3. /\ s \in Seq(Conns) /\ Len(s) = Len(ready) - 1 /\ Len(ready) \in Nat \ {0}
      /\ Head(ready) = ready[1] /\ \A i \in 1 .. Len(s) : s[i] = ready[i + 1]
  BY <1>1, <1>2
<1>4. /\ 1 \in 1 .. Len(ready) /\ \A i \in 1 .. Len(s) : i + 1 \in 1 .. Len(ready) /\ i + 1 # 1
      /\ \A i \in 1 .. Len(ready) : i # 1 => i - 1 \in 1 .. Len(s) /\ (i - 1) + 1 = i
  BY <1>3
<1>5. \A i, j \in 1 .. Len(s) : s[i] = s[j] => i = j
  BY <1>3, <1>4 DEF ServeInv
<1>6. Range(s) = {s[i] : i \in 1 .. Len(s)} /\ Range(ready) = {ready[i] : i \in 1 .. Len(ready)}
  BY <1>1, <1>3, ReadyRange
<1>7. ASSUME NEW c
      PROVE  c \in Range(s) <=> c \in Range(ready) /\ c # ready[1]
  <2>1. ASSUME c \in Range(s)
        PROVE  c \in Range(ready) /\ c # ready[1]
    <3>1. PICK i \in 1 .. Len(s) : c = s[i]
      BY <1>6, <2>1
    <3>2. c = ready[i + 1] /\ i + 1 \in 1 .. Len(ready) /\ i + 1 # 1
      BY <1>3, <1>4, <3>1
    <3>3. c \in Range(ready)
      BY <1>6, <3>2
    <3>4. ready[i + 1] # ready[1]
      BY <1>4, <3>2 DEF ServeInv
    <3> QED BY <3>2, <3>3, <3>4
  <2>2. ASSUME c \in Range(ready), c # ready[1]
        PROVE  c \in Range(s)
    <3>1. PICK i \in 1 .. Len(ready) : c = ready[i]
      BY <1>6, <2>2
    <3>2. i - 1 \in 1 .. Len(s) /\ s[i - 1] = c
      BY <1>3, <1>4, <2>2, <3>1
    <3> QED BY <1>6, <3>2
  <2> QED BY <2>1, <2>2
<1>8. Range(s) = Range(ready) \ {Head(ready)} /\ Head(ready) \in Range(ready)
  BY <1>3, <1>4, <1>6, <1>7, ZenonT(30)
<1>9. Cardinality(Range(s)) = Len(s)
  BY <1>3, <1>8, FewConns, FS_RemoveElement, ZenonT(30) DEF ServeInv
<1>10. \A i \in 1 .. Len(s) : s[i] # Head(ready)
  BY <1>3, <1>4 DEF ServeInv
<1>11. Head(ready) \in Conns
  BY <1>1, <1>3, <1>4
<1> QED BY <1>2, <1>3, <1>4, <1>5, <1>8, <1>9, <1>10, <1>11

\* With the first of the woken polled, the rest are a turn better off.
LEMMA OneTurnLess ==
  ASSUME ServeInv, ready # <<>>, NEW m, m = [missed EXCEPT ![Head(ready)] = 0]
  PROVE  /\ InTime(Tail(ready), m, MaxConnections)
         /\ m \in [Conns -> Nat] /\ m[Head(ready)] = 0
         /\ \A c \in Conns \ Range(ready) : m[c] = 0
<1>1. /\ m \in [Conns -> Nat] /\ m[Head(ready)] = 0
      /\ \A c \in Conns : c # Head(ready) => m[c] = missed[c]
  BY FewConns, LeavesQueue
<1>2. ASSUME NEW i \in 1 .. Len(Tail(ready))
      PROVE  m[Tail(ready)[i]] + i <= MaxConnections
  <2>1. /\ Tail(ready)[i] = ready[i + 1] /\ i + 1 \in 1 .. Len(ready) /\ Tail(ready)[i] # Head(ready)
        /\ Tail(ready)[i] \in Conns
    BY LeavesQueue
  <2>2. missed[ready[i + 1]] + (i + 1) <= MaxConnections + 1
    <3>1. missed[ready[i + 1]] + (i + 1) <= IF PassOwed THEN MaxConnections + 1 ELSE MaxConnections
      BY <2>1 DEF ServeInv, InTime
    <3>2. missed[ready[i + 1]] \in Nat /\ i \in Nat /\ MaxConnections \in Nat
      BY <2>1, FewConns
    <3> QED BY <3>1, <3>2
  <2>3. m[Tail(ready)[i]] = missed[ready[i + 1]] /\ missed[ready[i + 1]] \in Nat
    BY <1>1, <2>1, FewConns
  <2> QED BY <2>2, <2>3, FewConns
<1>3. \A c \in Conns \ Range(ready) : m[c] = 0
  BY <1>1, LeavesQueue DEF ServeInv
<1> QED BY <1>1, <1>2, <1>3 DEF InTime

\* A connection that has waited through no failed accept joins a queue with room
\* for it.
LEMMA JoinsInTime ==
  ASSUME NEW q \in Seq(Conns), NEW c \in Conns, NEW m \in [Conns -> Nat], m[c] = 0,
         NEW most \in Nat, InTime(q, m, most), Len(q) + 1 <= most
  PROVE  InTime(Append(q, c), m, most)
<1>1. /\ Len(Append(q, c)) = Len(q) + 1 /\ Len(q) \in Nat /\ Append(q, c)[Len(q) + 1] = c
      /\ \A i \in 1 .. Len(q) : Append(q, c)[i] = q[i]
  OBVIOUS
<1>2. ASSUME NEW i \in 1 .. Len(Append(q, c))
      PROVE  m[Append(q, c)[i]] + i <= most
  <2>1. CASE i \in 1 .. Len(q)
    BY <1>1, <2>1 DEF InTime
  <2>2. CASE i = Len(q) + 1
    BY <1>1, <2>2
  <2> QED BY <1>1, <2>1, <2>2
<1> QED BY <1>2 DEF InTime

\* A bound that holds, holds when it is raised.
LEMMA MoreTime ==
  ASSUME NEW q \in Seq(Conns), NEW m \in [Conns -> Nat], NEW most \in Nat, NEW more \in Nat,
         most <= more, InTime(q, m, most)
  PROVE  InTime(q, m, more)
<1>1. \A i \in 1 .. Len(q) : m[q[i]] \in Nat /\ i \in Nat /\ m[q[i]] + i <= most
  BY DEF InTime
<1> QED BY <1>1 DEF InTime

\* What a step leaves of the bound: all of it when no connection is polled and a
\* pass is owed before and after, or not owed before.
LEMMA StaysInTime ==
  ASSUME ServeInv, UNCHANGED <<ready, missed>>, PassOwed => PassOwed' \/ ready = <<>>
  PROVE  InTime(ready', missed', IF PassOwed' THEN MaxConnections + 1 ELSE MaxConnections)
<1>1. CASE ready = <<>>
  BY <1>1 DEF InTime
<1>2. CASE PassOwed /\ PassOwed'
  <2>1. InTime(ready, missed, MaxConnections + 1)
    BY <1>2 DEF ServeInv
  <2> QED BY <1>2, <2>1
<1>3. CASE ~PassOwed
  <2>1. InTime(ready, missed, MaxConnections)
    BY <1>3 DEF ServeInv
  <2>2. InTime(ready, missed, MaxConnections + 1)
    BY <2>1, FewConns, MoreTime
  <2> QED BY <2>1, <2>2
<1> QED BY <1>1, <1>2, <1>3

\* A failed accept: everyone in the queue has waited through one more.
LEMMA OneMoreMissed ==
  ASSUME ServeInv, ~PassOwed, missed' = Missed, UNCHANGED ready
  PROVE  /\ InTime(ready', missed', MaxConnections + 1)
         /\ missed' \in [Conns -> Nat]
         /\ \A c \in Conns \ Range(ready) : missed'[c] = 0
<1>1. missed' \in [Conns -> Nat] /\ \A c \in Conns : missed'[c] <= missed[c] + 1
  BY FewConns DEF Missed
<1>2. \A c \in Conns \ Range(ready) : missed'[c] = 0
  BY DEF Missed, ServeInv
<1>3. ASSUME NEW i \in 1 .. Len(ready)
      PROVE  missed'[ready[i]] + i <= MaxConnections + 1
  <2>1. ready[i] \in Conns
    BY FewConns
  <2>2. missed[ready[i]] + i <= MaxConnections
    BY DEF ServeInv, InTime
  <2>3. missed'[ready[i]] <= missed[ready[i]] + 1 /\ missed'[ready[i]] \in Nat /\ missed[ready[i]] \in Nat
    BY <1>1, <2>1, FewConns
  <2> QED BY <2>2, <2>3, FewConns
<1> QED BY <1>1, <1>2, <1>3 DEF InTime

LEMMA ServeStep ==
  ASSUME ServeInv, [ServeNext]_serveVars
  PROVE  ServeInv'
<1>0. ServeTypeOK /\ MaxConnections \in Nat /\ MaxAccepts \in Nat
  BY ServeAssumption DEF ServeInv
<1>1. CASE AcceptOk /\ UNCHANGED connVars
  <2>1. /\ pc = "accept" /\ ~yieldFirst
        /\ pc' = "accept" /\ afterError' = FALSE /\ yieldFirst' = FALSE
        /\ accepts < MaxAccepts /\ accepts' = accepts + 1
        /\ UNCHANGED <<conns, ready, polled, yielded, missed, turn>>
    BY <1>1 DEF AcceptOk, Iterate, connVars, pollVars
  <2>2. ServeTypeOK'
    <3>1. accepts' \in 0 .. MaxAccepts
      BY <1>0, <2>1 DEF ServeTypeOK
    <3> QED BY <1>0, <2>1, <3>1 DEF ServeTypeOK
  <2>3. InTime(ready', missed', IF PassOwed' THEN MaxConnections + 1 ELSE MaxConnections)
    BY <2>1, StaysInTime DEF PassOwed
  <2> QED BY <2>1, <2>2, <2>3 DEF ServeInv
<1>2. CASE AcceptOk /\ ~UNCHANGED connVars
  <2>1. PICK c \in Conns \ conns : conns' = conns \union {c} /\ ready' = Append(ready, c)
    BY <1>2 DEF AcceptOk
  <2>2. c \notin Range(ready) /\ Cardinality(conns) < MaxConnections /\ missed[c] = 0
    BY <1>2, <2>1, FewConns DEF AcceptOk, Full, ServeInv
  <2>3. Cardinality(conns') = Cardinality(conns) + 1
    BY <2>1, FewConns, FS_AddElement
  <2>4. Cardinality(conns') <= MaxConnections /\ Len(ready) + 1 <= MaxConnections
    BY <2>2, <2>3, FewConns
  <2>5. /\ ready' \in Seq(Conns) /\ Range(ready') = Range(ready) \union {c}
        /\ Cardinality(Range(ready')) = Len(ready')
        /\ \A i, j \in 1 .. Len(ready') : ready'[i] = ready'[j] => i = j
    BY <2>1, <2>2, FewConns, JoinsQueue DEF ServeInv
  <2>6. /\ pc = "accept" /\ ~yieldFirst
        /\ pc' = "accept" /\ afterError' = FALSE /\ yieldFirst' = FALSE
        /\ accepts < MaxAccepts /\ accepts' = accepts + 1
        /\ UNCHANGED <<polled, yielded, missed, turn>>
    BY <1>2 DEF AcceptOk, Iterate, pollVars
  <2>7. ServeTypeOK'
    <3>1. accepts' \in 0 .. MaxAccepts /\ conns' \subseteq Conns
      BY <1>0, <2>1, <2>6 DEF ServeTypeOK
    <3> QED BY <1>0, <2>4, <2>5, <2>6, <3>1 DEF ServeTypeOK
  <2>8. InTime(ready, missed, MaxConnections)
    BY <2>6 DEF ServeInv, PassOwed
  <2>9. InTime(ready', missed, MaxConnections)
    BY <2>1, <2>2, <2>4, <2>8, FewConns, JoinsInTime
  <2>10. Range(ready') \subseteq conns' /\ \A d \in Conns \ Range(ready') : missed[d] = 0
    BY <2>1, <2>5 DEF ServeInv
  <2>11. yielded' <= polled' /\ ~PassOwed' /\ pc' # "conns"
    BY <2>6 DEF ServeInv, PassOwed
  <2> QED BY <2>5, <2>6, <2>7, <2>9, <2>10, <2>11 DEF ServeInv
<1>3. CASE \E c \in Conns : Wake(c)
  <2>1. PICK c \in Conns : /\ c \in conns /\ c \notin Range(ready) /\ ready' = Append(ready, c)
                           /\ UNCHANGED <<pc, conns, polled, yielded, afterError, yieldFirst,
                                          turn, missed, accepts>>
    BY <1>3 DEF Wake, pollVars
  <2>2. /\ ready' \in Seq(Conns) /\ Range(ready') = Range(ready) \union {c}
        /\ Cardinality(Range(ready')) = Len(ready') /\ Len(ready') = Len(ready) + 1
        /\ \A i, j \in 1 .. Len(ready') : ready'[i] = ready'[j] => i = j
    BY <2>1, FewConns, JoinsQueue, SMTT(30) DEF ServeInv
  <2>3. Len(ready) + 1 <= MaxConnections
    <3>1. Range(ready') \subseteq conns
      BY <2>1, <2>2 DEF ServeInv
    <3>2. Cardinality(Range(ready')) <= Cardinality(conns)
      BY <3>1, FewConns, FS_Subset
    <3> QED BY <2>2, <3>2, FewConns
  <2>4. ServeTypeOK'
    BY <1>0, <2>1, <2>2 DEF ServeTypeOK
  <2>5. missed[c] = 0
    BY <2>1 DEF ServeInv
  <2>6. InTime(ready', missed, IF PassOwed THEN MaxConnections + 1 ELSE MaxConnections)
    <3>1. \A most \in {MaxConnections, MaxConnections + 1} :
            InTime(ready, missed, most) => InTime(Append(ready, c), missed, most)
      BY <2>3, <2>5, FewConns, JoinsInTime
    <3> QED BY <2>1, <3>1 DEF ServeInv
  <2>7. (PassOwed' <=> PassOwed) /\ (pc' = "conns" => ~yieldFirst') /\ yielded' <= polled'
    BY <2>1 DEF PassOwed, ServeInv
  <2>8. Range(ready') \subseteq conns' /\ \A d \in Conns \ Range(ready') : missed[d] = 0
    BY <2>1, <2>2 DEF ServeInv
  <2> QED BY <2>1, <2>2, <2>4, <2>6, <2>7, <2>8 DEF ServeInv
<1>4. CASE PollConn
  <2>1. /\ ready # <<>> /\ polled' = polled + 1 /\ yielded < 2 /\ pc \in {"conns", "drain"}
        /\ missed' = [missed EXCEPT ![Head(ready)] = 0]
        /\ \/ ready' = Tail(ready) /\ yielded' = yielded
           \/ ready' = Append(Tail(ready), Head(ready)) /\ yielded' = yielded + 1
        /\ UNCHANGED <<pc, conns, afterError, yieldFirst, turn, accepts>>
    BY <1>4 DEF PollConn, MayPoll
  <2>2. /\ InTime(Tail(ready), missed', MaxConnections)
        /\ missed' \in [Conns -> Nat] /\ missed'[Head(ready)] = 0
        /\ \A d \in Conns \ Range(ready) : missed'[d] = 0
    BY <2>1, OneTurnLess
  <2>3. /\ Tail(ready) \in Seq(Conns) /\ Head(ready) \in Range(ready) /\ Head(ready) \in Conns
        /\ Range(Tail(ready)) = Range(ready) \ {Head(ready)}
        /\ Len(Tail(ready)) = Len(ready) - 1
        /\ Cardinality(Range(Tail(ready))) = Len(Tail(ready))
        /\ \A i, j \in 1 .. Len(Tail(ready)) : Tail(ready)[i] = Tail(ready)[j] => i = j
    BY <2>1, LeavesQueue
  <2>4. /\ ready' \in Seq(Conns) /\ Range(ready') \subseteq Range(ready)
        /\ Range(ready) \ {Head(ready)} \subseteq Range(ready')
        /\ Cardinality(Range(ready')) = Len(ready')
        /\ \A i, j \in 1 .. Len(ready') : ready'[i] = ready'[j] => i = j
        /\ InTime(ready', missed', MaxConnections)
    <3>1. CASE ready' = Tail(ready)
      BY <2>2, <2>3, <3>1
    <3>2. CASE ready' = Append(Tail(ready), Head(ready))
      <4>1. Head(ready) \notin Range(Tail(ready)) /\ IsFiniteSet(Range(Tail(ready)))
        BY <2>3, FewConns, FS_Subset
      <4>2. /\ ready' \in Seq(Conns) /\ Range(ready') = Range(Tail(ready)) \union {Head(ready)}
            /\ Cardinality(Range(ready')) = Len(ready')
            /\ \A i, j \in 1 .. Len(ready') : ready'[i] = ready'[j] => i = j
        BY <2>3, <3>2, <4>1, JoinsQueue
      <4>3. Len(Tail(ready)) + 1 <= MaxConnections
        BY <2>3, FewConns
      <4>4. InTime(ready', missed', MaxConnections)
        BY <2>2, <2>3, <3>2, <4>3, FewConns, JoinsInTime
      <4> QED BY <2>3, <4>2, <4>4
    <3> QED BY <2>1, <3>1, <3>2
  <2>5. yielded' \in 0 .. 2 /\ polled' \in Nat /\ yielded' <= polled' /\ polled' # 0
    BY <2>1, <1>0 DEF ServeInv, ServeTypeOK
  <2>6. ServeTypeOK'
    BY <1>0, <2>1, <2>2, <2>4, <2>5 DEF ServeTypeOK
  <2>7. InTime(ready', missed', IF PassOwed' THEN MaxConnections + 1 ELSE MaxConnections)
    <3>1. MaxConnections \in Nat /\ MaxConnections + 1 \in Nat /\ MaxConnections <= MaxConnections + 1
      BY <1>0
    <3>2. ready' \in Seq(Conns) /\ missed' \in [Conns -> Nat] /\ InTime(ready', missed', MaxConnections)
      BY <2>2, <2>4, <2>1
    <3>3. InTime(ready', missed', MaxConnections + 1)
      BY <3>1, <3>2, MoreTime
    <3> QED BY <3>2, <3>3
  <2>8. Range(ready') \subseteq conns' /\ \A d \in Conns \ Range(ready') : missed'[d] = 0
    BY <2>1, <2>2, <2>4 DEF ServeInv
  <2> QED BY <2>1, <2>4, <2>5, <2>6, <2>7, <2>8 DEF ServeInv
<1>5. CASE ConnEnds
  <2>1. /\ ready # <<>> /\ ready' = Tail(ready) /\ conns' = conns \ {Head(ready)}
        /\ missed' = [missed EXCEPT ![Head(ready)] = 0]
        /\ pc \in {"conns", "drain"} /\ UNCHANGED <<turn, accepts>>
    BY <1>5 DEF ConnEnds, MayPoll
  <2>2. /\ ready' \in Seq(Conns) /\ Range(ready') = Range(ready) \ {Head(ready)}
        /\ Cardinality(Range(ready')) = Len(ready')
        /\ \A i, j \in 1 .. Len(ready') : ready'[i] = ready'[j] => i = j
    BY <2>1, LeavesQueue
  <2>3. conns' \subseteq Conns /\ Cardinality(conns') <= MaxConnections
    <3>1. Cardinality(conns') <= Cardinality(conns) /\ Cardinality(conns') \in Nat
      BY <2>1, FewConns, FS_Subset, FS_CardinalityType
    <3> QED BY <2>1, <3>1, FewConns
  <2>4. /\ pc' \in {"accept", "drain"} /\ polled' \in Nat /\ yielded' \in 0 .. 2
        /\ yielded' <= polled'
        /\ yieldFirst' \in BOOLEAN /\ afterError' \in BOOLEAN
    BY <1>0, <1>5, <2>1 DEF ConnEnds, Iterate, NewPass, pollVars, ServeTypeOK, ServeInv
  <2>5. /\ InTime(ready', missed', MaxConnections)
        /\ missed' \in [Conns -> Nat] /\ missed'[Head(ready)] = 0
        /\ \A d \in Conns \ Range(ready) : missed'[d] = 0
    BY <2>1, OneTurnLess
  <2>6. ServeTypeOK'
    BY <1>0, <2>1, <2>2, <2>3, <2>4, <2>5 DEF ServeTypeOK
  <2>7. InTime(ready', missed', IF PassOwed' THEN MaxConnections + 1 ELSE MaxConnections)
    <3>1. MaxConnections \in Nat /\ MaxConnections + 1 \in Nat /\ MaxConnections <= MaxConnections + 1
      BY <1>0
    <3>2. ready' \in Seq(Conns) /\ missed' \in [Conns -> Nat] /\ InTime(ready', missed', MaxConnections)
      BY <2>2, <2>5, <2>1
    <3>3. InTime(ready', missed', MaxConnections + 1)
      BY <3>1, <3>2, MoreTime
    <3> QED BY <3>2, <3>3
  <2>8. Range(ready') \subseteq conns' /\ \A d \in Conns \ Range(ready') : missed'[d] = 0
    BY <2>1, <2>2, <2>5 DEF ServeInv
  <2> QED BY <2>2, <2>4, <2>6, <2>7, <2>8 DEF ServeInv
<1>6. CASE AcceptError \/ ListenerClosed
  <2>1. /\ ~PassOwed /\ PassOwed' /\ missed' = Missed /\ UNCHANGED <<conns, ready, accepts>>
        /\ pc' \in {"accept", "drain"}
        /\ (polled' = polled /\ yielded' = yielded) \/ (polled' = 0 /\ yielded' = 0)
        /\ afterError' \in {afterError, TRUE} /\ yieldFirst' \in {yieldFirst, TRUE}
        /\ turn' \in BOOLEAN
    BY <1>0, <1>6 DEF AcceptError, Retry, Iterate, ListenerClosed, NewPass, PassOwed, connVars, pollVars,
      ServeTypeOK
  <2>2. /\ InTime(ready', missed', MaxConnections + 1)
        /\ missed' \in [Conns -> Nat]
        /\ \A c \in Conns \ Range(ready) : missed'[c] = 0
    BY <2>1, OneMoreMissed
  <2>3. ServeTypeOK'
    <3>1. polled' \in Nat /\ yielded' \in 0 .. 2
      BY <1>0, <2>1 DEF ServeTypeOK
    <3>2. afterError' \in BOOLEAN /\ yieldFirst' \in BOOLEAN
      BY <1>0, <2>1, Zenon DEF ServeTypeOK
    <3> QED BY <1>0, <2>1, <2>2, <3>1, <3>2 DEF ServeTypeOK
  <2> QED BY <2>1, <2>2, <2>3 DEF ServeInv
<1>7. CASE FallThrough \/ Repoll \/ NothingToPoll \/ Return \/ Returned \/ UNCHANGED serveVars
  <2>1. /\ UNCHANGED <<conns, ready, missed, turn, accepts>>
        /\ (polled' = polled /\ yielded' = yielded) \/ (polled' = 0 /\ yielded' = 0)
        /\ pc' \in {"accept", "conns", "drain", "returned"}
        /\ afterError' = afterError /\ yieldFirst' \in {yieldFirst, FALSE}
    BY <1>0, <1>7 DEF FallThrough, Repoll, NothingToPoll, Return, Returned, NewPass, serveVars,
      connVars, pollVars, ServeTypeOK
  <2>2. pc' = "conns" => ~yieldFirst'
    BY <1>7 DEF FallThrough, Repoll, NothingToPoll, Return, Returned, serveVars, ServeInv
  <2>3. PassOwed => PassOwed' \/ ready = <<>>
    <3>1. CASE Repoll /\ pc = "conns"
      <4>1. ready = <<>> \/ polled >= Cardinality(conns) \/ yielded >= 2
        BY <1>0, <3>1, FewConns DEF Repoll, MayPoll, ServeTypeOK
      <4>2. Cardinality(conns) > 0
        BY <3>1, FewConns, FS_EmptySet DEF Repoll
      <4>3. ready = <<>> \/ polled # 0
        BY <1>0, <4>1, <4>2, FewConns DEF ServeInv, ServeTypeOK
      <4> QED BY <3>1, <4>3 DEF PassOwed, ServeInv
    <3>2. CASE NothingToPoll
      <4>1. Range(ready) = {}
        BY <3>2 DEF NothingToPoll, ServeInv
      <4>2. Len(ready) = 0
        BY <4>1, FS_EmptySet DEF ServeInv
      <4> QED BY <4>2, FewConns
    <3>3. CASE FallThrough
      BY <3>3 DEF FallThrough, NewPass, PassOwed
    <3>4. CASE Return \/ (Repoll /\ pc = "drain")
      BY <3>4 DEF Return, Repoll, PassOwed
    <3>5. CASE Returned \/ UNCHANGED serveVars
      BY <3>5 DEF Returned, PassOwed, serveVars, pollVars
    <3> QED BY <1>7, <3>1, <3>2, <3>3, <3>4, <3>5 DEF Repoll
  <2>4. InTime(ready', missed', IF PassOwed' THEN MaxConnections + 1 ELSE MaxConnections)
    BY <2>1, <2>3, StaysInTime
  <2>5. ServeTypeOK'
    <3>1. polled' \in Nat /\ yielded' \in 0 .. 2
      BY <1>0, <2>1 DEF ServeTypeOK
    <3>2. afterError' \in BOOLEAN /\ yieldFirst' \in BOOLEAN
      BY <1>0, <2>1, Zenon DEF ServeTypeOK
    <3> QED BY <1>0, <2>1, <3>1, <3>2 DEF ServeTypeOK
  <2>6. yielded' <= polled'
    BY <2>1 DEF ServeInv
  <2> QED BY <2>1, <2>2, <2>4, <2>5, <2>6 DEF ServeInv
<1> QED BY <1>1, <1>2, <1>3, <1>4, <1>5, <1>6, <1>7 DEF ServeNext, Task

\* However often the listener fails, and however often its connections end and
\* come anew, a woken connection waits through no more failed accepts than there
\* may be connections before it is polled; and no more are open than the soft cap
\* allows (serve, its PendingOnce and the drain).
THEOREM WokenInTime == ServeSpec => []FailuresPassBy
<1>1. ServeInit => ServeInv
  <2> SUFFICES ASSUME ServeInit PROVE ServeInv
    OBVIOUS
  <2>1. Range(ready) = {} /\ Cardinality(conns) = 0 /\ Cardinality(Range(ready)) = 0 /\ Len(ready) = 0
    BY FS_EmptySet DEF ServeInit, Range
  <2>2. ServeTypeOK
    <3>1. afterError \in BOOLEAN /\ yieldFirst \in BOOLEAN /\ turn \in BOOLEAN
      BY DEF ServeInit
    <3>2. /\ 0 <= MaxConnections /\ accepts \in 0 .. MaxAccepts /\ ready \in Seq(Conns)
          /\ polled \in Nat /\ yielded \in 0 .. 2 /\ missed \in [Conns -> Nat]
      BY ServeAssumption DEF ServeInit
    <3> QED BY <2>1, <3>1, <3>2 DEF ServeInit, ServeTypeOK
  <2>3. \A c \in Conns : missed[c] = 0
    BY DEF ServeInit
  <2>4. InTime(ready, missed, IF PassOwed THEN MaxConnections + 1 ELSE MaxConnections)
    BY <2>1 DEF InTime
  <2> QED BY <2>1, <2>2, <2>3, <2>4 DEF ServeInit, ServeInv
<1>2. ServeInv /\ [ServeNext]_serveVars => ServeInv'
  BY ServeStep
<1>3. ServeInv => FailuresPassBy
  <2> SUFFICES ASSUME ServeInv, NEW c \in Conns
               PROVE  ServeTypeOK /\ missed[c] <= MaxConnections
    BY DEF FailuresPassBy, ServeInv
  <2>1. CASE c \in Range(ready)
    <3>1. PICK i \in 1 .. Len(ready) : c = ready[i]
      BY <2>1, FewConns, ReadyRange
    <3>2. missed[c] + i <= IF PassOwed THEN MaxConnections + 1 ELSE MaxConnections
      BY <3>1 DEF ServeInv, InTime
    <3> QED BY <3>2, FewConns DEF ServeInv
  <2>2. CASE c \notin Range(ready)
    BY <2>2, FewConns DEF ServeInv
  <2> QED BY <2>1, <2>2
<1> QED BY <1>1, <1>2, <1>3, PTL DEF ServeSpec
=============================================================================
