--------------------------- MODULE BuffersProofs ---------------------------
(***************************************************************************)
(* Proofs about the buffers of the three runtimes: the buffers implement   *)
(* BufferContract, an overwriting mailbox push leaves no hole, and a Tokio *)
(* mailbox keeps no waker of a dropped reader.                             *)
(*                                                                         *)
(* The inductive invariant has a part about the pushes in progress, a part *)
(* about readers that are not there, and a part about wakers: whose entry  *)
(* a key names, and that a sleeping reader's latest waker is registered or *)
(* in the hands of a push that is about to wake it.                        *)
(***************************************************************************)
EXTENDS Buffers, FiniteSetTheorems, TLAPS

(***************************************************************************)
(* The inductive invariant.                                                *)
(***************************************************************************)
\* Pushes of an Embassy mailbox that found the slot full and have not ended.
Pushing == {p \in Producers : pc[p] \in {"drain", "resend"}}

\* Which runtime can be where: only Tokio wakes outside its lock and is ever
\* closed, only an Embassy mailbox pushes in several calls.
PushShape ==
  /\ adapter \in {"tokio", "embassy", "wasm"}
  /\ kind # "mailbox" => slot = 0
  /\ adapter # "tokio" => ~closed
  /\ \A p \in Producers :
       /\ pc[p] = "wake" => adapter = "tokio"
       /\ pc[p] \in {"drain", "resend"} => adapter = "embassy" /\ kind = "mailbox"
       /\ pc[p] # "wake" => towake[p] = {}
  /\ gap => slot = 0 /\ \E p \in Producers : pc[p] = "resend"

\* A push in progress has not taken effect yet.
PushesCounted == pushed + Cardinality(Pushing) <= begun

\* A reader that is not subscribed has no position and waits for nothing.
Away == \A r \in Readers : st[r] # "live" => pos[r] = 0 /\ waits[r] = 0

\* A Tokio mailbox: an entry's key is its reader's waker_key, which no other
\* reader has and which a reader that is not there does not have.
KeysOwned ==
  adapter = "tokio" /\ kind = "mailbox" =>
    /\ \A w \in wakers : w[1] # 0 /\ key[w[2]] = w[1]
    /\ \A r \in Readers : key[r] < nextKey /\ (st[r] = "none" => key[r] = 0)
    /\ \A q, r \in Readers : key[q] = key[r] /\ key[r] # 0 => q = r

\* A reader that waits can be woken: its latest waker is registered, or on its
\* way.  Not so where try_recv polls with a waker of its own.
Registered == adapter # "tokio" \/ kind = "mailbox" => CutOff = {}

IInv ==
  /\ TypeOK /\ PushShape /\ PushesCounted /\ Away /\ KeysOwned /\ Registered

\* The two halves of TypeOK: the pushes' variables and the readers'.
PushType ==
  /\ kind \in {"ring", "latest", "mailbox"}
  /\ pushed \in 0 .. MaxPush /\ slot \in 0 .. pushed /\ closed \in BOOLEAN
  /\ pc \in [Producers -> {"idle", "wake", "drain", "resend"}]
  /\ towake \in [Producers -> SUBSET Wakers]
  /\ begun \in 0 .. MaxPush /\ gap \in BOOLEAN

Answers == {"ok", "lag", "closed", "empty", "pending"} \X Nat \X Readers

ReadType ==
  /\ st \in [Readers -> {"none", "live", "deaf"}]
  /\ waits \in [Readers -> {0} \cup WakerIds]
  /\ pos \in [Readers -> 0 .. pushed] /\ wakers \subseteq Wakers
  /\ key \in [Readers -> Nat] /\ nextKey \in Nat \ {0}
  /\ ans = Quiet \/ ans \in Answers
  /\ joined \in 0 .. MaxSubs

PushInv == PushType /\ PushShape /\ PushesCounted

LEMMA TypeParts == TypeOK <=> PushType /\ ReadType
  BY DEF TypeOK, PushType, ReadType, Answers

LEMMA TypePartsNext == TypeOK' <=> PushType' /\ ReadType'
  BY DEF TypeOK, PushType, ReadType, Answers

(***************************************************************************)
(* Operators.                                                              *)
(***************************************************************************)
\* Waking some wakers ends a reader's wait or leaves it as it was.
LEMMA WokenOnly ==
  ASSUME waits \in [Readers -> {0} \cup WakerIds], NEW S
  PROVE  /\ Woken(S) \in [Readers -> {0} \cup WakerIds]
         /\ \A r \in Readers :
              /\ Woken(S)[r] \in {0, waits[r]}
              /\ Woken(S)[r] # 0 => ~ \E w \in S : w[2] = r /\ w[3] = waits[r]
  BY DEF Woken

\* The least of two numbers.
LEMMA MinOfTwo ==
  ASSUME NEW a \in Nat, NEW b \in Nat
  PROVE  W!Min({a, b}) = IF a <= b THEN a ELSE b
<1> DEFINE m == IF a <= b THEN a ELSE b
<1>1. m \in {a, b} /\ \A y \in {a, b} : m <= y
  OBVIOUS
<1>2. \A x \in {a, b} : (\A y \in {a, b} : x <= y) => x = m
  OBVIOUS
<1> HIDE DEF m
<1>3. W!Min({a, b}) = m
  BY <1>1, <1>2 DEF W!Min
<1> QED
  BY <1>3 DEF m

\* The oldest sequence number left, computed from the length of the deque, is
\* what a ring of Capacity has overwritten.
LEMMA OldestSeqIs ==
  ASSUME pushed \in Nat
  PROVE  W!OldestSeq = OldestOf(Capacity)
<1>1. Capacity \in Nat
  BY BufferAssumption
<1> QED
  BY <1>1, MinOfTwo DEF W!OldestSeq, W!RingLen, OldestOf

(***************************************************************************)
(* What the calls of the three runtimes have in common.                    *)
(***************************************************************************)
\* No call of a reader touches a push, but it may empty the mailbox.
PushUntouched ==
  UNCHANGED <<kind, adapter, pushed, closed, pc, towake, begun, gap>>

\* A value, a lag or the end for r; c is the capacity of the ring.
Receives(r, c) ==
  /\ st[r] = "live"
  /\ \/ kind = "ring" /\ RingRecv(r, OldestOf(c)) /\ UNCHANGED slot
     \/ kind = "latest" /\ LatestRecv(r) /\ UNCHANGED slot
     \/ kind = "mailbox" /\ MailboxRecv(r) /\ UNCHANGED pos
     \/ /\ closed /\ (IF kind = "mailbox" THEN slot = 0 ELSE pos[r] = pushed)
        /\ Nothing(r, "closed") /\ UNCHANGED <<pos, slot>>
  /\ \/ wakers' = wakers
     \/ kind # "mailbox" /\ wakers' = {w \in wakers : w[2] # r}
  /\ waits' = [waits EXCEPT ![r] = 0]
  /\ PushUntouched /\ UNCHANGED <<st, key, nextKey, joined>>

\* A reader joins, and is not deaf.
Joins(r) ==
  /\ st[r] = "none" /\ joined < MaxSubs
  /\ joined' = joined + 1
  /\ st' = [st EXCEPT ![r] = "live"]
  /\ pos' = [pos EXCEPT ![r] = IF kind = "latest" THEN 0 ELSE pushed]
  /\ ans' = Quiet
  /\ PushUntouched /\ UNCHANGED <<slot, waits, key, wakers, nextKey>>

\* A reader is dropped.
Leaves(r) ==
  /\ st[r] # "none"
  /\ st' = [st EXCEPT ![r] = "none"]
  /\ pos' = [pos EXCEPT ![r] = 0]
  /\ waits' = [waits EXCEPT ![r] = 0]
  /\ ans' = Quiet
  /\ PushUntouched /\ UNCHANGED <<slot, joined, nextKey>>

\* There is nothing for r.
Idle(r) == IF kind = "mailbox" THEN slot = 0 ELSE pos[r] = pushed

\* A call that moves nothing: r is told e.
Tells(r, e) ==
  /\ ans' = <<e, 0, r>>
  /\ PushUntouched /\ UNCHANGED <<slot, st, pos, joined>>

LEMMA TokioReceives ==
  ASSUME NEW r \in Readers, st[r] = "live", T!Recv(r), UNCHANGED adapter
  PROVE  Receives(r, T!RoundedUp)
  BY DEF Receives, T!Recv, T!Rearmed, T!RingRecv, T!LatestRecv, T!MailboxRecv,
    T!Nothing, T!Ok, T!Lagged, T!OldestOf, RingRecv, LatestRecv, MailboxRecv,
    Nothing, Ok, Lagged, OldestOf, PushUntouched

LEMMA EmbassyReceives ==
  ASSUME NEW r \in Readers, st[r] = "live", E!Recv(r), UNCHANGED adapter
  PROVE  Receives(r, Capacity)
  BY DEF Receives, E!Recv, E!RingRecv, E!LatestRecv, E!MailboxRecv,
    E!Ok, E!Lagged, E!OldestOf, RingRecv, LatestRecv, MailboxRecv,
    Ok, Lagged, OldestOf, PushUntouched

LEMMA WasmReceives ==
  ASSUME NEW r \in Readers, st[r] = "live", W!Recv(r), UNCHANGED adapter,
         pushed \in Nat
  PROVE  Receives(r, Capacity)
<1>1. W!OldestSeq = OldestOf(Capacity)
  BY OldestSeqIs
<1> QED
  BY <1>1 DEF Receives, W!Recv, W!RingRecv, W!LatestRecv, W!MailboxRecv,
    W!Ok, W!Lagged, RingRecv, LatestRecv, MailboxRecv, Ok, Lagged, PushUntouched

(***************************************************************************)
(* Steps of a reader.                                                      *)
(***************************************************************************)
LEMMA PushInvStays ==
  ASSUME PushInv, PushUntouched, slot' \in {slot, 0}
  PROVE  PushInv'
<1> USE DEF PushInv, PushUntouched
<1>1. PushType' BY DEF PushType
<1>2. PushShape' BY DEF PushShape
<1>3. Pushing' = Pushing BY DEF Pushing
<1>4. PushesCounted' BY <1>3 DEF PushesCounted
<1> QED BY <1>1, <1>2, <1>4

\* A step cuts nobody off when each wait it leaves has a waker of its own, or
\* is as it was with its wakers kept.
LEMMA CutStays ==
  ASSUME UNCHANGED towake,
         \A q \in Readers : waits'[q] # 0 =>
           \/ \E w \in wakers' : w[2] = q /\ w[3] = waits'[q]
           \/ /\ waits'[q] = waits[q]
              /\ \A w \in wakers : w[2] = q => w \in wakers'
  PROVE  CutOff' \subseteq CutOff
  BY DEF CutOff, OnItsWay

LEMMA RegisteredStays ==
  ASSUME Registered, UNCHANGED <<kind, adapter>>, CutOff' \subseteq CutOff
  PROVE  Registered'
  BY DEF Registered

\* Wakers that go have an owner who is no longer waiting for them.
LEMMA KeysStay ==
  ASSUME KeysOwned, UNCHANGED <<kind, adapter, key, nextKey>>,
         wakers' \subseteq wakers,
         \A q \in Readers : st'[q] = "none" => st[q] = "none"
  PROVE  KeysOwned'
  BY DEF KeysOwned

LEMMA ReceivesKeeps ==
  ASSUME IInv, NEW r \in Readers, NEW c \in Nat, Receives(r, c)
  PROVE  IInv' /\ CutOff' \subseteq CutOff
<1> USE DEF IInv
<1>0. PushType /\ ReadType
  BY TypeParts
<1>1. /\ pushed' = pushed /\ pushed \in Nat /\ slot \in Nat
      /\ pos \in [Readers -> 0 .. pushed]
  BY <1>0, BufferAssumption DEF Receives, PushUntouched, PushType, ReadType
<1>2. slot' \in {slot, 0}
  BY DEF Receives, MailboxRecv
<1>3. PushInv'
  BY <1>0, <1>2, PushInvStays DEF PushInv, Receives
<1>4. OldestOf(c) \in 0 .. pushed
  BY <1>1 DEF OldestOf
<1>5. pos' \in [Readers -> 0 .. pushed] /\ \A q \in Readers : q # r => pos'[q] = pos[q]
  BY <1>1, <1>4 DEF Receives, RingRecv, LatestRecv
<1>6. ans' \in Answers
  BY <1>1, <1>4 DEF Receives, RingRecv, LatestRecv, MailboxRecv, Nothing, Ok,
    Lagged, Answers
<1>7. /\ waits' = [waits EXCEPT ![r] = 0] /\ wakers' \subseteq wakers
      /\ UNCHANGED <<st, key, nextKey, joined, towake, kind, adapter>>
      /\ st[r] = "live"
  BY DEF Receives, PushUntouched
<1>8. ReadType'
  BY <1>0, <1>1, <1>5, <1>6, <1>7 DEF ReadType, WakerIds
<1>9. Away'
  BY <1>0, <1>5, <1>7 DEF Away, ReadType
<1>10. KeysOwned'
  BY <1>7, KeysStay
<1>11. \A q \in Readers : q # r => \A w \in wakers : w[2] = q => w \in wakers'
  BY DEF Receives
<1>12. CutOff' \subseteq CutOff
  BY <1>0, <1>7, <1>11, CutStays DEF ReadType
<1>13. Registered'
  BY <1>7, <1>12, RegisteredStays
<1> QED
  BY <1>3, <1>8, <1>9, <1>10, <1>12, <1>13, TypePartsNext DEF PushInv

LEMMA JoinsKeeps ==
  ASSUME IInv, NEW r \in Readers, Joins(r)
  PROVE  IInv' /\ CutOff' \subseteq CutOff
<1> USE DEF IInv
<1>0. PushType /\ ReadType
  BY TypeParts
<1>1. pushed' = pushed /\ pushed \in Nat
  BY <1>0, BufferAssumption DEF Joins, PushUntouched, PushType
<1>2. PushInv'
  BY <1>0, PushInvStays DEF PushInv, Joins
<1>3. ReadType'
  BY <1>0, <1>1, BufferAssumption DEF Joins, ReadType
<1>4. Away'
  BY <1>0 DEF Joins, Away, ReadType
<1>5. KeysOwned'
  BY <1>0, KeysStay DEF Joins, PushUntouched, ReadType
<1>6. CutOff' \subseteq CutOff
  BY CutStays DEF Joins, PushUntouched
<1>7. Registered'
  BY <1>6, RegisteredStays DEF Joins, PushUntouched
<1> QED
  BY <1>2, <1>3, <1>4, <1>5, <1>6, <1>7, TypePartsNext DEF PushInv

\* E!Subscribe without a free slot.
LEMMA DeafJoinKeeps ==
  ASSUME IInv, NEW r \in Readers, PushUntouched,
         UNCHANGED <<slot, waits, key, wakers, nextKey, pos>>,
         st[r] = "none", st' = [st EXCEPT ![r] = "deaf"], ans' = Quiet,
         joined < MaxSubs, joined' = joined + 1
  PROVE  IInv' /\ CutOff' \subseteq CutOff
<1> USE DEF IInv
<1>0. PushType /\ ReadType
  BY TypeParts
<1>1. pushed' = pushed
  BY DEF PushUntouched
<1>2. PushInv'
  BY <1>0, PushInvStays DEF PushInv
<1>3. ReadType'
  BY <1>0, <1>1, BufferAssumption DEF ReadType
<1>4. Away'
  BY <1>0 DEF Away, ReadType
<1>5. KeysOwned'
  BY <1>0, KeysStay DEF PushUntouched, ReadType
<1>6. CutOff' \subseteq CutOff
  BY CutStays DEF PushUntouched
<1>7. Registered'
  BY <1>6, RegisteredStays DEF PushUntouched
<1> QED
  BY <1>2, <1>3, <1>4, <1>5, <1>6, <1>7, TypePartsNext DEF PushInv

\* A dropped reader: in a Tokio mailbox its key and its entry go, else at most
\* wakers of its own do.
LEMMA LeavesKeeps ==
  ASSUME IInv, NEW r \in Readers, Leaves(r),
         \/ /\ adapter = "tokio" /\ kind = "mailbox"
            /\ wakers' = {w \in wakers : w[1] # key[r]}
            /\ key' = [key EXCEPT ![r] = 0]
         \/ /\ ~ (adapter = "tokio" /\ kind = "mailbox")
            /\ key' \in {key, [key EXCEPT ![r] = 0]}
            /\ wakers' \in {wakers, {w \in wakers : w[2] # r}}
  PROVE  IInv' /\ CutOff' \subseteq CutOff
<1> USE DEF IInv
<1>0. PushType /\ ReadType
  BY TypeParts
<1>1. pushed' = pushed /\ pushed \in Nat /\ nextKey \in Nat \ {0}
  BY <1>0, BufferAssumption DEF Leaves, PushUntouched, PushType, ReadType
<1>2. PushInv'
  BY <1>0, PushInvStays DEF PushInv, Leaves
<1>3. wakers' \subseteq wakers /\ key' \in [Readers -> Nat]
  BY <1>0 DEF ReadType
<1>4. ReadType'
  BY <1>0, <1>1, <1>3 DEF Leaves, ReadType
<1>5. Away'
  BY <1>0 DEF Leaves, Away, ReadType
<1>6. UNCHANGED <<towake, kind, adapter, nextKey>> /\ st' = [st EXCEPT ![r] = "none"]
      /\ waits' = [waits EXCEPT ![r] = 0]
  BY DEF Leaves, PushUntouched
<1>7. \A w \in wakers : w[2] \in Readers /\ w[1] \in Nat
  BY <1>0 DEF ReadType, Wakers
<1>8. CASE adapter = "tokio" /\ kind = "mailbox"
  <2>1. \A w \in wakers : w[1] # 0 /\ key[w[2]] = w[1]
    BY <1>8 DEF KeysOwned
  <2>2. \A q \in Readers : key[q] < nextKey /\ (st[q] = "none" => key[q] = 0)
    BY <1>8 DEF KeysOwned
  <2>3. \A q, s \in Readers : key[q] = key[s] /\ key[s] # 0 => q = s
    BY <1>8 DEF KeysOwned
  <2>4. key' = [key EXCEPT ![r] = 0] /\ wakers' = {w \in wakers : w[1] # key[r]}
    BY <1>8
  <2>5. \A w \in wakers' : w[2] # r /\ w \in wakers
    BY <2>1, <2>4
  <2>6. KeysOwned'
    BY <1>0, <1>1, <1>6, <1>7, <2>1, <2>2, <2>3, <2>4, <2>5 DEF KeysOwned, ReadType
  <2>7. \A q \in Readers : q # r => \A w \in wakers : w[2] = q => w \in wakers'
    BY <1>7, <2>1, <2>3, <2>4
  <2>8. CutOff' \subseteq CutOff
    BY <1>0, <1>6, <2>7, CutStays DEF ReadType
  <2>9. Registered'
    BY <1>6, <2>8, RegisteredStays
  <2> QED
    BY <1>2, <1>4, <1>5, <2>6, <2>8, <2>9, TypePartsNext DEF PushInv
<1>9. CASE ~ (adapter = "tokio" /\ kind = "mailbox")
  <2>1. KeysOwned'
    BY <1>6, <1>9 DEF KeysOwned
  <2>2. \A q \in Readers : q # r => \A w \in wakers : w[2] = q => w \in wakers'
    BY <1>9
  <2>3. CutOff' \subseteq CutOff
    BY <1>0, <1>6, <2>2, CutStays DEF ReadType
  <2>4. Registered'
    BY <1>6, <2>3, RegisteredStays
  <2> QED
    BY <1>2, <1>4, <1>5, <2>1, <2>3, <2>4, TypePartsNext DEF PushInv
<1> QED BY <1>8, <1>9

\* Calls that move nothing.
LEMMA TellsKeeps ==
  ASSUME IInv, NEW r \in Readers, NEW e \in {"closed", "empty", "pending"}, Tells(r, e),
         waits' \in [Readers -> {0} \cup WakerIds],
         \A q \in Readers : st[q] # "live" => waits'[q] = 0,
         wakers' \subseteq Wakers,
         key' \in [Readers -> Nat], nextKey' \in Nat \ {0},
         KeysOwned', Registered'
  PROVE  IInv'
<1> USE DEF IInv
<1>0. PushType /\ ReadType
  BY TypeParts
<1>1. pushed' = pushed /\ pos' = pos /\ st' = st /\ joined' = joined
  BY DEF Tells, PushUntouched
<1>2. PushInv'
  BY <1>0, PushInvStays DEF PushInv, Tells
<1>3. ans' \in Answers
  BY DEF Tells, Answers
<1>4. ReadType'
  BY <1>0, <1>1, <1>3 DEF ReadType
<1>5. Away'
  BY <1>1 DEF Away
<1> QED
  BY <1>2, <1>4, <1>5, TypePartsNext DEF PushInv

\* An answer that leaves the wakers as they are, and r's wait or none.
LEMMA AnswersKeeps ==
  ASSUME IInv, NEW r \in Readers, NEW e \in {"closed", "empty", "pending"}, Tells(r, e),
         UNCHANGED <<wakers, key, nextKey>>,
         waits' \in {waits, [waits EXCEPT ![r] = 0]}
  PROVE  IInv' /\ CutOff' \subseteq CutOff
<1>0. PushType /\ ReadType
  BY TypeParts DEF IInv
<1>1. waits' \in [Readers -> {0} \cup WakerIds]
      /\ \A q \in Readers : waits'[q] \in {0, waits[q]}
  BY <1>0 DEF ReadType
<1>2. KeysOwned'
  BY KeysStay DEF IInv, Tells, PushUntouched
<1>3. CutOff' \subseteq CutOff
  BY <1>1, CutStays DEF Tells, PushUntouched
<1>4. Registered'
  BY <1>3, RegisteredStays DEF IInv, Tells, PushUntouched
<1>5. \A q \in Readers : st[q] # "live" => waits'[q] = 0
  BY <1>1 DEF IInv, Away
<1> QED
  BY <1>0, <1>1, <1>2, <1>3, <1>4, <1>5, TellsKeeps DEF ReadType

\* T!Pending of a mailbox reader.
LEMMA UpsertKeeps ==
  ASSUME IInv, NEW r \in Readers, NEW id \in WakerIds, Tells(r, "pending"),
         st[r] = "live", kind = "mailbox", adapter = "tokio",
         T!Upsert(r, id), waits' = [waits EXCEPT ![r] = id]
  PROVE  IInv' /\ CutOff' \subseteq CutOff
<1> USE DEF IInv
<1>0. PushType /\ ReadType
  BY TypeParts
<1>1. /\ \A w \in wakers : w[1] # 0 /\ key[w[2]] = w[1]
      /\ \A q \in Readers : key[q] < nextKey /\ (st[q] = "none" => key[q] = 0)
      /\ \A q, s \in Readers : key[q] = key[s] /\ key[s] # 0 => q = s
  BY DEF KeysOwned
<1>2. /\ key \in [Readers -> Nat] /\ nextKey \in Nat \ {0} /\ wakers \subseteq Wakers
      /\ waits \in [Readers -> {0} \cup WakerIds]
  BY <1>0 DEF ReadType
<1>3. \A w \in wakers : w[2] \in Readers /\ w[1] \in Nat
  BY <1>2 DEF Wakers
<1>4. /\ waits' \in [Readers -> {0} \cup WakerIds]
      /\ \A q \in Readers : st[q] # "live" => waits'[q] = 0
  BY <1>2 DEF Away
<1>5. UNCHANGED <<kind, adapter, st, towake>>
  BY DEF Tells, PushUntouched
<1>6. CASE \E w \in wakers : w[1] = key[r]
  <2>1. wakers' = {w \in wakers : w[1] # key[r]} \cup {<<key[r], r, id>>}
        /\ UNCHANGED <<key, nextKey>>
    BY <1>6 DEF T!Upsert
  <2>2. <<key[r], r, id>> \in Wakers
    BY <1>2 DEF Wakers
  <2>3. wakers' \subseteq Wakers
    BY <1>2, <2>1, <2>2
  <2>4. key[r] # 0
    BY <1>1, <1>6
  <2>5. KeysOwned'
    BY <1>1, <1>5, <2>1, <2>4 DEF KeysOwned
  <2>6. \A w \in wakers : w[1] = key[r] => w[2] = r
    BY <1>1, <1>3, <2>4
  <2>7. <<key[r], r, id>> \in wakers'
    BY <2>1
  <2>8. CutOff' \subseteq CutOff
    BY <1>2, <1>5, <2>1, <2>6, <2>7, CutStays
  <2>9. Registered'
    BY <1>5, <2>8, RegisteredStays
  <2> QED
    BY <1>2, <1>4, <2>1, <2>3, <2>5, <2>8, <2>9, TellsKeeps
<1>7. CASE ~ \E w \in wakers : w[1] = key[r]
  <2>1. /\ wakers' = wakers \cup {<<nextKey, r, id>>}
        /\ key' = [key EXCEPT ![r] = nextKey]
        /\ nextKey' = nextKey + 1
    BY <1>7 DEF T!Upsert
  <2>2. <<nextKey, r, id>> \in Wakers
    BY <1>2 DEF Wakers
  <2>3. wakers' \subseteq Wakers
    BY <1>2, <2>1, <2>2
  <2>4. key' \in [Readers -> Nat] /\ nextKey' \in Nat \ {0}
    BY <1>2, <2>1
  <2>5. \A w \in wakers : w[2] # r
    BY <1>1, <1>7
  <2>6. \A q \in Readers : key'[q] < nextKey' /\ (st'[q] = "none" => key'[q] = 0)
    BY <1>1, <1>2, <1>5, <2>1
  <2>7. \A q, s \in Readers : key'[q] = key'[s] /\ key'[s] # 0 => q = s
    BY <1>1, <1>2, <2>1
  <2>8. \A w \in wakers' : w[1] # 0 /\ key'[w[2]] = w[1]
    BY <1>1, <1>2, <1>3, <2>1, <2>5
  <2>9. KeysOwned'
    BY <2>6, <2>7, <2>8 DEF KeysOwned
  <2>10. <<nextKey, r, id>> \in wakers'
    BY <2>1
  <2>11. CutOff' \subseteq CutOff
    BY <1>2, <1>5, <2>1, <2>10, CutStays
  <2>12. Registered'
    BY <1>5, <2>11, RegisteredStays
  <2> QED
    BY <1>4, <2>3, <2>4, <2>9, <2>11, <2>12, TellsKeeps
<1> QED BY <1>6, <1>7

\* The channels of Tokio keep one waker per reader: with id 0 it is the one of
\* try_recv, and a wait of r goes on without a waker.
LEMMA ReplaceKeeps ==
  ASSUME IInv, NEW r \in Readers, NEW id \in {0} \cup WakerIds,
         NEW e \in {"empty", "pending"}, Tells(r, e),
         st[r] = "live", adapter = "tokio", kind # "mailbox", T!Replace(r, id),
         \/ waits' = [waits EXCEPT ![r] = id]
         \/ waits' = waits /\ e = "empty"
  PROVE  /\ IInv'
         /\ CutOff' \subseteq CutOff \cup {r}
         /\ waits'[r] = id => CutOff' \subseteq CutOff \ {r}
<1> USE DEF IInv
<1>0. PushType /\ ReadType
  BY TypeParts
<1>1. /\ key \in [Readers -> Nat] /\ nextKey \in Nat \ {0} /\ wakers \subseteq Wakers
      /\ waits \in [Readers -> {0} \cup WakerIds]
  BY <1>0 DEF ReadType
<1>2. wakers' = {w \in wakers : w[2] # r} \cup {<<0, r, id>>} /\ UNCHANGED <<key, nextKey>>
  BY DEF T!Replace
<1>3. <<0, r, id>> \in Wakers
  BY DEF Wakers
<1>4. wakers' \subseteq Wakers
  BY <1>1, <1>2, <1>3
<1>5. /\ waits' \in [Readers -> {0} \cup WakerIds]
      /\ \A q \in Readers : st[q] # "live" => waits'[q] = 0
      /\ \A q \in Readers : q # r => waits'[q] = waits[q]
  BY <1>1 DEF Away
<1>6. UNCHANGED <<kind, adapter, st, towake>>
  BY DEF Tells, PushUntouched
<1>7. KeysOwned' /\ Registered'
  BY <1>6 DEF KeysOwned, Registered
<1>8. <<0, r, id>> \in wakers' /\ \A q \in Readers : q # r =>
        \A w \in wakers : w[2] = q => w \in wakers'
  BY <1>2
<1>9. CutOff' \subseteq CutOff \cup {r}
  BY <1>5, <1>6, <1>8 DEF CutOff, OnItsWay
<1>10. waits'[r] = id => r \notin CutOff'
  BY <1>8 DEF CutOff
<1> QED
  BY <1>1, <1>2, <1>4, <1>5, <1>7, <1>9, <1>10, TellsKeeps

\* E!Pending: whoever has to make room is woken.
LEMMA EvictKeeps ==
  ASSUME IInv, NEW r \in Readers, NEW id \in WakerIds, Tells(r, "pending"),
         st[r] = "live", adapter = "embassy", NEW Out \in {{}, wakers},
         wakers' = (wakers \ Out) \cup {<<0, r, id>>},
         waits' = [Woken(Out) EXCEPT ![r] = id],
         UNCHANGED <<key, nextKey>>
  PROVE  IInv' /\ CutOff' \subseteq CutOff
<1> USE DEF IInv
<1>0. PushType /\ ReadType
  BY TypeParts
<1>1. /\ key \in [Readers -> Nat] /\ nextKey \in Nat \ {0} /\ wakers \subseteq Wakers
      /\ waits \in [Readers -> {0} \cup WakerIds]
  BY <1>0 DEF ReadType
<1>2. <<0, r, id>> \in Wakers
  BY DEF Wakers
<1>3. wakers' \subseteq Wakers /\ <<0, r, id>> \in wakers'
  BY <1>1, <1>2
<1>4. /\ Woken(Out) \in [Readers -> {0} \cup WakerIds]
      /\ \A q \in Readers :
           /\ Woken(Out)[q] \in {0, waits[q]}
           /\ Woken(Out)[q] # 0 => ~ \E w \in Out : w[2] = q /\ w[3] = waits[q]
  BY <1>1, WokenOnly
<1>5. waits' \in [Readers -> {0} \cup WakerIds]
  BY <1>4
<1>6. \A q \in Readers : q # r => waits'[q] = Woken(Out)[q]
  BY <1>4
<1>7. \A q \in Readers : st[q] # "live" => waits'[q] = 0
  BY <1>4, <1>6 DEF Away
<1>8. KeysOwned'
  BY DEF KeysOwned, Tells, PushUntouched
<1>9. UNCHANGED towake
  BY DEF Tells, PushUntouched
<1>10. CutOff' \subseteq CutOff
  <2>1. waits'[r] = id
    BY <1>4
  <2>2. SUFFICES ASSUME NEW q \in Readers, q \in CutOff'
                 PROVE  q \in CutOff
    BY DEF CutOff
  <2>3. q # r /\ waits'[q] # 0
    BY <1>3, <2>1, <2>2 DEF CutOff
  <2>4. waits'[q] = waits[q] /\ ~ \E w \in Out : w[2] = q /\ w[3] = waits[q]
    BY <1>4, <1>6, <2>3
  <2>5. OnItsWay(q)' <=> OnItsWay(q)
    BY <1>9, <2>4 DEF OnItsWay
  <2> QED
    BY <2>2, <2>3, <2>4, <2>5 DEF CutOff
<1>11. Registered'
  BY <1>10, RegisteredStays DEF Tells, PushUntouched
<1> QED
  BY <1>1, <1>3, <1>5, <1>7, <1>8, <1>10, <1>11, TellsKeeps

\* W!Pending.
LEMMA AddKeeps ==
  ASSUME IInv, NEW r \in Readers, NEW id \in WakerIds, Tells(r, "pending"),
         st[r] = "live", adapter = "wasm",
         wakers' = wakers \cup {<<0, r, id>>}, waits' = [waits EXCEPT ![r] = id],
         UNCHANGED <<key, nextKey>>
  PROVE  IInv' /\ CutOff' \subseteq CutOff
<1> USE DEF IInv
<1>0. PushType /\ ReadType
  BY TypeParts
<1>1. /\ key \in [Readers -> Nat] /\ nextKey \in Nat \ {0} /\ wakers \subseteq Wakers
      /\ waits \in [Readers -> {0} \cup WakerIds]
  BY <1>0 DEF ReadType
<1>2. <<0, r, id>> \in Wakers
  BY DEF Wakers
<1>3. wakers' \subseteq Wakers /\ <<0, r, id>> \in wakers'
  BY <1>1, <1>2
<1>4. /\ waits' \in [Readers -> {0} \cup WakerIds]
      /\ \A q \in Readers : st[q] # "live" => waits'[q] = 0
  BY <1>1 DEF Away
<1>5. KeysOwned'
  BY DEF KeysOwned, Tells, PushUntouched
<1>6. CutOff' \subseteq CutOff
  BY <1>1, <1>3, CutStays DEF Tells, PushUntouched
<1>7. Registered'
  BY <1>6, RegisteredStays DEF Tells, PushUntouched
<1> QED
  BY <1>1, <1>3, <1>4, <1>5, <1>6, <1>7, TellsKeeps

(***************************************************************************)
(* Steps of a push, or of the drop of the buffer.                          *)
(***************************************************************************)
\* Pushes in progress are a finite number.
LEMMA PushingFinite ==
  IsFiniteSet(Pushing) /\ Cardinality(Pushing) \in Nat
  BY BufferAssumption, FS_Subset, FS_CardinalityType DEF Pushing

\* A push touches the readers' side only by taking wakers and waking them.
ReadersUntouched ==
  /\ ans' = Quiet
  /\ UNCHANGED <<kind, adapter, st, pos, key, joined, nextKey>>
  /\ wakers' \in {wakers, {}}
  /\ pushed' \in {pushed, pushed + 1}
  /\ waits' \in [Readers -> {0} \cup WakerIds]
  /\ \A r \in Readers : waits'[r] \in {0, waits[r]}

LEMMA ReadersStay ==
  ASSUME TypeOK, Away, KeysOwned, ReadersUntouched
  PROVE  ReadType' /\ Away' /\ KeysOwned'
<1>0. PushType /\ ReadType
  BY TypeParts
<1>1. pushed \in Nat
  BY <1>0, BufferAssumption DEF PushType
<1>2. pos' \in [Readers -> 0 .. pushed']
  BY <1>0, <1>1 DEF ReadType, ReadersUntouched
<1>3. ReadType'
  BY <1>0, <1>2 DEF ReadType, ReadersUntouched
<1>4. Away'
  BY DEF Away, ReadersUntouched
<1>5. KeysOwned'
  BY KeysStay DEF ReadersUntouched
<1> QED BY <1>3, <1>4, <1>5

\* Every registered waker is taken and woken at once.
LEMMA AllWoken ==
  ASSUME IInv, waits' = Woken(wakers), wakers' = {}, UNCHANGED towake
  PROVE  /\ waits' \in [Readers -> {0} \cup WakerIds]
         /\ \A r \in Readers : waits'[r] \in {0, waits[r]}
         /\ CutOff' \subseteq CutOff
<1>1. waits \in [Readers -> {0} \cup WakerIds]
  BY DEF IInv, TypeOK
<1>2. /\ Woken(wakers) \in [Readers -> {0} \cup WakerIds]
      /\ \A r \in Readers :
           /\ Woken(wakers)[r] \in {0, waits[r]}
           /\ Woken(wakers)[r] # 0 => ~ \E w \in wakers : w[2] = r /\ w[3] = waits[r]
  BY <1>1, WokenOnly
<1>3. CutOff' \subseteq CutOff
  BY <1>2 DEF CutOff, OnItsWay
<1> QED BY <1>2, <1>3

\* Room for one more push to take effect.
LEMMA RoomToPush ==
  ASSUME IInv, begun < MaxPush
  PROVE  /\ pushed \in Nat /\ begun \in Nat /\ MaxPush \in Nat
         /\ pushed + 1 \in 0 .. MaxPush /\ begun + 1 \in 0 .. MaxPush
         /\ pushed + 1 + Cardinality(Pushing) <= begun + 1
         /\ pushed + Cardinality(Pushing) <= begun + 1
         /\ pushed <= begun
  BY PushingFinite, BufferAssumption DEF IInv, TypeOK, PushesCounted

\* A push of one step: in a ring or a watch, an Embassy mailbox that was empty,
\* a browser mailbox.
LEMMA PublishKeeps ==
  ASSUME IInv, NEW p \in Producers, Begin(p),
         pushed' = pushed + 1,
         slot' = IF kind = "mailbox" THEN pushed + 1 ELSE slot,
         waits' = Woken(wakers), wakers' = {},
         gap' = FALSE,
         UNCHANGED <<kind, adapter, closed, readVars, nextKey, pc, towake>>
  PROVE  IInv' /\ CutOff' \subseteq CutOff
<1>0. PushType /\ ReadType /\ PushShape
  BY TypeParts DEF IInv
<1>1. /\ pushed \in Nat /\ begun \in Nat /\ MaxPush \in Nat
      /\ pushed + 1 \in 0 .. MaxPush /\ begun + 1 \in 0 .. MaxPush
      /\ pushed + 1 + Cardinality(Pushing) <= begun + 1
  BY RoomToPush DEF Begin
<1>2. /\ waits' \in [Readers -> {0} \cup WakerIds]
      /\ \A r \in Readers : waits'[r] \in {0, waits[r]}
      /\ CutOff' \subseteq CutOff
  BY AllWoken
<1>3. ReadersUntouched
  BY <1>2 DEF ReadersUntouched, readVars, Begin
<1>4. ReadType' /\ Away' /\ KeysOwned'
  BY <1>3, ReadersStay DEF IInv
<1>5. PushType'
  <2>1. slot' \in 0 .. pushed'
    BY <1>0, <1>1 DEF PushType
  <2> QED
    BY <1>0, <1>1, <2>1 DEF PushType, Begin
<1>6. PushShape'
  BY <1>0 DEF PushShape
<1>7. Pushing' = Pushing /\ begun' = begun + 1
  BY DEF Pushing, Begin
<1>8. PushesCounted'
  BY <1>1, <1>7 DEF PushesCounted
<1>9. Registered'
  BY <1>2, RegisteredStays DEF IInv
<1> QED
  BY <1>2, <1>4, <1>5, <1>6, <1>8, <1>9, TypePartsNext DEF IInv

\* T!Deposit: the wakers are taken under the lock, to be woken outside it.
LEMMA DepositKeeps ==
  ASSUME IInv, NEW p \in Producers, adapter = "tokio", kind = "mailbox",
         Begin(p),
         pushed' = pushed + 1, slot' = pushed + 1,
         towake' = [towake EXCEPT ![p] = wakers], wakers' = {},
         pc' = [pc EXCEPT ![p] = "wake"],
         UNCHANGED <<kind, adapter, closed, readVars, waits, nextKey, gap>>
  PROVE  IInv' /\ CutOff' \subseteq CutOff
<1>0. PushType /\ ReadType /\ PushShape
  BY TypeParts DEF IInv
<1>1. /\ pushed \in Nat /\ begun \in Nat /\ MaxPush \in Nat
      /\ pushed + 1 \in 0 .. MaxPush /\ begun + 1 \in 0 .. MaxPush
      /\ pushed + 1 + Cardinality(Pushing) <= begun + 1
  BY RoomToPush DEF Begin
<1>2. ReadersUntouched
  BY <1>0 DEF ReadersUntouched, readVars, Begin, ReadType
<1>3. ReadType' /\ Away' /\ KeysOwned'
  BY <1>2, ReadersStay DEF IInv
<1>4. PushType'
  BY <1>0, <1>1 DEF PushType, ReadType, Begin
<1>5. ~gap
  BY <1>0 DEF PushShape
<1>6. PushShape'
  BY <1>0, <1>5 DEF PushShape, PushType
<1>7. Pushing' = Pushing /\ begun' = begun + 1
  BY <1>0 DEF Pushing, Begin, PushType
<1>8. PushesCounted'
  BY <1>1, <1>7 DEF PushesCounted
<1>9. CutOff' \subseteq CutOff
  <2>1. towake[p] = {}
    BY <1>0 DEF PushShape, Begin
  <2>2. ASSUME NEW r \in Readers, OnItsWay(r) PROVE OnItsWay(r)'
    BY <1>0, <2>1, <2>2 DEF OnItsWay, PushType
  <2>3. ASSUME NEW r \in Readers, NEW w \in wakers, w[2] = r, w[3] = waits[r]
        PROVE  OnItsWay(r)'
    BY <1>0, <2>3 DEF OnItsWay, PushType
  <2> QED
    BY <2>2, <2>3 DEF CutOff
<1>10. Registered'
  BY <1>9, RegisteredStays DEF IInv
<1> QED
  BY <1>3, <1>4, <1>6, <1>8, <1>9, <1>10, TypePartsNext DEF IInv

\* T!DropBuffer of a mailbox.
LEMMA CloseMailboxKeeps ==
  ASSUME IInv, NEW p \in Producers, adapter = "tokio", kind = "mailbox",
         pc[p] = "idle", closed' = TRUE, ans' = Quiet,
         towake' = [towake EXCEPT ![p] = wakers], wakers' = {},
         pc' = [pc EXCEPT ![p] = "wake"],
         UNCHANGED <<kind, adapter, pushed, slot, begun, readVars, waits, nextKey, gap>>
  PROVE  IInv' /\ CutOff' \subseteq CutOff
<1>0. PushType /\ ReadType /\ PushShape
  BY TypeParts DEF IInv
<1>2. ReadersUntouched
  BY <1>0 DEF ReadersUntouched, readVars, ReadType
<1>3. ReadType' /\ Away' /\ KeysOwned'
  BY <1>2, ReadersStay DEF IInv
<1>4. PushType'
  BY <1>0 DEF PushType, ReadType
<1>5. ~gap
  BY <1>0 DEF PushShape
<1>6. PushShape'
  BY <1>0, <1>5 DEF PushShape, PushType
<1>7. Pushing' = Pushing
  BY <1>0 DEF Pushing, PushType
<1>8. PushesCounted'
  BY <1>7 DEF IInv, PushesCounted
<1>9. CutOff' \subseteq CutOff
  <2>1. towake[p] = {}
    BY <1>0 DEF PushShape
  <2>2. ASSUME NEW r \in Readers, OnItsWay(r) PROVE OnItsWay(r)'
    BY <1>0, <2>1, <2>2 DEF OnItsWay, PushType
  <2>3. ASSUME NEW r \in Readers, NEW w \in wakers, w[2] = r, w[3] = waits[r]
        PROVE  OnItsWay(r)'
    BY <1>0, <2>3 DEF OnItsWay, PushType
  <2> QED
    BY <2>2, <2>3 DEF CutOff
<1>10. Registered'
  BY <1>9, RegisteredStays DEF IInv
<1> QED
  BY <1>3, <1>4, <1>6, <1>8, <1>9, <1>10, TypePartsNext DEF IInv

\* T!DropBuffer of a ring or a watch.
LEMMA CloseKeeps ==
  ASSUME IInv, adapter = "tokio", closed' = TRUE, ans' = Quiet,
         waits' = Woken(wakers), wakers' = {},
         UNCHANGED <<kind, adapter, pushed, slot, begun, readVars, nextKey, gap, pc, towake>>
  PROVE  IInv' /\ CutOff' \subseteq CutOff
<1>0. PushType /\ ReadType /\ PushShape
  BY TypeParts DEF IInv
<1>1. /\ waits' \in [Readers -> {0} \cup WakerIds]
      /\ \A r \in Readers : waits'[r] \in {0, waits[r]}
      /\ CutOff' \subseteq CutOff
  BY AllWoken
<1>2. ReadersUntouched
  BY <1>1 DEF ReadersUntouched, readVars
<1>3. ReadType' /\ Away' /\ KeysOwned'
  BY <1>2, ReadersStay DEF IInv
<1>4. PushType'
  BY <1>0 DEF PushType
<1>5. PushShape'
  BY <1>0 DEF PushShape
<1>6. PushesCounted'
  BY DEF IInv, PushesCounted, Pushing
<1>7. Registered'
  BY <1>1, RegisteredStays DEF IInv
<1> QED
  BY <1>1, <1>3, <1>4, <1>5, <1>6, <1>7, TypePartsNext DEF IInv

\* T!WakeNext: one waker taken out and woken.
LEMMA WakeNextKeeps ==
  ASSUME IInv, NEW p \in Producers, pc[p] = "wake", NEW w \in towake[p],
         waits' = Woken({w}), towake' = [towake EXCEPT ![p] = @ \ {w}],
         ans' = Quiet,
         UNCHANGED <<kind, adapter, pushed, slot, closed, pc, begun, gap, readVars,
                     wakers, nextKey>>
  PROVE  IInv' /\ CutOff' \subseteq CutOff
<1>0. PushType /\ ReadType /\ PushShape
  BY TypeParts DEF IInv
<1>1. waits \in [Readers -> {0} \cup WakerIds]
  BY <1>0 DEF ReadType
<1>2. /\ Woken({w}) \in [Readers -> {0} \cup WakerIds]
      /\ \A r \in Readers :
           /\ Woken({w})[r] \in {0, waits[r]}
           /\ Woken({w})[r] # 0 => ~ \E v \in {w} : v[2] = r /\ v[3] = waits[r]
  BY <1>1, WokenOnly
<1>3. ReadersUntouched
  BY <1>2 DEF ReadersUntouched, readVars
<1>4. ReadType' /\ Away' /\ KeysOwned'
  BY <1>3, ReadersStay DEF IInv
<1>5. PushType'
  BY <1>0 DEF PushType
<1>6. PushShape'
  BY <1>0 DEF PushShape, PushType
<1>7. PushesCounted'
  BY DEF IInv, PushesCounted, Pushing
<1>8. CutOff' \subseteq CutOff
  <2>1. SUFFICES ASSUME NEW r \in Readers, waits'[r] # 0, ~OnItsWay(r)',
                        ~\E v \in wakers' : v[2] = r /\ v[3] = waits'[r]
                 PROVE  r \in CutOff
    BY DEF CutOff
  <2>2. waits'[r] = waits[r] /\ ~ (w[2] = r /\ w[3] = waits[r])
    BY <1>2, <2>1
  <2>3. OnItsWay(r) => OnItsWay(r)'
    BY <1>0, <2>2 DEF OnItsWay, PushType
  <2> QED BY <2>1, <2>2, <2>3 DEF CutOff
<1>9. Registered'
  BY <1>8, RegisteredStays DEF IInv
<1> QED
  BY <1>4, <1>5, <1>6, <1>7, <1>8, <1>9, TypePartsNext DEF IInv

\* T!Recycle.
LEMMA RecycleKeeps ==
  ASSUME IInv, NEW p \in Producers, pc[p] = "wake", towake[p] = {},
         pc' = [pc EXCEPT ![p] = "idle"], ans' = Quiet,
         UNCHANGED <<kind, adapter, pushed, slot, closed, towake, begun, gap, readVars,
                     waits, wakers, nextKey>>
  PROVE  IInv' /\ CutOff' \subseteq CutOff
<1>0. PushType /\ ReadType /\ PushShape
  BY TypeParts DEF IInv
<1>1. ReadersUntouched
  BY <1>0 DEF ReadersUntouched, readVars, ReadType
<1>2. ReadType' /\ Away' /\ KeysOwned'
  BY <1>1, ReadersStay DEF IInv
<1>3. PushType'
  BY <1>0 DEF PushType
<1>4. PushShape'
  BY <1>0 DEF PushShape, PushType
<1>5. Pushing' = Pushing
  BY <1>0 DEF Pushing, PushType
<1>6. PushesCounted'
  BY <1>5 DEF IInv, PushesCounted
<1>7. CutOff' \subseteq CutOff
  BY CutStays
<1>8. Registered'
  BY <1>7, RegisteredStays DEF IInv
<1> QED
  BY <1>2, <1>3, <1>4, <1>6, <1>7, <1>8, TypePartsNext DEF IInv

\* E!TrySend that found the mailbox full.
LEMMA FullKeeps ==
  ASSUME IInv, NEW p \in Producers, adapter = "embassy", kind = "mailbox",
         Begin(p), slot # 0, pc' = [pc EXCEPT ![p] = "drain"],
         UNCHANGED <<kind, adapter, pushed, slot, closed, towake, gap, readVars,
                     waits, wakers, nextKey>>
  PROVE  IInv' /\ CutOff' \subseteq CutOff
<1>0. PushType /\ ReadType /\ PushShape
  BY TypeParts DEF IInv
<1>1. /\ pushed \in Nat /\ begun \in Nat /\ MaxPush \in Nat
      /\ begun + 1 \in 0 .. MaxPush
      /\ pushed + 1 + Cardinality(Pushing) <= begun + 1
  BY RoomToPush DEF Begin
<1>2. ReadersUntouched
  BY <1>0 DEF ReadersUntouched, readVars, ReadType, Begin
<1>3. ReadType' /\ Away' /\ KeysOwned'
  BY <1>2, ReadersStay DEF IInv
<1>4. PushType'
  BY <1>0, <1>1 DEF PushType, Begin
<1>5. PushShape'
  BY <1>0 DEF PushShape, PushType, Begin
<1>6. p \notin Pushing /\ Pushing' = Pushing \cup {p}
  BY <1>0 DEF Pushing, PushType, Begin
<1>7. Cardinality(Pushing') = Cardinality(Pushing) + 1
  BY <1>6, PushingFinite, FS_AddElement
<1>8. PushesCounted'
  BY <1>1, <1>7, PushingFinite DEF PushesCounted, Begin
<1>9. CutOff' \subseteq CutOff
  BY CutStays
<1>10. Registered'
  BY <1>9, RegisteredStays DEF IInv
<1> QED
  BY <1>3, <1>4, <1>5, <1>8, <1>9, <1>10, TypePartsNext DEF IInv

\* E!Drain.
LEMMA DrainKeeps ==
  ASSUME IInv, NEW p \in Producers, pc[p] = "drain",
         gap' = (gap \/ slot # 0), slot' = 0, pc' = [pc EXCEPT ![p] = "resend"],
         ans' = Quiet,
         UNCHANGED <<kind, adapter, pushed, closed, towake, begun, readVars,
                     waits, wakers, nextKey>>
  PROVE  IInv' /\ CutOff' \subseteq CutOff
<1>0. PushType /\ ReadType /\ PushShape
  BY TypeParts DEF IInv
<1>1. ReadersUntouched
  BY <1>0 DEF ReadersUntouched, readVars, ReadType
<1>2. ReadType' /\ Away' /\ KeysOwned'
  BY <1>1, ReadersStay DEF IInv
<1>3. 0 \in 0 .. pushed
  BY <1>0, BufferAssumption DEF PushType
<1>4. gap' \in BOOLEAN
  OBVIOUS
<1>5. PushType'
  BY <1>0, <1>3, <1>4 DEF PushType
<1>6. pc'[p] = "resend"
  BY <1>0 DEF PushType
<1>7. PushShape'
  BY <1>0, <1>6 DEF PushShape, PushType
<1>8. Pushing' = Pushing
  BY <1>0 DEF Pushing, PushType
<1>9. PushesCounted'
  BY <1>8 DEF IInv, PushesCounted
<1>10. CutOff' \subseteq CutOff
  BY CutStays
<1>11. Registered'
  BY <1>10, RegisteredStays DEF IInv
<1> QED
  BY <1>2, <1>5, <1>7, <1>9, <1>10, <1>11, TypePartsNext DEF IInv

\* E!Resend: sent, or the place was lost to another push.
LEMMA ResendKeeps ==
  ASSUME IInv, NEW p \in Producers, E!Resend(p), UNCHANGED adapter
  PROVE  IInv' /\ CutOff' \subseteq CutOff
<1>0. PushType /\ ReadType /\ PushShape
  BY TypeParts DEF IInv
<1>1. /\ pc[p] = "resend" /\ pc' = [pc EXCEPT ![p] = "idle"] /\ ans' = Quiet
      /\ UNCHANGED <<kind, adapter, closed, towake, begun, readVars, nextKey>>
  BY DEF E!Resend, E!readVars, readVars, E!Quiet, Quiet
<1>2. p \in Pushing /\ Pushing' = Pushing \ {p}
  BY <1>0, <1>1 DEF Pushing, PushType
<1>3. Cardinality(Pushing') = Cardinality(Pushing) - 1
  BY <1>2, PushingFinite, FS_RemoveElement
<1>4. Cardinality(Pushing) # 0
  BY <1>2, PushingFinite, FS_EmptySet
<1>5. /\ pushed \in Nat /\ begun \in Nat /\ MaxPush \in Nat /\ begun <= MaxPush
      /\ pushed + Cardinality(Pushing) <= begun
  BY <1>0, BufferAssumption DEF PushType, IInv, PushesCounted
<1>6. kind = "mailbox" /\ adapter = "embassy"
  BY <1>0, <1>1 DEF PushShape
<1>7. CASE slot = 0 /\ E!Sent
  <2>1. pushed' = pushed + 1 /\ slot' = pushed + 1 /\ waits' = Woken(wakers)
        /\ wakers' = {} /\ gap' = FALSE
    BY <1>7 DEF E!Sent, E!Woken, Woken
  <2>2. /\ waits' \in [Readers -> {0} \cup WakerIds]
        /\ \A r \in Readers : waits'[r] \in {0, waits[r]}
        /\ CutOff' \subseteq CutOff
    BY <1>1, <2>1, AllWoken
  <2>3. ReadersUntouched
    BY <1>1, <2>1, <2>2 DEF ReadersUntouched, readVars
  <2>4. ReadType' /\ Away' /\ KeysOwned'
    BY <2>3, ReadersStay DEF IInv
  <2>5. pushed + 1 \in 0 .. MaxPush
    BY <1>4, <1>5, PushingFinite
  <2>6. PushType'
    <3>1. slot' \in 0 .. pushed'
      BY <1>5, <2>1
    <3>2. gap' \in BOOLEAN
      BY <2>1
    <3> QED
      BY <1>0, <1>1, <2>1, <2>5, <3>1, <3>2 DEF PushType
  <2>7. PushShape'
    BY <1>0, <1>1, <1>6, <2>1 DEF PushShape, PushType
  <2>8. PushesCounted'
    BY <1>1, <1>3, <1>5, <2>1, PushingFinite DEF PushesCounted
  <2>9. Registered'
    BY <1>1, <2>2, RegisteredStays DEF IInv
  <2> QED
    BY <2>2, <2>4, <2>6, <2>7, <2>8, <2>9, TypePartsNext DEF IInv
<1>8. CASE slot # 0 /\ UNCHANGED <<pushed, slot, waits, wakers, gap>>
  <2>1. ReadersUntouched
    BY <1>0, <1>1, <1>8 DEF ReadersUntouched, readVars, ReadType
  <2>2. ReadType' /\ Away' /\ KeysOwned'
    BY <2>1, ReadersStay DEF IInv
  <2>3. PushType'
    BY <1>0, <1>1, <1>8 DEF PushType
  <2>4. ~gap
    BY <1>0, <1>8 DEF PushShape
  <2>5. PushShape'
    BY <1>0, <1>1, <1>6, <1>8, <2>4 DEF PushShape, PushType
  <2>6. PushesCounted'
    BY <1>1, <1>3, <1>5, <1>8, PushingFinite DEF PushesCounted
  <2>7. CutOff' \subseteq CutOff
    BY <1>1, <1>8, CutStays
  <2>8. Registered'
    BY <1>1, <2>7, RegisteredStays DEF IInv
  <2> QED
    BY <2>2, <2>3, <2>5, <2>6, <2>7, <2>8, TypePartsNext DEF IInv
<1> QED
  BY <1>7, <1>8 DEF E!Resend

(***************************************************************************)
(* The refinement mapping, and the contract's steps in its terms.          *)
(***************************************************************************)
Cap == IF adapter = "tokio" THEN T!RoundedUp ELSE Capacity

Heard == IF ans = Quiet \/ ans[3] \notin Subscribed THEN Quiet ELSE ans

Asleep == {r \in Readers : waits[r] # 0 /\ ~OnItsWay(r)}

\* An answer is heard by a subscribed reader, and only by one.
LEMMA HeardIs ==
  ASSUME NEW r, NEW e \in {"ok", "lag", "closed", "empty", "pending"}, NEW n,
         ans' = <<e, n, r>>
  PROVE  Heard' = IF r \in Subscribed' THEN <<e, n, r>> ELSE Quiet
<1>1. ans' # Quiet
  <2>1. ans'[1] = e /\ Quiet[1] = "quiet" /\ e # "quiet"
    BY DEF Quiet
  <2> QED BY <2>1
<1>2. ans'[3] = r
  OBVIOUS
<1> QED BY <1>1, <1>2 DEF Heard, Quiet

\* Nobody falls asleep while waits only end and nothing on its way is lost.
LEMMA AsleepShrinks ==
  ASSUME UNCHANGED towake, \A q \in Readers : waits'[q] \in {0, waits[q]}
  PROVE  Asleep' \subseteq Asleep
  BY DEF Asleep, OnItsWay

LEMMA QuietlyRefines ==
  ASSUME ans' = Quiet, Asleep' \subseteq Asleep, Subscribed' = Subscribed,
         CutOff' \subseteq CutOff, UNCHANGED <<kind, adapter, pushed, slot, closed, pos>>
  PROVE  Contract!Next
<1>1. Heard' = Quiet
  BY DEF Heard
<1>2. Contract!Quietly
  BY <1>1 DEF Contract!Quietly, Contract!fixed, Contract!Quiet, Quiet, Heard, Asleep, Cap
<1> QED BY <1>2 DEF Contract!Next

\* After a push or a close that took every registered waker, whoever is still
\* waiting is being woken, or was cut off before.
LEMMA AllAwake ==
  ASSUME wakers' = {}, CutOff' \subseteq CutOff
  PROVE  Asleep' \subseteq Asleep \cap CutOff
<1>1. Asleep' \subseteq CutOff'
  BY DEF Asleep, CutOff
<1>2. CutOff \subseteq Asleep
  BY DEF Asleep, CutOff
<1> QED BY <1>1, <1>2

LEMMA PushRefines ==
  ASSUME IInv, ans' = Quiet, wakers' = {}, CutOff' \subseteq CutOff, ~closed,
         pushed' = pushed + 1,
         slot' = IF kind = "mailbox" THEN pushed + 1 ELSE slot,
         UNCHANGED <<kind, adapter, closed, pos, st>>
  PROVE  Contract!Next
<1>1. Heard' = Quiet
  BY DEF Heard
<1>2. Subscribed' = Subscribed
  BY DEF Subscribed
<1>3. slot' = IF kind = "mailbox" THEN pushed + 1 ELSE 0
  BY DEF IInv, PushShape
<1>4. Asleep' \subseteq Asleep \cap CutOff
  BY AllAwake
<1>5. Contract!Push
  BY <1>1, <1>2, <1>3, <1>4 DEF Contract!Push, Contract!WakeAll, Contract!fixed,
    Contract!Quiet, Quiet, Heard, Asleep, Cap
<1> QED BY <1>5 DEF Contract!Next

LEMMA CloseRefines ==
  ASSUME ans' = Quiet, wakers' = {}, CutOff' \subseteq CutOff, ~closed, closed' = TRUE,
         UNCHANGED <<kind, adapter, pushed, slot, pos, st>>
  PROVE  Contract!Next
<1>1. Heard' = Quiet
  BY DEF Heard
<1>2. Subscribed' = Subscribed
  BY DEF Subscribed
<1>3. Asleep' \subseteq Asleep \cap CutOff
  BY AllAwake
<1>4. Contract!Close
  BY <1>1, <1>2, <1>3 DEF Contract!Close, Contract!WakeAll, Contract!fixed,
    Contract!Quiet, Quiet, Heard, Asleep, Cap
<1> QED BY <1>4 DEF Contract!Next

LEMMA DiscardRefines ==
  ASSUME ans' = Quiet, kind = "mailbox", slot # 0, slot' = 0,
         UNCHANGED <<kind, adapter, pushed, closed, pos, st, waits, towake, wakers>>
  PROVE  Contract!Next
<1>1. Heard' = Quiet
  BY DEF Heard
<1>2. Subscribed' = Subscribed /\ Asleep' = Asleep /\ CutOff' = CutOff
  BY DEF Subscribed, Asleep, CutOff, OnItsWay
<1>3. Contract!Discard
  BY <1>1, <1>2 DEF Contract!Discard, Contract!fixed, Contract!Quiet, Quiet, Heard, Asleep, Cap
<1> QED BY <1>3 DEF Contract!Next

LEMMA JoinRefines ==
  ASSUME IInv, NEW r \in Readers, Joins(r)
  PROVE  Contract!Next
<1>0. st \in [Readers -> {"none", "live", "deaf"}]
  BY DEF IInv, TypeOK
<1>1. Heard' = Quiet
  BY DEF Heard, Joins
<1>2. Subscribed' = Subscribed \cup {r} /\ r \notin Subscribed
  BY <1>0 DEF Subscribed, Joins
<1>3. Asleep' = Asleep /\ CutOff' = CutOff
  BY DEF Asleep, CutOff, OnItsWay, Joins, PushUntouched
<1>4. Contract!Subscribe(r)
  BY <1>1, <1>2, <1>3 DEF Joins, PushUntouched, Contract!Subscribe, Contract!fixed, Contract!Quiet,
    Quiet, Heard, Asleep, Cap
<1> QED BY <1>4 DEF Contract!Next

\* Dropping a deaf reader shows nothing.
LEMMA LeaveRefines ==
  ASSUME IInv, NEW r \in Readers, Leaves(r), CutOff' \subseteq CutOff
  PROVE  Contract!Next
<1>0. /\ st \in [Readers -> {"none", "live", "deaf"}] /\ pos \in [Readers -> 0 .. pushed]
      /\ waits \in [Readers -> {0} \cup WakerIds]
  BY DEF IInv, TypeOK
<1>1. Heard' = Quiet
  BY DEF Heard, Leaves
<1>2. Subscribed' = Subscribed \ {r}
  BY <1>0 DEF Subscribed, Leaves
<1>3. Asleep' = Asleep \ {r} /\ CutOff' \subseteq CutOff \ {r}
  BY <1>0 DEF Asleep, CutOff, OnItsWay, Leaves, PushUntouched
<1>4. CASE st[r] = "live"
  <2>1. r \in Subscribed
    BY <1>4 DEF Subscribed
  <2>2. Contract!Unsubscribe(r)
    BY <1>1, <1>2, <1>3, <2>1 DEF Leaves, PushUntouched, Contract!Unsubscribe,
      Contract!fixed, Contract!Quiet, Quiet, Heard, Asleep, Cap
  <2> QED BY <2>2 DEF Contract!Next
<1>5. CASE st[r] # "live"
  <2>1. pos' = pos
    BY <1>0, <1>5 DEF Leaves, IInv, Away
  <2>2. Subscribed' = Subscribed
    BY <1>2, <1>5 DEF Subscribed
  <2> QED
    BY <1>3, <2>1, <2>2, QuietlyRefines DEF Leaves, PushUntouched
<1> QED BY <1>4, <1>5

LEMMA ReceiveRefines ==
  ASSUME IInv, NEW r \in Readers, Receives(r, Cap), CutOff' \subseteq CutOff
  PROVE  Contract!Next
<1>0. /\ st \in [Readers -> {"none", "live", "deaf"}] /\ pos \in [Readers -> 0 .. pushed]
      /\ waits \in [Readers -> {0} \cup WakerIds] /\ pushed \in Nat
      /\ Cap \in Nat
  BY BufferAssumption, RoundedUpAssumption DEF IInv, TypeOK, Cap
<1>1. r \in Subscribed /\ Subscribed' = Subscribed
  BY DEF Receives, Subscribed
<1>2. UNCHANGED <<kind, adapter, Cap, pushed, closed>>
  BY DEF Receives, PushUntouched, Cap
<1>3. Asleep' \subseteq Asleep \ {r} /\ CutOff' \subseteq CutOff \ {r}
  BY <1>0 DEF Receives, PushUntouched, Asleep, CutOff, OnItsWay
<1>4. Contract!Oldest = OldestOf(Cap)
  BY DEF Contract!Oldest, OldestOf, Cap
<1>5. Contract!Has(r) <=> IF kind = "mailbox" THEN slot # 0 ELSE pos[r] < pushed
  BY DEF Contract!Has
<1>6. \A e \in {"ok", "lag", "closed"}, n \in Int :
        ans' = <<e, n, r>> => Heard' = <<e, n, r>>
  BY <1>1, HeardIs
<1>7. slot \in Nat /\ pos[r] \in Nat /\ OldestOf(Cap) \in Nat
  BY <1>0 DEF IInv, TypeOK, OldestOf
<1>8. CASE kind = "ring" /\ RingRecv(r, OldestOf(Cap)) /\ UNCHANGED slot
  <2>1. CASE /\ pos[r] < OldestOf(Cap)
             /\ Lagged(r, OldestOf(Cap) - pos[r])
             /\ pos' = [pos EXCEPT ![r] = OldestOf(Cap)]
    <3>1. Heard' = <<"lag", OldestOf(Cap) - pos[r], r>>
      BY <1>6, <1>7, <2>1 DEF Lagged
    <3>2. Contract!Lag(r)
      BY <1>1, <1>2, <1>3, <1>4, <1>8, <2>1, <3>1
        DEF Contract!Lag, Contract!Answer, Contract!fixed, Heard, Asleep, Quiet, Cap
    <3> QED BY <3>2 DEF Contract!Next
  <2>2. CASE /\ pos[r] >= OldestOf(Cap) /\ pos[r] < pushed
             /\ Ok(r, pos[r] + 1)
             /\ pos' = [pos EXCEPT ![r] = @ + 1]
    <3>1. Heard' = <<"ok", pos[r] + 1, r>>
      BY <1>6, <1>7, <2>2 DEF Ok
    <3>2. Contract!Receive(r)
      BY <1>1, <1>2, <1>3, <1>4, <1>5, <1>8, <2>2, <3>1
        DEF Contract!Receive, Contract!Answer, Contract!fixed, Heard, Asleep, Quiet, Cap
    <3> QED BY <3>2 DEF Contract!Next
  <2> QED BY <1>8, <2>1, <2>2 DEF RingRecv
<1>9. CASE kind = "latest" /\ LatestRecv(r) /\ UNCHANGED slot
  <2>1. Heard' = <<"ok", pushed, r>>
    BY <1>0, <1>6, <1>9 DEF LatestRecv, Ok
  <2>2. pos[r] < pushed
    BY <1>0, <1>9 DEF LatestRecv
  <2>3. Contract!Receive(r)
    BY <1>1, <1>2, <1>3, <1>5, <1>9, <2>1, <2>2
        DEF Contract!Receive, Contract!Answer, Contract!fixed, LatestRecv,
          Heard, Asleep, Quiet, Cap
  <2> QED BY <2>3 DEF Contract!Next
<1>10. CASE kind = "mailbox" /\ MailboxRecv(r) /\ UNCHANGED pos
  <2>1. Heard' = <<"ok", slot, r>>
    BY <1>6, <1>7, <1>10 DEF MailboxRecv, Ok
  <2>2. Contract!Receive(r)
    BY <1>1, <1>2, <1>3, <1>5, <1>10, <2>1
        DEF Contract!Receive, Contract!Answer, Contract!fixed, MailboxRecv,
          Heard, Asleep, Quiet, Cap
  <2> QED BY <2>2 DEF Contract!Next
<1>11. CASE /\ closed /\ (IF kind = "mailbox" THEN slot = 0 ELSE pos[r] = pushed)
            /\ Nothing(r, "closed") /\ UNCHANGED <<pos, slot>>
  <2>1. Heard' = <<"closed", 0, r>>
    BY <1>6, <1>11 DEF Nothing
  <2>2. ~Contract!Has(r)
    BY <1>5, <1>7, <1>11
  <2>3. Contract!End(r)
    BY <1>1, <1>2, <1>3, <1>11, <2>1, <2>2
        DEF Contract!End, Contract!Answer, Contract!fixed, Heard, Asleep, Quiet, Cap
  <2> QED BY <2>3 DEF Contract!Next
<1> QED
  BY <1>8, <1>9, <1>10, <1>11 DEF Receives

\* Nothing there, told so: a ring or a watch may be wrong about that.
LEMMA EmptyRefines ==
  ASSUME NEW r \in Readers, Tells(r, "empty"), st[r] = "live", UNCHANGED waits,
         kind # "mailbox" \/ (slot = 0 /\ ~closed),
         \/ CutOff' \subseteq CutOff
         \/ adapter = "tokio" /\ kind # "mailbox" /\ CutOff' \subseteq CutOff \cup {r}
  PROVE  Contract!Next
<1>1. r \in Subscribed /\ Subscribed' = Subscribed
  BY DEF Tells, Subscribed
<1>2. Asleep' \subseteq Asleep
  BY AsleepShrinks DEF Tells, PushUntouched
<1>3. Heard' = <<"empty", 0, r>>
  BY <1>1, HeardIs DEF Tells
<1>4. Contract!Empty(r)
  BY <1>1, <1>2, <1>3 DEF Tells, PushUntouched, Contract!Empty, Contract!Has, Contract!fixed, Heard,
    Asleep, Quiet, Cap
<1> QED BY <1>4 DEF Contract!Next

\* Nothing there, and r goes to sleep; evicted readers may be woken.
LEMMA SleepRefines ==
  ASSUME NEW r \in Readers, Tells(r, "pending"), st[r] = "live", ~closed,
         pos[r] \in Nat, Idle(r), CutOff' \subseteq CutOff,
         \E w \in wakers' : w[2] = r /\ w[3] = waits'[r],
         \A q \in Readers : q # r => waits'[q] \in {0, waits[q]}
  PROVE  Contract!Next
<1>1. r \in Subscribed /\ Subscribed' = Subscribed
  BY DEF Tells, Subscribed
<1>2. Asleep' \subseteq Asleep \cup {r}
  BY DEF Tells, PushUntouched, Asleep, OnItsWay
<1>3. CutOff' \subseteq CutOff \ {r}
  BY DEF CutOff
<1>4. Heard' = <<"pending", 0, r>>
  BY <1>1, HeardIs DEF Tells
<1>5. ~Contract!Has(r)
  BY DEF Contract!Has, Idle
<1>6. Contract!Sleep(r)
  BY <1>1, <1>2, <1>3, <1>4, <1>5 DEF Tells, PushUntouched, Contract!Sleep,
    Contract!fixed, Heard, Asleep, Quiet, Cap
<1> QED BY <1>6 DEF Contract!Next

\* Out of budget: told to wait and woken at once.
LEMMA YieldRefines ==
  ASSUME NEW r \in Readers, Tells(r, "pending"), st[r] = "live", kind # "mailbox",
         waits \in [Readers -> {0} \cup WakerIds], waits' = [waits EXCEPT ![r] = 0],
         CutOff' \subseteq CutOff
  PROVE  Contract!Next
<1>1. r \in Subscribed /\ Subscribed' = Subscribed
  BY DEF Tells, Subscribed
<1>2. Asleep' \subseteq Asleep \ {r} /\ CutOff' \subseteq CutOff \ {r}
  BY DEF Tells, PushUntouched, Asleep, CutOff, OnItsWay
<1>3. Heard' = <<"pending", 0, r>>
  BY <1>1, HeardIs DEF Tells
<1>4. Contract!Yield(r)
  BY <1>1, <1>2, <1>3 DEF Tells, PushUntouched, Contract!Yield, Contract!Answer, Contract!fixed, Heard,
    Asleep, Quiet, Cap
<1> QED BY <1>4 DEF Contract!Next

\* A deaf reader is told the end, which no subscribed reader hears.
LEMMA DeafRefines ==
  ASSUME NEW r \in Readers, Tells(r, "closed"), st[r] = "deaf", UNCHANGED waits,
         CutOff' \subseteq CutOff
  PROVE  Contract!Next
<1>1. r \notin Subscribed' /\ Subscribed' = Subscribed
  BY DEF Tells, Subscribed
<1>2. Asleep' \subseteq Asleep
  BY AsleepShrinks DEF Tells, PushUntouched
<1>3. Heard' = Quiet
  BY <1>1, HeardIs DEF Tells
<1>4. Contract!Quietly
  BY <1>1, <1>2, <1>3 DEF Tells, PushUntouched, Contract!Quietly, Contract!fixed,
    Contract!Quiet, Quiet, Heard, Asleep, Cap
<1> QED BY <1>4 DEF Contract!Next

(***************************************************************************)
(* Every step, runtime by runtime.                                         *)
(***************************************************************************)
\* The invariant holds after the step, and the step is one of the contract's.
Kept == IInv' /\ Contract!Next

\* Without a push in progress of an Embassy mailbox there is no gap.
LEMMA NoGap ==
  ASSUME IInv, adapter # "embassy" \/ kind # "mailbox"
  PROVE  gap = FALSE
<1>1. ~gap
  BY DEF IInv, PushShape
<1>2. gap \in BOOLEAN
  BY DEF IInv, TypeOK
<1> QED BY <1>1, <1>2

LEMMA PublishAndWakeKept ==
  ASSUME IInv, NEW p \in Producers, kind # "mailbox", PublishAndWake(p), UNCHANGED adapter
  PROVE  Kept
<1>1. /\ Begin(p) /\ pushed' = pushed + 1 /\ slot' = slot
      /\ waits' = Woken(wakers) /\ wakers' = {} /\ gap' = FALSE
      /\ UNCHANGED <<kind, adapter, closed, readVars, nextKey, pc, towake>>
  BY NoGap DEF PublishAndWake
<1>2. IInv' /\ CutOff' \subseteq CutOff
  BY <1>1, PublishKeeps
<1>3. Contract!Next
  BY <1>1, <1>2, PushRefines DEF Begin, readVars
<1> QED BY <1>2, <1>3 DEF Kept

LEMMA TokioPushKept ==
  ASSUME IInv, adapter = "tokio", UNCHANGED adapter, NEW p \in Producers,
         T!Push(p) \/ T!WakeNext(p) \/ T!Recycle(p) \/ T!DropBuffer(p)
  PROVE  Kept
<1>1. CASE kind # "mailbox" /\ T!PublishAndWake(p)
  <2>1. PublishAndWake(p)
    BY <1>1 DEF T!PublishAndWake, T!Begin, T!Woken, T!Quiet, T!readVars,
      PublishAndWake, Begin, Woken, Quiet, readVars
  <2> QED BY <1>1, <2>1, PublishAndWakeKept
<1>2. CASE kind = "mailbox" /\ T!Deposit(p)
  <2>1. /\ Begin(p) /\ pushed' = pushed + 1 /\ slot' = pushed + 1
        /\ towake' = [towake EXCEPT ![p] = wakers] /\ wakers' = {}
        /\ pc' = [pc EXCEPT ![p] = "wake"]
        /\ UNCHANGED <<kind, adapter, closed, readVars, waits, nextKey, gap>>
    BY <1>2 DEF T!Deposit, T!Begin, T!Quiet, T!readVars, Begin, Quiet, readVars
  <2>2. IInv' /\ CutOff' \subseteq CutOff
    BY <1>2, <2>1, DepositKeeps
  <2>3. Contract!Next
    BY <1>2, <2>1, <2>2, PushRefines DEF Begin, readVars
  <2> QED BY <2>2, <2>3 DEF Kept
<1>3. CASE T!WakeNext(p)
  <2>1. /\ pc[p] = "wake" /\ ans' = Quiet
        /\ UNCHANGED <<kind, adapter, pushed, slot, closed, pc, begun, gap, readVars,
                       wakers, nextKey>>
    BY <1>3 DEF T!WakeNext, T!Quiet, T!readVars, Quiet, readVars
  <2>2. PICK w \in towake[p] :
          waits' = Woken({w}) /\ towake' = [towake EXCEPT ![p] = @ \ {w}]
    BY <1>3 DEF T!WakeNext, T!Woken, Woken
  <2>3. IInv' /\ CutOff' \subseteq CutOff
    BY <2>1, <2>2, WakeNextKeeps
  <2>4. /\ waits \in [Readers -> {0} \cup WakerIds]
        /\ towake \in [Producers -> SUBSET Wakers]
    BY DEF IInv, TypeOK
  <2>5. \A r \in Readers : waits'[r] # 0 =>
          waits'[r] = waits[r] /\ ~ (w[2] = r /\ w[3] = waits[r])
    BY <2>2, <2>4, WokenOnly
  <2>6. Asleep' \subseteq Asleep
    <3>1. SUFFICES ASSUME NEW r \in Readers, waits'[r] # 0, OnItsWay(r)
                   PROVE  OnItsWay(r)'
      BY <2>5 DEF Asleep
    <3> QED
      BY <2>2, <2>4, <2>5, <3>1 DEF OnItsWay
  <2>7. Contract!Next
    BY <2>1, <2>3, <2>6, QuietlyRefines DEF readVars, Subscribed
  <2> QED BY <2>3, <2>7 DEF Kept
<1>4. CASE T!Recycle(p)
  <2>1. /\ pc[p] = "wake" /\ towake[p] = {} /\ ans' = Quiet
        /\ pc' = [pc EXCEPT ![p] = "idle"]
        /\ UNCHANGED <<kind, adapter, pushed, slot, closed, towake, begun, gap, readVars,
                       waits, wakers, nextKey>>
    BY <1>4 DEF T!Recycle, T!Quiet, T!readVars, Quiet, readVars
  <2>2. IInv' /\ CutOff' \subseteq CutOff
    BY <2>1, RecycleKeeps
  <2>3. Asleep' \subseteq Asleep
    BY <2>1, AsleepShrinks
  <2>4. Contract!Next
    BY <2>1, <2>2, <2>3, QuietlyRefines DEF readVars, Subscribed
  <2> QED BY <2>2, <2>4 DEF Kept
<1>5. CASE T!DropBuffer(p)
  <2>1. /\ ~closed /\ pc[p] = "idle" /\ closed' = TRUE /\ wakers' = {} /\ ans' = Quiet
        /\ UNCHANGED <<kind, adapter, pushed, slot, begun, gap, readVars, nextKey>>
    BY <1>5 DEF T!DropBuffer, T!Quiet, T!readVars, Quiet, readVars
  <2>2. IInv' /\ CutOff' \subseteq CutOff
    <3>1. CASE /\ kind = "mailbox"
               /\ towake' = [towake EXCEPT ![p] = wakers]
               /\ pc' = [pc EXCEPT ![p] = "wake"]
               /\ UNCHANGED waits
      BY <2>1, <3>1, CloseMailboxKeeps
    <3>2. CASE kind # "mailbox" /\ waits' = T!Woken(wakers) /\ UNCHANGED <<pc, towake>>
      <4>1. waits' = Woken(wakers)
        BY <3>2 DEF T!Woken, Woken
      <4> QED BY <2>1, <3>2, <4>1, CloseKeeps
    <3> QED BY <1>5, <3>1, <3>2 DEF T!DropBuffer
  <2>3. Contract!Next
    BY <2>1, <2>2, CloseRefines DEF readVars
  <2> QED BY <2>2, <2>3 DEF Kept
<1> QED BY <1>1, <1>2, <1>3, <1>4, <1>5 DEF T!Push

LEMMA TokioReadKept ==
  ASSUME IInv, adapter = "tokio", UNCHANGED adapter, NEW r \in Readers,
         T!Subscribe(r) \/ T!PollRecv(r) \/ T!TryRecv(r) \/ T!DropReader(r)
  PROVE  Kept
<1>0. /\ waits \in [Readers -> {0} \cup WakerIds] /\ pos[r] \in Nat
      /\ T!RoundedUp \in Nat /\ Cap = T!RoundedUp
  BY RoundedUpAssumption, BufferAssumption DEF IInv, TypeOK, Cap
<1>1. CASE T!Subscribe(r)
  <2>1. Joins(r)
    BY <1>1 DEF T!Subscribe, T!Quiet, T!pushVars, Joins, Quiet, PushUntouched
  <2> QED BY <2>1, JoinsKeeps, JoinRefines DEF Kept
<1>2. CASE T!DropReader(r)
  <2>1. Leaves(r)
    BY <1>2 DEF T!DropReader, T!Quiet, T!pushVars, Leaves, Quiet, PushUntouched
  <2>2. /\ key' = [key EXCEPT ![r] = 0]
        /\ wakers' = IF kind = "mailbox" THEN {w \in wakers : w[1] # key[r]}
                     ELSE {w \in wakers : w[2] # r}
    BY <1>2 DEF T!DropReader
  <2>3. IInv' /\ CutOff' \subseteq CutOff
    BY <2>1, <2>2, LeavesKeeps
  <2> QED BY <2>1, <2>3, LeaveRefines DEF Kept
<1>3. CASE st[r] = "live" /\ T!Recv(r)
  <2>1. Receives(r, T!RoundedUp)
    BY <1>3, TokioReceives
  <2> QED BY <1>0, <2>1, ReceivesKeeps, ReceiveRefines DEF Kept
<1>4. CASE st[r] = "live" /\ T!Yield(r)
  <2>1. /\ kind # "mailbox" /\ Tells(r, "pending") /\ waits' = [waits EXCEPT ![r] = 0]
        /\ UNCHANGED <<wakers, key, nextKey>>
    BY <1>4 DEF T!Yield, T!Nothing, T!pushVars, T!readVars, Tells, PushUntouched
  <2> QED BY <1>0, <1>4, <2>1, AnswersKeeps, YieldRefines DEF Kept
<1>5. ASSUME NEW id \in WakerIds, st[r] = "live", T!Pending(r, id)
      PROVE  Kept
  <2>1. /\ ~closed /\ Idle(r) /\ Tells(r, "pending") /\ waits' = [waits EXCEPT ![r] = id]
    BY <1>5 DEF T!Pending, T!NothingFor, T!Nothing, T!pushVars, Idle, Tells, PushUntouched
  <2>2. waits'[r] = id
    BY <1>0, <2>1
  <2>3. /\ IInv' /\ CutOff' \subseteq CutOff
        /\ \E w \in wakers' : w[2] = r /\ w[3] = waits'[r]
    <3>1. CASE kind = "mailbox"
      <4>1. T!Upsert(r, id)
        BY <1>5, <3>1 DEF T!Pending
      <4>2. <<key'[r], r, id>> \in wakers'
        BY <4>1 DEF T!Upsert, IInv, TypeOK
      <4> QED BY <1>5, <2>1, <2>2, <3>1, <4>1, <4>2, UpsertKeeps
    <3>2. CASE kind # "mailbox"
      <4>1. T!Replace(r, id)
        BY <1>5, <3>2 DEF T!Pending
      <4>2. <<0, r, id>> \in wakers'
        BY <4>1 DEF T!Replace
      <4> QED BY <1>5, <2>1, <2>2, <3>2, <4>1, <4>2, ReplaceKeeps
    <3> QED BY <3>1, <3>2
  <2>4. Contract!Next
    BY <1>0, <1>5, <2>1, <2>3, SleepRefines
  <2> QED BY <2>3, <2>4 DEF Kept
<1>6. CASE st[r] = "live" /\ T!TryEmpty(r)
  <2>1. Tells(r, "empty") /\ UNCHANGED waits
    BY <1>6 DEF T!TryEmpty, T!Nothing, T!pushVars, Tells, PushUntouched
  <2>2. kind # "mailbox" \/ (slot = 0 /\ ~closed)
    BY <1>6 DEF T!TryEmpty, T!NothingFor
  <2>3. CASE UNCHANGED <<wakers, key, nextKey>>
    <3>1. IInv' /\ CutOff' \subseteq CutOff
      BY <2>1, <2>3, AnswersKeeps
    <3> QED BY <1>6, <2>1, <2>2, <3>1, EmptyRefines DEF Kept
  <2>4. CASE kind # "mailbox" /\ T!Replace(r, 0)
    <3>1. IInv' /\ CutOff' \subseteq CutOff \cup {r}
      BY <1>6, <2>1, <2>4, ReplaceKeeps
    <3> QED BY <1>6, <2>1, <2>2, <2>4, <3>1, EmptyRefines DEF Kept
  <2> QED BY <1>6, <2>3, <2>4 DEF T!TryEmpty
<1> QED
  BY <1>1, <1>2, <1>3, <1>4, <1>5, <1>6
    DEF T!PollRecv, T!TryRecv, T!WakerIds, WakerIds

LEMMA EmbassyPushKept ==
  ASSUME IInv, adapter = "embassy", UNCHANGED adapter, NEW p \in Producers,
         E!Push(p) \/ E!Drain(p) \/ E!Resend(p)
  PROVE  Kept
<1>1. CASE kind # "mailbox" /\ E!PublishAndWake(p)
  <2>1. PublishAndWake(p)
    BY <1>1 DEF E!PublishAndWake, E!Begin, E!Woken, E!Quiet, E!readVars,
      PublishAndWake, Begin, Woken, Quiet, readVars
  <2> QED BY <1>1, <2>1, PublishAndWakeKept
<1>2. CASE kind = "mailbox" /\ E!TrySend(p)
  <2>1. Begin(p) /\ UNCHANGED <<kind, adapter, closed, towake, readVars, nextKey>>
    BY <1>2 DEF E!TrySend, E!Begin, E!Quiet, E!readVars, Begin, Quiet, readVars
  <2>2. CASE slot = 0 /\ E!Sent /\ UNCHANGED pc
    <3>1. pushed' = pushed + 1 /\ slot' = pushed + 1 /\ waits' = Woken(wakers)
          /\ wakers' = {} /\ gap' = FALSE
      BY <2>2 DEF E!Sent, E!Woken, Woken
    <3>2. IInv' /\ CutOff' \subseteq CutOff
      BY <1>2, <2>1, <2>2, <3>1, PublishKeeps
    <3>3. Contract!Next
      BY <1>2, <2>1, <3>1, <3>2, PushRefines DEF Begin, readVars
    <3> QED BY <3>2, <3>3 DEF Kept
  <2>3. CASE /\ slot # 0 /\ pc' = [pc EXCEPT ![p] = "drain"]
             /\ UNCHANGED <<pushed, slot, waits, wakers, gap>>
    <3>1. IInv' /\ CutOff' \subseteq CutOff
      BY <1>2, <2>1, <2>3, FullKeeps
    <3>2. Asleep' \subseteq Asleep
      BY <2>1, <2>3, AsleepShrinks
    <3>3. Contract!Next
      BY <2>1, <2>3, <3>1, <3>2, QuietlyRefines DEF readVars, Subscribed, Begin
    <3> QED BY <3>1, <3>3 DEF Kept
  <2> QED BY <1>2, <2>2, <2>3 DEF E!TrySend
<1>3. CASE E!Drain(p)
  <2>1. /\ pc[p] = "drain" /\ gap' = (gap \/ slot # 0) /\ slot' = 0
        /\ pc' = [pc EXCEPT ![p] = "resend"] /\ ans' = Quiet
        /\ UNCHANGED <<kind, adapter, pushed, closed, towake, begun, readVars,
                       waits, wakers, nextKey>>
    BY <1>3 DEF E!Drain, E!Quiet, E!readVars, Quiet, readVars
  <2>2. IInv' /\ CutOff' \subseteq CutOff
    BY <2>1, DrainKeeps
  <2>3. kind = "mailbox"
    BY <2>1 DEF IInv, PushShape
  <2>4. Contract!Next
    <3>1. CASE slot # 0
      BY <2>1, <2>3, <3>1, DiscardRefines DEF readVars
    <3>2. CASE slot = 0
      <4>1. Asleep' \subseteq Asleep
        BY <2>1, AsleepShrinks
      <4> QED BY <2>1, <2>2, <3>2, <4>1, QuietlyRefines DEF readVars, Subscribed
    <3> QED BY <3>1, <3>2
  <2> QED BY <2>2, <2>4 DEF Kept
<1>4. CASE E!Resend(p)
  <2>1. IInv' /\ CutOff' \subseteq CutOff
    BY <1>4, ResendKeeps
  <2>2. /\ pc[p] = "resend" /\ ans' = Quiet
        /\ UNCHANGED <<kind, adapter, closed, towake, readVars>>
    BY <1>4 DEF E!Resend, E!Quiet, E!readVars, Quiet, readVars
  <2>3. kind = "mailbox" /\ ~closed
    BY <2>2 DEF IInv, PushShape
  <2>4. CASE slot = 0 /\ E!Sent
    <3>1. pushed' = pushed + 1 /\ slot' = pushed + 1 /\ wakers' = {}
      BY <2>4 DEF E!Sent
    <3>2. Contract!Next
      BY <2>1, <2>2, <2>3, <3>1, PushRefines DEF readVars
    <3> QED BY <2>1, <3>2 DEF Kept
  <2>5. CASE slot # 0 /\ UNCHANGED <<pushed, slot, waits, wakers, gap>>
    <3>1. Asleep' \subseteq Asleep
      BY <2>2, <2>5, AsleepShrinks
    <3>2. Contract!Next
      BY <2>1, <2>2, <2>5, <3>1, QuietlyRefines DEF readVars, Subscribed
    <3> QED BY <2>1, <3>2 DEF Kept
  <2> QED BY <1>4, <2>1, <2>4, <2>5 DEF E!Resend, Kept
<1> QED BY <1>1, <1>2, <1>3, <1>4 DEF E!Push

LEMMA EmbassyReadKept ==
  ASSUME IInv, adapter = "embassy", UNCHANGED adapter, NEW r \in Readers,
         E!Subscribe(r) \/ E!PollRecv(r) \/ E!TryRecv(r) \/ E!DropReader(r)
  PROVE  Kept
<1>0. /\ waits \in [Readers -> {0} \cup WakerIds] /\ pos[r] \in Nat
      /\ Capacity \in Nat /\ Cap = Capacity /\ ~closed
  BY BufferAssumption DEF IInv, TypeOK, Cap, PushShape
<1>1. CASE E!Subscribe(r)
  <2>1. /\ st[r] = "none" /\ joined < MaxSubs /\ joined' = joined + 1 /\ ans' = Quiet
        /\ PushUntouched /\ UNCHANGED <<slot, waits, key, wakers, nextKey>>
    BY <1>1 DEF E!Subscribe, E!Quiet, E!pushVars, Quiet, PushUntouched
  <2>2. CASE /\ st' = [st EXCEPT ![r] = "live"]
             /\ pos' = [pos EXCEPT ![r] = IF kind = "latest" THEN 0 ELSE pushed]
    <3>1. Joins(r)
      BY <2>1, <2>2 DEF Joins
    <3> QED BY <3>1, JoinsKeeps, JoinRefines DEF Kept
  <2>3. CASE st' = [st EXCEPT ![r] = "deaf"] /\ UNCHANGED pos
    <3>1. IInv' /\ CutOff' \subseteq CutOff
      BY <2>1, <2>3, DeafJoinKeeps
    <3>2. Subscribed' = Subscribed
      BY <2>1, <2>3 DEF Subscribed, IInv, TypeOK
    <3>3. Asleep' \subseteq Asleep
      BY <2>1, AsleepShrinks DEF PushUntouched
    <3>4. Contract!Next
      BY <2>1, <2>3, <3>1, <3>2, <3>3, QuietlyRefines DEF PushUntouched
    <3> QED BY <3>1, <3>4 DEF Kept
  <2> QED BY <1>1, <2>2, <2>3 DEF E!Subscribe
<1>2. CASE E!DropReader(r)
  <2>1. Leaves(r) /\ key' = key /\ wakers' = wakers
    BY <1>2 DEF E!DropReader, E!Quiet, E!pushVars, Leaves, Quiet, PushUntouched
  <2>2. IInv' /\ CutOff' \subseteq CutOff
    BY <2>1, LeavesKeeps
  <2> QED BY <2>1, <2>2, LeaveRefines DEF Kept
<1>3. CASE st[r] = "live" /\ E!Recv(r)
  <2>1. Receives(r, Capacity)
    BY <1>3, EmbassyReceives
  <2> QED BY <1>0, <2>1, ReceivesKeeps, ReceiveRefines DEF Kept
<1>4. CASE E!Deaf(r)
  <2>1. /\ st[r] = "deaf" /\ Tells(r, "closed") /\ UNCHANGED <<waits, wakers, key, nextKey>>
    BY <1>4 DEF E!Deaf, E!Nothing, E!pushVars, E!readVars, Tells, PushUntouched
  <2> QED BY <2>1, AnswersKeeps, DeafRefines DEF Kept
<1>5. ASSUME NEW id \in WakerIds, st[r] = "live", E!Pending(r, id)
      PROVE  Kept
  <2>1. Idle(r) /\ Tells(r, "pending") /\ UNCHANGED <<key, nextKey>>
    BY <1>5 DEF E!Pending, E!NothingFor, E!Nothing, E!pushVars, E!readVars, Idle, Tells,
      PushUntouched
  <2>2. PICK Out \in {{}, wakers} :
          /\ wakers' = (wakers \ Out) \cup {<<0, r, id>>}
          /\ waits' = [Woken(Out) EXCEPT ![r] = id]
    BY <1>5 DEF E!Pending, E!Evicted, E!Woken, Woken
  <2>3. IInv' /\ CutOff' \subseteq CutOff
    BY <1>5, <2>1, <2>2, EvictKeeps
  <2>4. /\ \A q \in Readers : q # r => waits'[q] \in {0, waits[q]}
        /\ waits'[r] = id
    BY <1>0, <2>2, WokenOnly
  <2>5. \E w \in wakers' : w[2] = r /\ w[3] = waits'[r]
    <3>1. <<0, r, id>> \in wakers'
      BY <2>2
    <3> QED BY <2>4, <3>1
  <2>6. Contract!Next
    BY <1>0, <1>5, <2>1, <2>3, <2>4, <2>5, SleepRefines
  <2> QED BY <2>3, <2>6 DEF Kept
<1>6. CASE st[r] = "live" /\ E!TryEmpty(r)
  <2>1. /\ Tells(r, "empty") /\ UNCHANGED <<waits, wakers, key, nextKey>>
        /\ (kind # "mailbox" \/ slot = 0)
    BY <1>6 DEF E!TryEmpty, E!NothingFor, E!Nothing, E!pushVars, E!readVars, Tells,
      PushUntouched
  <2> QED BY <1>0, <1>6, <2>1, AnswersKeeps, EmptyRefines DEF Kept
<1> QED
  BY <1>1, <1>2, <1>3, <1>4, <1>5, <1>6
    DEF E!PollRecv, E!TryRecv, E!WakerIds, WakerIds

LEMMA WasmPushKept ==
  ASSUME IInv, adapter = "wasm", UNCHANGED adapter, NEW p \in Producers, W!Push(p)
  PROVE  Kept
<1>1. CASE kind # "mailbox" /\ W!PublishAndWake(p)
  <2>1. PublishAndWake(p)
    BY <1>1 DEF W!PublishAndWake, W!Begin, W!Woken, W!Quiet, W!readVars,
      PublishAndWake, Begin, Woken, Quiet, readVars
  <2> QED BY <1>1, <2>1, PublishAndWakeKept
<1>2. CASE kind = "mailbox"
  <2>1. /\ Begin(p) /\ pushed' = pushed + 1 /\ slot' = pushed + 1
        /\ waits' = Woken(wakers) /\ wakers' = {} /\ gap' = FALSE
        /\ UNCHANGED <<kind, adapter, closed, readVars, nextKey, pc, towake>>
    BY <1>2, NoGap DEF W!Push, W!Begin, W!Woken, W!Quiet, W!readVars, Begin, Woken,
      Quiet, readVars
  <2>2. IInv' /\ CutOff' \subseteq CutOff
    BY <1>2, <2>1, PublishKeeps
  <2>3. Contract!Next
    BY <1>2, <2>1, <2>2, PushRefines DEF Begin, readVars
  <2> QED BY <2>2, <2>3 DEF Kept
<1> QED BY <1>1, <1>2 DEF W!Push

LEMMA WasmReadKept ==
  ASSUME IInv, adapter = "wasm", UNCHANGED adapter, NEW r \in Readers,
         W!Subscribe(r) \/ W!PollRecv(r) \/ W!TryRecv(r) \/ W!DropReader(r)
  PROVE  Kept
<1>0. /\ waits \in [Readers -> {0} \cup WakerIds] /\ pos[r] \in Nat /\ pushed \in Nat
      /\ Capacity \in Nat /\ Cap = Capacity /\ ~closed
  BY BufferAssumption DEF IInv, TypeOK, Cap, PushShape
<1>1. CASE W!Subscribe(r)
  <2>1. Joins(r)
    BY <1>1 DEF W!Subscribe, W!Quiet, W!pushVars, Joins, Quiet, PushUntouched
  <2> QED BY <2>1, JoinsKeeps, JoinRefines DEF Kept
<1>2. CASE W!DropReader(r)
  <2>1. Leaves(r) /\ key' = key /\ wakers' = wakers
    BY <1>2 DEF W!DropReader, W!Quiet, W!pushVars, Leaves, Quiet, PushUntouched
  <2>2. IInv' /\ CutOff' \subseteq CutOff
    BY <2>1, LeavesKeeps
  <2> QED BY <2>1, <2>2, LeaveRefines DEF Kept
<1>3. CASE st[r] = "live" /\ W!Recv(r)
  <2>1. Receives(r, Capacity)
    BY <1>0, <1>3, WasmReceives
  <2> QED BY <1>0, <2>1, ReceivesKeeps, ReceiveRefines DEF Kept
<1>4. ASSUME NEW id \in WakerIds, st[r] = "live", W!Pending(r, id)
      PROVE  Kept
  <2>1. /\ Idle(r) /\ Tells(r, "pending") /\ UNCHANGED <<key, nextKey>>
        /\ wakers' = wakers \cup {<<0, r, id>>} /\ waits' = [waits EXCEPT ![r] = id]
    BY <1>4 DEF W!Pending, W!NothingFor, W!Nothing, W!pushVars, W!readVars, Idle, Tells,
      PushUntouched
  <2>2. IInv' /\ CutOff' \subseteq CutOff
    BY <1>4, <2>1, AddKeeps
  <2>3. <<0, r, id>> \in wakers' /\ waits'[r] = id
    BY <1>0, <2>1
  <2>4. \E w \in wakers' : w[2] = r /\ w[3] = waits'[r]
    BY <2>3
  <2>5. Contract!Next
    BY <1>0, <1>4, <2>1, <2>2, <2>4, SleepRefines
  <2> QED BY <2>2, <2>5 DEF Kept
<1>5. CASE /\ st[r] = "live" /\ W!NothingFor(r) /\ W!Nothing(r, "empty")
           /\ UNCHANGED <<kind, W!pushVars, W!readVars, waits, wakers, nextKey>>
  <2>1. /\ Tells(r, "empty") /\ UNCHANGED <<waits, wakers, key, nextKey>>
        /\ (kind # "mailbox" \/ slot = 0)
    BY <1>5 DEF W!NothingFor, W!Nothing, W!pushVars, W!readVars, Tells, PushUntouched
  <2> QED BY <1>0, <1>5, <2>1, AnswersKeeps, EmptyRefines DEF Kept
<1> QED
  BY <1>1, <1>2, <1>3, <1>4, <1>5 DEF W!PollRecv, W!TryRecv, W!WakerIds, WakerIds

LEMMA StepKept ==
  ASSUME IInv, BNext
  PROVE  Kept
<1>1. CASE adapter = "tokio" /\ T!Next
  BY <1>1, TokioPushKept, TokioReadKept DEF BNext, T!Next
<1>2. CASE adapter = "embassy" /\ E!Next
  BY <1>2, EmbassyPushKept, EmbassyReadKept DEF BNext, E!Next
<1>3. CASE adapter = "wasm" /\ W!Next
  BY <1>3, WasmPushKept, WasmReadKept DEF BNext, W!Next
<1> QED BY <1>1, <1>2, <1>3 DEF BNext

LEMMA InitInv ==
  ASSUME BInit
  PROVE  IInv
<1> USE BufferAssumption DEF BInit, Init
<1>1. TypeOK
  <2>1. /\ 0 \in 0 .. MaxPush /\ 0 \in 0 .. MaxSubs /\ 0 \in 0 .. pushed
        /\ FALSE \in BOOLEAN /\ 1 \in Nat \ {0}
    OBVIOUS
  <2>2. /\ pos \in [Readers -> 0 .. pushed] /\ key \in [Readers -> Nat]
        /\ waits \in [Readers -> {0} \cup WakerIds]
        /\ st \in [Readers -> {"none", "live", "deaf"}]
    BY <2>1
  <2>3. /\ pc \in [Producers -> {"idle", "wake", "drain", "resend"}]
        /\ towake \in [Producers -> SUBSET Wakers] /\ wakers \subseteq Wakers
    OBVIOUS
  <2>4. closed \in BOOLEAN /\ gap \in BOOLEAN
    OBVIOUS
  <2> QED BY <2>1, <2>2, <2>3, <2>4 DEF TypeOK
<1>2. PushShape
  BY DEF PushShape
<1>3. Pushing = {}
  BY DEF Pushing
<1>4. PushesCounted
  BY <1>3, FS_EmptySet DEF PushesCounted
<1>5. Away /\ KeysOwned /\ Registered
  BY DEF Away, KeysOwned, Registered, CutOff
<1> QED BY <1>1, <1>2, <1>4, <1>5 DEF IInv

LEMMA StutterInv ==
  ASSUME IInv, UNCHANGED bufVars
  PROVE  IInv'
<1> USE DEF bufVars, vars
<1>1. TypeOK' BY DEF IInv, TypeOK
<1>2. PushShape' BY DEF IInv, PushShape
<1>3. PushesCounted' BY DEF IInv, PushesCounted, Pushing
<1>4. Away' /\ KeysOwned' BY DEF IInv, Away, KeysOwned
<1>5. Registered' BY DEF IInv, Registered, CutOff, OnItsWay
<1> QED BY <1>1, <1>2, <1>3, <1>4, <1>5 DEF IInv

(***************************************************************************)
(* The theorems.                                                           *)
(***************************************************************************)
\* For any readers, producers, capacity and slots, every reachable state of the
\* three runtimes' buffers satisfies the invariant.
THEOREM Invariant == Spec => []IInv
<1>1. BInit => IInv
  BY InitInv
<1>2. IInv /\ [BNext]_bufVars => IInv'
  BY StepKept, StutterInv DEF Kept
<1> QED BY <1>1, <1>2, PTL DEF Spec

\* An overwriting push of an Embassy mailbox (try_send, try_receive, try_send)
\* never leaves it empty, whatever concurrent pushes and receivers do between
\* the three calls.
THEOREM MailboxNeverEmptied == Spec => []NeverEmptied
<1>1. IInv => NeverEmptied
  BY DEF IInv, PushShape, NeverEmptied
<1> QED BY <1>1, Invariant, PTL

\* The waker list of a Tokio mailbox holds one reader's entry under that
\* reader's key and no entry of a dropped reader, though entries are drained by
\* pushes while readers keep the keys of entries that are gone.
THEOREM WakersOfTheLiving == Spec => []NoWakerLeft
<1>1. IInv => NoWakerLeft
  <2>1. SUFFICES ASSUME IInv, adapter = "tokio", kind = "mailbox", NEW w \in wakers
                 PROVE  st[w[2]] # "none" /\ key[w[2]] = w[1]
    BY DEF NoWakerLeft
  <2>2. w[2] \in Readers
    BY <2>1 DEF IInv, TypeOK, Wakers
  <2> QED BY <2>1, <2>2 DEF IInv, KeysOwned
<1> QED BY <1>1, Invariant, PTL

\* The buffers of the three runtimes implement the contract, whatever the
\* capacity and the number of readers, producers and slots: no reader is put to
\* sleep over a value, and none is left asleep by a push or by the drop of the
\* buffer but a reader of a Tokio ring or latest buffer that called try_recv
\* since its last poll.
THEOREM BuffersImplementContract == Spec => ContractKept
<1>1. BInit => Contract!Init
  <2>1. SUFFICES ASSUME BInit PROVE Contract!Init
    OBVIOUS
  <2>2. Subscribed = {} /\ Asleep = {} /\ CutOff = {} /\ Heard = Quiet
    BY <2>1 DEF BInit, Init, Subscribed, Asleep, CutOff, Heard
  <2>3. Cap \in Nat \ {0}
    BY BufferAssumption, RoundedUpAssumption DEF Cap
  <2> QED
    BY <2>1, <2>2, <2>3 DEF BInit, Init, Contract!Init, Contract!Kinds, Contract!fixed, Contract!Quiet,
      Quiet, Asleep, Heard, Cap
<1>2. IInv /\ [BNext]_bufVars => [Contract!Next]_(Contract!vars)
  <2>1. SUFFICES ASSUME IInv, [BNext]_bufVars
                 PROVE  [Contract!Next]_(Contract!vars)
    OBVIOUS
  <2>2. CASE BNext
    BY <2>1, <2>2, StepKept DEF Kept
  <2>3. CASE UNCHANGED bufVars
    BY <2>3 DEF bufVars, vars, Contract!vars, Contract!fixed, Subscribed, CutOff, OnItsWay
  <2> QED BY <2>1, <2>2, <2>3
<1> QED
  BY <1>1, <1>2, Invariant, PTL DEF Spec, ContractKept, Contract!Spec
=============================================================================
