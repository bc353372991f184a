--------------------------- MODULE BufferState -----------------------------
(***************************************************************************)
(* The state the three runtimes' buffers share, and what a call on a       *)
(* reader leaves behind.  TokioBuffer, EmbassyBuffer and WasmBuffer add    *)
(* the actions, BufferContract says what they promise.                     *)
(*                                                                         *)
(* The k-th value to take effect is the number k.  A reader is "none"      *)
(* before subscribe and after drop, "live", or "deaf" when subscribe found *)
(* no free registration slot.  A waker is <<key, reader, id>>: the task    *)
(* that owns a reader may poll with one waker now and another later (id),  *)
(* and id 0 is the no-op waker.                                            *)
(***************************************************************************)
EXTENDS Integers, FiniteSets, FiniteSetsExt

CONSTANTS
  Readers, Producers,
  Capacity,  \* BufferCfg::SpmcRing { capacity }
  Slots,     \* registration slots of an Embassy buffer (SUBS, WATCH_N)
  MaxPush,   \* bound: pushes
  MaxSubs    \* bound: subscriptions

ASSUME BufferAssumption ==
  /\ IsFiniteSet(Readers) /\ IsFiniteSet(Producers)
  /\ Capacity \in Nat \ {0} /\ Slots \in Nat \ {0}
  /\ MaxPush \in Nat /\ MaxSubs \in Nat

VARIABLES
  kind,    \* BufferCfg
  pushed,  \* values that took effect
  slot,    \* the mailbox: a value, 0 when empty
  closed,  \* the buffer has been dropped
  st,      \* st[r]: see above
  waits,   \* waits[r]: id of the waker r waits for since its last poll was
           \* Pending, 0 when that poll was not, or the waker has been woken
  pos,     \* pos[r]: last value r was given or told of
  wakers,  \* registered wakers
  key,     \* key[r]: waker_key of a mailbox reader, 0 for None
  nextKey, \* next_key
  pc,      \* pc[p]: where a push in progress is
  towake,  \* towake[p]: wakers p has drained and not woken yet
  \* History.
  ans,     \* what the step answered, and to whom
  begun,   \* pushes begun
  joined,  \* subscriptions made
  gap      \* an overwriting push has emptied the slot, nothing sent since

vars == <<kind, pushed, slot, closed, st, waits, pos, wakers, key, nextKey,
          pc, towake, ans, begun, joined, gap>>
pushVars == <<pushed, slot, closed, pc, towake, begun, gap>>
readVars == <<st, pos, key, joined>>

WakerIds == 1 .. 2
Wakers == Nat \X Readers \X ({0} \cup WakerIds)
Quiet == <<"quiet", 0>>

TypeOK ==
  /\ kind \in {"ring", "latest", "mailbox"}
  /\ pushed \in 0 .. MaxPush /\ slot \in 0 .. pushed /\ closed \in BOOLEAN
  /\ st \in [Readers -> {"none", "live", "deaf"}]
  /\ waits \in [Readers -> {0} \cup WakerIds]
  /\ pos \in [Readers -> 0 .. pushed] /\ wakers \subseteq Wakers
  /\ key \in [Readers -> Nat] /\ nextKey \in Nat \ {0}
  /\ pc \in [Producers -> {"idle", "wake", "drain", "resend"}]
  /\ towake \in [Producers -> SUBSET Wakers]
  /\ ans = Quiet \/ ans \in {"ok", "lag", "closed", "empty", "pending"}
                              \X Nat \X Readers
  /\ begun \in 0 .. MaxPush /\ joined \in 0 .. MaxSubs /\ gap \in BOOLEAN

\* Buffer::new.
Init ==
  /\ kind \in {"ring", "latest", "mailbox"}
  /\ pushed = 0 /\ slot = 0 /\ closed = FALSE
  /\ st = [r \in Readers |-> "none"] /\ waits = [r \in Readers |-> 0]
  /\ pos = [r \in Readers |-> 0]
  /\ wakers = {} /\ key = [r \in Readers |-> 0] /\ nextKey = 1
  /\ pc = [p \in Producers |-> "idle"] /\ towake = [p \in Producers |-> {}]
  /\ ans = Quiet /\ begun = 0 /\ joined = 0 /\ gap = FALSE

\* Values a ring of capacity c has overwritten.
OldestOf(c) == IF pushed > c THEN pushed - c ELSE 0

\* Waker::wake on a set of wakers: a task waits for its latest waker only.
Woken(W) ==
  [r \in Readers |-> IF \E w \in W : w[2] = r /\ w[3] = waits[r] THEN 0 ELSE waits[r]]

Begin(p) ==
  /\ pc[p] = "idle" /\ ~closed /\ begun < MaxPush
  /\ begun' = begun + 1
  /\ ans' = Quiet

\* The value is in, and every registered waker is taken and woken.
PublishAndWake(p) ==
  /\ Begin(p)
  /\ pushed' = pushed + 1
  /\ waits' = Woken(wakers) /\ wakers' = {}
  /\ UNCHANGED <<kind, slot, closed, readVars, nextKey, pc, towake, gap>>

\* What a call of r returns.
Ok(r, v) == ans' = <<"ok", v, r>>
Lagged(r, n) == ans' = <<"lag", n, r>>
Nothing(r, e) == ans' = <<e, 0, r>>

\* A reader of the ring that fell behind goes to the oldest value left.
RingRecv(r, oldest) ==
  \/ /\ pos[r] < oldest
     /\ Lagged(r, oldest - pos[r])
     /\ pos' = [pos EXCEPT ![r] = oldest]
  \/ /\ pos[r] >= oldest /\ pos[r] < pushed
     /\ Ok(r, pos[r] + 1)
     /\ pos' = [pos EXCEPT ![r] = @ + 1]

LatestRecv(r) ==
  /\ pos[r] # pushed
  /\ Ok(r, pushed)
  /\ pos' = [pos EXCEPT ![r] = pushed]

MailboxRecv(r) ==
  /\ slot # 0
  /\ Ok(r, slot)
  /\ slot' = 0
============================================================================
