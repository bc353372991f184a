----------------------------- MODULE Buffers -------------------------------
(***************************************************************************)
(* The buffers of the three runtimes against one contract: the runtime is  *)
(* chosen once, and every behaviour of its buffer must be a behaviour of   *)
(* BufferContract.                                                         *)
(***************************************************************************)
EXTENDS BufferState, TLC

VARIABLE adapter

T == INSTANCE TokioBuffer
E == INSTANCE EmbassyBuffer
W == INSTANCE WasmBuffer

\* Arithmetic the refinement needs and no installed prover can reach (it takes
\* induction over powers of two): the ring tokio rounds up to holds something.
ASSUME RoundedUpAssumption == T!RoundedUp \in Nat \ {0}

bufVars == <<vars, adapter>>

BInit == Init /\ adapter \in {"tokio", "embassy", "wasm"}

BNext ==
  /\ UNCHANGED adapter
  /\ \/ adapter = "tokio" /\ T!Next
     \/ adapter = "embassy" /\ E!Next
     \/ adapter = "wasm" /\ W!Next

Spec == BInit /\ [][BNext]_bufVars

\* A waker a push has drained but not woken yet.
OnItsWay(r) ==
  \E p \in Producers : \E w \in towake[p] : w[2] = r /\ w[3] = waits[r]

\* Readers that wait for a waker nobody holds.
CutOff ==
  {r \in Readers :
     /\ waits[r] # 0 /\ ~OnItsWay(r)
     /\ ~\E w \in wakers : w[2] = r /\ w[3] = waits[r]}

Subscribed == {r \in Readers : st[r] = "live"}

Contract == INSTANCE BufferContract WITH
  noop <- adapter = "tokio",
  cap <- IF adapter = "tokio" THEN T!RoundedUp ELSE Capacity,
  subs <- Subscribed,
  ans <- IF ans = Quiet \/ ans[3] \notin Subscribed THEN Quiet ELSE ans,
  asleep <- {r \in Readers : waits[r] # 0 /\ ~OnItsWay(r)},
  cut <- CutOff

\* Every call of every runtime's buffer is a step of BufferContract: values in
\* order or a lag that counts them, SingleLatest replayed to a fresh reader
\* once, a mailbox value taken by one reader, the end only after what is left,
\* and no reader asleep after a push or a drop - unless, in a ring or latest
\* buffer of Tokio, a try_recv took the waker of its last Pending poll.  That
\* exception, and the value a fresh mailbox reader may find waiting, are less
\* than traits.rs promises (lines 198-200 and 64-65).
ContractKept == Contract!Spec

\* An overwriting push never leaves the mailbox empty behind it: the value it
\* takes out is replaced by its own or by that of a concurrent push.
NeverEmptied == TypeOK /\ (gap => \E p \in Producers : pc[p] = "resend")

\* The waker list of a Tokio mailbox holds entries of living readers only, so
\* subscribing, parking and dropping does not let it grow.
NoWakerLeft ==
  adapter = "tokio" /\ kind = "mailbox" =>
    \A w \in wakers : st[w[2]] # "none" /\ key[w[2]] = w[1]

Symmetry == Permutations(Readers) \cup Permutations(Producers)
============================================================================
