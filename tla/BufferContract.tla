-------------------------- MODULE BufferContract ---------------------------
(***************************************************************************)
(* What a record buffer promises its readers, whatever the runtime.        *)
(*                                                                         *)
(* The k-th value to take effect is the number k.  Three kinds of buffer:  *)
(*   "ring"     every reader sees every value in order, or is told how     *)
(*              many it missed once more than cap are waiting              *)
(*   "latest"   a reader sees the newest value, each at most once; a fresh *)
(*              reader sees the current one                                *)
(*   "mailbox"  one slot, overwritten by a push, emptied by whichever      *)
(*              reader comes first                                         *)
(* A reader may be put to sleep only while there is nothing for it, and a  *)
(* push or the end of the buffer leaves no reader asleep but those cut off.*)
(*                                                                         *)
(* This is what the adapters keep.  traits.rs promises more at two places: *)
(*   - a fresh mailbox reader "only sees values produced after it          *)
(*     subscribes" (line 65); here it may take the value that waits        *)
(*   - try_recv between Pending polls must not lose a wakeup (line 198);   *)
(*     here, when try_recv polls a ring or latest channel with a no-op     *)
(*     waker (noop), it cuts its reader off until the reader polls again   *)
(* Without noop no reader is ever cut off, and the second promise is kept. *)
(*                                                                         *)
(* Source: aimdb-core/src/buffer/traits.rs (Buffer, BufferReader and its   *)
(* contract), buffer/cfg.rs (BufferCfg).                                   *)
(***************************************************************************)
EXTENDS Integers

CONSTANT Readers

VARIABLES
  kind,    \* BufferCfg
  cap,     \* capacity of the ring
  noop,    \* try_recv is a poll with a no-op waker
  pushed,  \* values pushed
  slot,    \* the mailbox: a value, 0 when empty
  closed,  \* the buffer has been dropped
  subs,    \* readers there are
  pos,     \* pos[r]: last value r has been given or told of
  ans,     \* what the last step answered, and to whom
  asleep,  \* readers whose last poll was Pending and that were not woken since
  cut      \* those of them nothing can wake any more

fixed == <<kind, cap, noop>>
vars == <<fixed, pushed, slot, closed, subs, pos, ans, asleep, cut>>

\* The step was no reader's call.
Quiet == <<"quiet", 0>>

Kinds == {"ring", "latest", "mailbox"}

Oldest == IF pushed > cap THEN pushed - cap ELSE 0

\* There is something for r to receive.  Where a mailbox reader came in plays
\* no part.
Has(r) == IF kind = "mailbox" THEN slot # 0 ELSE pos[r] < pushed

Init ==
  /\ kind \in Kinds /\ cap \in Nat \ {0} /\ noop \in BOOLEAN
  /\ pushed = 0 /\ slot = 0 /\ closed = FALSE
  /\ subs = {} /\ asleep = {} /\ cut = {}
  /\ pos = [r \in Readers |-> 0]
  /\ ans = Quiet

\* Nobody stays asleep who can be woken.
WakeAll == asleep' \subseteq asleep \cap cut /\ cut' \subseteq cut

\* Buffer::push.
Push ==
  /\ ~closed
  /\ pushed' = pushed + 1
  /\ slot' = IF kind = "mailbox" THEN pushed + 1 ELSE 0
  /\ WakeAll /\ ans' = Quiet
  /\ UNCHANGED <<fixed, closed, subs, pos>>

\* The first half of an overwriting push.
Discard ==
  /\ kind = "mailbox" /\ slot # 0
  /\ slot' = 0 /\ ans' = Quiet
  /\ UNCHANGED <<fixed, pushed, closed, subs, pos, asleep, cut>>

\* Buffer::subscribe: SingleLatest replays the current value, a ring does not.
Subscribe(r) ==
  /\ r \notin subs
  /\ subs' = subs \cup {r}
  /\ pos' = [pos EXCEPT ![r] = IF kind = "latest" THEN 0 ELSE pushed]
  /\ ans' = Quiet
  /\ UNCHANGED <<fixed, pushed, slot, closed, asleep, cut>>

Unsubscribe(r) ==
  /\ r \in subs
  /\ subs' = subs \ {r} /\ asleep' = asleep \ {r} /\ cut' \subseteq cut \ {r}
  /\ pos' = [pos EXCEPT ![r] = 0]
  /\ ans' = Quiet
  /\ UNCHANGED <<fixed, pushed, slot, closed>>

\* Readers other than r may be woken for nothing.
Answer(r, e, n) ==
  /\ ans' = <<e, n, r>>
  /\ asleep' \subseteq asleep \ {r} /\ cut' \subseteq cut \ {r}

Receive(r) ==
  /\ r \in subs /\ Has(r)
  /\ \/ /\ kind = "ring" /\ pos[r] >= Oldest
        /\ Answer(r, "ok", pos[r] + 1)
        /\ pos' = [pos EXCEPT ![r] = @ + 1]
        /\ UNCHANGED slot
     \/ /\ kind = "latest"
        /\ Answer(r, "ok", pushed)
        /\ pos' = [pos EXCEPT ![r] = pushed]
        /\ UNCHANGED slot
     \/ /\ kind = "mailbox"
        /\ Answer(r, "ok", slot)
        /\ slot' = 0
        /\ UNCHANGED pos
  /\ UNCHANGED <<fixed, pushed, closed, subs>>

Lag(r) ==
  /\ r \in subs /\ kind = "ring" /\ pos[r] < Oldest
  /\ Answer(r, "lag", Oldest - pos[r])
  /\ pos' = [pos EXCEPT ![r] = Oldest]
  /\ UNCHANGED <<fixed, pushed, slot, closed, subs>>

\* What is left is delivered before the end is reported.
End(r) ==
  /\ r \in subs /\ closed /\ ~Has(r)
  /\ Answer(r, "closed", 0)
  /\ UNCHANGED <<fixed, pushed, slot, closed, subs, pos>>

\* try_recv: nothing there.  A ring or latest reader may be told so when the
\* task's cooperative budget is spent; it stays awake.  If it was asleep, the
\* no-op waker has taken the place of its own.
Empty(r) ==
  /\ r \in subs /\ (kind # "mailbox" \/ (~Has(r) /\ ~closed))
  /\ ans' = <<"empty", 0, r>>
  /\ asleep' \subseteq asleep
  /\ cut' \subseteq IF noop /\ kind # "mailbox" THEN cut \cup {r} ELSE cut
  /\ UNCHANGED <<fixed, pushed, slot, closed, subs, pos>>

\* poll_recv: Pending with the latest waker registered.
Sleep(r) ==
  /\ r \in subs /\ ~Has(r) /\ ~closed
  /\ ans' = <<"pending", 0, r>>
  /\ asleep' \subseteq asleep \cup {r} /\ cut' \subseteq cut \ {r}
  /\ UNCHANGED <<fixed, pushed, slot, closed, subs, pos>>

\* poll_recv: Pending for want of budget, the task woken at once.
Yield(r) ==
  /\ r \in subs /\ kind # "mailbox"
  /\ Answer(r, "pending", 0)
  /\ UNCHANGED <<fixed, pushed, slot, closed, subs, pos>>

Close ==
  /\ ~closed /\ closed' = TRUE /\ WakeAll /\ ans' = Quiet
  /\ UNCHANGED <<fixed, pushed, slot, subs, pos>>

\* A step of a push that shows nothing, or wakes a reader for nothing.
Quietly ==
  /\ ans' = Quiet /\ asleep' \subseteq asleep /\ cut' \subseteq cut
  /\ UNCHANGED <<fixed, pushed, slot, closed, subs, pos>>

Next ==
  \/ Push \/ Discard \/ Close \/ Quietly
  \/ \E r \in Readers :
       \/ Subscribe(r) \/ Unsubscribe(r) \/ Receive(r) \/ Lag(r)
       \/ End(r) \/ Empty(r) \/ Sleep(r) \/ Yield(r)

Spec == Init /\ [][Next]_vars
============================================================================
