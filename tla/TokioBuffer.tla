--------------------------- MODULE TokioBuffer -----------------------------
(***************************************************************************)
(* aimdb-tokio-adapter/src/buffer.rs: a tokio broadcast channel (ring), a  *)
(* tokio watch channel (latest), and a mutex-guarded slot with a waker     *)
(* list (mailbox).                                                         *)
(*                                                                         *)
(* The channels are external.  Each keeps one waker per waiting reader,    *)
(* the one it was last polled with, so try_recv - which polls with a no-op *)
(* waker - takes the place of a waker registered by poll_recv.             *)
(* The mailbox wakes outside its lock: a push is the locked section, then  *)
(* one step per waker.  wake_scratch holds only spare capacity and is not  *)
(* modelled.                                                               *)
(***************************************************************************)
EXTENDS BufferState

\* broadcast::channel rounds its capacity up to a power of two.
RoundedUp == Min({2 ^ i : i \in 0 .. Capacity} \ (0 .. Capacity - 1))

(***************************************************************************)
(* The producer's side.                                                    *)
(***************************************************************************)
Deposit(p) ==
  /\ Begin(p)
  /\ pushed' = pushed + 1 /\ slot' = pushed + 1
  /\ towake' = [towake EXCEPT ![p] = wakers] /\ wakers' = {}
  /\ pc' = [pc EXCEPT ![p] = "wake"]
  /\ UNCHANGED <<kind, closed, readVars, waits, nextKey, gap>>

Push(p) ==
  \/ kind # "mailbox" /\ PublishAndWake(p)
  \/ kind = "mailbox" /\ Deposit(p)

WakeNext(p) ==
  /\ pc[p] = "wake"
  /\ \E w \in towake[p] :
       /\ waits' = Woken({w})
       /\ towake' = [towake EXCEPT ![p] = @ \ {w}]
  /\ ans' = Quiet
  /\ UNCHANGED <<kind, pushed, slot, closed, pc, begun, gap, readVars, wakers,
                 nextKey>>

\* Every waker woken: the emptied list goes back, the push returns.
Recycle(p) ==
  /\ pc[p] = "wake" /\ towake[p] = {}
  /\ pc' = [pc EXCEPT ![p] = "idle"]
  /\ ans' = Quiet
  /\ UNCHANGED <<kind, pushed, slot, closed, towake, begun, gap, readVars, waits,
                 wakers, nextKey>>

\* Drop for TokioBuffer: no push can be in progress.
DropBuffer(p) ==
  /\ ~closed /\ \A q \in Producers : pc[q] = "idle"
  /\ closed' = TRUE /\ wakers' = {}
  /\ \/ /\ kind = "mailbox"
        /\ towake' = [towake EXCEPT ![p] = wakers]
        /\ pc' = [pc EXCEPT ![p] = "wake"]
        /\ UNCHANGED waits
     \/ /\ kind # "mailbox"
        /\ waits' = Woken(wakers)
        /\ UNCHANGED <<pc, towake>>
  /\ ans' = Quiet
  /\ UNCHANGED <<kind, pushed, slot, begun, gap, readVars, nextKey>>

(***************************************************************************)
(* The readers' side.                                                      *)
(***************************************************************************)
\* mark_changed: a fresh watch reader has seen nothing.
Subscribe(r) ==
  /\ st[r] = "none" /\ ~closed /\ joined < MaxSubs
  /\ joined' = joined + 1
  /\ st' = [st EXCEPT ![r] = "live"]
  /\ pos' = [pos EXCEPT ![r] = IF kind = "latest" THEN 0 ELSE pushed]
  /\ ans' = Quiet
  /\ UNCHANGED <<kind, pushVars, waits, key, wakers, nextKey>>

\* The reader's node leaves the channel's list with its completed future
\* (poll_rearm); a mailbox entry stays.
Rearmed(r) ==
  IF kind = "mailbox" THEN wakers ELSE {w \in wakers : w[2] # r}

\* broadcast_recv, watch_recv, the mailbox slot: a value or the end.
Recv(r) ==
  /\ \/ /\ kind = "ring" /\ RingRecv(r, OldestOf(RoundedUp)) /\ UNCHANGED slot
     \/ /\ kind = "latest" /\ LatestRecv(r) /\ UNCHANGED slot
     \/ /\ kind = "mailbox" /\ MailboxRecv(r) /\ UNCHANGED pos
     \/ /\ closed /\ (IF kind = "mailbox" THEN slot = 0 ELSE pos[r] = pushed)
        /\ Nothing(r, "closed") /\ UNCHANGED <<pos, slot>>
  /\ wakers' = Rearmed(r)
  /\ waits' = [waits EXCEPT ![r] = 0]
  /\ UNCHANGED <<kind, pushed, closed, pc, towake, begun, gap, st, key,
                 nextKey, joined>>

NothingFor(r) ==
  ~closed /\ (IF kind = "mailbox" THEN slot = 0 ELSE pos[r] = pushed)

\* Mailbox: the reader's own entry is replaced, or a fresh one made when the
\* last push has drained it and its key finds nothing.
Upsert(r, id) ==
  IF \E w \in wakers : w[1] = key[r]
  THEN /\ wakers' = {w \in wakers : w[1] # key[r]} \cup {<<key[r], r, id>>}
       /\ UNCHANGED <<key, nextKey>>
  ELSE /\ wakers' = wakers \cup {<<nextKey, r, id>>}
       /\ key' = [key EXCEPT ![r] = nextKey]
       /\ nextKey' = nextKey + 1

Replace(r, id) ==
  /\ wakers' = {w \in wakers : w[2] # r} \cup {<<0, r, id>>}
  /\ UNCHANGED <<key, nextKey>>

Pending(r, id) ==
  /\ NothingFor(r)
  /\ Nothing(r, "pending")
  /\ IF kind = "mailbox" THEN Upsert(r, id) ELSE Replace(r, id)
  /\ waits' = [waits EXCEPT ![r] = id]
  /\ UNCHANGED <<kind, pushVars, st, pos, joined>>

\* A broadcast or watch reader whose task has spent its cooperative budget.
Yield(r) ==
  /\ kind # "mailbox"
  /\ Nothing(r, "pending")
  /\ waits' = [waits EXCEPT ![r] = 0]
  /\ UNCHANGED <<kind, pushVars, readVars, wakers, nextKey>>

PollRecv(r) ==
  /\ st[r] = "live"
  /\ \/ Recv(r) \/ Yield(r)
     \/ \E id \in WakerIds : Pending(r, id)

\* Broadcast and watch are polled with Waker::noop().
TryEmpty(r) ==
  /\ \/ /\ NothingFor(r)
        /\ IF kind = "mailbox" THEN UNCHANGED <<wakers, key, nextKey>>
           ELSE Replace(r, 0)
     \/ kind # "mailbox" /\ UNCHANGED <<wakers, key, nextKey>>
  /\ Nothing(r, "empty")
  /\ UNCHANGED <<kind, pushVars, st, waits, pos, joined>>

TryRecv(r) ==
  /\ st[r] = "live"
  /\ Recv(r) \/ TryEmpty(r)

DropReaderOnly(r) ==
  /\ st[r] # "none"
  /\ st' = [st EXCEPT ![r] = "none"]
  /\ wakers' = IF kind = "mailbox" THEN wakers ELSE {w \in wakers : w[2] # r}
  /\ key' = [key EXCEPT ![r] = 0]
  /\ pos' = [pos EXCEPT ![r] = 0]
  /\ waits' = [waits EXCEPT ![r] = 0]
  /\ ans' = Quiet
  /\ UNCHANGED <<kind, pushVars, joined, nextKey>>

\* Drop for TokioBufferReader: a mailbox reader removes its own entry.
DropReader(r) ==
  /\ st[r] # "none"
  /\ st' = [st EXCEPT ![r] = "none"]
  /\ wakers' = IF kind = "mailbox" THEN {w \in wakers : w[1] # key[r]}
               ELSE {w \in wakers : w[2] # r}
  /\ key' = [key EXCEPT ![r] = 0]
  /\ pos' = [pos EXCEPT ![r] = 0]
  /\ waits' = [waits EXCEPT ![r] = 0]
  /\ ans' = Quiet
  /\ UNCHANGED <<kind, pushVars, joined, nextKey>>

Next ==
  \/ \E p \in Producers : Push(p) \/ WakeNext(p) \/ Recycle(p) \/ DropBuffer(p)
  \/ \E r \in Readers :
       Subscribe(r) \/ PollRecv(r) \/ TryRecv(r) \/ DropReader(r)
============================================================================
