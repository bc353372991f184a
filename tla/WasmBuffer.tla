---------------------------- MODULE WasmBuffer -----------------------------
(***************************************************************************)
(* aimdb-wasm-adapter/src/buffer.rs: the browser's single thread runs one  *)
(* call at a time.  The ring is a deque with a write counter, the latest   *)
(* value a slot with a version; pushed is both counters.                   *)
(***************************************************************************)
EXTENDS BufferState

Push(p) ==
  \/ kind # "mailbox" /\ PublishAndWake(p)
  \/ /\ kind = "mailbox"
     /\ Begin(p)
     /\ pushed' = pushed + 1 /\ slot' = pushed + 1
     /\ waits' = Woken(wakers) /\ wakers' = {}
     /\ UNCHANGED <<kind, closed, readVars, nextKey, pc, towake, gap>>

Subscribe(r) ==
  /\ st[r] = "none" /\ joined < MaxSubs
  /\ joined' = joined + 1
  /\ st' = [st EXCEPT ![r] = "live"]
  /\ pos' = [pos EXCEPT ![r] = IF kind = "latest" THEN 0 ELSE pushed]
  /\ ans' = Quiet
  /\ UNCHANGED <<kind, pushVars, waits, key, wakers, nextKey>>

\* read_seq against write_seq and the length of the deque.
RingLen == Min({pushed, Capacity})

OldestSeqOffByOne == IF pushed > RingLen THEN pushed - RingLen - 1 ELSE 0

OldestSeq == pushed - RingLen

Recv(r) ==
  /\ \/ /\ kind = "ring" /\ RingRecv(r, OldestSeq) /\ UNCHANGED slot
     \/ /\ kind = "latest" /\ LatestRecv(r) /\ UNCHANGED slot
     \/ /\ kind = "mailbox" /\ MailboxRecv(r) /\ UNCHANGED pos
  /\ waits' = [waits EXCEPT ![r] = 0]
  /\ UNCHANGED <<kind, pushed, closed, pc, towake, begun, gap, st, key, wakers,
                 nextKey, joined>>

NothingFor(r) == IF kind = "mailbox" THEN slot = 0 ELSE pos[r] = pushed

Pending(r, id) ==
  /\ NothingFor(r)
  /\ Nothing(r, "pending")
  /\ wakers' = wakers \cup {<<0, r, id>>}
  /\ waits' = [waits EXCEPT ![r] = id]
  /\ UNCHANGED <<kind, pushVars, readVars, nextKey>>

PollRecv(r) ==
  /\ st[r] = "live"
  /\ Recv(r) \/ \E id \in WakerIds : Pending(r, id)

TryRecv(r) ==
  /\ st[r] = "live"
  /\ \/ Recv(r)
     \/ /\ NothingFor(r)
        /\ Nothing(r, "empty")
        /\ UNCHANGED <<kind, pushVars, readVars, waits, wakers, nextKey>>

\* Readers have no Drop: a waker stays until the next push.
DropReader(r) ==
  /\ st[r] # "none"
  /\ st' = [st EXCEPT ![r] = "none"]
  /\ pos' = [pos EXCEPT ![r] = 0]
  /\ waits' = [waits EXCEPT ![r] = 0]
  /\ ans' = Quiet
  /\ UNCHANGED <<kind, pushVars, key, joined, wakers, nextKey>>

Next ==
  \/ \E p \in Producers : Push(p)
  \/ \E r \in Readers :
       Subscribe(r) \/ PollRecv(r) \/ TryRecv(r) \/ DropReader(r)
============================================================================
