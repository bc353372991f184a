-------------------------- MODULE EmbassyBuffer ----------------------------
(***************************************************************************)
(* aimdb-embassy-adapter/src/buffer.rs: a PubSubChannel (ring), a Watch    *)
(* (latest) and a Channel of one (mailbox), each call one critical section *)
(* of the external library.  Registration slots are limited; the ring and  *)
(* the watch keep at most Slots wakers, the channel one; a waker that has  *)
(* to make room is woken.  An overwriting mailbox push is three calls.     *)
(***************************************************************************)
EXTENDS BufferState

(***************************************************************************)
(* The producer's side.                                                    *)
(***************************************************************************)
\* Channel::try_send.
Sent == pushed' = pushed + 1 /\ slot' = pushed + 1 /\ waits' = Woken(wakers)
        /\ wakers' = {} /\ gap' = FALSE

TrySend(p) ==
  /\ Begin(p)
  /\ \/ /\ slot = 0 /\ Sent /\ UNCHANGED pc
     \/ /\ slot # 0
        /\ pc' = [pc EXCEPT ![p] = "drain"]
        /\ UNCHANGED <<pushed, slot, waits, wakers, gap>>
  /\ UNCHANGED <<kind, closed, towake, readVars, nextKey>>

Push(p) ==
  \/ kind # "mailbox" /\ PublishAndWake(p)
  \/ kind = "mailbox" /\ TrySend(p)

\* Full: the old value is taken out, or a receiver was faster.
Drain(p) ==
  /\ pc[p] = "drain"
  /\ gap' = (gap \/ slot # 0)
  /\ slot' = 0
  /\ pc' = [pc EXCEPT ![p] = "resend"]
  /\ ans' = Quiet
  /\ UNCHANGED <<kind, pushed, closed, towake, begun, readVars, waits, wakers,
                 nextKey>>

NoResend(p) ==
  /\ pc[p] = "resend"
  /\ pc' = [pc EXCEPT ![p] = "idle"]
  /\ ans' = Quiet
  /\ UNCHANGED <<kind, pushed, slot, gap, closed, towake, begun, readVars, waits,
                 wakers, nextKey>>

\* A push that lost its place to another one drops its value.
Resend(p) ==
  /\ pc[p] = "resend"
  /\ \/ slot = 0 /\ Sent
     \/ slot # 0 /\ UNCHANGED <<pushed, slot, waits, wakers, gap>>
  /\ pc' = [pc EXCEPT ![p] = "idle"]
  /\ ans' = Quiet
  /\ UNCHANGED <<kind, closed, towake, begun, readVars, nextKey>>

(***************************************************************************)
(* The readers' side.                                                      *)
(***************************************************************************)
\* make_spmc_sub, make_watch_rx: a reader without a slot is deaf.
Subscribe(r) ==
  /\ st[r] = "none" /\ joined < MaxSubs
  /\ joined' = joined + 1
  /\ \/ /\ kind = "mailbox" \/ Cardinality({q \in Readers : st[q] = "live"}) < Slots
        /\ st' = [st EXCEPT ![r] = "live"]
        /\ pos' = [pos EXCEPT ![r] = IF kind = "latest" THEN 0 ELSE pushed]
     \/ /\ kind # "mailbox"
        /\ Cardinality({q \in Readers : st[q] = "live"}) >= Slots
        /\ st' = [st EXCEPT ![r] = "deaf"]
        /\ UNCHANGED pos
  /\ ans' = Quiet
  /\ UNCHANGED <<kind, pushVars, waits, key, wakers, nextKey>>

Recv(r) ==
  /\ \/ /\ kind = "ring" /\ RingRecv(r, OldestOf(Capacity)) /\ UNCHANGED slot
     \/ /\ kind = "latest" /\ LatestRecv(r) /\ UNCHANGED slot
     \/ /\ kind = "mailbox" /\ MailboxRecv(r) /\ UNCHANGED pos
  /\ waits' = [waits EXCEPT ![r] = 0]
  /\ UNCHANGED <<kind, pushed, closed, pc, towake, begun, gap, st, key, wakers,
                 nextKey, joined>>

NothingFor(r) == IF kind = "mailbox" THEN slot = 0 ELSE pos[r] = pushed

\* The wakers register(w) throws out.
Evicted(w) ==
  IF w \in wakers \/ Cardinality(wakers) < (IF kind = "mailbox" THEN 1 ELSE Slots)
  THEN {} ELSE wakers

Pending(r, id) ==
  LET w == <<0, r, id>> IN
  /\ NothingFor(r)
  /\ Nothing(r, "pending")
  /\ wakers' = (wakers \ Evicted(w)) \cup {w}
  /\ waits' = [Woken(Evicted(w)) EXCEPT ![r] = id]
  /\ UNCHANGED <<kind, pushVars, readVars, nextKey>>

Deaf(r) ==
  /\ st[r] = "deaf"
  /\ Nothing(r, "closed")
  /\ UNCHANGED <<kind, pushVars, readVars, waits, wakers, nextKey>>

PollRecv(r) ==
  \/ Deaf(r)
  \/ /\ st[r] = "live"
     /\ Recv(r) \/ \E id \in WakerIds : Pending(r, id)

TryEmpty(r) ==
  /\ NothingFor(r)
  /\ Nothing(r, "empty")
  /\ UNCHANGED <<kind, pushVars, readVars, waits, wakers, nextKey>>

TryRecv(r) ==
  \/ Deaf(r)
  \/ st[r] = "live" /\ (Recv(r) \/ TryEmpty(r))

\* The subscriber or receiver gives its slot back; its waker may stay.
DropReader(r) ==
  /\ st[r] # "none"
  /\ st' = [st EXCEPT ![r] = "none"]
  /\ pos' = [pos EXCEPT ![r] = 0]
  /\ waits' = [waits EXCEPT ![r] = 0]
  /\ ans' = Quiet
  /\ UNCHANGED <<kind, pushVars, key, joined, wakers, nextKey>>

Next ==
  \/ \E p \in Producers : Push(p) \/ Drain(p) \/ Resend(p)
  \/ \E r \in Readers :
       Subscribe(r) \/ PollRecv(r) \/ TryRecv(r) \/ DropReader(r)
============================================================================
