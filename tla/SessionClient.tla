--------------------------- MODULE SessionClient ---------------------------
(***************************************************************************)
(* The client half of a session, aimdb-core/src/session/client.rs: the     *)
(* ClientHandle that callers share, and the engine (client_loop and        *)
(* drive_connection) that owns the table of pending calls and the wire.    *)
(*                                                                         *)
(* Handles never block: the command queue evicts its oldest command when   *)
(* it is full.  A caller may abandon its call at any moment; the engine's  *)
(* entry for it is freed by a CancelCall command, or, when the queue has   *)
(* no room for one or evicts it, by a sweep that a one-slot signal asks    *)
(* for.  How much room a subscription's sink has, and what it holds, is    *)
(* the subject of Subscription; here a sink is only full or not.           *)
(***************************************************************************)
EXTENDS Integers, FiniteSets, Sequences

CONSTANTS
  Callers,       \* tasks that start with a ClientHandle
  None,          \* no answer yet, or no command in hand
  Dropped,       \* the answer of a caller whose reply sender was dropped
  QueueCap,      \* ClientConfig::max_offline_queue
  MaxId,         \* the ceiling of the id counter (usize::MAX in the code)
  Reconnect,     \* ClientConfig::reconnect
  MaxAttempts,   \* ClientConfig::max_reconnect_attempts, 0 for no limit
  AttemptTop,    \* attempts after which the backoff no longer grows
  SendsHello,    \* ClientConfig::sends_hello
  Keepalive,     \* ClientConfig::keepalive_interval is set
  WireCap,       \* bound: frames from the server waiting to be read
  MaxStray       \* bound: frames the server sends that answer no request

ASSUME ClientAssumption ==
  /\ None \notin Callers /\ Dropped \notin Callers /\ None # Dropped
  /\ QueueCap \in Nat \ {0}
  /\ MaxId \in Nat \ {0}
  /\ Reconnect \in BOOLEAN /\ SendsHello \in BOOLEAN
  /\ Keepalive \in BOOLEAN
  /\ MaxAttempts \in Nat /\ AttemptTop \in Nat \ {0}
  /\ MaxAttempts <= AttemptTop
  /\ WireCap \in Nat \ {0} /\ MaxStray \in Nat

VARIABLES
  caller,     \* caller[c]: what the task does, and the id it got last
  holds,      \* tasks that have not dropped their ClientHandle
  answer,     \* answer[c]: None, Dropped, or whose request the reply answers
  owes,       \* callers that are about to ask for a sweep
  nextId,     \* the shared id counter
  queue,      \* the command channel
  qclosed,    \* the command channel is closed
  prune,      \* the one-slot sweep signal
  epc,        \* where the engine is
  hand,       \* the command the engine took from the queue
  pending,    \* the engine's calls that await a reply
  subs,       \* the engine's subscription sinks
  wire,       \* frames on their way from the server
  requested,  \* requests the server holds on this connection
  attempt,    \* consecutive failed attempts
  why,        \* why the engine stopped (history)
  strays      \* frames so far that answered no request (bound)

handleVars == <<caller, holds, answer, owes, nextId>>
queueVars  == <<queue, qclosed>>
connVars   == <<pending, subs, wire, requested>>
dialVars   == <<attempt, why>>
vars == <<handleVars, queueVars, prune, epc, hand, connVars, dialVars, strays>>

Ids     == 1 .. MaxId
Entries == [id : Ids, owner : Callers]
Cmds    == [type : {"call", "cancel", "sub"}, id : Ids, owner : Callers]
           \union {[type |-> "write"]}
Frames  == [type : {"reply", "refusal", "event"}, id : Ids, owner : Callers]
           \union {[type |-> "eof"]}

Cmd(type, id, c) == [type |-> type, id |-> id, owner |-> c]
Entry(m) == [id |-> m.id, owner |-> m.owner]

Init ==
  /\ caller = [c \in Callers |-> [pc |-> "idle", id |-> 1]]
  /\ holds = Callers
  /\ answer = [c \in Callers |-> None]
  /\ owes = {}
  /\ nextId = 1
  /\ queue = <<>> /\ qclosed = FALSE
  /\ prune = FALSE
  /\ epc = "dial" /\ hand = None
  /\ pending = {} /\ subs = {} /\ wire = <<>> /\ requested = {}
  /\ attempt = 0 /\ why = "running"
  /\ strays = 0

\* The task still holds the receiving end for entry e.
Waits(e) ==
  /\ caller[e.owner].pc \in {"waiting", "streaming"}
  /\ caller[e.owner].id = e.id

\* The answers once the senders of the entries in E are gone: a receiver that
\* has nothing yet sees its channel close.
WithDropped(E) ==
  [c \in Callers |-> IF answer[c] = None /\ \E e \in E : e.owner = c /\ Waits(e)
                     THEN Dropped ELSE answer[c]]

\* The senders that go when a command is dropped unserved.
SendersOf(m) == IF m.type \in {"call", "sub"} THEN {Entry(m)} ELSE {}

-----------------------------------------------------------------------------
(* ClientHandle.                                                           *)

\* next_id: exhaustion is refused.
NextId == nextId < MaxId /\ nextId' = nextId + 1

\* Variant: evicting a cancellation goes unnoticed.
ForceSendSilently(c, m) ==
  IF Len(queue) < QueueCap
  THEN /\ queue' = Append(queue, m)
       /\ answer' = answer
       /\ owes' = owes
  ELSE /\ queue' = Append(Tail(queue), m)
       /\ answer' = WithDropped(SendersOf(Head(queue)))
       /\ owes' = owes

\* enqueue on an open channel: a full one evicts its oldest command; the
\* caller that evicted a cancellation goes on to ask for a sweep.
ForceSend(c, m) ==
  IF Len(queue) < QueueCap
  THEN /\ queue' = Append(queue, m)
       /\ answer' = answer
       /\ owes' = owes
  ELSE /\ queue' = Append(Tail(queue), m)
       /\ answer' = WithDropped(SendersOf(Head(queue)))
       /\ owes' = IF Head(queue).type = "cancel" THEN owes \union {c} ELSE owes

\* The task is free to use its handle.
Idle(c) == caller[c].pc = "idle" /\ c \in holds /\ c \notin owes

\* call and subscribe: take an id, then enqueue; a closed channel refuses.
Request(c, type, pc) ==
  /\ Idle(c)
  /\ NextId
  /\ IF qclosed
     THEN UNCHANGED <<caller, answer, owes, queue>>
     ELSE /\ caller' = [caller EXCEPT ![c] = [pc |-> pc, id |-> nextId]]
          /\ ForceSend(c, Cmd(type, nextId, c))
  /\ UNCHANGED <<holds, qclosed, prune, epc, hand, connVars, dialVars, strays>>

Call(c)      == Request(c, "call", "waiting")
Subscribe(c) == Request(c, "sub", "streaming")

\* write: fire and forget.
Write(c) ==
  /\ Idle(c) /\ ~qclosed
  /\ ForceSend(c, [type |-> "write"])
  /\ UNCHANGED <<caller, holds, nextId, qclosed, prune, epc, hand, connVars, dialVars,
                 strays>>

\* The reply, the stream's last item or the closed channel reaches the task.
Resolve(c) ==
  /\ caller[c].pc \in {"waiting", "streaming"} /\ answer[c] # None /\ c \notin owes
  /\ caller' = [caller EXCEPT ![c].pc = "idle"]
  /\ answer' = [answer EXCEPT ![c] = None]
  /\ UNCHANGED <<holds, owes, nextId, queueVars, prune, epc, hand, connVars, dialVars,
                 strays>>

\* The call's future is dropped: the receiver goes first, its guard second.
Abandon(c) ==
  /\ caller[c].pc = "waiting" /\ c \notin owes
  /\ caller' = [caller EXCEPT ![c].pc = "dropped"]
  /\ answer' = [answer EXCEPT ![c] = None]
  /\ UNCHANGED <<holds, owes, nextId, queueVars, prune, epc, hand, connVars, dialVars,
                 strays>>

\* CancelOnDrop::drop: queue the cancellation, or ask for a sweep.
CancelOnDrop(c) ==
  /\ caller[c].pc = "dropped" /\ c \notin owes
  /\ caller' = [caller EXCEPT ![c].pc = "idle"]
  /\ IF ~qclosed /\ Len(queue) < QueueCap
     THEN queue' = Append(queue, Cmd("cancel", caller[c].id, c)) /\ owes' = owes
     ELSE queue' = queue /\ owes' = owes \union {c}
  /\ UNCHANGED <<holds, answer, nextId, qclosed, prune, epc, hand, connVars, dialVars,
                 strays>>

\* request_prune.
RequestPrune(c) ==
  /\ c \in owes
  /\ owes' = owes \ {c}
  /\ prune' = TRUE
  /\ UNCHANGED <<caller, holds, answer, nextId, queueVars, epc, hand, connVars,
                 dialVars, strays>>

\* The subscriber drops its stream; the engine is not told.
DropStream(c) ==
  /\ caller[c].pc = "streaming" /\ c \notin owes
  /\ caller' = [caller EXCEPT ![c].pc = "idle"]
  /\ answer' = [answer EXCEPT ![c] = None]
  /\ UNCHANGED <<holds, owes, nextId, queueVars, prune, epc, hand, connVars, dialVars,
                 strays>>

\* The task drops its ClientHandle; a stream it has opened lives on.
DropHandle(c) ==
  /\ c \in holds /\ c \notin owes
  /\ caller[c].pc \in {"idle", "streaming"}
  /\ holds' = holds \ {c}
  /\ UNCHANGED <<caller, answer, owes, nextId, queueVars, prune, epc, hand, connVars,
                 dialVars, strays>>

HandlesDropped == holds = {}

-----------------------------------------------------------------------------
(* The engine: dialing.                                                    *)

\* Variant: the guard that drains the channel is missing.
StopUndrained(reason) == epc' = "stopped" /\ qclosed' = TRUE /\ why' = reason

\* The engine returns; DrainOnExit closes the command channel first.
Stop(reason) == epc' = "drain" /\ qclosed' = TRUE /\ why' = reason

\* reconnect_after.
ReconnectAfter ==
  IF ~Reconnect
  THEN Stop("disconnected") /\ UNCHANGED attempt
  ELSE /\ attempt' = IF attempt < AttemptTop THEN attempt + 1 ELSE attempt
       /\ IF MaxAttempts # 0 /\ attempt + 1 >= MaxAttempts
          THEN Stop("exhausted")
          ELSE epc' = "backoff" /\ UNCHANGED <<qclosed, why>>

Dial ==
  /\ epc = "dial"
  /\ attempt' = 0
  /\ epc' = IF SendsHello THEN "hello" ELSE "recv"
  /\ UNCHANGED <<handleVars, queueVars, prune, hand, connVars, why, strays>>

\* A transient failure is retried, TransportError::Closed ends the engine.
DialFails(closed) ==
  /\ epc = "dial"
  /\ IF closed THEN Stop("closed") /\ UNCHANGED attempt ELSE ReconnectAfter
  /\ UNCHANGED <<handleVars, queue, prune, hand, connVars, strays>>

\* The backoff has been slept.
Redial ==
  /\ epc = "backoff"
  /\ epc' = "dial"
  /\ UNCHANGED <<handleVars, queueVars, prune, hand, connVars, attempt, why,
                 strays>>

\* The connection ends: its tables go, and with them every sender they hold.
Disconnect ==
  /\ answer' = WithDropped(pending \union subs)
  /\ pending' = {} /\ subs' = {} /\ wire' = <<>> /\ requested' = {}
  /\ ReconnectAfter
  /\ hand' = None
  /\ UNCHANGED <<caller, holds, owes, nextId, queue, prune, strays>>

\* DrainOnExit::drop: drop the buffered commands one by one.
DrainOnExit ==
  /\ epc = "drain"
  /\ IF queue = <<>>
     THEN epc' = "stopped" /\ UNCHANGED <<answer, queue>>
     ELSE /\ answer' = WithDropped(SendersOf(Head(queue)))
          /\ queue' = Tail(queue)
          /\ epc' = epc
  /\ UNCHANGED <<caller, holds, owes, nextId, qclosed, prune, hand, connVars, dialVars,
                 strays>>

-----------------------------------------------------------------------------
(* The engine: one connection.  The select is biased: its arms are polled  *)
(* in the order recv, keepalive, prune, command, and whatever arrives at   *)
(* an arm already polled waits for the next round.                         *)

\* The Ping of the handshake is answered by a Pong.
HelloDone ==
  /\ epc = "hello"
  /\ epc' = "recv"
  /\ UNCHANGED <<handleVars, queueVars, prune, hand, connVars, dialVars, strays>>

HelloFails == epc = "hello" /\ Disconnect

\* Variant: a Reply resolves the call that has waited longest.
OnReplyInOrder(m) ==
  LET hit == {e \in pending : \A f \in pending : e.id <= f.id}
  IN  /\ pending' = pending \ hit
      /\ subs' = subs
      /\ answer' = [c \in Callers |->
                      IF answer[c] = None /\ \E e \in hit : e.owner = c /\ Waits(e)
                      THEN m.owner ELSE answer[c]]

\* A Reply resolves the pending call with its id; an error for an id that is
\* no call ends the subscription with that id.
OnReply(m) ==
  LET hit  == {e \in pending : e.id = m.id}
      gone == IF hit = {} /\ m.type = "refusal" THEN {e \in subs : e.id = m.id} ELSE {}
  IN  /\ pending' = pending \ hit
      /\ subs' = subs \ gone
      /\ answer' = [c \in Callers |->
                      IF answer[c] = None /\ \E e \in hit \union gone : e.owner = c /\ Waits(e)
                      THEN m.owner ELSE answer[c]]

\* deliver: an update for a sink whose receiver is gone prunes it, unless the
\* sink is full.
OnEvent(m, full) ==
  /\ subs' = IF full THEN subs ELSE {e \in subs : e.id # m.id \/ Waits(e)}
  /\ UNCHANGED <<pending, answer>>

Recv(full) ==
  /\ epc = "recv" /\ wire # <<>> /\ Head(wire).type # "eof"
  /\ wire' = Tail(wire)
  /\ IF Head(wire).type = "event" THEN OnEvent(Head(wire), full) ELSE OnReply(Head(wire))
  /\ UNCHANGED <<caller, holds, owes, nextId, queueVars, prune, epc, hand, requested,
                 dialVars, strays>>

RecvEof == epc = "recv" /\ wire # <<>> /\ Head(wire).type = "eof" /\ Disconnect

NothingToRecv ==
  /\ epc = "recv" /\ wire = <<>>
  /\ epc' = "prune"
  /\ UNCHANGED <<handleVars, queueVars, prune, hand, connVars, dialVars, strays>>

\* The idle timer fires and its Ping cannot be sent.
KeepaliveFails == Keepalive /\ epc = "recv" /\ wire = <<>> /\ Disconnect

\* Variant: the sweep signal is looked at only when no command waits.
PollPruneLast ==
  /\ epc = "prune"
  /\ IF prune /\ queue = <<>>
     THEN prune' = FALSE /\ epc' = "sweep"
     ELSE prune' = prune /\ epc' = "cmd"
  /\ UNCHANGED <<handleVars, queueVars, hand, connVars, dialVars, strays>>

PollPrune ==
  /\ epc = "prune"
  /\ IF prune THEN prune' = FALSE /\ epc' = "sweep"
              ELSE prune' = prune /\ epc' = "cmd"
  /\ UNCHANGED <<handleVars, queueVars, hand, connVars, dialVars, strays>>

\* sweep_abandoned.
Sweep ==
  /\ epc = "sweep"
  /\ pending' = {e \in pending : Waits(e)}
  /\ epc' = "recv"
  /\ UNCHANGED <<handleVars, queueVars, prune, hand, subs, wire, requested,
                 dialVars, strays>>

\* The command arm: a command, or nothing, or the end of all handles.
PollCmd ==
  /\ epc = "cmd"
  /\ \/ /\ queue # <<>>
        /\ hand' = Head(queue) /\ queue' = Tail(queue)
        /\ epc' = "exec"
        /\ UNCHANGED <<answer, qclosed, why, connVars>>
     \/ /\ queue = <<>> /\ ~HandlesDropped
        /\ epc' = "recv"
        /\ UNCHANGED <<answer, hand, queueVars, why, connVars>>
     \/ /\ queue = <<>> /\ HandlesDropped
        /\ Stop("unused")
        /\ answer' = WithDropped(pending \union subs)
        /\ pending' = {} /\ subs' = {} /\ wire' = <<>> /\ requested' = {}
        /\ UNCHANGED <<hand, queue>>
  /\ UNCHANGED <<caller, holds, owes, nextId, prune, attempt, strays>>

\* Serve the command up to its send.  A call whose caller is gone is skipped.
Exec ==
  /\ epc = "exec"
  /\ CASE hand.type = "call" /\ Waits(hand) ->
            /\ pending' = {e \in pending : e.id # hand.id} \union {Entry(hand)}
            /\ answer' = WithDropped({e \in pending : e.id = hand.id})
            /\ epc' = "send" /\ UNCHANGED <<subs, hand>>
       [] hand.type = "sub" ->
            /\ subs' = {e \in subs : e.id # hand.id} \union {Entry(hand)}
            /\ answer' = WithDropped({e \in subs : e.id = hand.id})
            /\ epc' = "send" /\ UNCHANGED <<pending, hand>>
       [] hand.type = "write" ->
            epc' = "send" /\ UNCHANGED <<pending, subs, answer, hand>>
       [] hand.type = "cancel" ->
            /\ pending' = {e \in pending : e.id # hand.id}
            /\ epc' = "recv" /\ hand' = None /\ UNCHANGED <<subs, answer>>
       [] OTHER ->
            epc' = "recv" /\ hand' = None /\ UNCHANGED <<pending, subs, answer>>
  /\ UNCHANGED <<caller, holds, owes, nextId, queueVars, prune, wire, requested,
                 dialVars, strays>>

Sent ==
  /\ epc = "send"
  /\ epc' = "recv" /\ hand' = None
  /\ requested' = requested \union (IF hand.type = "write" THEN {} ELSE {hand})
  /\ UNCHANGED <<handleVars, queueVars, prune, pending, subs, wire, dialVars,
                 strays>>

\* Encoding or sending the frame fails: the connection is given up.
SendFails == epc = "send" /\ Disconnect

-----------------------------------------------------------------------------
(* The server, as the engine sees it.                                      *)

Connected == epc \in {"recv", "prune", "sweep", "cmd", "exec", "send"}

Frame(type, r) == [type |-> type, id |-> r.id, owner |-> r.owner]

\* It answers a call once, or refuses a call or a subscription.
ServerReplies(r, type) ==
  /\ Connected /\ Len(wire) < WireCap
  /\ r.type = "call" \/ type = "refusal"
  /\ wire' = Append(wire, Frame(type, r))
  /\ requested' = requested \ {r}
  /\ UNCHANGED <<handleVars, queueVars, prune, epc, hand, pending, subs,
                 dialVars, strays>>

\* It sends an event, or a reply it has sent already.
ServerSends(r, type) ==
  /\ Connected /\ Len(wire) < WireCap /\ strays < MaxStray
  /\ r.type = "call" <=> type = "reply"
  /\ wire' = Append(wire, Frame(type, r))
  /\ strays' = strays + 1
  /\ UNCHANGED <<handleVars, queueVars, prune, epc, hand, pending, subs,
                 requested, dialVars>>

\* It closes the connection.
ServerCloses ==
  /\ Connected /\ Len(wire) < WireCap
  /\ \A i \in DOMAIN wire : wire[i].type # "eof"
  /\ wire' = Append(wire, [type |-> "eof"])
  /\ UNCHANGED <<handleVars, queueVars, prune, epc, hand, pending, subs,
                 requested, dialVars, strays>>

Finished ==
  /\ epc = "stopped" /\ HandlesDropped
  /\ UNCHANGED vars

-----------------------------------------------------------------------------
Guard(c) == CancelOnDrop(c) \/ RequestPrune(c) \/ Resolve(c)

Handle(c) ==
  \/ Call(c) \/ Subscribe(c) \/ Write(c) \/ Abandon(c) \/ DropStream(c)
  \/ DropHandle(c) \/ Guard(c)

Dialing ==
  \/ Dial \/ (\E closed \in BOOLEAN : DialFails(closed)) \/ Redial \/ DrainOnExit

Serving ==
  \/ (\E full \in BOOLEAN : Recv(full)) \/ RecvEof \/ NothingToRecv \/ PollPrune
  \/ Sweep \/ PollCmd \/ Exec \/ Sent \/ SendFails

Server ==
  \/ \E r \in requested : \/ \E type \in {"reply", "refusal"} : ServerReplies(r, type)
                          \/ \E type \in {"reply", "event"} : ServerSends(r, type)
  \/ ServerCloses

Next ==
  \/ \E c \in Callers : Handle(c)
  \/ Dialing \/ Serving \/ HelloDone \/ HelloFails \/ KeepaliveFails
  \/ Server \/ Finished

Spec == Init /\ [][Next]_vars

\* The runtime runs every task that can run: a dropped future runs its guards,
\* and the engine goes on wherever it is.  A send ends, one way or the other;
\* the server owes nothing.
Fairness ==
  /\ \A c \in Callers : WF_vars(Guard(c))
  /\ WF_vars(Dialing) /\ WF_vars(Serving)

FairSpec == Spec /\ Fairness

-----------------------------------------------------------------------------
\* Every variable has its type.
TypeOK ==
  /\ caller \in [Callers -> [pc : {"idle", "waiting", "streaming", "dropped"}, id : Ids]]
  /\ holds \subseteq Callers
  /\ answer \in [Callers -> Callers \union {None, Dropped}]
  /\ owes \subseteq Callers
  /\ nextId \in Ids
  /\ queue \in Seq(Cmds) /\ Len(queue) <= QueueCap
  /\ qclosed \in BOOLEAN /\ prune \in BOOLEAN
  /\ epc \in {"dial", "hello", "recv", "prune", "sweep", "cmd", "exec", "send",
              "backoff", "drain", "stopped"}
  /\ hand \in Cmds \union {None}
  /\ pending \subseteq Entries /\ subs \subseteq Entries
  /\ wire \in Seq(Frames)
  /\ requested \subseteq Cmds
  /\ attempt \in 0 .. AttemptTop
  /\ why \in {"running", "disconnected", "exhausted", "closed", "unused"}
  /\ strays \in 0 .. MaxStray

InQueue(m) == \E i \in DOMAIN queue : queue[i] = m

\* No entry of an abandoned call is forgotten (CancelOnDrop's promise): as long
\* as the pending table holds it, its cancellation is queued or in hand, or a
\* sweep has been asked for or is about to be.  (With the types, the queue's
\* bound among them.)
NoLeakedCall ==
  /\ TypeOK
  /\ \A e \in pending :
       \/ Waits(e)
       \/ InQueue(Cmd("cancel", e.id, e.owner)) \/ hand = Cmd("cancel", e.id, e.owner)
       \/ prune \/ epc = "sweep" \/ owes # {}
       \/ caller[e.owner] = [pc |-> "dropped", id |-> e.id]

\* No caller is left hanging: one that waits without an answer has its reply
\* sender in the queue, in the engine's hand or in its tables, so none waits
\* for an engine that has stopped.
NoCallerHangs ==
  \A c \in Callers :
    caller[c].pc \in {"waiting", "streaming"} /\ answer[c] = None =>
      LET e == [id |-> caller[c].id, owner |-> c]
      IN  \/ e \in pending \union subs
          \/ epc # "stopped" /\ \E i \in DOMAIN queue : SendersOf(queue[i]) = {e}
          \/ epc = "exec" /\ SendersOf(hand) = {e}

\* A caller never gets the reply to somebody else's request, whatever ids the
\* server echoes: next_id never hands out an id that is still in use.
OwnReply == \A c \in Callers : answer[c] \in {None, Dropped, c}

\* The entries of abandoned calls leave the table, whatever other callers do
\* and even if the server never answers (drive_connection).
AbandonedIsReclaimed ==
  (\E e \in pending : ~Waits(e)) ~> (\A e \in pending : Waits(e))
=============================================================================
