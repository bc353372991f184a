------------------------ MODULE SessionClientProofs ------------------------
(***************************************************************************)
(* For any number of callers and any queue, id space and configuration:    *)
(* SessionClient is type correct, leaks no abandoned call, leaves no       *)
(* caller hanging and gives each caller its own reply.                     *)
(***************************************************************************)
EXTENDS SessionClient, TLAPS

IsSender(m) == m.type \in {"call", "sub"}
InHand(m) == epc \in {"exec", "send"} /\ hand = m

\* What is known of an id: somewhere it names a call of its owner, a
\* subscription of its owner, or a request on its way to or from the server.
IsCall(e) ==
  \/ e \in pending
  \/ \E type \in {"call", "cancel"} :
       InQueue(Cmd(type, e.id, e.owner)) \/ InHand(Cmd(type, e.id, e.owner))
  \/ caller[e.owner].pc \in {"waiting", "dropped"} /\ caller[e.owner].id = e.id

IsSub(e) ==
  \/ e \in subs
  \/ InQueue(Cmd("sub", e.id, e.owner)) \/ InHand(Cmd("sub", e.id, e.owner))
  \/ caller[e.owner].pc = "streaming" /\ caller[e.owner].id = e.id

IsRequest(e) ==
  \/ \E type \in {"call", "sub"} : Cmd(type, e.id, e.owner) \in requested
  \/ \E i \in DOMAIN wire : /\ wire[i].type # "eof"
                            /\ wire[i].id = e.id /\ wire[i].owner = e.owner

Known(e) == IsCall(e) \/ IsSub(e) \/ IsRequest(e)

\* The cancellation of e is on its way.
Cancelling(e) ==
  LET m == Cmd("cancel", e.id, e.owner) IN InQueue(m) \/ InHand(m)

\* next_id's promise: an id in use is below the counter, it is one request of
\* one owner, that request is either a call or a subscription, and nobody
\* waits for it any more once its cancellation is on its way.
IdsOwned ==
  /\ \A e \in Entries : Known(e) => e.id < nextId
  /\ \A e, f \in Entries : Known(e) /\ Known(f) /\ e.id = f.id => e.owner = f.owner
  /\ \A e \in Entries : ~(IsCall(e) /\ IsSub(e))
  /\ \A e \in Entries : ~(Cancelling(e) /\ Waits(e))

\* Where the engine is, and what that says of its tables and its channel.
Shape ==
  /\ epc \in {"exec", "send"} => hand \in Cmds
  /\ epc = "send" => hand.type # "cancel"
  /\ qclosed <=> epc \in {"drain", "stopped"}
  /\ epc = "stopped" => queue = <<>>
  /\ ~Connected => pending = {} /\ subs = {} /\ wire = <<>> /\ requested = {}
  /\ \A r \in requested : IsSender(r)
  /\ \A c \in Callers : caller[c].pc \notin {"waiting", "streaming"} => answer[c] = None

\* Where the sender of an entry is: queued, in hand, or in a table.
Queued(e) == \E type \in {"call", "sub"} : InQueue(Cmd(type, e.id, e.owner))
Held(e) == epc = "exec" /\ \E type \in {"call", "sub"} : hand = Cmd(type, e.id, e.owner)
Tabled(e) == e \in pending \union subs
HasSender(e) == Queued(e) \/ Held(e) \/ Tabled(e)

\* No request is queued twice.
Once(q) ==
  \A i, j \in DOMAIN q :
    IsSender(q[i]) /\ IsSender(q[j]) /\ q[i].id = q[j].id => i = j

\* A request has one sender.
SenderOnce ==
  /\ Once(queue)
  /\ \A e \in Entries : /\ ~(Queued(e) /\ Held(e))
                        /\ ~(Queued(e) /\ Tabled(e))
                        /\ ~(Held(e) /\ Tabled(e))

\* Whoever waits has either its answer or its sender, never both.
AnswerOrSender ==
  \A e \in Entries : Waits(e) => (answer[e.owner] = None <=> HasSender(e))

\* An entry nobody waits for is about to be freed.
Freed(e) ==
  \/ Waits(e)
  \/ InQueue(Cmd("cancel", e.id, e.owner))
  \/ epc = "exec" /\ hand = Cmd("cancel", e.id, e.owner)
  \/ prune \/ epc = "sweep" \/ owes # {}
  \/ caller[e.owner].pc = "dropped" /\ caller[e.owner].id = e.id

AllFreed == \A e \in pending : Freed(e)

IInv ==
  /\ TypeOK /\ Shape /\ IdsOwned /\ SenderOnce /\ AnswerOrSender /\ AllFreed
  /\ OwnReply

-----------------------------------------------------------------------------
(* Commands and the queue.                                                 *)

\* A command is a write, or it is made of its parts.
LEMMA CmdParts ==
  /\ \A m \in Cmds : \/ m.type = "write" /\ m = [type |-> "write"]
                     \/ /\ m.type \in {"call", "cancel", "sub"}
                        /\ m.id \in Ids /\ m.owner \in Callers
                        /\ m = Cmd(m.type, m.id, m.owner)
  /\ [type |-> "write"] \in Cmds
  /\ \A t \in {"call", "cancel", "sub"}, i \in Ids, c \in Callers :
       /\ Cmd(t, i, c) \in Cmds
       /\ Cmd(t, i, c).type = t /\ Cmd(t, i, c).id = i /\ Cmd(t, i, c).owner = c
  BY DEF Cmds, Cmd

\* Entries are made of an id and an owner.
LEMMA EntryParts ==
  /\ \A e \in Entries : e.id \in Ids /\ e.owner \in Callers /\ e = [id |-> e.id, owner |-> e.owner]
  /\ \A i \in Ids, c \in Callers :
       LET e == [id |-> i, owner |-> c] IN e \in Entries /\ e.id = i /\ e.owner = c
  /\ \A m : Entry(m) = [id |-> m.id, owner |-> m.owner]
  BY DEF Entries, Entry

\* What enqueue does to the queue's contents when there is room.
LEMMA PushFacts ==
  ASSUME queue \in Seq(Cmds), NEW m \in Cmds, queue' = Append(queue, m)
  PROVE  /\ queue' \in Seq(Cmds) /\ Len(queue') = Len(queue) + 1
         /\ \A x : InQueue(x)' <=> InQueue(x) \/ x = m
         /\ Once(queue) /\ (IsSender(m) => \A x \in Cmds : InQueue(x) /\ IsSender(x) => x.id # m.id)
              => Once(queue')
<1>1. queue' \in Seq(Cmds) /\ Len(queue') = Len(queue) + 1
  OBVIOUS
<1>2. /\ DOMAIN queue' = DOMAIN queue \union {Len(queue) + 1}
      /\ \A i \in DOMAIN queue : queue'[i] = queue[i] /\ queue[i] \in Cmds
      /\ queue'[Len(queue) + 1] = m
  OBVIOUS
<1>3. ASSUME NEW x PROVE InQueue(x)' <=> InQueue(x) \/ x = m
  BY <1>2 DEF InQueue
<1>4. ASSUME Once(queue), IsSender(m) => \A x \in Cmds : InQueue(x) /\ IsSender(x) => x.id # m.id
      PROVE  Once(queue')
  BY <1>2, <1>4 DEF Once, InQueue
<1> QED BY <1>1, <1>3, <1>4

\* What taking the oldest command does.
LEMMA PopFacts ==
  ASSUME queue \in Seq(Cmds), queue # <<>>, queue' = Tail(queue)
  PROVE  /\ queue' \in Seq(Cmds) /\ Len(queue') = Len(queue) - 1
         /\ Head(queue) \in Cmds
         /\ \A x : InQueue(x) <=> InQueue(x)' \/ x = Head(queue)
         /\ Once(queue) =>
              /\ Once(queue')
              /\ IsSender(Head(queue)) =>
                   \A x \in Cmds : InQueue(x)' /\ IsSender(x) => x.id # Head(queue).id
<1>1. queue' \in Seq(Cmds) /\ Len(queue') = Len(queue) - 1 /\ Len(queue) \in Nat \ {0}
  OBVIOUS
<1>2. /\ DOMAIN queue = 1 .. Len(queue) /\ DOMAIN queue' = 1 .. Len(queue) - 1
      /\ \A i \in 1 .. Len(queue) - 1 : queue'[i] = queue[i + 1]
      /\ Head(queue) = queue[1] /\ queue[1] \in Cmds
  BY <1>1
<1>3. ASSUME NEW x PROVE InQueue(x) <=> InQueue(x)' \/ x = Head(queue)
  <2>1. ASSUME InQueue(x), x # Head(queue) PROVE InQueue(x)'
    <3>1. PICK i \in DOMAIN queue : queue[i] = x
      BY <2>1 DEF InQueue
    <3>2. i - 1 \in DOMAIN queue' /\ queue'[i - 1] = x
      BY <1>1, <1>2, <2>1, <3>1
    <3> QED BY <3>2 DEF InQueue
  <2>2. ASSUME InQueue(x)' PROVE InQueue(x)
    <3>1. PICK i \in DOMAIN queue' : queue'[i] = x
      BY <2>2 DEF InQueue
    <3>2. i + 1 \in DOMAIN queue /\ queue[i + 1] = x
      BY <1>1, <1>2, <3>1
    <3> QED BY <3>2 DEF InQueue
  <2>3. x = Head(queue) => InQueue(x)
    BY <1>1, <1>2 DEF InQueue
  <2> QED BY <2>1, <2>2, <2>3
<1>4. ASSUME Once(queue) PROVE Once(queue')
  <2> SUFFICES ASSUME NEW i \in DOMAIN queue', NEW j \in DOMAIN queue',
                      IsSender(queue'[i]), IsSender(queue'[j]), queue'[i].id = queue'[j].id
               PROVE  i = j
    BY DEF Once
  <2>1. /\ i + 1 \in DOMAIN queue /\ j + 1 \in DOMAIN queue
        /\ queue'[i] = queue[i + 1] /\ queue'[j] = queue[j + 1]
        /\ i \in Int /\ j \in Int
    BY <1>1, <1>2
  <2>2. i + 1 = j + 1
    BY <2>1, <1>4 DEF Once
  <2> QED BY <2>1, <2>2
<1>5. ASSUME Once(queue), IsSender(Head(queue)), NEW x \in Cmds, InQueue(x)', IsSender(x)
      PROVE  x.id # Head(queue).id
  <2>1. PICK i \in DOMAIN queue' : queue'[i] = x
    BY <1>5 DEF InQueue
  <2>2. i + 1 \in DOMAIN queue /\ 1 \in DOMAIN queue /\ queue[i + 1] = x /\ i + 1 # 1
    BY <1>1, <1>2, <2>1
  <2> QED BY <1>2, <1>5, <2>2 DEF Once
<1> QED BY <1>1, <1>2, <1>3, <1>4, <1>5

\* What enqueue does when the queue is full: the oldest command makes room.
LEMMA ShiftFacts ==
  ASSUME queue \in Seq(Cmds), queue # <<>>, NEW m \in Cmds, queue' = Append(Tail(queue), m)
  PROVE  /\ queue' \in Seq(Cmds) /\ Len(queue') = Len(queue)
         /\ Head(queue) \in Cmds
         /\ \A x : InQueue(x) => InQueue(x)' \/ x = Head(queue)
         /\ \A x : InQueue(x)' => InQueue(x) \/ x = m
         /\ InQueue(Head(queue)) /\ InQueue(m)'
         /\ Once(queue) /\ (IsSender(m) => \A x \in Cmds : InQueue(x) /\ IsSender(x) => x.id # m.id)
              => /\ Once(queue')
                 /\ IsSender(Head(queue)) =>
                      \A x \in Cmds : InQueue(x)' /\ IsSender(x) => x.id # Head(queue).id
<1>1. queue' \in Seq(Cmds) /\ Len(queue') = Len(queue) /\ Len(queue) \in Nat \ {0}
  OBVIOUS
<1>2. /\ DOMAIN queue = 1 .. Len(queue) /\ DOMAIN queue' = 1 .. Len(queue)
      /\ \A i \in 1 .. Len(queue) - 1 : queue'[i] = queue[i + 1]
      /\ queue'[Len(queue)] = m
      /\ \A i \in 1 .. Len(queue) : queue[i] \in Cmds
      /\ Head(queue) = queue[1]
  BY <1>1
<1>3. ASSUME NEW x, InQueue(x), x # Head(queue) PROVE InQueue(x)'
  <2>1. PICK i \in DOMAIN queue : queue[i] = x
    BY <1>3 DEF InQueue
  <2>2. i - 1 \in DOMAIN queue' /\ queue'[i - 1] = x
    BY <1>1, <1>2, <1>3, <2>1
  <2> QED BY <2>2 DEF InQueue
<1>4. ASSUME NEW x, InQueue(x)', x # m PROVE InQueue(x)
  <2>1. PICK i \in DOMAIN queue' : queue'[i] = x
    BY <1>4 DEF InQueue
  <2>2. i + 1 \in DOMAIN queue /\ queue[i + 1] = x
    BY <1>1, <1>2, <1>4, <2>1
  <2> QED BY <2>2 DEF InQueue
<1>5. InQueue(Head(queue)) /\ InQueue(m)' /\ Head(queue) \in Cmds
  BY <1>1, <1>2 DEF InQueue
<1>6. ASSUME Once(queue), IsSender(m) => \A x \in Cmds : InQueue(x) /\ IsSender(x) => x.id # m.id
      PROVE  /\ Once(queue')
             /\ IsSender(Head(queue)) =>
                  \A x \in Cmds : InQueue(x)' /\ IsSender(x) => x.id # Head(queue).id
  <2>1. \A i \in 1 .. Len(queue) : IsSender(queue[i]) /\ IsSender(m) => queue[i].id # m.id
    BY <1>2, <1>6 DEF InQueue
  <2>2. ASSUME NEW i \in DOMAIN queue', NEW j \in DOMAIN queue',
               IsSender(queue'[i]), IsSender(queue'[j]), queue'[i].id = queue'[j].id
        PROVE  i = j
    <3>1. CASE i < Len(queue) /\ j < Len(queue)
      <4>1. /\ i + 1 \in DOMAIN queue /\ j + 1 \in DOMAIN queue
            /\ queue'[i] = queue[i + 1] /\ queue'[j] = queue[j + 1]
        BY <1>1, <1>2, <3>1
      <4>2. i + 1 = j + 1
        BY <4>1, <1>6, <2>2 DEF Once
      <4> QED BY <4>2, <1>1, <1>2
    <3>2. CASE i = Len(queue) /\ j < Len(queue)
      <4>1. j + 1 \in 1 .. Len(queue) /\ queue'[j] = queue[j + 1] /\ queue'[i] = m
        BY <1>1, <1>2, <3>2
      <4> QED BY <4>1, <2>1, <2>2
    <3>3. CASE i < Len(queue) /\ j = Len(queue)
      <4>1. i + 1 \in 1 .. Len(queue) /\ queue'[i] = queue[i + 1] /\ queue'[j] = m
        BY <1>1, <1>2, <3>3
      <4> QED BY <4>1, <2>1, <2>2
    <3> QED BY <1>1, <1>2, <3>1, <3>2, <3>3
  <2>3. ASSUME IsSender(Head(queue)), NEW x \in Cmds, InQueue(x)', IsSender(x)
        PROVE  x.id # Head(queue).id
    <3>1. PICK i \in DOMAIN queue' : queue'[i] = x
      BY <2>3 DEF InQueue
    <3>2. CASE i < Len(queue)
      <4>1. i + 1 \in DOMAIN queue /\ 1 \in DOMAIN queue /\ queue[i + 1] = x /\ i + 1 # 1
        BY <1>1, <1>2, <3>1, <3>2
      <4> QED BY <1>2, <1>6, <2>3, <4>1 DEF Once
    <3>3. CASE i = Len(queue)
      BY <1>1, <1>2, <2>1, <2>3, <3>1, <3>3
    <3> QED BY <1>1, <1>2, <3>2, <3>3
  <2> QED BY <2>2, <2>3 DEF Once
<1> QED BY <1>1, <1>3, <1>4, <1>5, <1>6

-----------------------------------------------------------------------------
(* The steps.                                                              *)

\* A step that issues no id and makes no request known that was not known
\* before keeps the ids apart.
LEMMA IdsKept ==
  ASSUME IdsOwned, nextId' = nextId,
         \A e \in Entries : /\ IsCall(e)' => IsCall(e)
                            /\ IsSub(e)' => IsSub(e)
                            /\ IsRequest(e)' => Known(e)
                            /\ Cancelling(e)' /\ Waits(e)' => Cancelling(e) /\ Waits(e)
  PROVE  IdsOwned'
  BY DEF IdsOwned, Known

\* The initial state.
LEMMA InitIInv == Init => IInv
<1> SUFFICES ASSUME Init PROVE IInv
  OBVIOUS
<1> USE ClientAssumption DEF Init
<1>1. TypeOK
  <2>1. 1 \in Ids
    BY DEF Ids
  <2>2. caller \in [Callers -> [pc : {"idle", "waiting", "streaming", "dropped"}, id : Ids]]
    BY <2>1
  <2>3. queue \in Seq(Cmds) /\ Len(queue) <= QueueCap /\ wire \in Seq(Frames)
    OBVIOUS
  <2>4. answer \in [Callers -> Callers \union {None, Dropped}]
    OBVIOUS
  <2>5. attempt \in 0 .. AttemptTop /\ strays \in 0 .. MaxStray
    OBVIOUS
  <2> QED BY <2>1, <2>2, <2>3, <2>4, <2>5 DEF TypeOK
<1>2. Shape
  BY DEF Shape, Connected
<1>3. \A x : ~InQueue(x)
  BY DEF InQueue
<1>4. IdsOwned
  BY <1>3, EntryParts DEF IdsOwned, Known, IsCall, IsSub, IsRequest, InHand, Cancelling
<1>5. SenderOnce
  BY <1>3 DEF SenderOnce, Once, Queued, Held, Tabled
<1>6. AnswerOrSender /\ AllFreed /\ OwnReply
  BY EntryParts DEF AnswerOrSender, Waits, AllFreed, OwnReply
<1> QED BY <1>1, <1>2, <1>4, <1>5, <1>6 DEF IInv

\* What force_send of m does: m is queued; the commands in lost are not any
\* more, and their senders are gone.
Enqueued(m, lost) ==
  /\ queue' \in Seq(Cmds) /\ Len(queue') <= QueueCap /\ Once(queue')
  /\ InQueue(m)' /\ \A x : InQueue(x)' => InQueue(x) \/ x = m
  /\ \A x : InQueue(x) => InQueue(x)' \/ x \in lost
  /\ \A x \in lost : InQueue(x) /\ (x.type = "cancel" => owes' # {})
  /\ \A x \in lost, y \in Cmds : IsSender(x) /\ IsSender(y) /\ InQueue(y)' => y.id # x.id
  /\ owes \subseteq owes' /\ owes' \subseteq Callers
  /\ answer' = [d \in Callers |->
                 IF answer[d] = None /\ \E x \in lost : IsSender(x) /\ x.owner = d /\ Waits(Entry(x))
                 THEN Dropped ELSE answer[d]]

\* force_send loses at most the oldest command.
LEMMA ForceSendFacts ==
  ASSUME TypeOK, Once(queue), NEW c \in Callers, NEW m \in Cmds, ForceSend(c, m),
         IsSender(m) => \A x \in Cmds : InQueue(x) /\ IsSender(x) => x.id # m.id
  PROVE  \E lost \in SUBSET Cmds : Enqueued(m, lost)
<1> USE ClientAssumption
<1>1. /\ queue \in Seq(Cmds) /\ Len(queue) <= QueueCap /\ owes \subseteq Callers
      /\ answer = [d \in Callers |-> answer[d]]
  BY DEF TypeOK
<1>2. CASE Len(queue) < QueueCap
  <2>1. queue' = Append(queue, m) /\ answer' = answer /\ owes' = owes
    BY <1>2 DEF ForceSend
  <2>2. /\ queue' \in Seq(Cmds) /\ Len(queue') <= QueueCap /\ Once(queue')
        /\ \A x : InQueue(x)' <=> InQueue(x) \/ x = m
    BY <1>1, <1>2, <2>1, PushFacts
  <2> WITNESS {} \in SUBSET Cmds
  <2> QED BY <1>1, <2>1, <2>2 DEF Enqueued
<1>3. CASE ~(Len(queue) < QueueCap)
  <2>1. /\ queue' = Append(Tail(queue), m) /\ answer' = WithDropped(SendersOf(Head(queue)))
        /\ owes' = IF Head(queue).type = "cancel" THEN owes \union {c} ELSE owes
    BY <1>3 DEF ForceSend
  <2>2. queue # <<>>
    BY <1>1, <1>3
  <2>3. /\ queue' \in Seq(Cmds) /\ Len(queue') <= QueueCap /\ Once(queue')
        /\ Head(queue) \in Cmds /\ InQueue(Head(queue)) /\ InQueue(m)'
        /\ \A x : InQueue(x)' => InQueue(x) \/ x = m
        /\ \A x : InQueue(x) => InQueue(x)' \/ x = Head(queue)
        /\ IsSender(Head(queue)) => \A x \in Cmds : InQueue(x)' /\ IsSender(x) => x.id # Head(queue).id
    BY <1>1, <2>1, <2>2, ShiftFacts
  <2>4. \A d \in Callers :
          (\E e \in SendersOf(Head(queue)) : e.owner = d /\ Waits(e))
            <=> \E x \in {Head(queue)} : IsSender(x) /\ x.owner = d /\ Waits(Entry(x))
    BY DEF SendersOf, IsSender, Entry
  <2>5. answer' = [d \in Callers |->
                     IF answer[d] = None /\ \E x \in {Head(queue)} : IsSender(x) /\ x.owner = d /\ Waits(Entry(x))
                     THEN Dropped ELSE answer[d]]
    BY <2>1, <2>4 DEF WithDropped
  <2>6. {Head(queue)} \in SUBSET Cmds
    BY <2>3
  <2> WITNESS {Head(queue)} \in SUBSET Cmds
  <2> QED BY <1>1, <2>1, <2>3, <2>5 DEF Enqueued
<1> QED BY <1>2, <1>3

\* An enqueue keeps the senders unique, closes the channel of exactly the
\* caller whose command it evicts, and forgets no cancellation.
LEMMA EnqueueEffect ==
  ASSUME TypeOK, SenderOnce, AnswerOrSender, AllFreed, NEW m \in Cmds, NEW lost \in SUBSET Cmds,
         Enqueued(m, lost), UNCHANGED <<prune, epc, hand, pending, subs>>,
         IsSender(m) => Entry(m) \in Entries /\ ~Known(Entry(m)) /\ answer'[m.owner] = None,
         \A e \in Entries : ~(IsSender(m) /\ e = Entry(m)) => (Waits(e)' <=> Waits(e)),
         \A e \in Entries : caller[e.owner].pc = "dropped" => caller'[e.owner] = caller[e.owner]
  PROVE  SenderOnce' /\ AnswerOrSender' /\ AllFreed'
<1>1. \A e \in Entries : /\ Held(e)' <=> Held(e)
                         /\ Tabled(e)' <=> Tabled(e)
  BY DEF Held, Tabled
<1>2. ASSUME NEW e \in Entries
      PROVE  /\ Queued(e)' => Queued(e) \/ (IsSender(m) /\ e = Entry(m))
             /\ Queued(e) => Queued(e)' \/ \E x \in lost : IsSender(x) /\ Entry(x) = e
  <2>1. \A t \in {"call", "sub"} :
          LET x == Cmd(t, e.id, e.owner) IN x \in Cmds /\ IsSender(x) /\ Entry(x) = e
    BY CmdParts, EntryParts DEF IsSender
  <2> QED BY <2>1 DEF Queued, Enqueued
<1>3. SenderOnce'
  <2>1. IsSender(m) => ~Held(Entry(m)) /\ ~Tabled(Entry(m))
    BY DEF Held, Tabled, Known, IsCall, IsSub, InHand
  <2> QED BY <1>1, <1>2, <2>1 DEF SenderOnce, Enqueued
<1>4. AnswerOrSender'
  <2> SUFFICES ASSUME NEW e \in Entries, Waits(e)'
               PROVE  answer'[e.owner] = None <=> HasSender(e)'
    BY DEF AnswerOrSender
  <2>1. CASE IsSender(m) /\ e = Entry(m)
    <3>1. m = Cmd(m.type, e.id, e.owner) /\ m.type \in {"call", "sub"} /\ m.owner = e.owner
      BY <2>1, CmdParts, EntryParts DEF IsSender
    <3>2. InQueue(m)'
      BY DEF Enqueued
    <3>3. Queued(e)'
      BY <3>1, <3>2 DEF Queued
    <3> QED BY <2>1, <3>1, <3>3 DEF HasSender
  <2>2. CASE ~(IsSender(m) /\ e = Entry(m))
    <3>1. Waits(e) /\ (answer[e.owner] = None <=> HasSender(e))
      BY <2>2 DEF AnswerOrSender
    <3>2. CASE \E x \in lost : IsSender(x) /\ Entry(x) = e
      <4>1. PICK x \in lost : IsSender(x) /\ Entry(x) = e
        BY <3>2
      <4>2. x.owner = e.owner /\ x.id = e.id /\ x = Cmd(x.type, e.id, e.owner) /\ x \in Cmds
        BY <4>1, EntryParts, CmdParts DEF IsSender
      <4>3. answer'[e.owner] # None
        BY <3>1, <4>1, <4>2, EntryParts, ClientAssumption DEF Enqueued
      <4>4. Queued(e)
        BY <4>1, <4>2 DEF Queued, Enqueued, IsSender
      <4>5. ~Queued(e)'
        <5> SUFFICES ASSUME NEW t \in {"call", "sub"}, InQueue(Cmd(t, e.id, e.owner))' PROVE FALSE
          BY DEF Queued
        <5>1. LET y == Cmd(t, e.id, e.owner) IN y \in Cmds /\ IsSender(y) /\ y.id = e.id
          BY CmdParts, EntryParts DEF IsSender
        <5> QED BY <5>1, <4>1, <4>2 DEF Enqueued
      <4> QED BY <1>1, <4>3, <4>4, <4>5 DEF HasSender, SenderOnce
    <3>3. CASE ~\E x \in lost : IsSender(x) /\ Entry(x) = e
      <4>1. ASSUME NEW x \in lost, IsSender(x), x.owner = e.owner, Waits(Entry(x)) PROVE FALSE
        <5>1. Entry(x).id = e.id
          BY <3>1, <4>1, EntryParts DEF Waits
        <5> QED BY <3>3, <4>1, <5>1, EntryParts
      <4>2. answer'[e.owner] = answer[e.owner]
        BY <4>1, EntryParts DEF Enqueued
      <4> QED BY <1>1, <1>2, <2>2, <3>1, <3>3, <4>2 DEF HasSender
    <3> QED BY <3>2, <3>3
  <2> QED BY <2>1, <2>2
<1>5. AllFreed'
  <2> SUFFICES ASSUME NEW e \in pending PROVE Freed(e)'
    BY DEF AllFreed
  <2>1. e \in Entries /\ Freed(e)
    BY DEF AllFreed, TypeOK
  <2>2. ~(IsSender(m) /\ e = Entry(m))
    BY DEF Known, IsCall
  <2>3. Waits(e) => Waits(e)'
    BY <2>1, <2>2
  <2>4. InQueue(Cmd("cancel", e.id, e.owner)) => InQueue(Cmd("cancel", e.id, e.owner))' \/ owes' # {}
    <3>1. Cmd("cancel", e.id, e.owner).type = "cancel"
      BY <2>1, CmdParts, EntryParts
    <3> QED BY <3>1 DEF Enqueued
  <2>5. owes # {} => owes' # {}
    BY DEF Enqueued
  <2> QED BY <2>1, <2>3, <2>4, <2>5 DEF Freed
<1> QED BY <1>3, <1>4, <1>5

\* call and subscribe.
LEMMA RequestStep ==
  ASSUME IInv, NEW c \in Callers, NEW type \in {"call", "sub"}, NEW pc,
         pc = IF type = "call" THEN "waiting" ELSE "streaming", Request(c, type, pc)
  PROVE  IInv'
<1> USE DEF IInv
<1> PICK n \in Ids : n = nextId
  BY DEF TypeOK
<1> DEFINE new == [id |-> n, owner |-> c]
           m   == Cmd(type, n, c)
<1>1. CASE qclosed
  <2>1. /\ UNCHANGED <<caller, holds, answer, owes, queueVars, prune, epc, hand, connVars, dialVars, strays>>
        /\ nextId' = nextId + 1 /\ nextId < MaxId
    BY <1>1 DEF Request, NextId, queueVars
  <2>2. TypeOK' /\ Shape'
    BY <2>1, ClientAssumption DEF TypeOK, Shape, Connected, Ids, queueVars, connVars, dialVars
  <2>3. /\ \A e : /\ IsCall(e)' = IsCall(e) /\ IsSub(e)' = IsSub(e) /\ IsRequest(e)' = IsRequest(e)
                /\ Queued(e)' = Queued(e) /\ Held(e)' = Held(e) /\ Tabled(e)' = Tabled(e)
                /\ Waits(e)' = Waits(e) /\ Freed(e)' = Freed(e) /\ Cancelling(e)' = Cancelling(e)
        /\ Once(queue')
    BY <2>1 DEF IsCall, IsSub, IsRequest, InQueue, InHand, Queued, Held, Tabled, Waits, Freed,
                Cancelling, queueVars, connVars, SenderOnce
  <2>4. IdsOwned'
    BY <2>1, <2>3, EntryParts DEF IdsOwned, Known, TypeOK, Ids
  <2>5. SenderOnce' /\ AnswerOrSender' /\ AllFreed' /\ OwnReply'
    BY <2>1, <2>3 DEF SenderOnce, AnswerOrSender, HasSender, AllFreed, OwnReply, connVars
  <2> QED BY <2>2, <2>4, <2>5
<1>2. CASE ~qclosed
  <2>1. /\ caller' = [caller EXCEPT ![c] = [pc |-> pc, id |-> nextId]]
        /\ nextId' = nextId + 1 /\ nextId < MaxId /\ nextId \in Ids
        /\ UNCHANGED <<holds, qclosed, prune, epc, hand, connVars, dialVars, strays>>
        /\ ForceSend(c, m) /\ caller[c].pc = "idle" /\ answer[c] = None
    BY <1>2 DEF Request, NextId, Idle, Shape, TypeOK
  <2>2. m \in Cmds /\ IsSender(m) /\ m.id = nextId /\ m.owner = c /\ m.type = type
    BY <2>1, CmdParts DEF IsSender
  <2>3. new \in Entries /\ new.id = nextId /\ new.owner = c
    BY <2>1, EntryParts
  <2>4. \A e \in Entries : Known(e) => e.id < nextId /\ e.id # nextId
    BY <2>1 DEF IdsOwned, Ids
  <2>5. ASSUME NEW x \in Cmds, InQueue(x), x.type # "write" PROVE x.id # nextId
    <3>1. x.id \in Ids /\ x.owner \in Callers /\ x = Cmd(x.type, x.id, x.owner)
          /\ x.type \in {"call", "cancel", "sub"}
      BY <2>5, CmdParts
    <3>2. PICK e \in Entries : e.id = x.id /\ e.owner = x.owner
      BY <3>1, EntryParts
    <3>3. Known(e)
      BY <2>5, <3>1, <3>2 DEF Known, IsCall, IsSub
    <3> QED BY <2>4, <3>2, <3>3
  <2>6. Once(queue)
    BY DEF SenderOnce
  <2>7. PICK lost \in SUBSET Cmds : Enqueued(m, lost)
    <3>1. IsSender(m) => \A x \in Cmds : InQueue(x) /\ IsSender(x) => x.id # m.id
      BY <2>2, <2>5 DEF IsSender
    <3> HIDE DEF m
    <3> QED BY <2>1, <2>2, <2>6, <3>1, ForceSendFacts
  <2> HIDE DEF m, new
  <2>8. TypeOK'
    BY <2>1, <2>7, ClientAssumption DEF TypeOK, Ids, connVars, dialVars, Enqueued
  <2>9. \A d \in Callers : d # c => caller'[d] = caller[d]
    BY <2>1 DEF TypeOK
  <2>10. caller'[c].pc = pc /\ caller'[c].id = nextId
    BY <2>1 DEF TypeOK
  <2>11. answer'[c] = None
    BY <2>1, <2>7, EntryParts DEF Enqueued, Waits
  <2>12. \A d \in Callers : caller[d].pc \notin {"waiting", "streaming"} => answer'[d] = answer[d]
    BY <2>7, EntryParts DEF Enqueued, Waits
  <2>13. Shape'
    <3>1. \A d \in Callers : caller'[d].pc \notin {"waiting", "streaming"} => answer'[d] = None
      BY <2>9, <2>11, <2>12 DEF Shape
    <3> QED BY <2>1, <1>2, <3>1 DEF Shape, Connected, connVars
  <2>14. IdsOwned'
    <3>1. ASSUME NEW e \in Entries
          PROVE  /\ IsCall(e)' => IsCall(e) \/ (e = new /\ type = "call")
                 /\ IsSub(e)' => IsSub(e) \/ (e = new /\ type = "sub")
                 /\ IsRequest(e)' => IsRequest(e)
      <4>1. \A t \in {"call", "cancel", "sub"} :
              Cmd(t, e.id, e.owner) = m => t = type /\ e = new
        BY <2>2, CmdParts, EntryParts DEF new
      <4>2. \A t \in {"call", "cancel", "sub"} :
              InQueue(Cmd(t, e.id, e.owner))' => InQueue(Cmd(t, e.id, e.owner)) \/ (t = type /\ e = new)
        BY <4>1, <2>7 DEF Enqueued
      <4>3. \A x : InHand(x)' <=> InHand(x)
        BY <2>1 DEF InHand
      <4>4. caller'[e.owner].id = e.id => caller'[e.owner] = caller[e.owner] \/ (e = new /\ caller'[e.owner].pc = pc)
        <5>1. CASE e.owner = c
          BY <2>10, <5>1, EntryParts DEF new
        <5>2. CASE e.owner # c
          BY <2>9, <5>2, EntryParts
        <5> QED BY <5>1, <5>2
      <4>5. IsCall(e)' => IsCall(e) \/ (e = new /\ type = "call")
        <5>1. (e \in pending)' <=> e \in pending
          BY <2>1 DEF connVars
        <5> QED BY <5>1, <4>2, <4>3, <4>4 DEF IsCall
      <4>6. IsSub(e)' => IsSub(e) \/ (e = new /\ type = "sub")
        <5>1. (e \in subs)' <=> e \in subs
          BY <2>1 DEF connVars
        <5> QED BY <5>1, <4>2, <4>3, <4>4 DEF IsSub
      <4>7. IsRequest(e)' => IsRequest(e)
        BY <2>1 DEF IsRequest, connVars
      <4> QED BY <4>5, <4>6, <4>7
    <3>2. \A e \in Entries : Known(e)' => Known(e) \/ e = new
      BY <3>1 DEF Known
    <3>3. \A e \in Entries : Known(e)' => e.id < nextId'
      BY <2>1, <2>3, <2>4, <3>2, EntryParts DEF Ids
    <3>4. \A e, f \in Entries : Known(e)' /\ Known(f)' /\ e.id = f.id => e.owner = f.owner
      BY <2>3, <2>4, <3>2 DEF IdsOwned
    <3>5. \A e \in Entries : ~(IsCall(e)' /\ IsSub(e)')
      BY <2>3, <2>4, <3>1 DEF IdsOwned, Known
    <3>6. ASSUME NEW e \in Entries, Cancelling(e)', Waits(e)' PROVE FALSE
      <4>1. Cmd("cancel", e.id, e.owner) # m
        BY <2>2, CmdParts, EntryParts
      <4>2. Cancelling(e)
        BY <2>1, <2>7, <3>6, <4>1 DEF Cancelling, Enqueued, InHand
      <4>3. IsCall(e)
        BY <4>2 DEF Cancelling, IsCall
      <4>4. e.owner # c
        BY <2>3, <2>4, <2>10, <3>6, <4>3, EntryParts DEF Waits, Known
      <4>5. Waits(e)
        BY <2>9, <3>6, <4>4, EntryParts DEF Waits
      <4> QED BY <4>2, <4>5 DEF IdsOwned
    <3> QED BY <3>3, <3>4, <3>5, <3>6 DEF IdsOwned
  <2>15. \A e \in Entries : ~(IsSender(m) /\ e = Entry(m)) => (Waits(e)' <=> Waits(e))
    <3> SUFFICES ASSUME NEW e \in Entries, ~(IsSender(m) /\ e = Entry(m)) PROVE Waits(e)' <=> Waits(e)
      OBVIOUS
    <3>1. CASE e.owner = c
      <4>1. e.id # nextId
        BY <3>1, <2>2, EntryParts
      <4> QED BY <3>1, <4>1, <2>1, <2>10 DEF Waits
    <3>2. CASE e.owner # c
      BY <3>2, <2>9, EntryParts DEF Waits
    <3> QED BY <3>1, <3>2
  <2>16. SenderOnce' /\ AnswerOrSender' /\ AllFreed'
    <3>1. IsSender(m) => Entry(m) = new /\ new \in Entries /\ ~Known(new) /\ answer'[c] = None
      BY <2>2, <2>3, <2>4, <2>11, EntryParts DEF new
    <3>2. \A e \in Entries : caller[e.owner].pc = "dropped" => caller'[e.owner] = caller[e.owner]
      BY <2>1, <2>9, EntryParts
    <3> QED BY <2>1, <2>2, <2>3, <2>7, <2>8, <2>15, <3>1, <3>2, EnqueueEffect DEF connVars
  <2>17. OwnReply'
    BY <2>7, <2>8 DEF OwnReply, Enqueued
  <2> QED BY <2>8, <2>13, <2>14, <2>16, <2>17
<1> QED BY <1>1, <1>2

\* write.
LEMMA WriteStep ==
  ASSUME IInv, NEW c \in Callers, Write(c)
  PROVE  IInv'
<1> USE DEF IInv
<1> DEFINE m == [type |-> "write"]
<1>1. /\ ForceSend(c, m) /\ ~qclosed
      /\ UNCHANGED <<caller, holds, nextId, qclosed, prune, epc, hand, connVars, dialVars, strays>>
  BY DEF Write
<1>2. m \in Cmds /\ ~IsSender(m) /\ m.type = "write"
  BY CmdParts DEF IsSender
<1>3. \A e \in Entries, t \in {"call", "cancel", "sub"} : Cmd(t, e.id, e.owner) # m
  BY <1>2, CmdParts, EntryParts
<1>4. Once(queue)
  BY DEF SenderOnce
<1> HIDE DEF m
<1>5. PICK lost \in SUBSET Cmds : Enqueued(m, lost)
  BY <1>1, <1>2, <1>4, ForceSendFacts
<1>6. TypeOK'
  BY <1>1, <1>5, ClientAssumption DEF TypeOK, connVars, dialVars, Enqueued
<1>7. \A d \in Callers : caller[d].pc \notin {"waiting", "streaming"} => answer'[d] = answer[d]
  BY <1>5, EntryParts DEF Enqueued, Waits
<1>8. Shape'
  BY <1>1, <1>7 DEF Shape, Connected, connVars
<1>9. IdsOwned'
  <2>1. ASSUME NEW e \in Entries
        PROVE  /\ (IsCall(e)' => IsCall(e)) /\ (IsSub(e)' => IsSub(e)) /\ (IsRequest(e)' => IsRequest(e))
               /\ Cancelling(e)' /\ Waits(e)' => Cancelling(e) /\ Waits(e)
    <3>1. \A t \in {"call", "cancel", "sub"} :
            InQueue(Cmd(t, e.id, e.owner))' => InQueue(Cmd(t, e.id, e.owner))
      BY <1>3, <1>5 DEF Enqueued
    <3> QED BY <1>1, <3>1 DEF IsCall, IsSub, IsRequest, InHand, connVars, Cancelling, Waits
  <2> QED BY <1>1, <2>1, IdsKept DEF Known
<1>10. SenderOnce' /\ AnswerOrSender' /\ AllFreed'
  BY <1>1, <1>2, <1>5, EnqueueEffect DEF connVars, Waits
<1>11. OwnReply'
  BY <1>5, <1>6 DEF OwnReply, Enqueued
<1> QED BY <1>6, <1>8, <1>9, <1>10, <1>11

\* A task stops waiting, or was not waiting: nothing else changes, and the
\* entry it leaves behind, if any, is about to be freed.
LEMMA CallerMoves ==
  ASSUME IInv, NEW c \in Callers, NEW p \in {"idle", "dropped"},
         caller' = [caller EXCEPT ![c].pc = p], caller[c].pc # "dropped",
         p = "dropped" => caller[c].pc = "waiting",
         answer' = [answer EXCEPT ![c] = None],
         \A e \in pending : e.owner = c /\ Waits(e) => p = "dropped",
         UNCHANGED <<holds, owes, nextId, queueVars, prune, epc, hand, connVars, dialVars, strays>>
  PROVE  IInv'
<1> USE DEF IInv
<1>1. /\ \A d \in Callers : d # c => caller'[d] = caller[d] /\ answer'[d] = answer[d]
      /\ caller'[c].pc = p /\ caller'[c].id = caller[c].id /\ answer'[c] = None
  BY DEF TypeOK
<1>2. TypeOK'
  <2>1. caller' \in [Callers -> [pc : {"idle", "waiting", "streaming", "dropped"}, id : Ids]]
    BY DEF TypeOK
  <2> QED BY <2>1 DEF TypeOK, queueVars, connVars, dialVars
<1>3. Shape'
  BY <1>1 DEF Shape, Connected, connVars, queueVars
<1>4. \A e : Queued(e)' = Queued(e) /\ Held(e)' = Held(e) /\ Tabled(e)' = Tabled(e)
  BY DEF Queued, Held, Tabled, InQueue, queueVars, connVars
<1>5. IdsOwned'
  <2>1. ASSUME NEW e \in Entries
        PROVE  /\ (IsCall(e)' => IsCall(e)) /\ (IsSub(e)' => IsSub(e)) /\ (IsRequest(e)' => IsRequest(e))
               /\ Cancelling(e)' /\ Waits(e)' => Cancelling(e) /\ Waits(e)
    <3>1. /\ caller'[e.owner].id = caller[e.owner].id
          /\ caller'[e.owner].pc # "idle" =>
               \/ caller'[e.owner].pc = caller[e.owner].pc
               \/ caller'[e.owner].pc = "dropped" /\ caller[e.owner].pc = "waiting"
      BY <1>1, EntryParts
    <3>2. /\ \A x : InQueue(x)' = InQueue(x) /\ InHand(x)' = InHand(x)
          /\ pending' = pending /\ subs' = subs
      BY DEF InQueue, InHand, queueVars, connVars
    <3>3. IsCall(e)' => IsCall(e)
      BY <3>1, <3>2 DEF IsCall
    <3>4. IsSub(e)' => IsSub(e)
      BY <3>1, <3>2 DEF IsSub
    <3>5. IsRequest(e)' => IsRequest(e)
      BY DEF IsRequest, connVars
    <3>6. Cancelling(e)' /\ Waits(e)' => Cancelling(e) /\ Waits(e)
      BY <3>1, <3>2 DEF Cancelling, Waits
    <3> QED BY <3>3, <3>4, <3>5, <3>6
  <2> QED BY <2>1, IdsKept DEF Known
<1>6. \A e \in Entries : /\ e.owner # c => (Waits(e)' <=> Waits(e)) /\ answer'[e.owner] = answer[e.owner]
                         /\ e.owner = c => ~Waits(e)'
  BY <1>1, EntryParts DEF Waits
<1>7. SenderOnce'
  BY <1>4 DEF SenderOnce, queueVars
<1>8. AnswerOrSender'
  BY <1>4, <1>6 DEF AnswerOrSender, HasSender
<1>9. AllFreed'
  <2> SUFFICES ASSUME NEW e \in pending PROVE Freed(e)'
    BY DEF AllFreed, connVars
  <2>1. e \in Entries /\ Freed(e)
    BY DEF AllFreed, TypeOK
  <2>2. \A x : InQueue(x)' = InQueue(x)
    BY DEF InQueue, queueVars
  <2>3. CASE Waits(e) /\ e.owner = c
    BY <1>1, <2>3 DEF Freed, Waits
  <2>4. CASE Waits(e) /\ e.owner # c
    BY <1>6, <2>1, <2>4 DEF Freed
  <2>5. CASE caller[e.owner].pc = "dropped" /\ caller[e.owner].id = e.id
    <3>1. e.owner # c
      BY <2>5
    <3> QED BY <1>1, <2>1, <2>5, <3>1, EntryParts DEF Freed
  <2> QED BY <2>1, <2>2, <2>3, <2>4, <2>5 DEF Freed
<1>10. OwnReply'
  BY <1>1 DEF OwnReply
<1> QED BY <1>2, <1>3, <1>5, <1>7, <1>8, <1>9, <1>10

\* The reply arrives: the entry it came from is gone.
LEMMA ResolveStep ==
  ASSUME IInv, NEW c \in Callers, Resolve(c)
  PROVE  IInv'
<1>1. ASSUME NEW e \in pending, e.owner = c, Waits(e) PROVE FALSE
  <2>1. e \in Entries /\ HasSender(e) /\ answer[c] # None
    BY DEF IInv, TypeOK, HasSender, Tabled, Resolve
  <2> QED BY <1>1, <2>1 DEF IInv, AnswerOrSender
<1> QED BY <1>1, CallerMoves DEF Resolve

\* The call is abandoned: its guard has yet to run.
LEMMA AbandonStep ==
  ASSUME IInv, NEW c \in Callers, Abandon(c)
  PROVE  IInv'
  BY CallerMoves DEF Abandon

\* The stream is dropped: its id is no call's.
LEMMA DropStreamStep ==
  ASSUME IInv, NEW c \in Callers, DropStream(c)
  PROVE  IInv'
<1>1. ASSUME NEW e \in pending, e.owner = c, Waits(e) PROVE FALSE
  <2>1. e \in Entries /\ IsCall(e) /\ IsSub(e)
    BY <1>1 DEF IInv, TypeOK, IsCall, IsSub, Waits, DropStream
  <2> QED BY <2>1 DEF IInv, IdsOwned
<1> QED BY <1>1, CallerMoves DEF DropStream

\* The handle is dropped: nothing that is known of a request changes.
LEMMA DropHandleStep ==
  ASSUME IInv, NEW c \in Callers, DropHandle(c)
  PROVE  IInv'
<1> USE DEF IInv
<1>1. /\ holds' \subseteq Callers
      /\ UNCHANGED <<caller, answer, owes, nextId, queueVars, prune, epc, hand, connVars, dialVars, strays>>
  BY DEF DropHandle, TypeOK
<1>2. TypeOK' /\ Shape'
  BY <1>1 DEF TypeOK, Shape, Connected, queueVars, connVars, dialVars
<1>3. \A e : /\ IsCall(e)' = IsCall(e) /\ IsSub(e)' = IsSub(e) /\ IsRequest(e)' = IsRequest(e)
            /\ Queued(e)' = Queued(e) /\ Held(e)' = Held(e) /\ Tabled(e)' = Tabled(e)
            /\ Waits(e)' = Waits(e) /\ Freed(e)' = Freed(e) /\ Cancelling(e)' = Cancelling(e)
  BY <1>1 DEF IsCall, IsSub, IsRequest, InQueue, InHand, Queued, Held, Tabled, Waits, Freed,
              Cancelling, queueVars, connVars
<1>4. IdsOwned'
  BY <1>1, <1>3 DEF IdsOwned, Known
<1>5. SenderOnce' /\ AnswerOrSender' /\ AllFreed' /\ OwnReply'
  BY <1>1, <1>3 DEF SenderOnce, AnswerOrSender, HasSender, AllFreed, OwnReply, queueVars, connVars
<1> QED BY <1>2, <1>4, <1>5

\* The guard of an abandoned call queues the cancellation or owes a sweep.
LEMMA CancelOnDropStep ==
  ASSUME IInv, NEW c \in Callers, CancelOnDrop(c)
  PROVE  IInv'
<1> USE DEF IInv
<1> PICK n \in Ids : n = caller[c].id
  BY DEF TypeOK
<1> DEFINE m == Cmd("cancel", n, c)
<1>1. /\ caller' = [caller EXCEPT ![c].pc = "idle"] /\ caller[c].pc = "dropped"
      /\ UNCHANGED <<holds, answer, nextId, qclosed, prune, epc, hand, connVars, dialVars, strays>>
  BY DEF CancelOnDrop
<1>2. /\ \A d \in Callers : d # c => caller'[d] = caller[d]
      /\ caller'[c].pc = "idle" /\ caller'[c].id = caller[c].id /\ caller[c].id \in Ids
  BY <1>1 DEF TypeOK
<1>3. m \in Cmds /\ ~IsSender(m) /\ m.type = "cancel" /\ m.id = caller[c].id /\ m.owner = c
  BY <1>2, CmdParts DEF IsSender
<1> HIDE DEF m
<1>4. /\ queue' \in Seq(Cmds) /\ Len(queue') <= QueueCap /\ Once(queue')
      /\ owes \subseteq owes' /\ owes' \subseteq Callers
      /\ \A x : InQueue(x) => InQueue(x)'
      /\ \A x : InQueue(x)' => InQueue(x) \/ x = m
      /\ InQueue(m)' \/ owes' # {}
      /\ qclosed => queue' = queue
  <2>1. queue \in Seq(Cmds) /\ Len(queue) <= QueueCap /\ Once(queue) /\ owes \subseteq Callers
    BY DEF TypeOK, SenderOnce
  <2>2. CASE ~qclosed /\ Len(queue) < QueueCap
    <3>1. queue' = Append(queue, m) /\ owes' = owes
      BY <2>2 DEF CancelOnDrop, m
    <3> QED BY <1>3, <2>1, <2>2, <3>1, PushFacts, ClientAssumption
  <2>3. CASE ~(~qclosed /\ Len(queue) < QueueCap)
    <3>1. queue' = queue /\ owes' = owes \union {c}
      BY <2>3 DEF CancelOnDrop
    <3> QED BY <2>1, <3>1 DEF InQueue
  <2> QED BY <2>2, <2>3
<1>5. TypeOK'
  <2>1. caller' \in [Callers -> [pc : {"idle", "waiting", "streaming", "dropped"}, id : Ids]]
    BY <1>1 DEF TypeOK
  <2> QED BY <1>1, <1>4, <2>1 DEF TypeOK, connVars, dialVars
<1>6. Shape'
  BY <1>1, <1>2, <1>4 DEF Shape, Connected, connVars
<1>7. ASSUME NEW e \in Entries
      PROVE  /\ Queued(e)' <=> Queued(e)
             /\ Held(e)' <=> Held(e)
             /\ Tabled(e)' <=> Tabled(e)
             /\ Waits(e)' <=> Waits(e)
  <2>1. \A t \in {"call", "sub"} : Cmd(t, e.id, e.owner) # m
    BY <1>3, CmdParts, EntryParts
  <2>2. Queued(e)' <=> Queued(e)
    BY <1>4, <2>1 DEF Queued
  <2>3. (Held(e)' <=> Held(e)) /\ (Tabled(e)' <=> Tabled(e))
    BY <1>1 DEF Held, Tabled, connVars
  <2>4. Waits(e)' <=> Waits(e)
    BY <1>1, <1>2, EntryParts DEF Waits
  <2> QED BY <2>2, <2>3, <2>4
<1>8. IdsOwned'
  <2>1. ASSUME NEW e \in Entries
        PROVE  /\ (IsCall(e)' => IsCall(e)) /\ (IsSub(e)' => IsSub(e)) /\ (IsRequest(e)' => IsRequest(e))
               /\ Cancelling(e)' /\ Waits(e)' => Cancelling(e) /\ Waits(e)
    <3>1. \A t \in {"call", "cancel", "sub"} : Cmd(t, e.id, e.owner) = m =>
            t = "cancel" /\ e.owner = c /\ e.id = caller[c].id
      BY <1>3, CmdParts, EntryParts
    <3>2. \A x : InHand(x)' = InHand(x)
      BY <1>1 DEF InHand
    <3>3. caller'[e.owner] = caller[e.owner] \/ caller'[e.owner].pc = "idle"
      BY <1>2, EntryParts
    <3>4. IsCall(e)' => IsCall(e)
      BY <1>1, <1>4, <3>1, <3>2, <3>3 DEF IsCall, connVars
    <3>5. IsSub(e)' => IsSub(e)
      BY <1>1, <1>4, <3>1, <3>2, <3>3 DEF IsSub, connVars
    <3>6. IsRequest(e)' => IsRequest(e)
      BY <1>1 DEF IsRequest, connVars
    <3>7. Cancelling(e)' /\ Waits(e)' => Cancelling(e) /\ Waits(e)
      BY <1>2, <1>4, <1>7, <3>1, <3>2 DEF Cancelling, Waits
    <3> QED BY <3>4, <3>5, <3>6, <3>7
  <2> QED BY <1>1, <2>1, IdsKept DEF Known
<1>9. SenderOnce' /\ AnswerOrSender'
  BY <1>1, <1>4, <1>7 DEF SenderOnce, AnswerOrSender, HasSender
<1>10. AllFreed'
  <2> SUFFICES ASSUME NEW e \in pending PROVE Freed(e)'
    BY <1>1 DEF AllFreed, connVars
  <2>1. e \in Entries /\ Freed(e)
    BY DEF AllFreed, TypeOK
  <2>2. CASE caller[e.owner].pc = "dropped" /\ caller[e.owner].id = e.id
    <3>1. CASE e.owner = c
      BY <1>4, <2>2, <3>1 DEF Freed, m
    <3>2. CASE e.owner # c
      BY <1>2, <2>1, <2>2, <3>2, EntryParts DEF Freed
    <3> QED BY <3>1, <3>2
  <2> QED BY <1>1, <1>4, <1>7, <2>1, <2>2 DEF Freed
<1>11. OwnReply'
  BY <1>1 DEF OwnReply
<1> QED BY <1>5, <1>6, <1>8, <1>9, <1>10, <1>11

\* A sweep is asked for.
LEMMA RequestPruneStep ==
  ASSUME IInv, NEW c \in Callers, RequestPrune(c)
  PROVE  IInv'
<1> USE DEF IInv
<1>1. /\ owes' = owes \ {c} /\ prune' = TRUE
      /\ UNCHANGED <<caller, holds, answer, nextId, queueVars, epc, hand, connVars, dialVars, strays>>
  BY DEF RequestPrune
<1>2. TypeOK' /\ Shape'
  BY <1>1 DEF TypeOK, Shape, Connected, queueVars, connVars, dialVars
<1>3. /\ \A e : /\ IsCall(e)' = IsCall(e) /\ IsSub(e)' = IsSub(e) /\ IsRequest(e)' = IsRequest(e)
              /\ Queued(e)' = Queued(e) /\ Held(e)' = Held(e) /\ Tabled(e)' = Tabled(e)
              /\ Waits(e)' = Waits(e) /\ Cancelling(e)' = Cancelling(e)
  BY <1>1 DEF IsCall, IsSub, IsRequest, InQueue, InHand, Queued, Held, Tabled, Waits, Cancelling,
              queueVars, connVars
<1>4. IdsOwned'
  BY <1>1, <1>3 DEF IdsOwned, Known
<1>5. SenderOnce' /\ AnswerOrSender' /\ AllFreed' /\ OwnReply'
  BY <1>1, <1>3 DEF SenderOnce, AnswerOrSender, HasSender, AllFreed, Freed, OwnReply, queueVars, connVars
<1> QED BY <1>2, <1>4, <1>5

-----------------------------------------------------------------------------
(* The engine's steps.                                                     *)

\* The engine moves on and takes nothing.
LEMMA EngineMoves ==
  ASSUME IInv, epc \notin {"exec", "send", "drain", "stopped", "sweep"},
         epc' \in {"dial", "hello", "recv", "prune", "cmd", "sweep"},
         Connected => Connected', prune => prune' \/ epc' = "sweep", prune' \in BOOLEAN,
         attempt' \in 0 .. AttemptTop,
         UNCHANGED <<handleVars, queueVars, hand, connVars, why, strays>>
  PROVE  IInv'
<1> USE DEF IInv
<1>1. TypeOK' /\ Shape'
  BY DEF TypeOK, Shape, queueVars, connVars, handleVars
<1>2. \A e : /\ IsCall(e)' = IsCall(e) /\ IsSub(e)' = IsSub(e) /\ IsRequest(e)' = IsRequest(e)
            /\ Queued(e)' = Queued(e) /\ Held(e)' = Held(e) /\ Tabled(e)' = Tabled(e)
            /\ Waits(e)' = Waits(e) /\ Cancelling(e)' = Cancelling(e)
  BY DEF IsCall, IsSub, IsRequest, InQueue, InHand, Queued, Held, Tabled, Waits, Cancelling,
         queueVars, connVars, handleVars
<1>3. IdsOwned'
  BY <1>2 DEF IdsOwned, Known, handleVars
<1>4. SenderOnce' /\ AnswerOrSender' /\ OwnReply'
  BY <1>2 DEF SenderOnce, AnswerOrSender, HasSender, OwnReply, queueVars, connVars, handleVars
<1>5. AllFreed'
  BY <1>2 DEF AllFreed, Freed, InQueue, queueVars, connVars, handleVars
<1> QED BY <1>1, <1>3, <1>4, <1>5

\* What dropping the senders in E does to the answers.
LEMMA DroppedAnswers ==
  ASSUME TypeOK, OwnReply, NEW E \in SUBSET Entries, answer' = WithDropped(E)
  PROVE  /\ answer' \in [Callers -> Callers \union {None, Dropped}]
         /\ \A c \in Callers : caller[c].pc \notin {"waiting", "streaming"} => answer'[c] = answer[c]
         /\ \A e \in Entries : Waits(e) =>
              IF e \in E THEN answer'[e.owner] # None ELSE answer'[e.owner] = answer[e.owner]
         /\ \A c \in Callers : answer'[c] \in {None, Dropped, c}
<1>1. \A c \in Callers : answer'[c] = IF answer[c] = None /\ \E e \in E : e.owner = c /\ Waits(e)
                                      THEN Dropped ELSE answer[c]
  BY DEF WithDropped
<1>2. answer' \in [Callers -> Callers \union {None, Dropped}]
  BY DEF WithDropped, TypeOK
<1>3. \A c \in Callers : caller[c].pc \notin {"waiting", "streaming"} => answer'[c] = answer[c]
  BY <1>1 DEF Waits
<1>4. ASSUME NEW e \in Entries, Waits(e)
      PROVE  IF e \in E THEN answer'[e.owner] # None ELSE answer'[e.owner] = answer[e.owner]
  <2>1. ASSUME NEW f \in E, f.owner = e.owner, Waits(f) PROVE f = e
    <3>1. f.id = e.id
      BY <1>4, <2>1 DEF Waits
    <3> QED BY <2>1, <3>1, EntryParts
  <2> QED BY <1>1, <1>4, <2>1, EntryParts, ClientAssumption
<1>5. \A c \in Callers : answer'[c] \in {None, Dropped, c}
  BY <1>1 DEF OwnReply
<1> QED BY <1>2, <1>3, <1>4, <1>5

\* reconnect_after: backoff, or the end with the channel closed.
LEMMA ReconnectFacts ==
  ASSUME TypeOK, ReconnectAfter
  PROVE  /\ epc' \in {"backoff", "drain"} /\ qclosed' \in BOOLEAN
         /\ epc' = "drain" => qclosed'
         /\ epc' = "backoff" => qclosed' = qclosed
         /\ attempt' \in 0 .. AttemptTop
         /\ why' \in {"running", "disconnected", "exhausted", "closed", "unused"}
<1>1. CASE ~Reconnect
  BY <1>1 DEF ReconnectAfter, Stop, TypeOK
<1>2. CASE Reconnect
  <2>1. attempt' \in 0 .. AttemptTop
    BY <1>2, ClientAssumption DEF ReconnectAfter, TypeOK
  <2>2. Stop("exhausted") \/ (epc' = "backoff" /\ UNCHANGED <<qclosed, why>>)
    BY <1>2 DEF ReconnectAfter
  <2> QED BY <2>1, <2>2 DEF Stop, TypeOK
<1> QED BY <1>1, <1>2, ClientAssumption

\* The connection, if there was one, ends; the engine goes on to reconnect or
\* to drain its queue.
LEMMA ConnectionEnds ==
  ASSUME IInv, epc \notin {"exec", "drain", "stopped"},
         epc' \in {"backoff", "drain"}, qclosed' \in BOOLEAN,
         epc' = "drain" => qclosed', epc' = "backoff" => qclosed' = qclosed,
         attempt' \in 0 .. AttemptTop, hand' \in Cmds \union {None},
         why' \in {"running", "disconnected", "exhausted", "closed", "unused"},
         answer' = WithDropped(pending \union subs),
         pending' = {}, subs' = {}, wire' = <<>>, requested' = {},
         UNCHANGED <<caller, holds, owes, nextId, queue, prune, strays>>
  PROVE  IInv'
<1> USE DEF IInv
<1>1. PICK E \in SUBSET Entries : E = pending \union subs
  BY DEF TypeOK
<1>2. /\ answer' \in [Callers -> Callers \union {None, Dropped}]
      /\ \A c \in Callers : caller[c].pc \notin {"waiting", "streaming"} => answer'[c] = answer[c]
      /\ \A e \in Entries : Waits(e) =>
           IF e \in E THEN answer'[e.owner] # None ELSE answer'[e.owner] = answer[e.owner]
      /\ \A c \in Callers : answer'[c] \in {None, Dropped, c}
  BY <1>1, DroppedAnswers
<1>3. TypeOK'
  <2>1. wire' \in Seq(Frames)
    OBVIOUS
  <2> QED BY <1>2, <2>1 DEF TypeOK
<1>4. Shape'
  BY <1>2 DEF Shape
<1>5. IdsOwned'
  <2>1. \A x : InQueue(x)' = InQueue(x) /\ ~InHand(x)'
    BY DEF InQueue, InHand
  <2>2. \A e \in Entries : /\ IsCall(e)' => IsCall(e)
                           /\ IsSub(e)' => IsSub(e)
                           /\ ~IsRequest(e)'
                           /\ Cancelling(e)' /\ Waits(e)' => Cancelling(e) /\ Waits(e)
    BY <2>1 DEF IsCall, IsSub, IsRequest, Cancelling, Waits
  <2> QED BY <2>2, IdsKept
<1>6. \A e \in Entries : /\ Queued(e)' <=> Queued(e)
                         /\ ~Held(e) /\ ~Held(e)' /\ ~Tabled(e)'
                         /\ Tabled(e) <=> e \in E
                         /\ Waits(e)' <=> Waits(e)
  BY <1>1 DEF Queued, InQueue, Held, Tabled, Waits
<1>7. SenderOnce'
  BY <1>6 DEF SenderOnce
<1>8. AnswerOrSender'
  BY <1>2, <1>6 DEF AnswerOrSender, HasSender, SenderOnce
<1>9. AllFreed' /\ OwnReply'
  BY <1>2 DEF AllFreed, OwnReply
<1> QED BY <1>3, <1>4, <1>5, <1>7, <1>8, <1>9

\* Dialing fails: nothing was connected.
LEMMA DialFailsStep ==
  ASSUME IInv, NEW closed \in BOOLEAN, DialFails(closed)
  PROVE  IInv'
<1>1. /\ epc = "dial" /\ UNCHANGED <<handleVars, queue, prune, hand, connVars, strays>>
      /\ pending = {} /\ subs = {} /\ wire = <<>> /\ requested = {} /\ TypeOK
  BY DEF DialFails, IInv, Shape, Connected
<1>2. answer = WithDropped(pending \union subs)
  BY <1>1 DEF WithDropped, TypeOK
<1>3. /\ epc' \in {"backoff", "drain"} /\ qclosed' \in BOOLEAN
      /\ epc' = "drain" => qclosed'
      /\ epc' = "backoff" => qclosed' = qclosed
      /\ attempt' \in 0 .. AttemptTop
      /\ why' \in {"running", "disconnected", "exhausted", "closed", "unused"}
  <2>1. CASE closed
    BY <1>1, <2>1 DEF DialFails, Stop, TypeOK
  <2>2. CASE ~closed
    BY <1>1, <2>2, ReconnectFacts DEF DialFails
  <2> QED BY <2>1, <2>2
<1>4. hand' \in Cmds \union {None}
  BY <1>1 DEF TypeOK
<1> QED BY <1>1, <1>2, <1>3, <1>4, ConnectionEnds DEF handleVars, connVars

\* The connection is lost while shaking hands, receiving, pinging or sending.
LEMMA DisconnectStep ==
  ASSUME IInv, epc \in {"hello", "recv", "send"}, Disconnect
  PROVE  IInv'
<1>1. /\ epc' \in {"backoff", "drain"} /\ qclosed' \in BOOLEAN
      /\ epc' = "drain" => qclosed'
      /\ epc' = "backoff" => qclosed' = qclosed
      /\ attempt' \in 0 .. AttemptTop
      /\ why' \in {"running", "disconnected", "exhausted", "closed", "unused"}
  BY ReconnectFacts DEF Disconnect, IInv
<1> QED BY <1>1, ConnectionEnds DEF Disconnect

\* The engine drops a buffered command, or is done.
LEMMA DrainStep ==
  ASSUME IInv, DrainOnExit
  PROVE  IInv'
<1> USE DEF IInv
<1>1. /\ epc = "drain" /\ qclosed /\ pending = {} /\ subs = {} /\ requested = {} /\ wire = <<>>
      /\ UNCHANGED <<caller, holds, owes, nextId, qclosed, prune, hand, connVars, dialVars, strays>>
      /\ queue \in Seq(Cmds) /\ Len(queue) <= QueueCap /\ Once(queue)
  BY DEF DrainOnExit, Shape, Connected, TypeOK, SenderOnce
<1>2. CASE queue = <<>>
  <2>1. epc' = "stopped" /\ UNCHANGED <<answer, queue>>
    BY <1>2 DEF DrainOnExit
  <2>2. TypeOK' /\ Shape'
    BY <1>1, <1>2, <2>1 DEF TypeOK, Shape, Connected, connVars, dialVars
  <2>3. \A e : /\ IsCall(e)' = IsCall(e) /\ IsSub(e)' = IsSub(e) /\ IsRequest(e)' = IsRequest(e)
              /\ Queued(e)' = Queued(e) /\ Held(e)' = Held(e) /\ Tabled(e)' = Tabled(e)
              /\ Waits(e)' = Waits(e) /\ Cancelling(e)' = Cancelling(e)
    BY <1>1, <2>1 DEF IsCall, IsSub, IsRequest, InQueue, InHand, Queued, Held, Tabled, Waits, Cancelling,
                      connVars
  <2>4. IdsOwned'
    BY <1>1, <2>3 DEF IdsOwned, Known
  <2>5. SenderOnce' /\ AnswerOrSender' /\ AllFreed' /\ OwnReply'
    BY <1>1, <2>1, <2>3 DEF SenderOnce, AnswerOrSender, HasSender, AllFreed, OwnReply, connVars
  <2> QED BY <2>2, <2>4, <2>5
<1>3. CASE queue # <<>>
  <2>1. answer' = WithDropped(SendersOf(Head(queue))) /\ queue' = Tail(queue) /\ epc' = epc
    BY <1>3 DEF DrainOnExit
  <2>2. PICK h \in Cmds : h = Head(queue)
    BY <1>1, <1>3
  <2>3. /\ queue' \in Seq(Cmds) /\ Len(queue') = Len(queue) - 1
        /\ \A x : InQueue(x) <=> InQueue(x)' \/ x = h
        /\ Once(queue') /\ (IsSender(h) => \A x \in Cmds : InQueue(x)' /\ IsSender(x) => x.id # h.id)
    BY <1>1, <1>3, <2>1, <2>2, PopFacts
  <2>4. PICK E \in SUBSET Entries : E = SendersOf(h)
    <3>1. IsSender(h) => Entry(h) \in Entries
      BY CmdParts, EntryParts DEF IsSender
    <3> QED BY <3>1 DEF SendersOf, IsSender
  <2>5. /\ answer' \in [Callers -> Callers \union {None, Dropped}]
        /\ \A c \in Callers : caller[c].pc \notin {"waiting", "streaming"} => answer'[c] = answer[c]
        /\ \A e \in Entries : Waits(e) =>
             IF e \in E THEN answer'[e.owner] # None ELSE answer'[e.owner] = answer[e.owner]
        /\ \A c \in Callers : answer'[c] \in {None, Dropped, c}
    BY <2>1, <2>2, <2>4, DroppedAnswers
  <2>6. TypeOK'
    <3>1. Len(queue') <= QueueCap
      BY <1>1, <2>3, ClientAssumption
    <3> QED BY <1>1, <2>1, <2>3, <2>5, <3>1 DEF TypeOK, connVars, dialVars
  <2>7. Shape'
    BY <1>1, <2>1, <2>5 DEF Shape, Connected, connVars
  <2>8. IdsOwned'
    <3>1. \A e \in Entries : /\ IsCall(e)' => IsCall(e)
                             /\ IsSub(e)' => IsSub(e)
                             /\ IsRequest(e)' => IsRequest(e)
                             /\ Cancelling(e)' /\ Waits(e)' => Cancelling(e) /\ Waits(e)
      BY <1>1, <2>1, <2>3 DEF IsCall, IsSub, IsRequest, InHand, Cancelling, Waits, connVars
    <3> QED BY <1>1, <3>1, IdsKept DEF Known
  <2>9. ASSUME NEW e \in Entries
        PROVE  /\ Queued(e)' <=> Queued(e) /\ e \notin E
               /\ ~Held(e) /\ ~Held(e)' /\ ~Tabled(e) /\ ~Tabled(e)'
               /\ Waits(e)' <=> Waits(e)
               /\ e \in E => Queued(e)
    <3>1. \A t \in {"call", "sub"} :
            LET x == Cmd(t, e.id, e.owner)
            IN  x \in Cmds /\ IsSender(x) /\ Entry(x) = e /\ x.id = e.id
      BY CmdParts, EntryParts DEF IsSender
    <3>2. e \in E <=> IsSender(h) /\ Entry(h) = e
      BY <2>4 DEF SendersOf, IsSender
    <3>3. IsSender(h) /\ Entry(h) = e => h.id = e.id /\ h.type \in {"call", "sub"} /\ h = Cmd(h.type, e.id, e.owner)
      BY CmdParts, EntryParts DEF IsSender
    <3>4. e \in E => Queued(e) /\ ~Queued(e)'
      BY <2>3, <3>1, <3>2, <3>3 DEF Queued
    <3>5. Queued(e)' => Queued(e)
      BY <2>3 DEF Queued
    <3>6. Queued(e) /\ e \notin E => Queued(e)'
      BY <2>3, <3>1, <3>2 DEF Queued
    <3>7. /\ ~Held(e) /\ ~Held(e)' /\ ~Tabled(e) /\ ~Tabled(e)'
          /\ Waits(e)' <=> Waits(e)
      BY <1>1, <2>1 DEF Held, Tabled, Waits, connVars
    <3> QED BY <3>4, <3>5, <3>6, <3>7
  <2>10. SenderOnce' /\ AnswerOrSender'
    BY <2>3, <2>5, <2>9 DEF SenderOnce, AnswerOrSender, HasSender
  <2>11. AllFreed' /\ OwnReply'
    BY <1>1, <2>5 DEF AllFreed, OwnReply, connVars
  <2> QED BY <2>6, <2>7, <2>8, <2>10, <2>11
<1> QED BY <1>2, <1>3

\* Frames and requests come and go; they name no request that was unknown.
LEMMA TrafficMoves ==
  ASSUME IInv, Connected, wire' \in Seq(Frames), requested' \subseteq Cmds, strays' \in 0 .. MaxStray,
         \A r \in requested' : IsSender(r),
         \A e \in Entries : IsRequest(e)' => Known(e),
         UNCHANGED <<handleVars, queueVars, prune, epc, hand, pending, subs, dialVars>>
  PROVE  IInv'
<1> USE DEF IInv
<1>1. TypeOK' /\ Shape'
  BY DEF TypeOK, Shape, Connected, queueVars, handleVars, dialVars
<1>2. \A e : /\ IsCall(e)' = IsCall(e) /\ IsSub(e)' = IsSub(e) /\ Cancelling(e)' = Cancelling(e)
            /\ Queued(e)' = Queued(e) /\ Held(e)' = Held(e) /\ Tabled(e)' = Tabled(e)
            /\ Waits(e)' = Waits(e) /\ Freed(e)' = Freed(e)
  BY DEF IsCall, IsSub, InQueue, InHand, Queued, Held, Tabled, Waits, Cancelling, Freed, queueVars, handleVars
<1>3. IdsOwned'
  BY <1>2, IdsKept DEF handleVars
<1>4. SenderOnce' /\ AnswerOrSender' /\ AllFreed' /\ OwnReply'
  BY <1>2 DEF SenderOnce, AnswerOrSender, HasSender, AllFreed, OwnReply, queueVars, handleVars
<1> QED BY <1>1, <1>3, <1>4

\* A frame on the wire was there before, or it is the new one.
LEMMA WirePush ==
  ASSUME wire \in Seq(Frames), NEW f \in Frames, wire' = Append(wire, f)
  PROVE  /\ wire' \in Seq(Frames)
         /\ \A i \in DOMAIN wire' : wire'[i] = f \/ (i \in DOMAIN wire /\ wire'[i] = wire[i])
  OBVIOUS

\* The frames left on the wire were there before.
LEMMA WirePop ==
  ASSUME wire \in Seq(Frames), wire # <<>>, wire' = Tail(wire)
  PROVE  /\ wire' \in Seq(Frames) /\ Head(wire) \in Frames
         /\ \A i \in DOMAIN wire' : i + 1 \in DOMAIN wire /\ wire'[i] = wire[i + 1]
         /\ 1 \in DOMAIN wire /\ wire[1] = Head(wire)
  OBVIOUS

\* The server answers, or sends on its own: it echoes an id it was given.
LEMMA ServerFrameStep ==
  ASSUME IInv, NEW r \in requested, NEW type \in {"reply", "refusal", "event"},
         ServerReplies(r, type) \/ ServerSends(r, type)
  PROVE  IInv'
<1>1. /\ Connected /\ wire' = Append(wire, Frame(type, r)) /\ requested' \subseteq requested
      /\ UNCHANGED <<handleVars, queueVars, prune, epc, hand, pending, subs, dialVars>>
      /\ strays' = strays \/ (strays < MaxStray /\ strays' = strays + 1)
  BY DEF ServerReplies, ServerSends
<1>2. /\ r \in Cmds /\ r.type \in {"call", "sub"} /\ r.id \in Ids /\ r.owner \in Callers
      /\ r = Cmd(r.type, r.id, r.owner)
  BY CmdParts DEF IInv, TypeOK, Shape, IsSender
<1>3. PICK f \in Frames : f = Frame(type, r) /\ f.type # "eof" /\ f.id = r.id /\ f.owner = r.owner
  <2>1. Frame(type, r) \in [type : {"reply", "refusal", "event"}, id : Ids, owner : Callers]
    BY <1>2 DEF Frame
  <2>2. Frame(type, r) \in Frames
    BY <2>1 DEF Frames
  <2> QED BY <2>2 DEF Frame
<1>4. /\ wire' \in Seq(Frames)
      /\ \A i \in DOMAIN wire' : wire'[i] = f \/ (i \in DOMAIN wire /\ wire'[i] = wire[i])
  BY <1>1, <1>3, WirePush DEF IInv, TypeOK
<1>5. strays' \in 0 .. MaxStray
  BY <1>1, ClientAssumption DEF IInv, TypeOK
<1>6. ASSUME NEW e \in Entries, IsRequest(e)' PROVE Known(e)
  BY <1>1, <1>2, <1>3, <1>4, <1>6 DEF IsRequest, Known
<1> QED BY <1>1, <1>4, <1>5, <1>6, TrafficMoves DEF IInv, TypeOK, Shape

\* The server closes the connection.
LEMMA ServerClosesStep ==
  ASSUME IInv, ServerCloses
  PROVE  IInv'
<1>1. PICK f \in Frames : f = [type |-> "eof"] /\ f.type = "eof"
  <2>1. [type |-> "eof"] \in Frames /\ [type |-> "eof"].type = "eof"
    BY DEF Frames
  <2> QED BY <2>1
<1>2. /\ Connected /\ wire' = Append(wire, f)
      /\ UNCHANGED <<handleVars, queueVars, prune, epc, hand, pending, subs, requested, dialVars, strays>>
  BY <1>1 DEF ServerCloses
<1>3. /\ wire' \in Seq(Frames)
      /\ \A i \in DOMAIN wire' : wire'[i] = f \/ (i \in DOMAIN wire /\ wire'[i] = wire[i])
  BY <1>2, WirePush DEF IInv, TypeOK
<1>4. \A e \in Entries : IsRequest(e)' => Known(e)
  BY <1>1, <1>2, <1>3 DEF IsRequest, Known
<1> QED BY <1>2, <1>3, <1>4, TrafficMoves DEF IInv, TypeOK, Shape

\* The tables lose entries; an answer is given to whoever waited for one that
\* is gone.
LEMMA TablesShrink ==
  ASSUME IInv, Connected, epc \notin {"exec", "send"}, NEW G \in SUBSET Entries,
         \A e \in G : Tabled(e),
         pending' \subseteq pending, subs' \subseteq subs,
         \A e \in Entries : Tabled(e) /\ Waits(e) => (Tabled(e)' <=> e \notin G),
         answer' \in [Callers -> Callers \union {None, Dropped}],
         \A c \in Callers : \/ answer'[c] = answer[c]
                            \/ answer[c] = None /\ answer'[c] = c,
         \A c \in Callers : answer'[c] # answer[c] <=>
                              answer[c] = None /\ \E e \in G : e.owner = c /\ Waits(e),
         wire' \in Seq(Frames), \A e \in Entries : IsRequest(e)' => IsRequest(e),
         epc' = "recv", epc = "sweep" => \A e \in pending' : Waits(e),
         UNCHANGED <<caller, holds, owes, nextId, queueVars, prune, hand, requested, dialVars, strays>>
  PROVE  IInv'
<1> USE DEF IInv
<1>1. TypeOK'
  BY DEF TypeOK, queueVars, dialVars
<1>2. Shape'
  BY DEF Shape, Connected, queueVars, Waits
<1>3. /\ \A x : InQueue(x)' = InQueue(x) /\ ~InHand(x)' /\ ~InHand(x)
      /\ \A e : Waits(e)' = Waits(e)
  BY DEF InQueue, InHand, Waits, queueVars
<1>4. IdsOwned'
  <2>1. \A e \in Entries : /\ IsCall(e)' => IsCall(e)
                           /\ IsSub(e)' => IsSub(e)
                           /\ Cancelling(e)' /\ Waits(e)' => Cancelling(e) /\ Waits(e)
    BY <1>3 DEF IsCall, IsSub, Cancelling
  <2> QED BY <2>1, IdsKept DEF Known
<1>5. \A e \in Entries : /\ Queued(e)' <=> Queued(e)
                         /\ ~Held(e) /\ ~Held(e)'
                         /\ Tabled(e)' => Tabled(e)
  BY <1>3 DEF Queued, Held, Tabled
<1>6. SenderOnce'
  BY <1>5 DEF SenderOnce, queueVars
<1>7. AnswerOrSender'
  <2> SUFFICES ASSUME NEW e \in Entries, Waits(e)
               PROVE  answer'[e.owner] = None <=> HasSender(e)'
    BY <1>3 DEF AnswerOrSender
  <2>1. answer[e.owner] = None <=> HasSender(e)
    BY DEF AnswerOrSender
  <2>2. CASE e \in G
    <3>1. Tabled(e) /\ ~Tabled(e)' /\ ~Queued(e)
      BY <2>2 DEF SenderOnce
    <3>2. answer'[e.owner] = e.owner
      BY <2>1, <2>2, <3>1, EntryParts DEF HasSender
    <3> QED BY <1>5, <3>1, <3>2, EntryParts, ClientAssumption DEF HasSender
  <2>3. CASE e \notin G
    <3>1. \A f \in G : f.owner = e.owner /\ Waits(f) => f.id = e.id
      BY DEF Waits
    <3>2. \A f \in G : ~(f.owner = e.owner /\ Waits(f))
      BY <2>3, <3>1, EntryParts
    <3>3. answer'[e.owner] = answer[e.owner]
      BY <3>2, EntryParts
    <3> QED BY <1>5, <2>1, <2>3, <3>3 DEF HasSender
  <2> QED BY <2>2, <2>3
<1>8. AllFreed'
  <2> SUFFICES ASSUME NEW e \in pending' PROVE Freed(e)'
    BY DEF AllFreed
  <2>1. Freed(e) /\ e \in pending
    BY DEF AllFreed
  <2> QED BY <1>3, <2>1 DEF Freed
<1>9. OwnReply'
  BY DEF OwnReply
<1> QED BY <1>1, <1>2, <1>4, <1>6, <1>7, <1>8, <1>9

\* An event prunes a sink nobody reads; a reply or a refusal reaches the entry
\* with its id, which is its owner's.
LEMMA RecvStep ==
  ASSUME IInv, NEW full \in BOOLEAN, Recv(full)
  PROVE  IInv'
<1> USE DEF IInv
<1>1. /\ epc = "recv" /\ wire # <<>> /\ wire' = Tail(wire) /\ Head(wire).type # "eof"
      /\ UNCHANGED <<caller, holds, owes, nextId, queueVars, prune, epc, hand, requested, dialVars, strays>>
      /\ Connected /\ wire \in Seq(Frames)
  BY DEF Recv, Connected, TypeOK
<1>2. PICK f \in Frames : f = Head(wire)
  BY <1>1, WirePop
<1>3. /\ wire' \in Seq(Frames)
      /\ \A i \in DOMAIN wire' : i + 1 \in DOMAIN wire /\ wire'[i] = wire[i + 1]
      /\ 1 \in DOMAIN wire /\ wire[1] = f
  BY <1>1, <1>2, WirePop
<1>4. f.type \in {"reply", "refusal", "event"} /\ f.id \in Ids /\ f.owner \in Callers
  BY <1>1, <1>2 DEF Frames
<1>5. \A e \in Entries : IsRequest(e)' => IsRequest(e)
  BY <1>1, <1>3 DEF IsRequest
<1>6. CASE f.type = "event"
  <2>1. /\ subs' = IF full THEN subs ELSE {e \in subs : e.id # f.id \/ Waits(e)}
        /\ UNCHANGED <<pending, answer>>
    BY <1>2, <1>6 DEF Recv, OnEvent
  <2>2. \A e \in Entries : Tabled(e) /\ Waits(e) => Tabled(e)'
    BY <2>1 DEF Tabled
  <2>3. answer' \in [Callers -> Callers \union {None, Dropped}]
    BY <2>1 DEF TypeOK
  <2>4. subs' \subseteq subs
    BY <2>1
  <2>5. PICK G \in SUBSET Entries : G = {}
    OBVIOUS
  <2> QED BY <1>1, <1>3, <1>5, <2>1, <2>2, <2>3, <2>4, <2>5, TablesShrink
<1>7. CASE f.type # "event"
  <2> DEFINE hit  == {e \in pending : e.id = f.id}
             gone == IF hit = {} /\ f.type = "refusal" THEN {e \in subs : e.id = f.id} ELSE {}
  <2>1. /\ pending' = pending \ hit /\ subs' = subs \ gone
        /\ answer' = [c \in Callers |->
                        IF answer[c] = None /\ \E e \in hit \union gone : e.owner = c /\ Waits(e)
                        THEN f.owner ELSE answer[c]]
    BY <1>2, <1>7 DEF Recv, OnReply
  <2>2. PICK G \in SUBSET Entries : G = hit \union gone
    BY DEF TypeOK
  <2>3. \A e \in G : Tabled(e) /\ e.id = f.id
    BY <2>2 DEF Tabled
  <2>4. ASSUME NEW e \in G PROVE e.owner = f.owner
    <3>1. Known(e)
      BY <2>3 DEF Tabled, Known, IsCall, IsSub
    <3>2. PICK g \in Entries : g.id = f.id /\ g.owner = f.owner
      BY <1>4, EntryParts
    <3>3. Known(g)
      BY <1>1, <1>2, <1>3, <3>2 DEF Known, IsRequest
    <3> QED BY <2>3, <3>1, <3>2, <3>3 DEF IdsOwned
  <2>5. ASSUME NEW e \in Entries, Tabled(e) PROVE Tabled(e)' <=> e \notin G
    <3>1. ~(e \in pending /\ e \in subs)
      BY DEF IdsOwned, IsCall, IsSub
    <3> QED BY <2>1, <2>2, <2>5, <3>1 DEF Tabled
  <2>6. pending' \subseteq pending /\ subs' \subseteq subs
    BY <2>1
  <2>7. answer' \in [Callers -> Callers \union {None, Dropped}]
    BY <1>4, <2>1 DEF TypeOK
  <2>8. \A c \in Callers :
          answer'[c] = IF answer[c] = None /\ \E e \in G : e.owner = c /\ Waits(e)
                       THEN f.owner ELSE answer[c]
    BY <2>1, <2>2
  <2>9. \A c \in Callers : \/ answer'[c] = answer[c]
                           \/ answer[c] = None /\ answer'[c] = c
    BY <2>4, <2>8
  <2>10. \A c \in Callers : answer'[c] # answer[c] <=>
                              answer[c] = None /\ \E e \in G : e.owner = c /\ Waits(e)
    BY <1>4, <2>8, ClientAssumption
  <2> HIDE DEF hit, gone
  <2> QED BY <1>1, <1>3, <1>5, <2>3, <2>5, <2>6, <2>7, <2>9, <2>10, TablesShrink
<1> QED BY <1>6, <1>7

\* The sweep removes what nobody waits for.
LEMMA SweepStep ==
  ASSUME IInv, Sweep
  PROVE  IInv'
<1> USE DEF IInv
<1>1. /\ epc = "sweep" /\ epc' = "recv" /\ pending' = {e \in pending : Waits(e)}
      /\ UNCHANGED <<handleVars, queueVars, prune, hand, subs, wire, requested, dialVars, strays>>
      /\ Connected
  BY DEF Sweep, Connected
<1>2. \A e \in Entries : Tabled(e) /\ Waits(e) => Tabled(e)'
  BY <1>1 DEF Tabled
<1>3. \A e \in Entries : IsRequest(e)' => IsRequest(e)
  BY <1>1 DEF IsRequest
<1>4. answer' \in [Callers -> Callers \union {None, Dropped}] /\ wire' \in Seq(Frames)
  BY <1>1 DEF TypeOK, handleVars
<1>5. PICK G \in SUBSET Entries : G = {}
  OBVIOUS
<1>6. pending' \subseteq pending /\ \A e \in pending' : Waits(e)
  BY <1>1
<1> QED BY <1>1, <1>2, <1>3, <1>4, <1>5, <1>6, TablesShrink DEF handleVars

\* The engine takes a command.
LEMMA TakeCmd ==
  ASSUME IInv, epc = "cmd", queue # <<>>, hand' = Head(queue), queue' = Tail(queue), epc' = "exec",
         UNCHANGED <<handleVars, qclosed, prune, connVars, dialVars, strays>>
  PROVE  IInv'
<1> USE DEF IInv
<1>1. PICK h \in Cmds : h = Head(queue)
  BY DEF TypeOK
<1>2. /\ queue \in Seq(Cmds) /\ Len(queue) <= QueueCap /\ queue' \in Seq(Cmds)
      /\ Len(queue') = Len(queue) - 1 /\ hand' = h
      /\ \A x : InQueue(x) <=> InQueue(x)' \/ x = h
      /\ Once(queue') /\ (IsSender(h) => \A x \in Cmds : InQueue(x)' /\ IsSender(x) => x.id # h.id)
  BY <1>1, PopFacts DEF TypeOK, SenderOnce
<1>3. TypeOK'
  <2>1. Len(queue') <= QueueCap
    BY <1>2, ClientAssumption
  <2> QED BY <1>2, <2>1 DEF TypeOK, handleVars, connVars, dialVars
<1>4. Shape'
  BY <1>2 DEF Shape, Connected, handleVars, connVars
<1>5. \A x : (InQueue(x)' \/ InHand(x)' <=> InQueue(x) \/ InHand(x)) /\ (InHand(x)' <=> x = h)
  BY <1>2 DEF InHand
<1>6. \A e : Waits(e)' = Waits(e)
  BY DEF Waits, handleVars
<1>7. IdsOwned'
  <2>1. \A e \in Entries : /\ IsCall(e)' => IsCall(e)
                           /\ IsSub(e)' => IsSub(e)
                           /\ IsRequest(e)' => IsRequest(e)
                           /\ Cancelling(e)' /\ Waits(e)' => Cancelling(e) /\ Waits(e)
    BY <1>5, <1>6 DEF IsCall, IsSub, IsRequest, Cancelling, handleVars, connVars
  <2> QED BY <2>1, IdsKept DEF Known, handleVars
<1>8. ASSUME NEW e \in Entries
      PROVE  /\ ~Held(e) /\ (Tabled(e)' <=> Tabled(e))
             /\ Queued(e) <=> Queued(e)' \/ Held(e)'
             /\ ~(Queued(e)' /\ Held(e)')
  <2>1. \A t \in {"call", "sub"} :
          LET x == Cmd(t, e.id, e.owner) IN x \in Cmds /\ IsSender(x) /\ x.id = e.id
    BY CmdParts, EntryParts DEF IsSender
  <2>2. ~Held(e) /\ (Tabled(e)' <=> Tabled(e))
    BY DEF Held, Tabled, connVars
  <2>3. Held(e)' <=> \E t \in {"call", "sub"} : h = Cmd(t, e.id, e.owner)
    BY <1>2 DEF Held
  <2>4. Queued(e) <=> Queued(e)' \/ Held(e)'
    BY <1>2, <2>3 DEF Queued
  <2>5. ~(Queued(e)' /\ Held(e)')
    BY <1>2, <2>1, <2>3 DEF Queued
  <2> QED BY <2>2, <2>4, <2>5
<1>9. SenderOnce' /\ AnswerOrSender'
  BY <1>2, <1>6, <1>8 DEF SenderOnce, AnswerOrSender, HasSender, handleVars
<1>10. AllFreed'
  <2> SUFFICES ASSUME NEW e \in pending PROVE Freed(e)'
    BY DEF AllFreed, connVars
  <2>1. Freed(e)
    BY DEF AllFreed
  <2> QED BY <1>2, <1>6, <2>1 DEF Freed, handleVars
<1>11. OwnReply'
  BY DEF OwnReply, handleVars
<1> QED BY <1>3, <1>4, <1>7, <1>9, <1>10, <1>11

\* The command arm: a command is taken, nothing is there, or no handle is left.
LEMMA PollCmdStep ==
  ASSUME IInv, PollCmd
  PROVE  IInv'
<1>1. epc = "cmd" /\ UNCHANGED <<caller, holds, owes, nextId, prune, attempt, strays>>
  BY DEF PollCmd
<1>2. CASE /\ queue # <<>> /\ hand' = Head(queue) /\ queue' = Tail(queue) /\ epc' = "exec"
           /\ UNCHANGED <<answer, qclosed, why, connVars>>
  BY <1>1, <1>2, TakeCmd DEF dialVars, handleVars
<1>3. CASE queue = <<>> /\ epc' = "recv" /\ UNCHANGED <<answer, hand, queueVars, why, connVars>>
  BY <1>1, <1>3, EngineMoves DEF Connected, IInv, TypeOK, handleVars
<1>4. CASE /\ queue = <<>> /\ Stop("unused") /\ answer' = WithDropped(pending \union subs)
           /\ pending' = {} /\ subs' = {} /\ wire' = <<>> /\ requested' = {}
           /\ UNCHANGED <<hand, queue>>
  <2>1. attempt' \in 0 .. AttemptTop /\ hand' \in Cmds \union {None}
    BY <1>1, <1>4 DEF IInv, TypeOK
  <2> QED BY <1>1, <1>4, <2>1, ConnectionEnds DEF Stop
<1> QED BY <1>2, <1>3, <1>4 DEF PollCmd

\* The sender in hand moves to a table: it was in neither, so no other sender
\* is pushed out.
LEMMA SenderTabled ==
  ASSUME IInv, epc = "exec", epc' = "send", NEW h \in Cmds, h = hand, NEW e0 \in Entries, e0 = Entry(h),
         \/ /\ h.type = "call" /\ Waits(e0)
            /\ pending' = {e \in pending : e.id # h.id} \union {e0} /\ subs' = subs
            /\ answer' = WithDropped({e \in pending : e.id = h.id})
         \/ /\ h.type = "sub"
            /\ subs' = {e \in subs : e.id # h.id} \union {e0} /\ pending' = pending
            /\ answer' = WithDropped({e \in subs : e.id = h.id}),
         UNCHANGED <<caller, holds, owes, nextId, queueVars, prune, hand, wire, requested, dialVars, strays>>
  PROVE  IInv'
<1> USE DEF IInv
<1>1. h = Cmd(h.type, e0.id, e0.owner) /\ h.type \in {"call", "sub"} /\ e0.id = h.id /\ e0.owner = h.owner
  BY CmdParts, EntryParts
<1>2. Held(e0) /\ ~Tabled(e0) /\ ~Queued(e0)
  BY <1>1 DEF Held, SenderOnce
<1>3. ASSUME NEW e \in pending \union subs PROVE e.id # h.id
  <2>1. e \in Entries /\ Known(e) /\ Tabled(e)
    BY DEF TypeOK, Known, IsCall, IsSub, Tabled
  <2>2. Known(e0)
    BY <1>1 DEF Known, IsCall, IsSub, InHand
  <2>3. e.id = e0.id => e = e0
    BY <2>1, <2>2, EntryParts DEF IdsOwned
  <2> QED BY <1>1, <1>2, <2>1, <2>3
<1>4. /\ answer' = answer
      /\ \/ h.type = "call" /\ Waits(e0) /\ pending' = pending \union {e0} /\ subs' = subs
         \/ h.type = "sub" /\ subs' = subs \union {e0} /\ pending' = pending
  <2>1. {e \in pending : e.id = h.id} = {} /\ {e \in subs : e.id = h.id} = {}
    BY <1>3
  <2>2. {e \in pending : e.id # h.id} = pending /\ {e \in subs : e.id # h.id} = subs
    BY <1>3
  <2>3. WithDropped({}) = answer
    BY DEF WithDropped, TypeOK
  <2> QED BY <2>1, <2>2, <2>3
<1>5. TypeOK'
  BY <1>4 DEF TypeOK, queueVars, dialVars
<1>6. Shape'
  BY <1>1, <1>4 DEF Shape, Connected, queueVars
<1>7. /\ \A x : InQueue(x)' = InQueue(x) /\ InHand(x)' = InHand(x)
      /\ \A e : Waits(e)' = Waits(e)
  BY DEF InQueue, InHand, Waits, queueVars
<1>8. IdsOwned'
  <2>1. h.type = "call" => IsCall(e0)
    BY <1>1 DEF IsCall, InHand
  <2>2. h.type = "sub" => IsSub(e0)
    BY <1>1 DEF IsSub, InHand
  <2>3. \A e \in Entries : IsCall(e)' => IsCall(e)
    BY <1>4, <1>7, <2>1 DEF IsCall
  <2>4. \A e \in Entries : IsSub(e)' => IsSub(e)
    BY <1>4, <1>7, <2>2 DEF IsSub
  <2>5. \A e \in Entries : /\ IsRequest(e)' => IsRequest(e)
                           /\ Cancelling(e)' /\ Waits(e)' => Cancelling(e) /\ Waits(e)
    BY <1>7 DEF IsRequest, Cancelling
  <2> QED BY <2>3, <2>4, <2>5, IdsKept DEF Known
<1>9. ASSUME NEW e \in Entries
      PROVE  /\ Queued(e)' <=> Queued(e)
             /\ ~Held(e)' /\ (Held(e) <=> e = e0)
             /\ Tabled(e)' <=> Tabled(e) \/ e = e0
  <2>1. \A t \in {"call", "sub"} : h = Cmd(t, e.id, e.owner) => e = e0
    BY <1>1, CmdParts, EntryParts
  <2>2. Queued(e)' <=> Queued(e)
    BY <1>7 DEF Queued
  <2>3. ~Held(e)' /\ (Held(e) <=> e = e0)
    BY <1>2, <2>1 DEF Held
  <2>4. Tabled(e)' <=> Tabled(e) \/ e = e0
    BY <1>4 DEF Tabled
  <2> QED BY <2>2, <2>3, <2>4
<1>10. SenderOnce' /\ AnswerOrSender'
  BY <1>2, <1>4, <1>7, <1>9 DEF SenderOnce, AnswerOrSender, HasSender, queueVars
<1>11. AllFreed'
  <2> SUFFICES ASSUME NEW e \in pending' PROVE Freed(e)'
    BY DEF AllFreed
  <2>1. CASE e \in pending
    <3>1. Freed(e)
      BY <2>1 DEF AllFreed
    <3>2. hand # Cmd("cancel", e.id, e.owner)
      BY <1>1, <2>1, CmdParts, EntryParts DEF TypeOK
    <3> QED BY <1>7, <3>1, <3>2 DEF Freed
  <2>2. CASE e \notin pending
    BY <1>4, <1>7, <2>2 DEF Freed
  <2> QED BY <2>1, <2>2
<1>12. OwnReply'
  BY <1>4 DEF OwnReply
<1> QED BY <1>5, <1>6, <1>8, <1>10, <1>11, <1>12

\* The command in hand is served without a sender being kept: a write, a
\* cancellation, or a call whose caller is gone.
LEMMA HandDone ==
  ASSUME IInv, epc = "exec", NEW h \in Cmds, h = hand,
         \/ h.type = "write" /\ epc' = "send" /\ hand' = hand /\ pending' = pending
         \/ /\ h.type = "cancel" /\ epc' = "recv" /\ hand' = None
            /\ pending' = {e \in pending : e.id # h.id}
         \/ /\ h.type = "call" /\ ~Waits(h) /\ epc' = "recv" /\ hand' = None /\ pending' = pending,
         UNCHANGED <<caller, holds, answer, owes, nextId, queueVars, prune, subs, wire, requested, dialVars, strays>>
  PROVE  IInv'
<1> USE DEF IInv
<1>1. TypeOK'
  BY DEF TypeOK, queueVars, dialVars
<1>2. Shape'
  BY DEF Shape, Connected, queueVars
<1>3. /\ \A x : InQueue(x)' = InQueue(x) /\ (InHand(x)' => InHand(x))
      /\ \A e : Waits(e)' = Waits(e)
      /\ pending' \subseteq pending
  BY DEF InQueue, InHand, Waits, queueVars
<1>4. IdsOwned'
  <2>1. \A e \in Entries : /\ IsCall(e)' => IsCall(e)
                           /\ IsSub(e)' => IsSub(e)
                           /\ IsRequest(e)' => IsRequest(e)
                           /\ Cancelling(e)' /\ Waits(e)' => Cancelling(e) /\ Waits(e)
    BY <1>3 DEF IsCall, IsSub, IsRequest, Cancelling
  <2> QED BY <2>1, IdsKept DEF Known
<1>5. ASSUME NEW e \in Entries
      PROVE  /\ Queued(e)' <=> Queued(e)
             /\ ~Held(e)' /\ (Held(e) => ~Waits(e))
             /\ Tabled(e)' => Tabled(e)
             /\ Waits(e) /\ Tabled(e) => Tabled(e)'
  <2>1. Queued(e)' <=> Queued(e)
    BY <1>3 DEF Queued
  <2>2. ~Held(e)' /\ (Held(e) => ~Waits(e))
    <3>1. ASSUME NEW t \in {"call", "sub"}, h = Cmd(t, e.id, e.owner) PROVE ~Waits(e)
      <4>1. h.type = "call" /\ h.id = e.id /\ h.owner = e.owner
        BY <3>1, CmdParts, EntryParts
      <4> QED BY <4>1 DEF Waits
    <3>2. ~Held(e)'
      <4>1. \A t \in {"call", "sub"} : Cmd(t, e.id, e.owner).type # "write"
        BY CmdParts, EntryParts
      <4> QED BY <4>1 DEF Held
    <3> QED BY <3>1, <3>2 DEF Held
  <2>3. Tabled(e)' => Tabled(e)
    BY <1>3 DEF Tabled
  <2>4. ASSUME Waits(e), Tabled(e), ~Tabled(e)' PROVE FALSE
    <3>1. h.type = "cancel" /\ e.id = h.id /\ e \in pending
      BY <2>4 DEF Tabled
    <3>2. PICK g \in Entries : g.id = h.id /\ g.owner = h.owner /\ h = Cmd("cancel", g.id, g.owner)
      BY <3>1, CmdParts, EntryParts
    <3>3. Cancelling(g) /\ Known(g) /\ Known(e)
      BY <3>1, <3>2 DEF Cancelling, Known, IsCall, InHand
    <3>4. g = e
      BY <3>1, <3>2, <3>3, EntryParts DEF IdsOwned
    <3> QED BY <2>4, <3>3, <3>4 DEF IdsOwned
  <2> QED BY <2>1, <2>2, <2>3, <2>4
<1>6. SenderOnce' /\ AnswerOrSender'
  BY <1>3, <1>5 DEF SenderOnce, AnswerOrSender, HasSender, queueVars
<1>7. AllFreed'
  <2> SUFFICES ASSUME NEW e \in pending' PROVE Freed(e)'
    BY DEF AllFreed
  <2>1. Freed(e) /\ e \in Entries
    BY <1>3 DEF AllFreed, TypeOK
  <2>2. h # Cmd("cancel", e.id, e.owner)
    BY <2>1, CmdParts, EntryParts
  <2> QED BY <1>3, <2>1, <2>2 DEF Freed
<1>8. OwnReply'
  BY DEF OwnReply
<1> QED BY <1>1, <1>2, <1>4, <1>6, <1>7, <1>8

\* The command in hand is served.
LEMMA ExecStep ==
  ASSUME IInv, Exec
  PROVE  IInv'
<1>1. /\ epc = "exec" /\ hand \in Cmds
      /\ UNCHANGED <<caller, holds, owes, nextId, queueVars, prune, wire, requested, dialVars, strays>>
  BY DEF Exec, IInv, Shape
<1>2. PICK h \in Cmds : h = hand
  BY <1>1
<1>3. h.type \in {"call", "sub", "write", "cancel"}
  BY CmdParts
<1>4. CASE (h.type = "call" /\ Waits(h)) \/ h.type = "sub"
  <2>1. PICK e0 \in Entries : e0 = Entry(h) /\ e0.id = h.id /\ e0.owner = h.owner
    BY <1>4, CmdParts, EntryParts
  <2>2. Waits(h) <=> Waits(e0)
    BY <2>1 DEF Waits
  <2>3. \/ /\ h.type = "call" /\ Waits(e0) /\ epc' = "send" /\ hand' = hand
           /\ pending' = {e \in pending : e.id # h.id} \union {e0} /\ subs' = subs
           /\ answer' = WithDropped({e \in pending : e.id = h.id})
        \/ /\ h.type = "sub" /\ epc' = "send" /\ hand' = hand
           /\ subs' = {e \in subs : e.id # h.id} \union {e0} /\ pending' = pending
           /\ answer' = WithDropped({e \in subs : e.id = h.id})
    BY <1>2, <1>4, <2>1, <2>2 DEF Exec
  <2> QED BY <1>1, <1>2, <2>1, <2>3, SenderTabled
<1>5. CASE ~((h.type = "call" /\ Waits(h)) \/ h.type = "sub")
  <2>1. /\ UNCHANGED <<subs, answer>>
        /\ \/ h.type = "write" /\ epc' = "send" /\ hand' = hand /\ pending' = pending
           \/ /\ h.type = "cancel" /\ epc' = "recv" /\ hand' = None
              /\ pending' = {e \in pending : e.id # h.id}
           \/ /\ h.type = "call" /\ ~Waits(h) /\ epc' = "recv" /\ hand' = None /\ pending' = pending
    BY <1>2, <1>3, <1>5 DEF Exec
  <2> QED BY <1>1, <1>2, <2>1, HandDone
<1> QED BY <1>4, <1>5

\* The frame is sent: the server holds the request from now on.
LEMMA SentStep ==
  ASSUME IInv, Sent
  PROVE  IInv'
<1> USE DEF IInv
<1>1. /\ epc = "send" /\ epc' = "recv" /\ hand' = None /\ hand \in Cmds
      /\ requested' = requested \union (IF hand.type = "write" THEN {} ELSE {hand})
      /\ UNCHANGED <<handleVars, queueVars, prune, pending, subs, wire, dialVars, strays>>
  BY DEF Sent, Shape
<1>2. PICK h \in Cmds : h = hand /\ h.type # "cancel"
  BY <1>1 DEF Shape
<1>3. \A r \in requested' : IsSender(r) /\ r \in Cmds
  BY <1>1, <1>2, CmdParts DEF Shape, TypeOK, IsSender
<1>4. TypeOK' /\ Shape'
  BY <1>1, <1>3 DEF TypeOK, Shape, Connected, handleVars, queueVars, dialVars
<1>5. /\ \A x : InQueue(x)' = InQueue(x) /\ ~InHand(x)'
      /\ \A e : Waits(e)' = Waits(e)
  BY <1>1 DEF InQueue, InHand, Waits, queueVars, handleVars
<1>6. IdsOwned'
  <2>1. ASSUME NEW e \in Entries
        PROVE  /\ (IsCall(e)' => IsCall(e)) /\ (IsSub(e)' => IsSub(e)) /\ (IsRequest(e)' => Known(e))
               /\ Cancelling(e)' /\ Waits(e)' => Cancelling(e) /\ Waits(e)
    <3>1. (IsCall(e)' => IsCall(e)) /\ (IsSub(e)' => IsSub(e))
      BY <1>1, <1>5 DEF IsCall, IsSub, handleVars
    <3>2. IsRequest(e)' => Known(e)
      BY <1>1 DEF IsRequest, Known, IsCall, IsSub, InHand
    <3>3. Cancelling(e)' /\ Waits(e)' => Cancelling(e) /\ Waits(e)
      BY <1>5 DEF Cancelling
    <3> QED BY <3>1, <3>2, <3>3
  <2> QED BY <1>1, <2>1, IdsKept DEF handleVars
<1>7. \A e : /\ Queued(e)' = Queued(e) /\ ~Held(e)' /\ ~Held(e)
            /\ Tabled(e)' = Tabled(e)
  BY <1>1 DEF Queued, InQueue, Held, Tabled, queueVars
<1>8. SenderOnce' /\ AnswerOrSender' /\ OwnReply'
  BY <1>1, <1>5, <1>7 DEF SenderOnce, AnswerOrSender, HasSender, OwnReply, queueVars, handleVars
<1>9. AllFreed'
  BY <1>1, <1>5 DEF AllFreed, Freed, handleVars
<1> QED BY <1>4, <1>6, <1>8, <1>9

-----------------------------------------------------------------------------
\* Every step keeps the invariant.
LEMMA NextIInv == IInv /\ [Next]_vars => IInv'
<1> SUFFICES ASSUME IInv, [Next]_vars PROVE IInv'
  OBVIOUS
<1>1. ASSUME NEW c \in Callers, Handle(c) PROVE IInv'
  <2>1. Call(c) => IInv'
    BY RequestStep DEF Call
  <2>2. Subscribe(c) => IInv'
    BY RequestStep DEF Subscribe
  <2> QED
    BY <1>1, <2>1, <2>2, WriteStep, AbandonStep, DropStreamStep, DropHandleStep, CancelOnDropStep,
       RequestPruneStep, ResolveStep
    DEF Handle, Guard
<1>2. CASE Dialing
  <2>1. Dial => IInv'
    BY EngineMoves, ClientAssumption DEF Dial, Connected, IInv, TypeOK
  <2>2. Redial => IInv'
    BY EngineMoves DEF Redial, Connected, IInv, TypeOK
  <2> QED BY <1>2, <2>1, <2>2, DialFailsStep, DrainStep DEF Dialing
<1>3. CASE Serving
  <2>1. RecvEof \/ SendFails => IInv'
    BY DisconnectStep DEF RecvEof, SendFails
  <2>2. NothingToRecv => IInv'
    BY EngineMoves DEF NothingToRecv, Connected, IInv, TypeOK, dialVars
  <2>3. PollPrune => IInv'
    BY EngineMoves DEF PollPrune, Connected, IInv, TypeOK, dialVars
  <2> QED BY <1>3, <2>1, <2>2, <2>3, RecvStep, SweepStep, PollCmdStep, ExecStep, SentStep DEF Serving
<1>4. CASE HelloDone
  BY <1>4, EngineMoves DEF HelloDone, Connected, IInv, TypeOK, dialVars
<1>5. CASE HelloFails \/ KeepaliveFails
  BY <1>5, DisconnectStep DEF HelloFails, KeepaliveFails
<1>6. CASE Server
  BY <1>6, ServerFrameStep, ServerClosesStep DEF Server
<1>7. CASE Finished \/ UNCHANGED vars
  <2> USE DEF IInv
  <2>1. UNCHANGED <<handleVars, queueVars, prune, epc, hand, connVars, dialVars, strays>>
    BY <1>7 DEF Finished, vars
  <2>2. TypeOK' /\ Shape'
    BY <2>1 DEF TypeOK, Shape, Connected, handleVars, queueVars, connVars, dialVars
  <2>3. \A e : /\ IsCall(e)' = IsCall(e) /\ IsSub(e)' = IsSub(e) /\ IsRequest(e)' = IsRequest(e)
              /\ Queued(e)' = Queued(e) /\ Held(e)' = Held(e) /\ Tabled(e)' = Tabled(e)
              /\ Waits(e)' = Waits(e) /\ Freed(e)' = Freed(e) /\ Cancelling(e)' = Cancelling(e)
    BY <2>1 DEF IsCall, IsSub, IsRequest, InQueue, InHand, Queued, Held, Tabled, Waits, Freed,
                Cancelling, handleVars, queueVars, connVars
  <2>4. IdsOwned'
    BY <2>1, <2>3 DEF IdsOwned, Known, handleVars
  <2>5. SenderOnce' /\ AnswerOrSender' /\ AllFreed' /\ OwnReply'
    BY <2>1, <2>3 DEF SenderOnce, AnswerOrSender, HasSender, AllFreed, OwnReply, handleVars, queueVars,
                      connVars
  <2> QED BY <2>2, <2>4, <2>5
<1> QED BY <1>1, <1>2, <1>3, <1>4, <1>5, <1>6, <1>7 DEF Next

\* The inductive invariant holds of every behaviour: whoever waits has its
\* answer or exactly one sender, an id belongs to one request of one caller,
\* and what nobody waits for is about to be freed.
THEOREM Invariant == Spec => []IInv
  BY InitIInv, NextIInv, PTL DEF Spec

\* No abandoned call is forgotten by the engine's table (CancelOnDrop), and
\* the handles' and the engine's state is well typed.
THEOREM AbandonedIsRemembered == Spec => []NoLeakedCall
<1>1. IInv => NoLeakedCall
  <2> SUFFICES ASSUME IInv, NEW e \in pending
               PROVE  \/ Waits(e)
                      \/ InQueue(Cmd("cancel", e.id, e.owner)) \/ hand = Cmd("cancel", e.id, e.owner)
                      \/ prune \/ epc = "sweep" \/ owes # {}
                      \/ caller[e.owner] = [pc |-> "dropped", id |-> e.id]
    BY DEF IInv, NoLeakedCall
  <2>1. Freed(e) /\ e \in Entries /\ TypeOK
    BY DEF IInv, AllFreed, TypeOK
  <2>2. caller[e.owner] = [pc |-> caller[e.owner].pc, id |-> caller[e.owner].id]
    BY <2>1, EntryParts DEF TypeOK
  <2> QED BY <2>1, <2>2 DEF Freed
<1> QED BY <1>1, Invariant, PTL

\* No caller waits for a reply that nobody can send any more: its sender is
\* queued, in the engine's hand or in its tables (enqueue, DrainOnExit and the
\* drop of a connection's tables close every channel they abandon).
THEOREM EveryCallerServed == Spec => []NoCallerHangs
<1>1. IInv => NoCallerHangs
  <2> SUFFICES ASSUME IInv, NEW c \in Callers, caller[c].pc \in {"waiting", "streaming"}, answer[c] = None
               PROVE  LET e == [id |-> caller[c].id, owner |-> c]
                      IN  \/ e \in pending \union subs
                          \/ epc # "stopped" /\ \E i \in DOMAIN queue : SendersOf(queue[i]) = {e}
                          \/ epc = "exec" /\ SendersOf(hand) = {e}
    BY DEF NoCallerHangs
  <2> USE DEF IInv
  <2> DEFINE e == [id |-> caller[c].id, owner |-> c]
  <2>1. e \in Entries /\ e.id = caller[c].id /\ e.owner = c
    BY EntryParts DEF TypeOK
  <2> HIDE DEF e
  <2>2. HasSender(e)
    BY <2>1 DEF AnswerOrSender, Waits
  <2>3. \A t \in {"call", "sub"} : SendersOf(Cmd(t, e.id, e.owner)) = {e}
    BY <2>1, CmdParts, EntryParts DEF SendersOf
  <2>4. Queued(e) => epc # "stopped" /\ \E i \in DOMAIN queue : SendersOf(queue[i]) = {e}
    BY <2>3 DEF Queued, InQueue, Shape
  <2>5. Held(e) => epc = "exec" /\ SendersOf(hand) = {e}
    BY <2>3 DEF Held
  <2>6. \/ e \in pending \union subs
        \/ epc # "stopped" /\ \E i \in DOMAIN queue : SendersOf(queue[i]) = {e}
        \/ epc = "exec" /\ SendersOf(hand) = {e}
    BY <2>2, <2>4, <2>5 DEF HasSender, Tabled
  <2> QED BY <2>6 DEF e
<1> QED BY <1>1, Invariant, PTL

\* A reply reaches the caller whose request it answers, whatever the server
\* sends (next_id, and the tables' lookup by id).
THEOREM RepliesMatch == Spec => []OwnReply
<1>1. IInv => OwnReply
  BY DEF IInv
<1> QED BY <1>1, Invariant, PTL
=============================================================================
