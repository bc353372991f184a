---------------------------- MODULE MqttSession ----------------------------
(***************************************************************************)
(* The embedded MQTT backend: dial, run one session over the stream, wait, *)
(* repeat.  A session is one task with three arms: one lifts chunks off    *)
(* the socket, one writes the ring out, one holds all client state.  The   *)
(* arms run in that order whenever the task is polled; the third runs      *)
(* until it waits.                                                         *)
(*                                                                         *)
(* The broker may answer what it owes, publish, stay silent or hang up.    *)
(* A deadline may pass whenever the task waits; that of an awaited answer  *)
(* is kept, the next ping and the liveness window may be due at any time.  *)
(*                                                                         *)
(* Sources: aimdb-mqtt-connector/src/embedded/session.rs, session_loop.rs, *)
(* write_ring.rs, packet_reader.rs, manager.rs.                            *)
(***************************************************************************)
EXTENDS WriteRing, Sequences

CONSTANTS
  ConnectLen, SubscribeLen, PubackLen, PingLen, \* bytes of a packet
  FrameLens,    \* bytes a PUBLISH may take
  PubackRoom,   \* PUBACK_ROOM
  Topics,       \* number of subscriptions
  MaxBurst      \* publishes the broker may send in one chunk

ASSUME MqttAssumption ==
  /\ {RingCap, Reserve, ConnectLen, SubscribeLen, PubackLen, PingLen, PubackRoom} \subseteq Nat \ {0}
  /\ FrameLens \subseteq Nat \ {0} /\ Topics \in Nat
  /\ MaxBurst \in Nat
  \* prepare_outbound: what a session must send fits the ring.
  /\ fits(ConnectLen, 0) /\ fits(SubscribeLen, 0) /\ fits(PubackRoom, 0)
  /\ PubackLen <= PubackRoom

VARIABLES
  pc,        \* where the third arm, or the loop around the session, is
  turn,      \* whose turn in a poll: the two I/O arms or the third
  ring,      \* the ring's pointers
  queue,     \* the packets committed to the ring and not yet released
  writing,   \* bytes write_out is sending, 0 if none
  broker,    \* what the broker saw first in this session
  owes,      \* answers the broker owes
  chunk,     \* the chunk in the inbound channel
  head,      \* whole packets the reader holds
  connected, \* a CONNACK came
  awaiting,  \* the answer the client state waits for
  next,      \* next_topic
  outbound_done, \* no route will publish any more
  response   \* the deadline of the awaited answer

io == <<ring, queue, writing, broker, owes>>
inward == <<chunk, head>>
client == <<connected, awaiting, next, outbound_done>>
vars == <<pc, turn, io, inward, client, response>>

\* A packet in the ring: where its bytes start and how many they are.
Packets ==
  [kind : {"connect", "subscribe", "publish0", "publish1", "puback", "ping"},
   at : 0 .. RingCap, len : Nat \ {0}]
Answers == {"connack", "suback", "puback", "pingresp"}

TypeOK ==
  /\ pc \in {"dial", "connect", "top", "subscribe", "select", "parse", "over"}
  /\ turn \in {"io", "client"} /\ ring \in Rings /\ queue \in Seq(Packets)
  /\ writing \in 0 .. RingCap
  /\ Readable(ring) >= writing /\ broker \in {"nothing"} \cup {"connect", "other"}
  /\ owes \subseteq Answers
  /\ \A s \in {chunk, head} : s \in Seq(Answers \cup {"publish0", "publish1", "disconnect"})
  /\ connected \in BOOLEAN /\ outbound_done \in BOOLEAN
  /\ awaiting \in {"nothing"} \cup Answers /\ next \in 0 .. Topics
  /\ response \in {"off", "armed", "passed"}

Init ==
  /\ pc = "dial" /\ turn = "client"
  /\ ring = NewRing /\ queue = <<>> /\ writing = 0 /\ broker = "nothing" /\ owes = {}
  /\ chunk = <<>> /\ head = <<>>
  /\ connected = FALSE /\ awaiting = "nothing" /\ next = 0 /\ outbound_done = FALSE
  /\ response = "off"

(***************************************************************************)
(* run_sessions: the stream and what is left of the last session.          *)
(***************************************************************************)
\* A session that starts on the ring as it is.
KeptFull == UNCHANGED <<ring, queue>>

\* run_session discards what the last session left in the ring.
Emptied == ring' = drain(ring) /\ queue' = <<>>

\* A stream is dialled; run_session empties the ring.  The client sends its
\* CONNECT and waits for the CONNACK.
Dial ==
  /\ pc = "dial"
  /\ pc' = "connect" /\ turn' = "client"
  /\ Emptied /\ writing' = 0
  /\ broker' = "nothing" /\ owes' = {} /\ chunk' = <<>> /\ head' = <<>>
  /\ connected' = FALSE /\ awaiting' = "connack" /\ next' = 0 /\ outbound_done' = FALSE
  /\ response' = "armed"

\* The session ends; the ring keeps what is in it.
Over ==
  /\ pc' = "over" /\ turn' = "client"
  /\ writing' = 0 /\ chunk' = <<>> /\ head' = <<>> /\ owes' = {}
  /\ connected' = FALSE /\ awaiting' = "nothing" /\ next' = 0 /\ outbound_done' = FALSE
  /\ response' = "off"
  /\ UNCHANGED <<ring, queue, broker>>

Running == pc \notin {"dial", "over"}

\* reconnection_delay
Redial ==
  /\ pc = "over"
  /\ pc' = "dial"
  /\ UNCHANGED <<turn, io, inward, client, response>>

(***************************************************************************)
(* The two I/O arms.                                                       *)
(***************************************************************************)
Bursts == {<<"disconnect">>} \cup UNION {[1 .. n -> {"publish0", "publish1"}] : n \in 1 .. MaxBurst}

\* read_into: what the broker sent becomes the one chunk there may be.
ReadInto ==
  /\ Running /\ turn = "io" /\ chunk = <<>>
  /\ \/ \E a \in owes : chunk' = <<a>> /\ owes' = owes \ {a}
     \/ /\ broker = "connect" /\ "connack" \notin owes
        /\ chunk' \in Bursts /\ UNCHANGED owes
  /\ UNCHANGED <<pc, turn, ring, queue, writing, broker, head, client, response>>

ReadFails ==
  /\ Running /\ turn = "io" /\ chunk = <<>>
  /\ Over

\* write_out: what can be read without a wraparound is sent ...
WriteOut ==
  /\ Running /\ turn = "io" /\ writing = 0 /\ Readable(ring) > 0
  /\ writing' = Readable(ring) /\ ring' = Rewound(ring)
  /\ UNCHANGED <<pc, turn, queue, broker, owes, inward, client, response>>

AnswerTo(kind) ==
  CASE kind = "connect" -> {"connack"}
    [] kind = "subscribe" -> {"suback"}
    [] kind = "publish1" -> {"puback"}
    [] kind = "ping" -> {"pingresp"}
    [] OTHER -> {}

\* How many packets start in the bytes being sent.
Sending ==
  CHOOSE n \in 0 .. Len(queue) :
    \A i \in 1 .. Len(queue) :
      i <= n <=> queue[i].at >= ring.read /\ queue[i].at < ring.read + writing

\* ... and released once it is written and flushed.
Written ==
  /\ Running /\ turn = "io" /\ writing > 0
  /\ queue' = SubSeq(queue, Sending + 1, Len(queue))
  /\ owes' = owes \cup UNION {AnswerTo(queue[i].kind) : i \in 1 .. Sending}
  /\ broker' = IF broker # "nothing" \/ Sending = 0 THEN broker
               ELSE IF queue[1].kind = "connect" THEN "connect" ELSE "other"
  /\ ring' = Released(ring, writing) /\ writing' = 0
  /\ UNCHANGED <<pc, turn, inward, client, response>>

WriteFails ==
  /\ Running /\ turn = "io" /\ writing > 0
  /\ Over

(***************************************************************************)
(* client_loop.                                                            *)
(***************************************************************************)
putting == <<writing, broker, owes>>

\* put: the frame goes in once there is room for it; from is the ring as the
\* probes before left it.
Encode(from, kind, len, behind) ==
  /\ ring' = Put(from, len, behind)
  /\ queue' = Append(queue, [kind |-> kind, at |-> Grant(from, len + behind), len |-> len])
  /\ UNCHANGED putting

PutConnect ==
  /\ pc = "connect" /\ has_room(ring, ConnectLen)
  /\ Encode(ring, "connect", ConnectLen, 0)
  /\ pc' = "top"
  /\ UNCHANGED <<inward, client, response>>

Subscribing == connected /\ awaiting = "nothing" /\ next < Topics

\* The deadlines, then a subscription or the select.  A ping that is due goes
\* out if there is room.
Top ==
  /\ pc = "top" /\ response # "passed"
  /\ \/ UNCHANGED io
     \/ connected /\ has_room(ring, PingLen) /\ Encode(ring, "ping", PingLen, 0)
  /\ pc' = IF Subscribing THEN "subscribe" ELSE "select"
  /\ UNCHANGED <<inward, client, response>>

\* The broker was silent for too long, or did not answer.
GiveUp ==
  /\ pc = "top"
  /\ Over

\* A SUBSCRIBE whose answer has no deadline.
PutSubscribeUnarmed ==
  /\ pc = "subscribe" /\ has_room(ring, SubscribeLen)
  /\ Encode(ring, "subscribe", SubscribeLen, 0)
  /\ awaiting' = "suback" /\ next' = next + 1
  /\ pc' = "top"
  /\ UNCHANGED <<inward, connected, outbound_done, response>>

PutSubscribe ==
  /\ pc = "subscribe" /\ has_room(ring, SubscribeLen)
  /\ Encode(ring, "subscribe", SubscribeLen, 0)
  /\ awaiting' = "suback" /\ next' = next + 1
  /\ response' = "armed"
  /\ pc' = "top"
  /\ UNCHANGED <<inward, connected, outbound_done>>

\* The response deadline follows the client state at the bottom of the loop.
Bottom(waitsFor) ==
  /\ pc' = "top" /\ awaiting' = waitsFor
  /\ response' = IF waitsFor = "nothing" THEN "off"
                 ELSE IF response = "off" THEN "armed" ELSE response

publish_ready == connected /\ ~outbound_done /\ awaiting = "nothing" /\ next >= Topics
publish_room == max_publish + Reserve
Publishable(r) == publish_ready /\ has_room(r, publish_room)

\* The select: a chunk, a value if a route has one, a deadline, in this order.
ReceiveChunk ==
  /\ pc = "select" /\ chunk # <<>>
  /\ head' = head \o chunk /\ chunk' = <<>>
  /\ pc' = "parse"
  /\ UNCHANGED <<io, client, response>>

\* publish_staged; a frame that does not fit, or is larger than the broker
\* takes, is rejected before the state commits to it.
Publish ==
  /\ pc = "select" /\ chunk = <<>> /\ Publishable(ring)
  /\ \/ \E len \in FrameLens, qos \in {"publish0", "publish1"} :
          /\ fits(len, Reserve)
          /\ Encode(Probed(ring, publish_room), qos, len, Reserve)
          /\ Bottom(IF qos = "publish1" THEN "puback" ELSE "nothing")
     \/ /\ ring' = Probed(ring, publish_room) /\ UNCHANGED <<queue, putting>>
        /\ Bottom(awaiting)
  /\ UNCHANGED <<inward, connected, next, outbound_done>>

\* The packet handled is not consumed.
consumeNothing == UNCHANGED head
consume == head' = Tail(head)

\* drain_packets: one packet; a QoS 1 publish waits for room for its PUBACK.
Parse ==
  /\ pc = "parse" /\ head # <<>> /\ Head(head) # "disconnect"
  /\ LET p == Head(head)
     IN /\ \/ /\ p = "publish1" /\ has_room(ring, PubackRoom)
              /\ has_room(Probed(ring, PubackRoom), PubackLen)
              /\ Encode(Probed(ring, PubackRoom), "puback", PubackLen, 0)
           \/ p # "publish1" /\ UNCHANGED io
        /\ connected' = (connected \/ p = "connack")
        /\ awaiting' = IF p = awaiting THEN "nothing" ELSE awaiting
  /\ consume
  /\ UNCHANGED <<pc, chunk, next, outbound_done, response>>

Disconnected ==
  /\ pc = "parse" /\ head # <<>> /\ Head(head) = "disconnect"
  /\ Over

Parsed ==
  /\ pc = "parse" /\ head = <<>>
  /\ Bottom(awaiting)
  /\ UNCHANGED <<io, inward, connected, next, outbound_done>>

ClientStep ==
  \/ PutConnect \/ Top \/ PutSubscribe \/ ReceiveChunk \/ Publish \/ Parse \/ Parsed

\* What the third arm would do if it were polled and found the ring to be r.
Ready(r) ==
  \/ pc = "connect" /\ has_room(r, ConnectLen)
  \/ pc = "top"
  \/ pc = "subscribe" /\ has_room(r, SubscribeLen)
  \/ pc = "select" /\ (chunk # <<>> \/ Publishable(r))
  \/ pc = "parse" /\ (head = <<>> \/ Head(head) # "publish1" \/ has_room(r, PubackRoom))

Client == turn = "client" /\ ((ClientStep /\ UNCHANGED turn) \/ GiveUp \/ Disconnected)

\* write_out has nothing to start on; one that is not writing has looked, and its
\* read has gone back to the start if that is where data will be.
WriterWaits == writing > 0 \/ Readable(ring) = 0
Polled == IF writing = 0 THEN Rewound(ring) ELSE ring

\* A deadline wakes the task and neither other arm of the select is ready.
Wake ==
  /\ pc = "select" /\ turn = "io" /\ WriterWaits /\ chunk = <<>>
  /\ turn' = "client" /\ Bottom(awaiting) /\ ring' = Polled
  /\ UNCHANGED <<queue, writing, broker, owes, inward, connected, next, outbound_done>>

\* A poll reaches the third arm after write_out has had its turn, and ends when it
\* waits; a publish arm that waits has probed the ring, and if there was room it
\* has asked the routes, which may have told it that they are all closed.
Turn ==
  /\ Running
  /\ \/ /\ turn = "io" /\ Ready(Polled) /\ WriterWaits
        /\ turn' = "client" /\ ring' = Polled
        /\ UNCHANGED outbound_done
     \/ /\ turn = "client" /\ turn' = "io"
        /\ ~Ready(ring) \/ (pc = "select" /\ chunk = <<>>)
        /\ ring' = IF pc = "select" /\ publish_ready THEN Probed(ring, publish_room) ELSE ring
        /\ outbound_done' \in IF pc = "select" /\ Publishable(ring)
                             THEN BOOLEAN ELSE {outbound_done}
  /\ UNCHANGED <<pc, queue, writing, broker, owes, inward, connected, awaiting, next, response>>

(***************************************************************************)
(* The clock.                                                              *)
(***************************************************************************)
\* No time passes inside a poll.
ResponsePasses ==
  /\ Running /\ turn = "io" /\ response = "armed"
  /\ response' = "passed"
  /\ UNCHANGED <<pc, turn, io, inward, client>>

Next ==
  \/ Dial \/ Redial \/ ReadInto \/ ReadFails \/ WriteOut \/ Written \/ WriteFails
  \/ Client \/ Wake \/ Turn
  \/ ResponsePasses

Spec == Init /\ [][Next]_vars

\* The executor polls the task while something is ready, and the deadline of an
\* awaited answer passes in the end.
TaskFair == Spec /\ WF_vars(Client \/ Turn \/ WriteOut) /\ WF_vars(Wake /\ response = "passed") /\ SF_vars(ResponsePasses)

\* The stream writes what it was given, or fails.
FairSpec == TaskFair /\ SF_vars(Written \/ WriteFails)

(***************************************************************************)
(* Properties.                                                             *)
(***************************************************************************)
\* Nothing reaches a new socket ahead of its CONNECT, although the ring
\* outlives the session that filled it.
ConnectFirst == TypeOK /\ broker # "other"

\* No session waits for ever.  One whose broker no longer answers ends, whatever
\* else the broker sends; and a client that waits for room in the ring gets it:
\* the writer drains what is in the way, and an empty ring has room for everything
\* that fits, wherever its pointers are.
NoEndlessWait ==
  /\ awaiting # "nothing" ~> awaiting = "nothing"
  /\ pc = "subscribe" ~> pc # "subscribe"
  /\ pc = "parse" ~> pc # "parse"

\* The packets first .. past - 1 fill the bytes from .. to - 1, end to end.
EndToEnd(packets, first, past, from, to) ==
  LET at(i) == IF i = past THEN to ELSE packets[i].at
  IN /\ at(first) = from
     /\ \A i \in first .. past - 1 : packets[i].at + packets[i].len = at(i + 1)

\* Early wraparounds, of a put or of a probe, lose nothing and invent nothing: what
\* write_out will read, up to last and then from the start, is the packets committed,
\* in their order and end to end.
RingHoldsQueue ==
  LET past == Len(queue) + 1
  IN IF ring.write < ring.read
     THEN \E k \in 1 .. past : /\ EndToEnd(queue, 1, k, ring.read, ring.last)
                              /\ EndToEnd(queue, k, past, 0, ring.write)
     ELSE EndToEnd(queue, 1, past, ring.read, ring.write)
============================================================================
