----------------------------- MODULE KnxTunnel -----------------------------
(***************************************************************************)
(* The KNX/IP connector: the sans-io tunnelling engine and the connection  *)
(* task that drives it over one UDP socket after another.                  *)
(*                                                                         *)
(* The gateway and the network are the environment: a datagram of any kind *)
(* may be there or never come, a send may fail.  Time is relative: every   *)
(* deadline counts down to zero, Tick lets a unit pass wherever the task   *)
(* awaits.  A telegram's byte layout is left out; what matters of it is    *)
(* the sequence number it travels under.                                   *)
(*                                                                         *)
(* Sources: aimdb-knx-connector/src/tunnel.rs, client.rs.                  *)
(***************************************************************************)
EXTENDS Integers, Sequences, FiniteSets, SequencesExt

CONSTANTS
  SeqSpace,       \* sequence numbers before the counter wraps (256 in the code)
  PendingCap,   \* PENDING_ACK_CAPACITY
  Retransmits,  \* ack_retransmits
  AckTimeout, AckSweep, Heartbeat, HeartbeatTimeout, ConnectTimeout, Backoff,
  Overrun,      \* a sequence number comes round while it is still pending
  MaxWrites     \* bound: group writes taken from the outbound routes

ASSUME KnxAssumption ==
  /\ SeqSpace \in Nat \ {0} /\ PendingCap \in Nat \ {0} /\ Retransmits \in Nat
  /\ {AckTimeout, AckSweep, Heartbeat, HeartbeatTimeout, ConnectTimeout, Backoff}
       \subseteq Nat \ {0}
  /\ Overrun \in BOOLEAN /\ MaxWrites \in Nat

VARIABLES
  where,        \* where connection_task is
  inboundFirst, \* the receive arm is polled before the outbound arm
  readable,     \* the socket has a datagram or an error
  waiting,      \* an outbound route has a value
  asked,        \* CONNECT_REQUESTs handed to the bound socket
  endpoint,     \* the local endpoint the engine advertises
  phase,        \* the engine's phase
  timer,        \* time left in backoff or connecting
  outboundSeq,  \* next sequence number of the channel
  pending,      \* pending_acks, in the order of the index map
  heartbeat,    \* time left to the next keepalive
  unanswered,   \* time left for the keepalive's answer, NoWait if none is due
  sweep,        \* time left to the next sweep
  actions,      \* actions to drain
  written,      \* telegrams handed to the engine
  settled       \* telegrams whose fate was told: acknowledged, reported,
                \* not sent, or gone with their connection

task == <<where, inboundFirst, readable, waiting, asked, endpoint>>
channel == <<outboundSeq, pending, heartbeat, unanswered, sweep>>
engine == <<phase, timer, channel, actions>>
ghost == <<written, settled>>
knxVars == <<task, engine, ghost>>

NoWait == -1
NoSeq == -1
Seqs == 0 .. SeqSpace - 1

Connect == [do |-> "send", seq |-> NoSeq, connect |-> TRUE]
Send(s) == [do |-> "send", seq |-> s, connect |-> FALSE]
Telegram == [do |-> "telegram"]
ResetSocket == [do |-> "reset"]
Timeout(s) == [do |-> "ack_timeout", seq |-> s]

Entries == [seq : Seqs, left : 0 .. AckTimeout + 1, retries : 0 .. Retransmits, id : 1 .. MaxWrites]

KnxTypeOK ==
  /\ where \in {"bind", "top", "drain", "drain_reset", "select", "closed"}
  /\ inboundFirst \in BOOLEAN /\ readable \in BOOLEAN /\ waiting \in BOOLEAN
  /\ asked \in Nat /\ endpoint \in {"nat", "bound", "stale"}
  /\ phase \in {"backoff", "connecting", "connected"}
  /\ timer \in 0 .. Backoff + ConnectTimeout
  /\ outboundSeq \in Seqs /\ pending \in Seq(Entries) /\ Len(pending) <= PendingCap
  /\ heartbeat \in 0 .. Heartbeat /\ unanswered \in {NoWait} \cup 0 .. HeartbeatTimeout
  /\ sweep \in 0 .. AckSweep
  /\ \A i \in DOMAIN actions : actions[i].do \in {"send", "telegram", "reset", "ack_timeout"}
  /\ written \in 0 .. MaxWrites /\ settled \subseteq 1 .. written

NoChannel ==
  /\ outboundSeq' = 0 /\ pending' = <<>> /\ heartbeat' = 0
  /\ unanswered' = NoWait /\ sweep' = 0

KnxInit ==
  /\ where = "bind" /\ inboundFirst = TRUE /\ readable = FALSE /\ waiting = FALSE
  /\ asked = 0 /\ endpoint = "nat"
  /\ phase = "backoff" /\ timer = 0
  /\ outboundSeq = 0 /\ pending = <<>> /\ heartbeat = 0 /\ unanswered = NoWait /\ sweep = 0
  /\ actions = <<>> /\ written = 0 /\ settled = {}

Ids(p) == {p[i].id : i \in DOMAIN p}
IndexOf(p, s) == CHOOSE i \in DOMAIN p : p[i].seq = s
Has(p, s) == \E i \in DOMAIN p : p[i].seq = s

\* FnvIndexMap::remove moves the last entry into the gap.
Removed(p, s) ==
  IF Has(p, s) THEN Front([p EXCEPT ![IndexOf(p, s)] = Last(p)]) ELSE p

\* FnvIndexMap::insert replaces the value of a key that is there; a full map
\* refuses a new key.
Full(p, s) == ~Has(p, s) /\ Len(p) = PendingCap
Inserted(p, e) ==
  IF Has(p, e.seq) THEN [p EXCEPT ![IndexOf(p, e.seq)] = e] ELSE Append(p, e)

(***************************************************************************)
(* The engine: what its handlers do to phase, channel and actions.         *)
(***************************************************************************)
\* handle_socket_error, after the actions queued so far.
SocketError(queued) ==
  /\ actions' = Append(queued, ResetSocket)
  /\ phase' = "backoff" /\ timer' = Backoff
  /\ settled' = settled \cup Ids(pending)
  /\ NoChannel

\* ChannelState::new
Opened ==
  /\ phase' = "connected" /\ timer' = 0
  /\ outboundSeq' = 0 /\ pending' = <<>>
  /\ heartbeat' = Heartbeat /\ unanswered' = NoWait /\ sweep' = AckSweep
  /\ UNCHANGED <<actions, settled>>

Acked(s) ==
  /\ pending' = Removed(pending, s)
  /\ settled' = settled \cup {p \in Ids(pending) : pending[IndexOf(pending, s)].id = p}
  /\ UNCHANGED <<phase, timer, outboundSeq, heartbeat, unanswered, sweep, actions>>

\* handle_datagram; a datagram of another kind changes nothing.
HandleDatagram ==
  \/ UNCHANGED <<engine, settled>>
  \/ phase = "connecting" /\ Opened
  \/ phase = "connecting" /\ SocketError(actions)
  \/ /\ phase = "connected"
     /\ \/ \E i \in DOMAIN pending : Acked(pending[i].seq)
        \/ /\ \E telegram \in {<<>>, <<Telegram>>} :
                actions' = actions \o <<Send(NoSeq)>> \o telegram
           /\ UNCHANGED <<phase, timer, channel, settled>>
        \/ /\ unanswered' = NoWait
           /\ UNCHANGED <<phase, timer, outboundSeq, pending, heartbeat, sweep, actions, settled>>
        \/ SocketError(actions)

\* handle_command: a full map gives up its first entry.
HandleCommand ==
  LET new == [seq |-> outboundSeq, left |-> AckTimeout + 1, retries |-> Retransmits,
              id |-> written + 1]
      full == Full(pending, outboundSeq)
      first == pending[1]
  IN /\ outboundSeq' = (outboundSeq + 1) % SeqSpace
     /\ pending' = Inserted(IF full THEN Removed(pending, first.seq) ELSE pending, new)
     /\ actions' = actions \o (IF full THEN <<Timeout(first.seq)>> ELSE <<>>)
                           \o <<Send(new.seq)>>
     /\ settled' = settled \cup (IF full THEN {first.id} ELSE {})
     /\ written' = written + 1
     /\ UNCHANGED <<phase, timer, heartbeat, unanswered, sweep>>

\* A sweep that drops what has expired and tells nobody.
SweptForgetting(p) ==
  [pending |-> SelectSeq(p, LAMBDA e : e.left > 0), actions |-> <<>>, lost |-> {}]

\* A sweep that repeats an expired entry without end.
SweptEndlessly(p) ==
  [pending |-> [i \in DOMAIN p |-> IF p[i].left = 0 THEN [p[i] EXCEPT !.left = AckTimeout + 1]
                                   ELSE p[i]],
   actions |-> <<>>, lost |-> {}]

\* The sweep takes one entry after another, as they stood before it: what has
\* expired is repeated, or given up and reported.
SweepOne(acc, e) ==
  IF e.left > 0 THEN acc
  ELSE IF e.retries > 0
       THEN [acc EXCEPT !.pending[IndexOf(acc.pending, e.seq)] =
                            [e EXCEPT !.left = AckTimeout + 1, !.retries = e.retries - 1],
                        !.actions = Append(acc.actions, Send(e.seq))]
       ELSE [acc EXCEPT !.pending = Removed(acc.pending, e.seq),
                        !.actions = Append(acc.actions, Timeout(e.seq)),
                        !.lost = acc.lost \cup {e.id}]

Unswept(p) == [pending |-> p, actions |-> <<>>, lost |-> {}]

Swept(p) ==
  LET after[n \in 0 .. Len(p)] == IF n = 0 THEN Unswept(p) ELSE SweepOne(after[n - 1], p[n])
  IN after[Len(p)]

\* A poll that never looks for the keepalive's answer.
PollTrusting ==
  LET beat == heartbeat = 0
      due == sweep = 0
      swept == IF due THEN Swept(pending) ELSE Unswept(pending)
      queued == actions \o (IF beat THEN <<Send(NoSeq)>> ELSE <<>>) \o swept.actions
  IN \/ Retransmits > 0 /\ swept.lost # {} /\ SocketError(queued)
     \/ /\ Retransmits = 0 \/ swept.lost = {}
        /\ actions' = queued /\ pending' = swept.pending
        /\ heartbeat' = (IF beat THEN Heartbeat ELSE heartbeat)
        /\ unanswered' = (IF beat /\ unanswered = NoWait THEN HeartbeatTimeout ELSE unanswered)
        /\ sweep' = (IF due THEN AckSweep ELSE sweep)
        /\ settled' = settled \cup swept.lost
        /\ UNCHANGED <<phase, timer, outboundSeq>>

\* poll in a channel: the keepalive's answer, the keepalive, the sweep.
PollConnected ==
  LET beat == heartbeat = 0
      due == sweep = 0
      swept == IF due THEN Swept(pending) ELSE Unswept(pending)
      queued == actions \o (IF beat THEN <<Send(NoSeq)>> ELSE <<>>) \o swept.actions
  IN \/ unanswered = 0 /\ SocketError(actions)
     \/ /\ unanswered # 0 /\ Retransmits > 0 /\ swept.lost # {}
        /\ SocketError(queued)
     \/ /\ unanswered # 0 /\ (Retransmits = 0 \/ swept.lost = {})
        /\ actions' = queued /\ pending' = swept.pending
        /\ heartbeat' = (IF beat THEN Heartbeat ELSE heartbeat)
        /\ unanswered' = (IF beat /\ unanswered = NoWait THEN HeartbeatTimeout ELSE unanswered)
        /\ sweep' = (IF due THEN AckSweep ELSE sweep)
        /\ settled' = settled \cup swept.lost
        /\ UNCHANGED <<phase, timer, outboundSeq>>

\* A handshake that timed out is tried again on the same socket.
PollSameSocket ==
  \/ /\ phase \in {"backoff", "connecting"} /\ timer = 0
     /\ phase' = "connecting" /\ timer' = ConnectTimeout
     /\ actions' = Append(actions, Connect)
     /\ UNCHANGED <<channel, settled>>
  \/ phase # "connected" /\ timer > 0 /\ UNCHANGED <<engine, settled>>
  \/ phase = "connected" /\ PollConnected

Poll ==
  \/ /\ phase = "backoff" /\ timer = 0
     /\ phase' = "connecting" /\ timer' = ConnectTimeout
     /\ actions' = Append(actions, Connect)
     /\ UNCHANGED <<channel, settled>>
  \/ phase = "connecting" /\ timer = 0 /\ SocketError(actions)
  \/ phase # "connected" /\ timer > 0 /\ UNCHANGED <<engine, settled>>
  \/ phase = "connected" /\ PollConnected

\* No deadline outside a channel.
ChannelDeadlinePassed ==
  phase = "connected" /\ (heartbeat = 0 \/ sweep = 0 \/ unanswered = 0)

\* next_deadline has passed.
DeadlinePassed ==
  IF phase = "connected" THEN heartbeat = 0 \/ sweep = 0 \/ unanswered = 0 ELSE timer = 0

(***************************************************************************)
(* connection_task and drive_connection.                                   *)
(***************************************************************************)
\* The last address stays when the stack knows none.
BindKeeping ==
  /\ where = "bind"
  /\ where' = "top" /\ asked' = 0 /\ inboundFirst' = TRUE
  /\ endpoint' \in {endpoint, "bound"}
  /\ UNCHANGED <<readable, waiting, engine, ghost>>

\* Bind a socket, advertise its address if the stack knows one.
Bind ==
  /\ where = "bind"
  /\ where' = "top" /\ asked' = 0 /\ inboundFirst' = TRUE
  /\ endpoint' \in {"nat", "bound"}
  /\ UNCHANGED <<readable, waiting, engine, ghost>>

PollEngine ==
  /\ where = "top" /\ Poll
  /\ where' = "drain"
  /\ UNCHANGED <<inboundFirst, readable, waiting, asked, endpoint, written>>

\* drain_actions: one action; a failed send of a tracked request is no longer
\* tracked.
Drain ==
  /\ where \in {"drain", "drain_reset"} /\ actions # <<>>
  /\ LET a == Head(actions)
         failed == a.do = "send" /\ a.seq # NoSeq /\ phase = "connected" /\ Has(pending, a.seq)
     IN /\ actions' = Tail(actions)
        /\ where' = IF a.do = "reset" THEN "drain_reset" ELSE where
        /\ asked' = IF a.do = "send" /\ a.connect THEN asked + 1 ELSE asked
        /\ \/ UNCHANGED <<pending, settled>>
           \/ /\ failed
              /\ pending' = Removed(pending, a.seq)
              /\ settled' = settled \cup {pending[IndexOf(pending, a.seq)].id}
  /\ UNCHANGED <<inboundFirst, readable, waiting, endpoint, phase, timer, outboundSeq,
                 heartbeat, unanswered, sweep, written>>

\* Drained; a reset ends drive_connection and drops the socket.
Drained ==
  /\ actions = <<>>
  /\ \/ /\ where = "drain"
        /\ where' = "select" /\ UNCHANGED <<readable, endpoint>>
     \/ /\ where = "drain_reset"
        /\ where' = "closed" /\ readable' = FALSE
        /\ endpoint' = IF endpoint = "bound" THEN "stale" ELSE endpoint
  /\ UNCHANGED <<inboundFirst, waiting, asked, engine, ghost>>

\* The outbound arm: pending unless connected.
Stageable == phase = "connected" /\ waiting

\* The receive arm always comes first.
PassedInOrder == where' = "top" /\ UNCHANGED inboundFirst

\* The next pass polls the two arms the other way round.
Passed ==
  /\ where' = "top" /\ inboundFirst' = ~inboundFirst

Receive ==
  /\ where = "select" /\ readable /\ (inboundFirst \/ ~Stageable)
  /\ Passed /\ readable' = FALSE
  /\ HandleDatagram \/ SocketError(actions)
  /\ UNCHANGED <<waiting, asked, endpoint, written>>

\* send_staged: an invalid destination or payload is rejected.
SendStaged ==
  /\ where = "select" /\ Stageable /\ (~inboundFirst \/ ~readable)
  /\ Passed /\ waiting' = FALSE
  /\ \/ /\ written < MaxWrites /\ (Overrun \/ ~Has(pending, outboundSeq))
        /\ HandleCommand
     \/ UNCHANGED <<engine, ghost>>
  /\ UNCHANGED <<readable, asked, endpoint>>

WakeForDeadline ==
  /\ where = "select" /\ ~readable /\ ~Stageable /\ DeadlinePassed
  /\ Passed
  /\ UNCHANGED <<readable, waiting, asked, endpoint, engine, ghost>>

\* The backoff is over.
BackoffOver ==
  /\ where = "closed" /\ DeadlinePassed
  /\ where' = "bind"
  /\ UNCHANGED <<inboundFirst, readable, waiting, asked, endpoint, engine, ghost>>

(***************************************************************************)
(* The environment.                                                        *)
(***************************************************************************)
Arrive ==
  /\ where \notin {"bind", "closed"} /\ ~readable
  /\ readable' = TRUE
  /\ UNCHANGED <<where, inboundFirst, waiting, asked, endpoint, engine, ghost>>

Produce ==
  /\ ~waiting /\ waiting' = TRUE
  /\ UNCHANGED <<where, inboundFirst, readable, asked, endpoint, engine, ghost>>

Down(t) == IF t > 0 THEN t - 1 ELSE t

Tick ==
  /\ where # "top"
  /\ timer' = Down(timer) /\ heartbeat' = Down(heartbeat) /\ sweep' = Down(sweep)
  /\ unanswered' = Down(unanswered)
  /\ pending' = [i \in DOMAIN pending |-> [pending[i] EXCEPT !.left = Down(pending[i].left)]]
  /\ UNCHANGED <<task, phase, outboundSeq, actions, ghost>>

Step == Bind \/ PollEngine \/ Drain \/ Drained \/ Receive \/ SendStaged \/ WakeForDeadline \/ BackoffOver
KnxNext == Step \/ Arrive \/ Produce \/ Tick

KnxSpec == KnxInit /\ [][KnxNext]_knxVars

\* The executor runs the task whenever an arm is ready, the clock goes on, and
\* a bind succeeds in the end.  Nothing is asked of the gateway.
FairKnxSpec == KnxSpec /\ WF_knxVars(Step) /\ SF_knxVars(Tick)

(***************************************************************************)
(* Properties.                                                             *)
(***************************************************************************)
\* A handshake belongs to its socket.  A socket carries one, so that the answer
\* to an earlier CONNECT_REQUEST can never be taken for the answer to a later one,
\* and no CONNECT_REQUEST advertises the address of a socket that is gone.
HandshakeFitsSocket ==
  /\ KnxTypeOK
  /\ asked <= 1
  /\ (\E i \in DOMAIN actions : actions[i].do = "send" /\ actions[i].connect) => endpoint # "stale"

\* Every telegram's fate is told, whatever the gateway does: it is acknowledged,
\* reported, not sent, or goes with its connection.  None drops out of the pending
\* map untold, and retransmission, sweep and teardown come to an end.
EveryFateTold == \A t \in 1 .. MaxWrites : t <= written ~> t \in settled

\* The tunnel recovers.  A gateway that no longer answers is noticed: a keepalive
\* is answered or the connection dropped; and a connection that was lost or
\* refused is asked for again.
TunnelRecovers ==
  /\ unanswered # NoWait ~> unanswered = NoWait
  /\ phase = "backoff" ~> phase = "connecting"

\* Inbound traffic does not starve the outbound routes of a connected tunnel.
OutboundServed == Stageable ~> ~Stageable
============================================================================
