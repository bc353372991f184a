-------------------------- MODULE ConnectorProofs --------------------------
(***************************************************************************)
(* Two connectors.                                                         *)
(*                                                                         *)
(* The embedded MQTT session, for every size of the ring and of the        *)
(* packets, any number of topics and any burst of the broker: the          *)
(* bipbuffer holds exactly the packets committed, end to end, and on every *)
(* socket the CONNECT comes first.                                         *)
(*                                                                         *)
(* The KNX tunnel, for every size of the pending map and of the sequence   *)
(* space, any number of telegrams and retransmissions and any deadlines: a *)
(* socket carries one handshake, and a telegram is tracked until its fate  *)
(* is told.  The sweep is a recursion over the pending map; the proof goes *)
(* by induction over it.                                                   *)
(***************************************************************************)
EXTENDS MqttSession, KnxTunnel, SequenceTheorems, WellFoundedInduction, TLAPS

(***************************************************************************)
(* The inductive invariant.                                                *)
(***************************************************************************)
\* EndToEnd, and what follows from it by adding up lengths: the packets stay
\* within the bytes they fill and come one after the other.
Segment(packets, first, past, from, to) ==
  /\ EndToEnd(packets, first, past, from, to)
  /\ from <= to
  /\ \A i \in first .. past - 1 :
       from <= packets[i].at /\ packets[i].at + packets[i].len <= to
  /\ \A i, j \in first .. past - 1 :
       i < j => packets[i].at + packets[i].len <= packets[j].at

\* The data before a wraparound and the data behind it.
Wrapped(r, packets, k) ==
  /\ Segment(packets, 1, k, r.read, r.last)
  /\ Segment(packets, k, Len(packets) + 1, 0, r.write)

\* The packets of the ring: up to last and from the start, or in one piece.
Laid(r, packets) ==
  IF r.write < r.read
  THEN \E k \in 1 .. Len(packets) + 1 : Wrapped(r, packets, k)
  ELSE r.write <= r.last /\ Segment(packets, 1, Len(packets) + 1, r.read, r.write)

\* Where what can be read in one piece ends.
Until(r) == IF r.write < r.read THEN r.last ELSE r.write

\* What write_out sends was in one piece when it began and still is; it ends
\* with a packet.
InFlight(r, packets, n) ==
  n > 0 =>
    /\ r.read + n <= Until(r)
    /\ \E i \in 1 .. Len(packets) :
         packets[i].at >= r.read /\ packets[i].at + packets[i].len = r.read + n

\* Until the broker has seen something, the CONNECT is the first packet queued.
ConnectAhead ==
  /\ pc = "connect" => queue = <<>> /\ broker = "nothing"
  /\ Running /\ broker = "nothing" /\ pc # "connect" =>
       queue # <<>> /\ queue[1].kind = "connect"
  /\ broker # "other"

\* The ring and the packets in it.
RingSound ==
  /\ ring \in Rings /\ queue \in Seq(Packets) /\ writing \in 0 .. RingCap
  /\ Laid(ring, queue)
  /\ InFlight(ring, queue, writing)

\* The types of the rest, and the next topic there is when one is subscribed to.
RestTypes ==
  /\ pc \in {"dial", "connect", "top", "subscribe", "select", "parse", "over"}
  /\ turn \in {"io", "client"} /\ broker \in {"nothing", "connect", "other"}
  /\ owes \subseteq Answers
  /\ chunk \in Seq(Answers \cup {"publish0", "publish1", "disconnect"})
  /\ head \in Seq(Answers \cup {"publish0", "publish1", "disconnect"})
  /\ connected \in BOOLEAN /\ outbound_done \in BOOLEAN
  /\ awaiting \in {"nothing"} \cup Answers /\ next \in 0 .. Topics
  /\ response \in {"off", "armed", "passed"}
  /\ pc = "subscribe" => next < Topics

IInv == RingSound /\ RestTypes /\ ConnectAhead

(***************************************************************************)
(* Segments.                                                               *)
(***************************************************************************)
\* Packets are numbers of bytes at places.
LEMMA PacketTypes ==
  ASSUME NEW packets \in Seq(Packets)
  PROVE  /\ Len(packets) \in Nat
         /\ \A i \in 1 .. Len(packets) :
              /\ packets[i] \in Packets
              /\ packets[i].at \in 0 .. RingCap /\ packets[i].at \in Int
              /\ packets[i].len \in Nat \ {0}
<1>1. Len(packets) \in Nat /\ \A i \in 1 .. Len(packets) : packets[i] \in Packets
  OBVIOUS
<1> QED BY <1>1, MqttAssumption, SMTT(30) DEF Packets

\* No packets fill no bytes.
LEMMA EmptySegment ==
  ASSUME NEW packets, NEW first \in Nat, NEW from \in Nat
  PROVE  Segment(packets, first, first, from, from)
<1>1. first .. first - 1 = {} /\ from <= from
  OBVIOUS
<1> QED BY <1>1 DEF Segment, EndToEnd

\* A segment without packets has no bytes.
LEMMA NoPacketsNoBytes ==
  ASSUME NEW packets, NEW first \in Nat, NEW from, NEW to,
         Segment(packets, first, first, from, to)
  PROVE  from = to
  BY DEF Segment, EndToEnd

\* A segment depends on its own packets only.
LEMMA SameSegment ==
  ASSUME NEW p, NEW q, NEW first \in Nat, NEW past \in Nat, first <= past,
         NEW first2 \in Nat, NEW past2 \in Nat, past2 - first2 = past - first,
         \A i \in first .. past - 1 : q[i + first2 - first] = p[i],
         NEW from, NEW to, Segment(p, first, past, from, to)
  PROVE  Segment(q, first2, past2, from, to)
<1> DEFINE d == first2 - first
           atp(i) == IF i = past THEN to ELSE p[i].at
           atq(i) == IF i = past2 THEN to ELSE q[i].at
<1>0. d \in Int /\ past2 = past + d /\ first2 = first + d
  OBVIOUS
<1>1. \A i \in first2 .. past2 - 1 : i - d \in first .. past - 1 /\ q[i] = p[i - d]
  <2> TAKE i \in first2 .. past2 - 1
  <2>1. i - d \in first .. past - 1 /\ (i - d) + first2 - first = i
    BY <1>0
  <2> QED BY <2>1
<1>2. /\ atp(first) = from
      /\ \A i \in first .. past - 1 : p[i].at + p[i].len = atp(i + 1)
      /\ from <= to
      /\ \A i \in first .. past - 1 : from <= p[i].at /\ p[i].at + p[i].len <= to
      /\ \A i, j \in first .. past - 1 : i < j => p[i].at + p[i].len <= p[j].at
  BY DEF Segment, EndToEnd
<1>3. \A i \in first2 .. past2 : atq(i) = atp(i - d)
  <2> TAKE i \in first2 .. past2
  <2>1. CASE i = past2
    BY <2>1, <1>0
  <2>2. CASE i # past2
    <3>1. i \in first2 .. past2 - 1 /\ i - d # past
      BY <2>2, <1>0
    <3> QED BY <3>1, <2>2, <1>1
  <2> QED BY <2>1, <2>2
<1>4. atq(first2) = from
  <2>1. first2 \in first2 .. past2 /\ first2 - d = first
    BY <1>0
  <2> QED BY <2>1, <1>2, <1>3
<1>5. \A i \in first2 .. past2 - 1 : q[i].at + q[i].len = atq(i + 1)
  <2> TAKE i \in first2 .. past2 - 1
  <2>1. i + 1 \in first2 .. past2 /\ (i + 1) - d = (i - d) + 1
    BY <1>0
  <2> HIDE DEF atp, atq
  <2> QED BY <2>1, <1>1, <1>2, <1>3
<1>6. \A i \in first2 .. past2 - 1 : from <= q[i].at /\ q[i].at + q[i].len <= to
  BY <1>1, <1>2
<1>7. \A i, j \in first2 .. past2 - 1 : i < j => q[i].at + q[i].len <= q[j].at
  <2> TAKE i, j \in first2 .. past2 - 1
  <2>1. i < j => i - d < j - d
    BY <1>0
  <2> QED BY <2>1, <1>1, <1>2
<1> QED BY <1>2, <1>4, <1>5, <1>6, <1>7 DEF Segment, EndToEnd

\* A packet put behind a segment that ends with the queue makes it longer.
LEMMA LongerSegment ==
  ASSUME NEW packets \in Seq(Packets), NEW p \in Packets, NEW first \in 1 .. Len(packets) + 1,
         NEW from \in Nat, NEW to \in Nat, p.at = to,
         Segment(packets, first, Len(packets) + 1, from, to)
  PROVE  Segment(Append(packets, p), first, Len(packets) + 2, from, to + p.len)
<1> DEFINE q == Append(packets, p)
           past == Len(packets) + 1
           end == to + p.len
           at(i) == IF i = past THEN to ELSE packets[i].at
           atq(i) == IF i = past + 1 THEN end ELSE q[i].at
<1>1. /\ past \in Nat /\ first \in 1 .. past /\ first \in Int /\ q[past] = p
      /\ \A i \in 1 .. past - 1 : q[i] = packets[i]
  OBVIOUS
<1>2. \A i \in 1 .. past - 1 : packets[i].at \in Int /\ packets[i].len \in Nat \ {0}
  BY PacketTypes
<1>3. p.len \in Nat \ {0} /\ p.at \in Int /\ end \in Nat
  BY DEF Packets
<1>4. /\ at(first) = from
      /\ \A i \in first .. past - 1 : packets[i].at + packets[i].len = at(i + 1)
      /\ from <= to
      /\ \A i \in first .. past - 1 : from <= packets[i].at /\ packets[i].at + packets[i].len <= to
      /\ \A i, j \in first .. past - 1 : i < j => packets[i].at + packets[i].len <= packets[j].at
  BY DEF Segment, EndToEnd
<1>5. \A i \in first .. past : atq(i) = at(i)
  BY <1>1
<1>6. atq(first) = from /\ from <= end
  BY <1>1, <1>3, <1>4, <1>5
<1>7. \A i \in first .. past : q[i].at + q[i].len = atq(i + 1)
  <2> TAKE i \in first .. past
  <2>1. CASE i = past
    BY <2>1, <1>1
  <2>2. CASE i # past
    <3>1. i \in first .. past - 1 /\ i \in 1 .. past - 1 /\ i + 1 \in first .. past
      BY <2>2, <1>1
    <3>2. packets[i].at + packets[i].len = at(i + 1) /\ q[i] = packets[i] /\ atq(i + 1) = at(i + 1)
      BY <3>1, <1>1, <1>4, <1>5
    <3> QED BY <3>2
  <2> QED BY <2>1, <2>2
<1>8. \A i \in first .. past : from <= q[i].at /\ q[i].at + q[i].len <= end
  <2> TAKE i \in first .. past
  <2>1. CASE i = past
    BY <2>1, <1>1, <1>3, <1>4
  <2>2. CASE i # past
    <3>1. i \in first .. past - 1 /\ i \in 1 .. past - 1
      BY <2>2, <1>1
    <3>2. q[i] = packets[i] /\ from <= packets[i].at /\ packets[i].at + packets[i].len <= to
      BY <3>1, <1>1, <1>4
    <3>3. packets[i].at + packets[i].len \in Int
      BY <3>1, <1>2
    <3>4. \A x \in Int : x <= to => x <= end
      BY <1>3
    <3> HIDE DEF end
    <3> QED BY <3>2, <3>3, <3>4
  <2> QED BY <2>1, <2>2
<1>9. \A i, j \in first .. past : i < j => q[i].at + q[i].len <= q[j].at
  <2> SUFFICES ASSUME NEW i \in first .. past, NEW j \in first .. past, i < j
               PROVE  q[i].at + q[i].len <= q[j].at
    OBVIOUS
  <2>1. i \in first .. past - 1 /\ i \in 1 .. past - 1
    BY <1>1
  <2>2. CASE j = past
    BY <2>1, <2>2, <1>1, <1>4
  <2>3. CASE j # past
    <3>1. j \in first .. past - 1 /\ j \in 1 .. past - 1
      BY <2>3, <1>1
    <3> QED BY <2>1, <3>1, <1>1, <1>4
  <2> QED BY <2>2, <2>3
<1>10. (Len(packets) + 2) - 1 = past /\ Len(packets) + 2 = past + 1
  BY <1>1
<1>11. Segment(q, first, past + 1, from, end)
  <2>1. (past + 1) - 1 = past
    BY <1>1
  <2> HIDE DEF q, past, end
  <2> QED BY <2>1, <1>6, <1>7, <1>8, <1>9 DEF Segment, EndToEnd
<1> QED BY <1>10, <1>11

\* What is left of a segment when its first packets are released.
LEMMA ShorterSegment ==
  ASSUME NEW packets \in Seq(Packets), NEW past \in 1 .. Len(packets) + 1,
         NEW n \in 1 .. past - 1, NEW from \in Nat, NEW to \in Nat,
         Segment(packets, 1, past, from, to)
  PROVE  Segment(packets, n + 1, past, packets[n].at + packets[n].len, to)
<1> DEFINE at(i) == IF i = past THEN to ELSE packets[i].at
           end == packets[n].at + packets[n].len
<1>1. /\ past \in Nat /\ n \in Nat /\ past - 1 <= Len(packets) /\ n \in 1 .. past - 1
      /\ Len(packets) \in Nat
  OBVIOUS
<1>2. \A i \in 1 .. past - 1 : packets[i].at \in Int /\ packets[i].len \in Nat \ {0}
  BY <1>1, PacketTypes
<1>3. /\ \A i \in 1 .. past - 1 : packets[i].at + packets[i].len = at(i + 1)
      /\ \A i \in 1 .. past - 1 : packets[i].at + packets[i].len <= to
      /\ \A i, j \in 1 .. past - 1 : i < j => packets[i].at + packets[i].len <= packets[j].at
  BY DEF Segment, EndToEnd
<1>4. at(n + 1) = end /\ end <= to
  BY <1>1, <1>3
<1>5. \A i \in n + 1 .. past - 1 : i \in 1 .. past - 1 /\ n < i
  BY <1>1
<1>6. \A i \in n + 1 .. past - 1 : end <= packets[i].at
  BY <1>1, <1>3, <1>5
<1> HIDE DEF end
<1> QED BY <1>3, <1>4, <1>5, <1>6 DEF Segment, EndToEnd

(***************************************************************************)
(* The ring: grants and commits, probes, reads and releases.               *)
(***************************************************************************)
LEMMA RingTypes ==
  ASSUME NEW r \in Rings
  PROVE  /\ RingCap \in Nat
         /\ r.write \in 0 .. RingCap /\ r.read \in 0 .. RingCap /\ r.last \in 0 .. RingCap
         /\ r.write \in Nat /\ r.read \in Nat /\ r.last \in Nat
<1>1. RingCap \in Nat
  BY MqttAssumption
<1> QED BY <1>1 DEF Rings

\* A grant is where the pointers say: behind the data, or at the start before the
\* reader.
LEMMA GrantWhere ==
  ASSUME NEW r \in Rings, NEW n \in Nat, has_room(r, n)
  PROVE  \/ r.write < r.read /\ Grant(r, n) = r.write /\ r.write + n < r.read
         \/ ~(r.write < r.read) /\ Grant(r, n) = r.write /\ r.write + n <= RingCap
         \/ ~(r.write < r.read) /\ Grant(r, n) = 0 /\ n < r.read
  BY RingTypes DEF has_room, Grant, NoRoom

LEMMA CommitFields ==
  ASSUME NEW r \in Rings, NEW start, NEW m
  PROVE  /\ Commit(r, start, m).read = r.read
         /\ Commit(r, start, m).write = start + m
         /\ Commit(r, start, m).last =
              IF start + m < r.write /\ r.write # RingCap THEN r.write
              ELSE IF start + m > r.last THEN RingCap ELSE r.last
         /\ Commit(r, start, m) =
              [write |-> Commit(r, start, m).write, read |-> r.read, last |-> Commit(r, start, m).last]
<1>1. r = [write |-> r.write, read |-> r.read, last |-> r.last]
  BY DEF Rings
<1> DEFINE end == IF start + m < r.write /\ r.write # RingCap THEN r.write
                  ELSE IF start + m > r.last THEN RingCap ELSE r.last
<1>2. Commit(r, start, m) = [r EXCEPT !.write = start + m, !.last = end]
  BY DEF Commit
<1> HIDE DEF end
<1>3. Commit(r, start, m) = [write |-> start + m, read |-> r.read, last |-> end]
  BY <1>1, <1>2
<1>4. /\ Commit(r, start, m).read = r.read
      /\ Commit(r, start, m).write = start + m
      /\ Commit(r, start, m).last = end
  BY <1>3
<1> QED BY <1>3, <1>4 DEF end

\* The pointers of a ring with data agree with each other.
LEMMA LaidShape ==
  ASSUME NEW r \in Rings, NEW packets, Laid(r, packets)
  PROVE  r.read <= Until(r) /\ (r.write >= r.read => r.write <= r.last)
  BY RingTypes DEF Laid, Until, Wrapped, Segment

\* After a commit of m bytes of a grant: the reader's place stays, what could be
\* read in one piece still can be.
LEMMA CommitShape ==
  ASSUME NEW r \in Rings, NEW packets, Laid(r, packets),
         NEW n \in Nat, has_room(r, n), NEW m \in 0 .. n,
         NEW s, s = Commit(r, Grant(r, n), m)
  PROVE  /\ s \in Rings /\ s.read = r.read /\ Until(r) <= Until(s)
         /\ s.write = Grant(r, n) + m
         /\ Grant(r, n) \in 0 .. RingCap
         /\ s.write >= s.read =>
              /\ r.write >= r.read /\ Grant(r, n) = r.write /\ s.write <= s.last
         /\ s.write < s.read /\ r.write < r.read =>
              Grant(r, n) = r.write /\ s.last = r.last
         /\ s.write < s.read /\ r.write >= r.read =>
              Grant(r, n) = 0 /\ s.last = r.write
<1>1. /\ s.read = r.read /\ s.write = Grant(r, n) + m
      /\ s.last = IF s.write < r.write /\ r.write # RingCap THEN r.write
                  ELSE IF s.write > r.last THEN RingCap ELSE r.last
      /\ s = [write |-> s.write, read |-> r.read, last |-> s.last]
  BY CommitFields
<1>2. /\ RingCap \in Nat /\ m \in Nat /\ m <= n
      /\ r.write \in 0 .. RingCap /\ r.read \in 0 .. RingCap /\ r.last \in 0 .. RingCap
  BY RingTypes
<1>3. r.read <= Until(r) /\ (r.write >= r.read => r.write <= r.last)
  BY LaidShape
<1>4. /\ Grant(r, n) \in 0 .. RingCap /\ s.write \in 0 .. RingCap /\ s.last \in 0 .. RingCap
      /\ s.write >= s.read =>
           /\ r.write >= r.read /\ Grant(r, n) = r.write /\ s.write <= s.last
      /\ s.write < s.read /\ r.write < r.read =>
           Grant(r, n) = r.write /\ s.last = r.last
      /\ s.write < s.read /\ r.write >= r.read =>
           Grant(r, n) = 0 /\ s.last = r.write
  <2>1. CASE r.write < r.read /\ Grant(r, n) = r.write /\ r.write + n < r.read
    BY <1>1, <1>2, <1>3, <2>1 DEF Until
  <2>2. CASE ~(r.write < r.read) /\ Grant(r, n) = r.write /\ r.write + n <= RingCap
    BY <1>1, <1>2, <1>3, <2>2 DEF Until
  <2>3. CASE ~(r.write < r.read) /\ Grant(r, n) = 0 /\ n < r.read
    BY <1>1, <1>2, <1>3, <2>3 DEF Until
  <2> QED BY <2>1, <2>2, <2>3, GrantWhere
<1>5. s \in Rings
  BY <1>1, <1>2, <1>4 DEF Rings
<1>6. Until(r) <= Until(s)
  BY <1>1, <1>2, <1>3, <1>4 DEF Until
<1> QED BY <1>1, <1>4, <1>5, <1>6

\* A probe for room, which may wrap early, changes no data ...
LEMMA ProbeKeeps ==
  ASSUME NEW r \in Rings, NEW packets \in Seq(Packets), Laid(r, packets), NEW n \in Nat
  PROVE  /\ Probed(r, n) \in Rings /\ Laid(Probed(r, n), packets)
         /\ Probed(r, n).read = r.read /\ Until(r) <= Until(Probed(r, n))
<1>1. CASE ~has_room(r, n)
  <2>1. Until(r) \in Nat
    BY RingTypes DEF Until
  <2> QED BY <1>1, <2>1 DEF Probed
<1>2. CASE has_room(r, n)
  <2> DEFINE s == Probed(r, n)
  <2>1. s = Commit(r, Grant(r, n), 0)
    BY <1>2 DEF Probed
  <2> HIDE DEF s
  <2>2. 0 \in 0 .. n /\ Len(packets) \in Nat
    OBVIOUS
  <2>3. /\ s \in Rings /\ s.read = r.read /\ Until(r) <= Until(s)
        /\ s.write = Grant(r, n) + 0
        /\ Grant(r, n) \in 0 .. RingCap
        /\ s.write >= s.read =>
             /\ r.write >= r.read /\ Grant(r, n) = r.write /\ s.write <= s.last
        /\ s.write < s.read /\ r.write < r.read =>
             Grant(r, n) = r.write /\ s.last = r.last
        /\ s.write < s.read /\ r.write >= r.read =>
             Grant(r, n) = 0 /\ s.last = r.write
    BY <1>2, <2>1, <2>2, CommitShape
  <2>4. /\ r.write \in Nat /\ r.read \in Nat /\ s.write \in Nat /\ s.read \in Nat
        /\ Grant(r, n) \in Nat /\ s.write = Grant(r, n)
    BY <2>3, RingTypes
  <2>5. Laid(s, packets)
    <3>1. CASE s.write >= s.read
      <4>1. s.write = r.write /\ ~(r.write < r.read) /\ ~(s.write < s.read)
        BY <2>3, <2>4, <3>1
      <4>2. Segment(packets, 1, Len(packets) + 1, r.read, r.write)
        BY <4>1 DEF Laid
      <4> QED BY <2>3, <3>1, <4>1, <4>2 DEF Laid
    <3>2. CASE s.write < s.read /\ r.write < r.read
      <4>1. s.write = r.write /\ s.last = r.last
        BY <2>3, <2>4, <3>2
      <4>2. PICK k \in 1 .. Len(packets) + 1 : Wrapped(r, packets, k)
        BY <3>2 DEF Laid
      <4>3. Wrapped(s, packets, k)
        BY <2>3, <4>1, <4>2 DEF Wrapped
      <4> QED BY <3>2, <4>3 DEF Laid
    <3>3. CASE s.write < s.read /\ r.write >= r.read
      <4>1. s.write = 0 /\ s.last = r.write /\ ~(r.write < r.read)
        BY <2>3, <2>4, <3>3
      <4>2. Segment(packets, 1, Len(packets) + 1, s.read, s.last)
        BY <2>3, <4>1 DEF Laid
      <4>3. Segment(packets, Len(packets) + 1, Len(packets) + 1, 0, s.write)
        BY <2>2, <4>1, EmptySegment
      <4>4. Wrapped(s, packets, Len(packets) + 1) /\ Len(packets) + 1 \in 1 .. Len(packets) + 1
        BY <2>2, <4>2, <4>3 DEF Wrapped
      <4> QED BY <3>3, <4>4 DEF Laid
    <3> QED BY <2>4, <3>1, <3>2, <3>3
  <2> QED BY <2>3, <2>5 DEF s
<1> QED BY <1>1, <1>2

\* ... and leaves the room it found.
LEMMA ProbeFinds ==
  ASSUME NEW r \in Rings, NEW n \in Nat, has_room(r, n), NEW m \in 0 .. n
  PROVE  has_room(Probed(r, n), m)
<1> DEFINE s == Probed(r, n)
<1>1. s.read = r.read /\ s.write = Grant(r, n) + 0
  BY CommitFields DEF Probed
<1> HIDE DEF s
<1>2. /\ RingCap \in Nat /\ r.write \in 0 .. RingCap /\ r.read \in 0 .. RingCap
      /\ m \in Nat /\ m <= n
  BY RingTypes
<1>3. \/ s.write < s.read /\ s.write + m < s.read
      \/ ~(s.write < s.read) /\ s.write + m <= RingCap
  <2>1. CASE r.write < r.read /\ Grant(r, n) = r.write /\ r.write + n < r.read
    BY <1>1, <1>2, <2>1
  <2>2. CASE ~(r.write < r.read) /\ Grant(r, n) = r.write /\ r.write + n <= RingCap
    BY <1>1, <1>2, <2>2
  <2>3. CASE ~(r.write < r.read) /\ Grant(r, n) = 0 /\ n < r.read
    BY <1>1, <1>2, <2>3
  <2> QED BY <2>1, <2>2, <2>3, GrantWhere
<1>4. s.write \in Nat
  <2>1. Grant(r, n) \in Nat
    BY <1>2, GrantWhere
  <2> QED BY <1>1, <2>1
<1>5. has_room(s, m)
  BY <1>2, <1>3, <1>4 DEF has_room, Grant, NoRoom
<1> QED BY <1>5 DEF s

\* A put lays its packet behind the others.
LEMMA PutKeeps ==
  ASSUME NEW r \in Rings, NEW packets \in Seq(Packets), Laid(r, packets),
         NEW n \in Nat \ {0}, NEW behind \in Nat, has_room(r, n + behind),
         NEW p \in Packets, p.at = Grant(r, n + behind), p.len = n
  PROVE  /\ Put(r, n, behind) \in Rings /\ Laid(Put(r, n, behind), Append(packets, p))
         /\ Put(r, n, behind).read = r.read /\ Until(r) <= Until(Put(r, n, behind))
<1> DEFINE s == Put(r, n, behind)
           g == Grant(r, n + behind)
           q == Append(packets, p)
           past == Len(packets) + 1
<1>1. s = Commit(r, g, n)
  BY DEF Put
<1>2. n + behind \in Nat /\ n \in 0 .. n + behind /\ n \in Nat /\ Len(packets) \in Nat
  OBVIOUS
<1>3. /\ q \in Seq(Packets) /\ Len(q) = past /\ q[past] = p
      /\ \A i \in 1 .. past - 1 : q[i] = packets[i]
  OBVIOUS
<1> HIDE DEF s, g
<1>4. /\ s \in Rings /\ s.read = r.read /\ Until(r) <= Until(s)
      /\ s.write = g + n /\ g \in 0 .. RingCap
      /\ s.write >= s.read =>
           /\ r.write >= r.read /\ g = r.write /\ s.write <= s.last
      /\ s.write < s.read /\ r.write < r.read => g = r.write /\ s.last = r.last
      /\ s.write < s.read /\ r.write >= r.read => g = 0 /\ s.last = r.write
  <2>1. s = Commit(r, Grant(r, n + behind), n)
    BY <1>1 DEF g
  <2> QED BY <1>2, <2>1, CommitShape DEF g
<1>5. /\ r.write \in Nat /\ r.read \in Nat /\ r.last \in Nat /\ s.write \in Nat /\ s.read \in Nat
      /\ s.last \in Nat /\ g \in Nat /\ past \in Nat /\ past >= 1
  BY <1>2, <1>4, RingTypes
<1>6. past + 1 = Len(q) + 1 /\ past + 1 = Len(packets) + 2
  BY <1>2, <1>3
<1>7. Laid(s, q)
  <2>1. CASE s.write >= s.read
    <3>1. g = r.write /\ ~(r.write < r.read) /\ ~(s.write < s.read) /\ s.write <= s.last
      BY <1>4, <1>5, <2>1
    <3>2. Segment(packets, 1, past, r.read, r.write)
      BY <3>1 DEF Laid
    <3>3. 1 \in 1 .. Len(packets) + 1 /\ p.at = r.write
      BY <1>2, <3>1 DEF g
    <3>4. Segment(q, 1, Len(packets) + 2, r.read, r.write + p.len)
      BY <1>5, <3>2, <3>3, LongerSegment
    <3> QED BY <1>4, <1>6, <3>1, <3>4 DEF Laid
  <2>2. CASE s.write < s.read /\ r.write < r.read
    <3>1. g = r.write /\ s.last = r.last
      BY <1>4, <2>2
    <3>2. PICK k \in 1 .. Len(packets) + 1 : Wrapped(r, packets, k)
      BY <2>2 DEF Laid
    <3>3. Segment(packets, 1, k, r.read, r.last) /\ Segment(packets, k, past, 0, r.write)
      BY <3>2 DEF Wrapped
    <3>4. Segment(q, k, Len(packets) + 2, 0, r.write + p.len)
      BY <1>5, <3>1, <3>3, LongerSegment DEF g
    <3>5. Segment(q, 1, k, r.read, r.last)
      <4>1. k \in Nat /\ 1 \in Nat /\ 1 <= k /\ k - 1 = k - 1
        BY <1>2
      <4>2. \A i \in 1 .. k - 1 : q[i + 1 - 1] = packets[i]
        BY <1>2, <1>3
      <4> HIDE DEF q
      <4> QED BY <3>3, <4>1, <4>2, SameSegment
    <3>6. Wrapped(s, q, k) /\ k \in 1 .. Len(q) + 1
      BY <1>2, <1>3, <1>4, <1>6, <3>1, <3>4, <3>5 DEF Wrapped
    <3> QED BY <2>2, <3>6 DEF Laid
  <2>3. CASE s.write < s.read /\ r.write >= r.read
    <3>1. g = 0 /\ s.last = r.write /\ ~(r.write < r.read)
      BY <1>4, <1>5, <2>3
    <3>2. Segment(packets, 1, past, r.read, r.write)
      BY <3>1 DEF Laid
    <3>3. Segment(packets, past, past, 0, 0)
      BY <1>5, EmptySegment
    <3>4. Segment(q, past, Len(packets) + 2, 0, 0 + p.len)
      <4>1. past \in 1 .. Len(packets) + 1 /\ 0 \in Nat /\ p.at = 0
        BY <1>2, <3>1 DEF g
      <4>2. Segment(packets, past, Len(packets) + 1, 0, 0)
        BY <3>3
      <4> HIDE DEF past
      <4> QED BY <4>1, <4>2, LongerSegment
    <3>5. Segment(q, 1, past, r.read, r.write)
      <4>1. 1 \in Nat /\ 1 <= past /\ past - 1 = past - 1
        BY <1>5
      <4>2. \A i \in 1 .. past - 1 : q[i + 1 - 1] = packets[i]
        BY <1>3, <1>5
      <4> HIDE DEF q, past
      <4> QED BY <1>5, <3>2, <4>1, <4>2, SameSegment
    <3>6. s.write = 0 + p.len /\ past \in 1 .. Len(q) + 1
      BY <1>3, <1>4, <1>5, <3>1
    <3>7. Wrapped(s, q, past)
      <4> HIDE DEF q, past
      <4> QED BY <1>4, <1>6, <3>1, <3>4, <3>5, <3>6 DEF Wrapped
    <3> QED BY <2>3, <3>6, <3>7 DEF Laid
  <2> QED BY <1>5, <2>1, <2>2, <2>3
<1> QED BY <1>4, <1>7 DEF s

\* The reader may go back to the start: the data before the wraparound is gone.
LEMMA RewindKeeps ==
  ASSUME NEW r \in Rings, NEW packets \in Seq(Packets), Laid(r, packets)
  PROVE  /\ Rewound(r) \in Rings /\ Laid(Rewound(r), packets)
         /\ Readable(r) = Until(Rewound(r)) - Rewound(r).read /\ Readable(r) \in 0 .. RingCap
<1> DEFINE s == Rewound(r)
<1>0. Len(packets) \in Nat /\ 1 \in Nat
  OBVIOUS
<1>1. s \in Rings /\ Laid(s, packets)
  <2>1. CASE ~(r.read = r.last /\ r.write < r.read)
    BY <2>1 DEF Rewound
  <2>2. CASE r.read = r.last /\ r.write < r.read
    <3>1. s = [r EXCEPT !.read = 0]
      BY <2>2 DEF Rewound
    <3>2. s \in Rings /\ s.read = 0 /\ s.write = r.write /\ s.last = r.last
      BY <3>1, RingTypes DEF Rings
    <3> HIDE DEF s
    <3>3. PICK k \in 1 .. Len(packets) + 1 : Wrapped(r, packets, k)
      BY <2>2 DEF Laid
    <3>4. Segment(packets, 1, k, r.read, r.last) /\ Segment(packets, k, Len(packets) + 1, 0, r.write)
      BY <3>3 DEF Wrapped
    <3>5. k = 1
      <4> SUFFICES ASSUME k # 1 PROVE FALSE
        OBVIOUS
      <4>1. 1 \in 1 .. k - 1 /\ 1 \in 1 .. Len(packets)
        BY <1>0
      <4>2. r.read <= packets[1].at /\ packets[1].at + packets[1].len <= r.last
        BY <3>4, <4>1 DEF Segment
      <4>3. packets[1].at \in Int /\ packets[1].len \in Nat \ {0} /\ r.read \in Nat
        BY <4>1, PacketTypes, RingTypes
      <4> QED BY <2>2, <4>2, <4>3
    <3>6. ~(s.write < s.read) /\ s.write <= s.last
      BY <2>2, <3>2, RingTypes
    <3> QED BY <3>2, <3>4, <3>5, <3>6 DEF Laid
  <2> QED BY <2>1, <2>2
<1> HIDE DEF s
<1>2. Readable(r) = Until(s) - s.read
  BY DEF Readable, Until, s
<1>3. s.read <= Until(s) /\ Until(s) \in 0 .. RingCap /\ s.read \in 0 .. RingCap
  BY <1>1, LaidShape, RingTypes DEF Until
<1>4. Until(s) - s.read \in 0 .. RingCap
  BY <1>3, MqttAssumption
<1> QED BY <1>1, <1>2, <1>4 DEF s

\* What write_out takes ends with a packet.
LEMMA ReadInOnePiece ==
  ASSUME NEW r \in Rings, NEW packets \in Seq(Packets), Laid(r, packets),
         NEW n \in Nat \ {0}, r.read + n = Until(r)
  PROVE  InFlight(r, packets, n)
<1>0. /\ Len(packets) \in Nat /\ r.write \in Nat /\ r.read \in Nat /\ r.last \in Nat
      /\ n \in Nat
  BY RingTypes
<1>1. PICK k \in 1 .. Len(packets) + 1 : Segment(packets, 1, k, r.read, Until(r))
  <2>1. CASE r.write < r.read
    BY <2>1 DEF Laid, Wrapped, Until
  <2>2. CASE ~(r.write < r.read)
    <3>1. Len(packets) + 1 \in 1 .. Len(packets) + 1
      BY <1>0
    <3> QED BY <2>2, <3>1 DEF Laid, Until
  <2> QED BY <2>1, <2>2
<1>2. k # 1
  <2> SUFFICES ASSUME k = 1 PROVE FALSE
    OBVIOUS
  <2>1. r.read = Until(r)
    BY <1>1, NoPacketsNoBytes
  <2> QED BY <1>0, <2>1
<1>3. k - 1 \in 1 .. k - 1 /\ k - 1 \in 1 .. Len(packets) /\ (k - 1) + 1 = k
  BY <1>0, <1>2
<1>4. packets[k - 1].at + packets[k - 1].len = Until(r) /\ r.read <= packets[k - 1].at
  BY <1>1, <1>3 DEF Segment, EndToEnd
<1>5. packets[k - 1].at \in Int
  BY <1>3, PacketTypes
<1>6. packets[k - 1].at >= r.read
  BY <1>0, <1>4, <1>5
<1>7. r.read + n <= Until(r)
  BY <1>0
<1> QED BY <1>3, <1>4, <1>6, <1>7 DEF InFlight

\* What is being sent stays there while packets are put behind it.
LEMMA StillInFlight ==
  ASSUME NEW r \in Rings, NEW s \in Rings, s.read = r.read, Until(r) <= Until(s),
         NEW packets \in Seq(Packets), NEW more \in Seq(Packets),
         Len(packets) <= Len(more),
         \A i \in 1 .. Len(packets) : more[i] = packets[i],
         NEW n \in Nat, InFlight(r, packets, n)
  PROVE  InFlight(s, more, n)
<1> SUFFICES ASSUME n > 0
             PROVE  /\ s.read + n <= Until(s)
                    /\ \E i \in 1 .. Len(more) :
                         more[i].at >= s.read /\ more[i].at + more[i].len = s.read + n
  BY DEF InFlight
<1>1. r.read + n <= Until(r)
  BY DEF InFlight
<1>2. PICK i \in 1 .. Len(packets) :
        packets[i].at >= r.read /\ packets[i].at + packets[i].len = r.read + n
  BY DEF InFlight
<1>3. i \in 1 .. Len(more)
  OBVIOUS
<1>4. Until(r) \in Nat /\ Until(s) \in Nat /\ r.read \in Nat
  BY RingTypes DEF Until
<1>5. s.read + n <= Until(s)
  BY <1>1, <1>4
<1>6. more[i].at >= s.read /\ more[i].at + more[i].len = s.read + n
  BY <1>2
<1> QED BY <1>3, <1>5, <1>6

\* The packets of a segment up to one that ends at e are those that start before e.
LEMMA StartBefore ==
  ASSUME NEW packets \in Seq(Packets), NEW past \in 1 .. Len(packets) + 1,
         NEW from \in Nat, NEW to \in Nat, Segment(packets, 1, past, from, to),
         NEW n \in 1 .. past - 1, NEW i \in 1 .. past - 1
  PROVE  /\ packets[i].at >= from
         /\ i <= n <=> packets[i].at < packets[n].at + packets[n].len
<1>1. Len(packets) \in Nat /\ i \in 1 .. Len(packets) /\ n \in 1 .. Len(packets)
  OBVIOUS
<1>2. /\ packets[i].at \in Int /\ packets[i].len \in Nat \ {0}
      /\ packets[n].at \in Int /\ packets[n].len \in Nat \ {0}
  BY <1>1, PacketTypes
<1>3. /\ from <= packets[i].at
      /\ i < n => packets[i].at + packets[i].len <= packets[n].at
      /\ n < i => packets[n].at + packets[n].len <= packets[i].at
  BY DEF Segment
<1>4. i < n \/ i = n \/ n < i
  OBVIOUS
<1>5. CASE i < n
  <2>1. i <= n
    BY <1>1, <1>5
  <2>2. packets[i].at + packets[i].len <= packets[n].at /\ packets[i].at >= from
    BY <1>2, <1>3, <1>5
  <2> DEFINE a == packets[i].at
             x == packets[i].len
             b == packets[n].at
             y == packets[n].len
  <2>3. a \in Int /\ b \in Int /\ x \in Nat \ {0} /\ y \in Nat \ {0} /\ a + x <= b
    BY <1>2, <2>2
  <2>4. a < b + y
    <3> HIDE DEF a, b, x, y
    <3> QED BY <2>3
  <2> QED BY <2>1, <2>2, <2>4
<1>6. CASE i = n
  BY <1>1, <1>2, <1>3, <1>6
<1>7. CASE n < i
  <2>1. ~(i <= n)
    BY <1>7
  <2> QED BY <1>2, <1>3, <1>7, <2>1
<1> QED BY <1>4, <1>5, <1>6, <1>7

\* Sending is the packets written: up to the one that ends where the grant does.
\* They are the first segment's.
LEMMA SendingIs ==
  ASSUME ring \in Rings, queue \in Seq(Packets), Laid(ring, queue),
         writing \in Nat \ {0}, InFlight(ring, queue, writing)
  PROVE  \E past \in 1 .. Len(queue) + 1 :
           /\ Segment(queue, 1, past, ring.read, Until(ring))
           /\ ring.write < ring.read => Segment(queue, past, Len(queue) + 1, 0, ring.write)
           /\ ring.write >= ring.read => past = Len(queue) + 1
           /\ Sending \in 1 .. past - 1
           /\ queue[Sending].at + queue[Sending].len = ring.read + writing
<1>0. /\ Len(queue) \in Nat /\ ring.write \in Nat /\ ring.read \in Nat /\ ring.last \in Nat
      /\ writing \in Nat /\ Until(ring) \in Nat
  BY RingTypes DEF Until
<1>1. PICK past \in 1 .. Len(queue) + 1 :
        /\ Segment(queue, 1, past, ring.read, Until(ring))
        /\ ring.write < ring.read => Segment(queue, past, Len(queue) + 1, 0, ring.write)
        /\ ring.write >= ring.read => past = Len(queue) + 1
  <2>1. CASE ring.write < ring.read
    BY <1>0, <2>1 DEF Laid, Wrapped, Until
  <2>2. CASE ~(ring.write < ring.read)
    <3>1. Len(queue) + 1 \in 1 .. Len(queue) + 1
      BY <1>0
    <3> QED BY <2>2, <3>1 DEF Laid, Until
  <2> QED BY <2>1, <2>2
<1>2. PICK n \in 1 .. Len(queue) :
        queue[n].at >= ring.read /\ queue[n].at + queue[n].len = ring.read + writing
  BY <1>0 DEF InFlight
<1>3. \A i \in 1 .. Len(queue) : queue[i].at \in Int /\ queue[i].len \in Nat \ {0}
  BY PacketTypes
<1>4. \A i \in past .. Len(queue) : queue[i].at < ring.read
  <2> TAKE i \in past .. Len(queue)
  <2>1. ring.write < ring.read /\ i \in past .. (Len(queue) + 1) - 1 /\ i \in 1 .. Len(queue)
    BY <1>0, <1>1
  <2>2. queue[i].at + queue[i].len <= ring.write
    BY <1>1, <2>1 DEF Segment
  <2> QED BY <1>0, <1>3, <2>1, <2>2, SMTT(30)
<1>5. n \in 1 .. past - 1 /\ n \in 0 .. Len(queue)
  <2>1. n \notin past .. Len(queue)
    BY <1>0, <1>2, <1>3, <1>4
  <2> QED BY <1>0, <2>1
<1> DEFINE In(i) == queue[i].at >= ring.read /\ queue[i].at < ring.read + writing
<1>6. \A i \in 1 .. Len(queue) : i <= n <=> In(i)
  <2> TAKE i \in 1 .. Len(queue)
  <2>1. CASE i \in 1 .. past - 1
    BY <1>0, <1>1, <1>2, <1>5, <2>1, StartBefore
  <2>2. CASE i \in past .. Len(queue)
    <3>1. ~(i <= n) /\ queue[i].at < ring.read
      BY <1>4, <1>5, <2>2
    <3> QED BY <1>0, <1>3, <3>1
  <2> QED BY <1>0, <2>1, <2>2
<1>7. Sending \in 0 .. Len(queue) /\ \A i \in 1 .. Len(queue) : i <= Sending <=> In(i)
  BY <1>5, <1>6 DEF Sending
<1> HIDE DEF In
<1>8. Sending = n
  <2>1. n <= Sending
    BY <1>6, <1>7, <1>5
  <2>2. CASE n < Sending
    <3>1. Sending \in 1 .. Len(queue) /\ ~(Sending <= n)
      BY <1>7, <2>2, <1>0
    <3> QED BY <1>6, <1>7, <3>1
  <2> QED BY <1>0, <1>5, <1>7, <2>1, <2>2
<1> QED BY <1>1, <1>2, <1>5, <1>8

\* A release takes the packets written out of ring and queue alike.
LEMMA ReleaseKeeps ==
  ASSUME ring \in Rings, queue \in Seq(Packets), Laid(ring, queue),
         writing \in Nat \ {0}, InFlight(ring, queue, writing)
  PROVE  /\ Released(ring, writing) \in Rings
         /\ Laid(Released(ring, writing), SubSeq(queue, Sending + 1, Len(queue)))
         /\ SubSeq(queue, Sending + 1, Len(queue)) \in Seq(Packets)
         /\ Sending \in 1 .. Len(queue)
<1> DEFINE s == Released(ring, writing)
           q == SubSeq(queue, Sending + 1, Len(queue))
           n == Sending
<1>0. /\ Len(queue) \in Nat /\ ring.write \in Nat /\ ring.read \in Nat /\ ring.last \in Nat
      /\ writing \in Nat /\ RingCap \in Nat /\ Until(ring) \in 0 .. RingCap /\ writing > 0
  BY RingTypes DEF Until
<1>1. ring.read + writing <= Until(ring)
  BY <1>0 DEF InFlight
<1>2. Rewound(ring) = ring
  BY <1>0, <1>1 DEF Rewound, Until
<1>3. s = [ring EXCEPT !.read = ring.read + writing]
  BY <1>2 DEF Released
<1>4. s.read = ring.read + writing /\ s.write = ring.write /\ s.last = ring.last /\ s \in Rings
  BY <1>0, <1>1, <1>3 DEF Rings
<1> HIDE DEF s
<1>5. PICK past \in 1 .. Len(queue) + 1 :
           /\ Segment(queue, 1, past, ring.read, Until(ring))
           /\ ring.write < ring.read => Segment(queue, past, Len(queue) + 1, 0, ring.write)
           /\ ring.write >= ring.read => past = Len(queue) + 1
           /\ n \in 1 .. past - 1
           /\ queue[n].at + queue[n].len = ring.read + writing
  BY SendingIs
<1>6. n \in Nat /\ n >= 1 /\ n <= Len(queue) /\ past \in Nat /\ n < past /\ past <= Len(queue) + 1
  BY <1>0, <1>5
<1>7. /\ q \in Seq(Packets) /\ Len(q) = Len(queue) - n
      /\ \A i \in 1 .. Len(queue) - n : q[i] = queue[i + n]
  <2> HIDE DEF n
  <2>1. q = SubSeq(queue, n + 1, Len(queue)) /\ queue \in Seq(Packets) /\ Len(queue) \in Nat
    BY <1>0 DEF n
  <2>2. n + 1 \in Nat /\ n + 1 >= 1 /\ n + 1 <= Len(queue) + 1 /\ Len(queue) - (n + 1) + 1 = Len(queue) - n
    BY <1>6, <2>1
  <2> DEFINE m == Len(queue)
             f == n + 1
  <2>3. m \in Nat /\ f \in Nat /\ f >= 1 /\ f <= m + 1 /\ m = Len(queue) /\ queue \in Seq(Packets)
    BY <2>1, <2>2
  <2> HIDE DEF f, m
  <2>4. /\ SubSeq(queue, f, m) \in Seq(Packets)
        /\ Len(SubSeq(queue, f, m)) = IF f <= m THEN m - f + 1 ELSE 0
        /\ \A i \in 1 .. m - f + 1 : SubSeq(queue, f, m)[i] = queue[f + i - 1]
    BY <2>3
  <2>5. q = SubSeq(queue, f, m) /\ m - f + 1 = Len(queue) - n
    BY <2>1, <2>2 DEF f, m
  <2>6. Len(q) = Len(queue) - n
    <3>1. (IF f <= m THEN m - f + 1 ELSE 0) = m - f + 1
      BY <2>3
    <3> QED BY <2>4, <2>5, <3>1
  <2>7. \A i \in 1 .. Len(queue) - n : q[i] = queue[i + n]
    <3> TAKE i \in 1 .. Len(queue) - n
    <3>1. f + i - 1 = i + n /\ i \in 1 .. m - f + 1
      BY <1>6, <2>1, <2>5 DEF f
    <3> QED BY <2>4, <2>5, <3>1
  <2> QED BY <2>4, <2>5, <2>6, <2>7
<1> HIDE DEF q, n
<1>8. Segment(queue, n + 1, past, s.read, Until(ring))
  BY <1>0, <1>4, <1>5, ShorterSegment
<1>9. Segment(q, 1, past - n, s.read, Until(ring))
  <2>1. /\ n + 1 \in Nat /\ n + 1 <= past /\ 1 \in Nat /\ past - n \in Nat
        /\ (past - n) - 1 = past - (n + 1)
    BY <1>6
  <2>2. \A i \in n + 1 .. past - 1 : q[i + 1 - (n + 1)] = queue[i]
    <3> TAKE i \in n + 1 .. past - 1
    <3>1. i - n \in 1 .. Len(queue) - n /\ (i - n) + n = i /\ i + 1 - (n + 1) = i - n
      BY <1>0, <1>6
    <3> QED BY <1>7, <3>1
  <2> QED BY <1>6, <1>8, <2>1, <2>2, SameSegment
<1>10. CASE ring.write < ring.read
  <2>1. s.write < s.read /\ Until(ring) = s.last
    BY <1>0, <1>4, <1>10 DEF Until
  <2>2. Segment(q, past - n, Len(q) + 1, 0, s.write)
    <3>1. /\ past <= Len(queue) + 1 /\ past - n \in Nat /\ Len(q) + 1 \in Nat /\ Len(queue) + 1 \in Nat
          /\ (Len(q) + 1) - (past - n) = (Len(queue) + 1) - past
      <4>1. Len(queue) \in Nat /\ Len(q) = Len(queue) - n
        BY <1>0, <1>7
      <4> QED BY <1>6, <4>1
    <3>2. \A i \in past .. (Len(queue) + 1) - 1 : q[i + (past - n) - past] = queue[i]
      <4> TAKE i \in past .. (Len(queue) + 1) - 1
      <4>1. i - n \in 1 .. Len(queue) - n /\ (i - n) + n = i /\ i + (past - n) - past = i - n
        BY <1>0, <1>6
      <4> QED BY <1>7, <4>1
    <3>3. Segment(queue, past, Len(queue) + 1, 0, s.write)
      BY <1>4, <1>5, <1>10
    <3> DEFINE first2 == past - n
               end == Len(queue) + 1
               end2 == Len(q) + 1
    <3>4. /\ first2 \in Nat /\ end \in Nat /\ end2 \in Nat /\ past <= end
          /\ end2 - first2 = end - past
          /\ \A i \in past .. end - 1 : q[i + first2 - past] = queue[i]
          /\ Segment(queue, past, end, 0, s.write)
      BY <3>1, <3>2, <3>3
    <3> HIDE DEF first2, end, end2
    <3>5. Segment(q, first2, end2, 0, s.write)
      BY <1>6, <3>4, SameSegment
    <3> QED BY <3>5 DEF first2, end2
  <2>3. past - n \in 1 .. Len(q) + 1
    BY <1>0, <1>6, <1>7, SMTT(30)
  <2> QED BY <1>4, <1>6, <1>7, <1>9, <2>1, <2>2, <2>3 DEF Laid, Wrapped, s, q, n
<1>11. CASE ring.write >= ring.read
  <2>1. /\ ~(ring.write < ring.read) /\ Until(ring) = ring.write /\ ring.write <= ring.last
        /\ ~(s.write < s.read) /\ past - n = Len(q) + 1
    BY <1>0, <1>1, <1>4, <1>5, <1>6, <1>7, <1>11, SMTT(30) DEF Until, Laid
  <2> QED BY <1>4, <1>6, <1>7, <1>9, <2>1 DEF Laid, s, q, n
<1> QED BY <1>0, <1>10, <1>11

(***************************************************************************)
(* The session: ring and packets.                                          *)
(***************************************************************************)
\* What is being sent is readable.
LEMMA ReadableEnough ==
  ASSUME RingSound
  PROVE  Readable(ring) >= writing
<1>1. /\ ring \in Rings /\ queue \in Seq(Packets) /\ writing \in Nat /\ Laid(ring, queue)
      /\ RingCap \in Nat
  BY RingTypes DEF RingSound
<1>2. /\ Readable(ring) = Until(Rewound(ring)) - Rewound(ring).read
      /\ Readable(ring) \in 0 .. RingCap
  BY <1>1, RewindKeeps
<1>3. CASE writing = 0
  BY <1>1, <1>2, <1>3
<1>4. CASE writing > 0
  <2>1. ring.read + writing <= Until(ring)
    BY <1>4 DEF RingSound, InFlight
  <2>2. ring.read \in Nat /\ ring.write \in Nat /\ ring.last \in Nat /\ Until(ring) \in Nat
    BY <1>1, RingTypes DEF Until
  <2>3. Rewound(ring) = ring
    BY <1>1, <1>4, <2>1, <2>2 DEF Rewound, Until
  <2> QED BY <1>1, <1>2, <2>1, <2>2, <2>3
<1> QED BY <1>1, <1>3, <1>4

\* The type invariant of the module follows.
LEMMA TypesFollow == IInv => TypeOK
<1> SUFFICES ASSUME IInv PROVE TypeOK
  OBVIOUS
<1>1. Readable(ring) >= writing
  BY ReadableEnough DEF IInv
<1> QED BY <1>1 DEF IInv, RingSound, RestTypes, TypeOK

\* A frame encoded into a ring that probes may have wrapped.
LEMMA EncodeKeeps ==
  ASSUME RingSound, NEW from \in Rings, Laid(from, queue), from.read = ring.read,
         Until(ring) <= Until(from),
         NEW kind \in {"connect", "subscribe", "publish0", "publish1", "puback", "ping"},
         NEW len \in Nat \ {0}, NEW behind \in Nat, has_room(from, len + behind),
         Encode(from, kind, len, behind)
  PROVE  RingSound'
<1> DEFINE p == [kind |-> kind, at |-> Grant(from, len + behind), len |-> len]
<1>1. /\ ring' = Put(from, len, behind) /\ queue' = Append(queue, p) /\ writing' = writing
  BY DEF Encode, putting
<1>2. /\ ring \in Rings /\ queue \in Seq(Packets) /\ writing \in 0 .. RingCap /\ writing \in Nat
      /\ InFlight(ring, queue, writing) /\ len + behind \in Nat /\ len \in 0 .. len + behind
  BY MqttAssumption DEF RingSound
<1>3. Grant(from, len + behind) \in 0 .. RingCap
  BY <1>2, CommitShape
<1>4. p \in Packets /\ p.at = Grant(from, len + behind) /\ p.len = len
  BY <1>3 DEF Packets
<1> HIDE DEF p
<1>5. /\ ring' \in Rings /\ Laid(ring', queue')
      /\ ring'.read = from.read /\ Until(from) <= Until(ring')
  BY <1>1, <1>2, <1>4, PutKeeps
<1>6. /\ queue' \in Seq(Packets) /\ Len(queue) <= Len(queue')
      /\ \A i \in 1 .. Len(queue) : queue'[i] = queue[i]
  BY <1>1, <1>2, <1>4
<1>7. Until(ring) <= Until(ring') /\ ring'.read = ring.read
  <2>1. Until(ring) \in Nat /\ Until(from) \in Nat /\ Until(ring') \in Nat
    BY <1>2, <1>5, RingTypes DEF Until
  <2> QED BY <1>5, <2>1
<1>8. InFlight(ring', queue', writing)
  BY <1>2, <1>5, <1>6, <1>7, StillInFlight
<1> QED BY <1>1, <1>2, <1>5, <1>6, <1>8 DEF RingSound

\* A frame encoded into the ring as it is.
LEMMA EncodeHere ==
  ASSUME RingSound,
         NEW kind \in {"connect", "subscribe", "publish0", "publish1", "puback", "ping"},
         NEW len \in Nat \ {0}, has_room(ring, len), Encode(ring, kind, len, 0)
  PROVE  RingSound'
<1>1. ring \in Rings /\ Laid(ring, queue) /\ len + 0 = len /\ 0 \in Nat
  BY DEF RingSound
<1>2. Until(ring) \in Nat
  BY <1>1, RingTypes DEF Until
<1>3. Until(ring) <= Until(ring)
  BY <1>2
<1> QED BY <1>1, <1>3, EncodeKeeps

\* A probe on its own.
LEMMA ProbeHere ==
  ASSUME RingSound, NEW n \in Nat, ring' = Probed(ring, n), UNCHANGED <<queue, writing>>
  PROVE  RingSound'
<1>1. ring \in Rings /\ Laid(ring, queue) /\ queue \in Seq(Packets) /\ writing \in Nat
  BY MqttAssumption DEF RingSound
<1>2. /\ ring' \in Rings /\ Laid(ring', queue)
      /\ ring'.read = ring.read /\ Until(ring) <= Until(ring')
  BY <1>1, ProbeKeeps
<1>3. InFlight(ring', queue, writing)
  <2>1. Len(queue) <= Len(queue)
    BY <1>1
  <2> QED BY <1>1, <1>2, <2>1, StillInFlight DEF RingSound
<1> QED BY <1>2, <1>3 DEF RingSound

\* The room asked for before a PUBLISH is enough for every frame that fits.
LEMMA PublishRoom ==
  /\ publish_room \in Nat
  /\ \A len \in FrameLens : fits(len, Reserve) =>
       len \in Nat \ {0} /\ Reserve \in Nat /\ len + Reserve \in 0 .. publish_room
<1>1. RingCap \in Nat /\ Reserve \in Nat /\ FrameLens \subseteq Nat \ {0}
  BY MqttAssumption
<1>2. RingCap \div 2 \in Nat
  BY <1>1
<1> QED BY <1>1, <1>2 DEF publish_room, max_publish, fits

LEMMA RingInit == Init => RingSound
<1> SUFFICES ASSUME Init PROVE RingSound
  OBVIOUS
<1>1. ring = NewRing /\ queue = <<>> /\ writing = 0 /\ RingCap \in Nat
  BY MqttAssumption DEF Init
<1>2. ring \in Rings /\ ring.write = 0 /\ ring.read = 0 /\ ring.last = 0
  BY <1>1 DEF NewRing, Rings
<1>3. Len(queue) + 1 = 1 /\ queue \in Seq(Packets)
  BY <1>1
<1>4. Segment(queue, 1, Len(queue) + 1, ring.read, ring.write)
  BY <1>2, <1>3, EmptySegment
<1> QED BY <1>1, <1>2, <1>3, <1>4 DEF RingSound, Laid, InFlight

\* drain leaves an empty ring wherever its pointers are.
LEMMA DialKeeps ==
  ASSUME RingSound, Dial
  PROVE  RingSound'
<1>1. ring' = [ring EXCEPT !.read = ring.write] /\ queue' = <<>> /\ writing' = 0 /\ ring \in Rings
  BY DEF Dial, Emptied, drain, RingSound
<1>2. /\ ring' \in Rings /\ ring'.write = ring.write /\ ring'.read = ring.write /\ ring'.last = ring.last
      /\ ring.write \in Nat /\ ring.read \in Nat /\ ring.last \in Nat /\ 0 \in 0 .. RingCap
  BY <1>1, RingTypes DEF Rings
<1>3. ring.write <= ring.last
  BY <1>1, <1>2, LaidShape DEF RingSound, Until
<1>4. Len(queue') + 1 = 1 /\ queue' \in Seq(Packets)
  BY <1>1
<1>5. Segment(queue', 1, Len(queue') + 1, ring'.read, ring'.write)
  BY <1>2, <1>4, EmptySegment
<1>6. ~(ring'.write < ring'.read) /\ ring'.write <= ring'.last
  BY <1>2, <1>3
<1> QED BY <1>1, <1>2, <1>4, <1>5, <1>6 DEF RingSound, Laid, InFlight

LEMMA OverKeeps ==
  ASSUME RingSound, Over
  PROVE  RingSound'
  BY MqttAssumption DEF RingSound, Over, InFlight

LEMMA WriteOutKeeps ==
  ASSUME RingSound, WriteOut
  PROVE  RingSound'
<1>1. /\ ring' = Rewound(ring) /\ queue' = queue /\ writing' = Readable(ring) /\ Readable(ring) > 0
      /\ ring \in Rings /\ queue \in Seq(Packets) /\ Laid(ring, queue) /\ RingCap \in Nat
  BY MqttAssumption DEF WriteOut, RingSound
<1>2. /\ ring' \in Rings /\ Laid(ring', queue)
      /\ writing' = Until(ring') - ring'.read /\ writing' \in 0 .. RingCap
  BY <1>1, RewindKeeps
<1>3. writing' \in Nat \ {0} /\ ring'.read + writing' = Until(ring')
  <2>1. ring'.read \in Nat /\ Until(ring') \in Nat
    BY <1>2, RingTypes DEF Until
  <2> QED BY <1>1, <1>2, <2>1
<1>4. InFlight(ring', queue, writing')
  BY <1>1, <1>2, <1>3, ReadInOnePiece
<1> QED BY <1>1, <1>2, <1>4 DEF RingSound

LEMMA WrittenKeeps ==
  ASSUME RingSound, Written
  PROVE  RingSound' /\ Sending \in 1 .. Len(queue)
<1>1. /\ ring' = Released(ring, writing) /\ queue' = SubSeq(queue, Sending + 1, Len(queue))
      /\ writing' = 0 /\ writing > 0
  BY DEF Written
<1>2. /\ ring \in Rings /\ queue \in Seq(Packets) /\ Laid(ring, queue) /\ writing \in Nat \ {0}
      /\ InFlight(ring, queue, writing) /\ 0 \in 0 .. RingCap
  BY <1>1, MqttAssumption DEF RingSound
<1>3. /\ ring' \in Rings /\ Laid(ring', queue') /\ queue' \in Seq(Packets)
      /\ Sending \in 1 .. Len(queue)
  BY <1>1, <1>2, ReleaseKeeps
<1> QED BY <1>1, <1>2, <1>3 DEF RingSound, InFlight

\* A poll of write_out that finds nothing may move the reader.
LEMMA PollKeeps ==
  ASSUME RingSound, ring' = Polled, UNCHANGED <<queue, writing>>
  PROVE  RingSound'
<1>1. CASE writing = 0
  <2>1. ring' = Rewound(ring)
    BY <1>1 DEF Polled
  <2>2. ring' \in Rings /\ Laid(ring', queue)
    BY <2>1, RewindKeeps DEF RingSound
  <2> QED BY <1>1, <2>2 DEF RingSound, InFlight
<1>2. CASE writing # 0
  BY <1>2 DEF Polled, RingSound
<1> QED BY <1>1, <1>2

\* Every step keeps ring and packets in agreement.
LEMMA RingNext ==
  ASSUME RingSound, [Next]_vars
  PROVE  RingSound'
<1> DEFINE Kinds == {"connect", "subscribe", "publish0", "publish1", "puback", "ping"}
<1>0. /\ ring \in Rings /\ queue \in Seq(Packets) /\ Laid(ring, queue)
      /\ ConnectLen \in Nat \ {0} /\ SubscribeLen \in Nat \ {0} /\ PubackLen \in Nat \ {0}
      /\ PingLen \in Nat \ {0} /\ PubackRoom \in Nat /\ PubackLen \in 0 .. PubackRoom
  BY MqttAssumption DEF RingSound
<1>1. CASE UNCHANGED <<ring, queue, writing>>
  BY <1>1 DEF RingSound
<1>2. CASE Dial
  BY <1>2, DialKeeps
<1>3. CASE Over
  BY <1>3, OverKeeps
<1>4. CASE WriteOut
  BY <1>4, WriteOutKeeps
<1>5. CASE Written
  BY <1>5, WrittenKeeps
<1>6. CASE PutConnect
  BY <1>0, <1>6, EncodeHere DEF PutConnect
<1>7. CASE Top
  <2>1. CASE has_room(ring, PingLen) /\ Encode(ring, "ping", PingLen, 0)
    BY <1>0, <2>1, EncodeHere
  <2>2. CASE UNCHANGED io
    BY <1>1, <2>2 DEF io
  <2> QED BY <1>7, <2>1, <2>2 DEF Top
<1>8. CASE PutSubscribe
  BY <1>0, <1>8, EncodeHere DEF PutSubscribe
<1>9. CASE Publish
  <2> DEFINE from == Probed(ring, publish_room)
  <2>1. has_room(ring, publish_room) /\ publish_room \in Nat
    BY <1>9, PublishRoom DEF Publish, Publishable
  <2>2. /\ from \in Rings /\ Laid(from, queue) /\ from.read = ring.read /\ Until(ring) <= Until(from)
    BY <1>0, <2>1, ProbeKeeps
  <2>3. CASE \E len \in FrameLens, qos \in {"publish0", "publish1"} :
               fits(len, Reserve) /\ Encode(from, qos, len, Reserve)
    <3>1. PICK len \in FrameLens, qos \in {"publish0", "publish1"} :
            fits(len, Reserve) /\ Encode(from, qos, len, Reserve)
      BY <2>3
    <3>2. len \in Nat \ {0} /\ Reserve \in Nat /\ len + Reserve \in 0 .. publish_room
      BY <3>1, PublishRoom
    <3>3. has_room(from, len + Reserve)
      BY <1>0, <2>1, <3>2, ProbeFinds
    <3> HIDE DEF from
    <3> QED BY <2>2, <3>1, <3>2, <3>3, EncodeKeeps
  <2>4. CASE ring' = from /\ UNCHANGED <<queue, putting>>
    BY <2>1, <2>4, ProbeHere DEF putting
  <2> QED BY <1>9, <2>3, <2>4 DEF Publish
<1>10. CASE Parse
  <2> DEFINE from == Probed(ring, PubackRoom)
  <2>1. CASE has_room(ring, PubackRoom) /\ Encode(from, "puback", PubackLen, 0)
    <3>1. /\ from \in Rings /\ Laid(from, queue) /\ from.read = ring.read
          /\ Until(ring) <= Until(from)
      BY <1>0, ProbeKeeps
    <3>2. has_room(from, PubackLen) /\ PubackLen + 0 = PubackLen /\ 0 \in Nat
      BY <1>0, <2>1, ProbeFinds
    <3> HIDE DEF from
    <3> QED BY <1>0, <2>1, <3>1, <3>2, EncodeKeeps
  <2>2. CASE UNCHANGED io
    BY <1>1, <2>2 DEF io
  <2> QED BY <1>10, <2>1, <2>2 DEF Parse
<1>11. CASE Turn
  <2>1. CASE ring' = Probed(ring, publish_room) /\ UNCHANGED <<queue, writing>>
    BY <2>1, ProbeHere, PublishRoom
  <2>2. ring' = Polled \/ ring' = ring \/ ring' = Probed(ring, publish_room)
    BY <1>11 DEF Turn
  <2>3. UNCHANGED <<queue, writing>>
    BY <1>11 DEF Turn
  <2> QED BY <1>1, <2>1, <2>2, <2>3, PollKeeps
<1>12. CASE Redial \/ ReadInto \/ ResponsePasses \/ ReceiveChunk \/ Parsed \/ UNCHANGED vars
  BY <1>1, <1>12 DEF Redial, ReadInto, ResponsePasses, ReceiveChunk, Parsed, vars, io
<1>13. CASE Wake
  BY <1>13, PollKeeps DEF Wake
<1>14. CASE Client
  BY <1>3, <1>6, <1>7, <1>8, <1>9, <1>10, <1>12, <1>14
     DEF Client, ClientStep, GiveUp, Disconnected
<1> QED BY <1>2, <1>3, <1>4, <1>5, <1>11, <1>12, <1>13, <1>14 DEF Next, ReadFails, WriteFails

(***************************************************************************)
(* The session: the rest of its state.                                     *)
(***************************************************************************)
LEMMA NothingInbound ==
  /\ 0 \in 0 .. Topics
  /\ <<>> \in Seq(Answers \cup {"publish0", "publish1", "disconnect"})
<1>1. Topics \in Nat
  BY MqttAssumption
<1> QED BY <1>1

LEMMA RestInit == Init => RestTypes
  BY NothingInbound DEF Init, RestTypes

LEMMA OverTypes ==
  ASSUME RestTypes, Over
  PROVE  RestTypes'
  BY NothingInbound DEF RestTypes, Over

\* What the broker sends.
LEMMA BurstTypes ==
  \A b \in Bursts : b \in Seq(Answers \cup {"publish0", "publish1", "disconnect"})
<1> TAKE b \in Bursts
<1>1. CASE b = <<"disconnect">>
  BY <1>1
<1>2. CASE b \in UNION {[1 .. n -> {"publish0", "publish1"}] : n \in 1 .. MaxBurst}
  <2>1. PICK n \in 1 .. MaxBurst : b \in [1 .. n -> {"publish0", "publish1"}]
    BY <1>2
  <2>2. n \in Nat
    BY MqttAssumption
  <2>3. b \in [1 .. n -> Answers \cup {"publish0", "publish1", "disconnect"}]
    BY <2>1
  <2> QED BY <2>2, <2>3, SeqDef
<1> QED BY <1>1, <1>2 DEF Bursts

\* Every step keeps the types.
LEMMA RestNext ==
  ASSUME RestTypes, [Next]_vars
  PROVE  RestTypes'
<1> DEFINE Inbound == Answers \cup {"publish0", "publish1", "disconnect"}
<1>0. Topics \in Nat /\ chunk \in Seq(Inbound) /\ head \in Seq(Inbound)
  BY MqttAssumption DEF RestTypes
<1>1. CASE Over
  BY <1>1, OverTypes
<1>2. CASE Dial
  <2>1. "connack" \in Answers
    BY DEF Answers
  <2> QED BY <1>2, <2>1, NothingInbound DEF Dial, RestTypes
<1>3. CASE Redial
  BY <1>3 DEF Redial, RestTypes, io, inward, client
<1>4. CASE ReadInto
  <2>1. chunk' \in Seq(Inbound)
    <3>1. CASE \E a \in owes : chunk' = <<a>> /\ owes' = owes \ {a}
      <4>1. PICK a \in owes : chunk' = <<a>>
        BY <3>1
      <4>2. a \in Inbound
        BY DEF RestTypes
      <4> QED BY <4>1, <4>2
    <3>2. CASE chunk' \in Bursts
      BY <3>2, BurstTypes
    <3> QED BY <1>4, <3>1, <3>2 DEF ReadInto
  <2>2. owes' \subseteq owes
    BY <1>4 DEF ReadInto
  <2> QED BY <1>4, <2>1, <2>2 DEF ReadInto, RestTypes, client
<1>5. CASE WriteOut
  BY <1>5 DEF WriteOut, RestTypes, inward, client
<1>6. CASE Written
  <2>1. \A kind : AnswerTo(kind) \subseteq Answers
    BY DEF AnswerTo, Answers
  <2>2. owes' \subseteq Answers
    BY <1>6, <2>1 DEF Written, RestTypes
  <2>3. broker' \in {"nothing", "connect", "other"}
    BY <1>6 DEF Written, RestTypes
  <2> QED BY <1>6, <2>2, <2>3 DEF Written, RestTypes, inward, client
<1>7. CASE PutConnect /\ UNCHANGED turn
  BY <1>7 DEF PutConnect, Encode, putting, RestTypes, inward, client
<1>8. CASE Top /\ UNCHANGED turn
  <2>1. UNCHANGED <<broker, owes>>
    BY <1>8 DEF Top, Encode, putting, io
  <2>2. pc' \in {"subscribe", "select"} /\ (pc' = "subscribe" => next < Topics)
    BY <1>8 DEF Top, Subscribing
  <2> QED BY <1>8, <2>1, <2>2 DEF Top, RestTypes, inward, client
<1>9. CASE PutSubscribe /\ UNCHANGED turn
  <2>1. next' \in 0 .. Topics
    BY <1>0, <1>9 DEF PutSubscribe, RestTypes
  <2> QED BY <1>9, <2>1 DEF PutSubscribe, Encode, putting, RestTypes, inward, Answers
<1>10. CASE ReceiveChunk /\ UNCHANGED turn
  <2>1. head' \in Seq(Inbound) /\ chunk' \in Seq(Inbound)
    <3> HIDE DEF Inbound
    <3> QED BY <1>0, <1>10 DEF ReceiveChunk
  <2> QED BY <1>10, <2>1 DEF ReceiveChunk, RestTypes, io, client
<1>11. ASSUME NEW w, Bottom(w), w \in {"nothing"} \cup Answers
       PROVE  /\ pc' = "top" /\ awaiting' \in {"nothing"} \cup Answers
              /\ response' \in {"off", "armed", "passed"}
  BY <1>11 DEF Bottom, RestTypes
<1>12. CASE Publish /\ UNCHANGED turn
  <2>1. UNCHANGED <<broker, owes>>
    BY <1>12 DEF Publish, Encode, putting
  <2>2. PICK w \in {"nothing", "puback"} \cup {awaiting} : Bottom(w)
    BY <1>12 DEF Publish
  <2>3. w \in {"nothing"} \cup Answers
    BY DEF RestTypes, Answers
  <2>4. /\ pc' = "top" /\ awaiting' \in {"nothing"} \cup Answers
        /\ response' \in {"off", "armed", "passed"}
    BY <1>11, <2>2, <2>3
  <2> QED BY <1>12, <2>1, <2>4 DEF Publish, RestTypes, inward
<1>13. CASE Parse /\ UNCHANGED turn
  <2>1. UNCHANGED <<broker, owes>>
    BY <1>13 DEF Parse, Encode, putting, io
  <2>2. head' = Tail(head) /\ head # <<>>
    BY <1>13 DEF Parse, consume
  <2>3. head' \in Seq(Inbound)
    <3> HIDE DEF Inbound
    <3> QED BY <1>0, <2>2
  <2>4. connected' \in BOOLEAN /\ awaiting' \in {"nothing"} \cup Answers
    BY <1>13 DEF Parse, RestTypes
  <2> QED BY <1>13, <2>1, <2>3, <2>4 DEF Parse, RestTypes
<1>14. CASE (Parsed /\ UNCHANGED turn) \/ Wake
  <2>1. Bottom(awaiting) /\ awaiting \in {"nothing"} \cup Answers
    BY <1>14 DEF Parsed, Wake, RestTypes
  <2>2. /\ pc' = "top" /\ awaiting' \in {"nothing"} \cup Answers
        /\ response' \in {"off", "armed", "passed"}
    BY <1>11, <2>1
  <2>3. CASE Parsed /\ UNCHANGED turn
    BY <2>2, <2>3 DEF Parsed, RestTypes, io, inward
  <2>4. CASE Wake
    BY <2>2, <2>4 DEF Wake, RestTypes, io, inward
  <2> QED BY <1>14, <2>3, <2>4
<1>15. CASE Client
  BY <1>1, <1>7, <1>8, <1>9, <1>10, <1>12, <1>13, <1>14, <1>15
     DEF Client, ClientStep, GiveUp, Disconnected
<1>16. CASE Turn
  BY <1>16 DEF Turn, RestTypes, inward, client
<1>17. CASE ResponsePasses
  BY <1>17 DEF ResponsePasses, RestTypes, io, inward, client
<1>18. CASE UNCHANGED vars
  BY <1>18 DEF vars, RestTypes, io, inward, client
<1> QED BY <1>1, <1>2, <1>3, <1>4, <1>5, <1>6, <1>14, <1>15, <1>16, <1>17, <1>18
        DEF Next, ReadFails, WriteFails

(***************************************************************************)
(* The session: CONNECT first.                                             *)
(***************************************************************************)
LEMMA ConnectInit == Init => ConnectAhead
  BY DEF Init, ConnectAhead, Running

\* Whatever is put behind it, the CONNECT stays ahead.
LEMMA StaysAhead ==
  ASSUME ConnectAhead, queue \in Seq(Packets), pc \notin {"dial", "over", "connect"},
         pc' # "connect", broker' = broker,
         queue' = queue \/ \E p \in Packets : queue' = Append(queue, p)
  PROVE  ConnectAhead'
<1>1. broker' # "other"
  BY DEF ConnectAhead
<1>2. ASSUME broker' = "nothing"
      PROVE  queue' # <<>> /\ queue'[1].kind = "connect"
  <2>1. queue # <<>> /\ queue[1].kind = "connect"
    BY <1>2 DEF ConnectAhead, Running
  <2>2. ASSUME NEW p \in Packets, queue' = Append(queue, p)
        PROVE  queue' # <<>> /\ queue'[1] = queue[1]
    BY <2>1, <2>2
  <2> QED BY <2>1, <2>2
<1> QED BY <1>1, <1>2 DEF ConnectAhead

\* Encode appends a packet.
LEMMA EncodeAppends ==
  ASSUME queue' \in Seq(Packets), queue \in Seq(Packets), NEW from, NEW kind, NEW len, NEW behind,
         Encode(from, kind, len, behind)
  PROVE  \E p \in Packets : queue' = Append(queue, p) /\ p.kind = kind
<1> DEFINE p == [kind |-> kind, at |-> Grant(from, len + behind), len |-> len]
<1>1. queue' = Append(queue, p)
  BY DEF Encode
<1>2. p.kind = kind
  OBVIOUS
<1> HIDE DEF p
<1>3. Len(queue') = Len(queue) + 1 /\ queue'[Len(queue) + 1] = p
  BY <1>1
<1>4. p \in Packets
  BY <1>3
<1> QED BY <1>1, <1>2, <1>4

\* Every step keeps the CONNECT ahead.
LEMMA ConnectNext ==
  ASSUME IInv, [Next]_vars
  PROVE  ConnectAhead'
<1>0. queue \in Seq(Packets) /\ queue' \in Seq(Packets) /\ RingSound
  BY RingNext DEF IInv, RingSound
<1>1. CASE UNCHANGED <<pc, queue, broker>>
  BY <1>1 DEF IInv, ConnectAhead, Running
<1>2. CASE Over
  BY <1>2 DEF IInv, ConnectAhead, Over, Running
<1>3. CASE Dial
  BY <1>3 DEF Dial, Emptied, ConnectAhead
<1>4. CASE Redial
  BY <1>4 DEF Redial, IInv, ConnectAhead, Running, io
<1>5. CASE Written
  <2>1. Sending \in 1 .. Len(queue)
    BY <1>0, <1>5, WrittenKeeps
  <2>2. queue # <<>> /\ Sending # 0
    BY <1>0, <2>1
  <2>3. pc' = pc /\ pc # "connect" /\ Running
    BY <1>5, <2>2 DEF Written, IInv, ConnectAhead
  <2>4. broker' = IF broker # "nothing" THEN broker
                  ELSE IF queue[1].kind = "connect" THEN "connect" ELSE "other"
    BY <1>5, <2>2 DEF Written
  <2>5. broker' \notin {"nothing", "other"}
    BY <2>3, <2>4 DEF IInv, ConnectAhead
  <2> QED BY <2>3, <2>5 DEF ConnectAhead
<1>6. CASE PutConnect
  <2>1. queue = <<>> /\ broker' = "nothing" /\ pc' = "top"
    BY <1>6 DEF PutConnect, Encode, putting, IInv, ConnectAhead
  <2>2. PICK p \in Packets : queue' = Append(queue, p) /\ p.kind = "connect"
    BY <1>0, <1>6, EncodeAppends DEF PutConnect
  <2>3. queue' # <<>> /\ queue'[1].kind = "connect"
    BY <2>1, <2>2
  <2> QED BY <2>1, <2>3 DEF ConnectAhead
<1>7. CASE Top
  <2>1. /\ pc \notin {"dial", "over", "connect"} /\ pc' # "connect" /\ broker' = broker
        /\ queue' = queue \/ Encode(ring, "ping", PingLen, 0)
    BY <1>7 DEF Top, io, Encode, putting
  <2> QED BY <1>0, <2>1, EncodeAppends, StaysAhead DEF IInv
<1>8. CASE PutSubscribe
  <2>1. /\ pc \notin {"dial", "over", "connect"} /\ pc' # "connect" /\ broker' = broker
        /\ Encode(ring, "subscribe", SubscribeLen, 0)
    BY <1>8 DEF PutSubscribe, Encode, putting
  <2> QED BY <1>0, <2>1, EncodeAppends, StaysAhead DEF IInv
<1>9. CASE Publish
  <2>1. /\ pc \notin {"dial", "over", "connect"} /\ pc' # "connect" /\ broker' = broker
        /\ \/ queue' = queue
           \/ \E len, qos : Encode(Probed(ring, publish_room), qos, len, Reserve)
    BY <1>9 DEF Publish, Encode, putting, Bottom
  <2> QED BY <1>0, <2>1, EncodeAppends, StaysAhead DEF IInv
<1>10. CASE Parse
  <2>1. /\ pc \notin {"dial", "over", "connect"} /\ pc' # "connect" /\ broker' = broker
        /\ queue' = queue \/ Encode(Probed(ring, PubackRoom), "puback", PubackLen, 0)
    BY <1>10 DEF Parse, io, Encode, putting
  <2> QED BY <1>0, <2>1, EncodeAppends, StaysAhead DEF IInv
<1>11. CASE ReceiveChunk \/ Parsed \/ Wake
  <2>1. /\ pc \notin {"dial", "over", "connect"} /\ pc' # "connect" /\ broker' = broker
        /\ queue' = queue
    BY <1>11 DEF ReceiveChunk, Parsed, Wake, Bottom, io
  <2> QED BY <1>0, <2>1, StaysAhead DEF IInv
<1>12. CASE ReadInto \/ WriteOut \/ Turn \/ ResponsePasses \/ UNCHANGED vars
  BY <1>1, <1>12 DEF ReadInto, WriteOut, Turn, ResponsePasses, vars, io
<1>13. CASE Client
  BY <1>2, <1>6, <1>7, <1>8, <1>9, <1>10, <1>11, <1>13
     DEF Client, ClientStep, GiveUp, Disconnected
<1> QED BY <1>2, <1>3, <1>4, <1>5, <1>11, <1>12, <1>13 DEF Next, ReadFails, WriteFails

(***************************************************************************)
(* The theorems.                                                           *)
(***************************************************************************)
\* The invariant holds in every state of every session and between sessions.
THEOREM Invariant == Spec => []IInv
<1>1. Init => IInv
  BY RingInit, RestInit, ConnectInit DEF IInv
<1>2. IInv /\ [Next]_vars => IInv'
  <2> SUFFICES ASSUME IInv, [Next]_vars PROVE IInv'
    OBVIOUS
  <2>1. RingSound' /\ RestTypes'
    BY RingNext, RestNext DEF IInv
  <2>2. ConnectAhead'
    BY ConnectNext
  <2> QED BY <2>1, <2>2 DEF IInv
<1> QED BY <1>1, <1>2, PTL DEF Spec

\* Nothing reaches a socket ahead of its CONNECT: run_session drains what the last
\* session left in the ring, whatever its size, before the client loop begins.
THEOREM ConnectIsFirst == Spec => []ConnectFirst
<1>1. IInv => ConnectFirst
  BY TypesFollow DEF IInv, ConnectAhead, ConnectFirst
<1> QED BY <1>1, Invariant, PTL

\* The bytes write_out reads are the packets committed, in order and end to end,
\* for every ring and every mix of puts, probes that wrap early, reads and releases.
THEOREM RingKeepsPackets == Spec => []RingHoldsQueue
<1>1. IInv => RingHoldsQueue
  <2> SUFFICES ASSUME IInv PROVE RingHoldsQueue
    OBVIOUS
  <2>1. Laid(ring, queue)
    BY DEF IInv, RingSound
  <2>2. \A a, b, c, d : Segment(queue, a, b, c, d) => EndToEnd(queue, a, b, c, d)
    BY DEF Segment
  <2> QED BY <2>1, <2>2 DEF Laid, Wrapped, RingHoldsQueue
<1> QED BY <1>1, Invariant, PTL

\* fits: wherever its pointers are, a ring with nothing queued grants half its
\* capacity once write_out has looked at it, so that put, wait_room and the publish
\* arm never wait for what no release can bring.
THEOREM EmptyRingGrantsHalf ==
  Spec => [](queue = <<>> => \A n \in 0 .. RingCap \div 2 : has_room(Rewound(ring), n))
<1>1. IInv => (queue = <<>> => \A n \in 0 .. RingCap \div 2 : has_room(Rewound(ring), n))
  <2> SUFFICES ASSUME IInv, queue = <<>>, NEW n \in 0 .. RingCap \div 2
               PROVE  has_room(Rewound(ring), n)
    OBVIOUS
  <2> DEFINE s == Rewound(ring)
  <2>1. ring \in Rings /\ queue \in Seq(Packets) /\ Laid(ring, queue) /\ Len(queue) + 1 = 1
    BY DEF IInv, RingSound
  <2>2. s \in Rings /\ Laid(s, queue)
    BY <2>1, RewindKeeps
  <2>3. RingCap \in Nat /\ n \in Nat /\ 2 * n <= RingCap
    <3>1. RingCap \in Nat
      BY MqttAssumption
    <3> QED BY <3>1
  <2>4. s.write \in 0 .. RingCap /\ s.read \in 0 .. RingCap /\ s.last \in 0 .. RingCap
    BY <2>2, RingTypes
  <2>5. s.read = s.write
    <3>1. CASE ring.write < ring.read
      <4>1. Wrapped(ring, queue, 1)
        BY <2>1, <3>1 DEF Laid
      <4>2. ring.read = ring.last /\ 0 = ring.write
        BY <2>1, <4>1, NoPacketsNoBytes DEF Wrapped
      <4>3. s = [ring EXCEPT !.read = 0]
        BY <3>1, <4>2 DEF Rewound
      <4> QED BY <2>1, <4>2, <4>3 DEF Rings
    <3>2. CASE ~(ring.write < ring.read)
      <4>1. Segment(queue, 1, 1, ring.read, ring.write) /\ s = ring
        BY <2>1, <3>2 DEF Laid, Rewound
      <4> QED BY <4>1, NoPacketsNoBytes
    <3> QED BY <3>1, <3>2
  <2> HIDE DEF s
  <2>6. s.write + n <= RingCap \/ n < s.read
    BY <2>3, <2>4, <2>5
  <2>7. has_room(s, n)
    BY <2>3, <2>4, <2>5, <2>6 DEF has_room, Grant, NoRoom
  <2> QED BY <2>7 DEF s
<1> QED BY <1>1, Invariant, PTL

(***************************************************************************)
(* Induction and recursion over the natural numbers.                       *)
(***************************************************************************)
Below == {p \in Nat \X Nat : p[1] < p[2]}

\* Induction over a set of numbers, from the least number outside it.
LEMMA SetInduction ==
  ASSUME NEW S, 0 \in S, \A n \in Nat : n \in S => n + 1 \in S
  PROVE  \A n \in Nat : n \in S
<1> SUFFICES ASSUME NEW k \in Nat, k \notin S PROVE FALSE
  OBVIOUS
<1> DEFINE T == {n \in Nat : n \notin S}
<1>1. T \subseteq Nat /\ T # {}
  OBVIOUS
<1>2. IsWellFoundedOn(Below, Nat)
  BY NatLessThanWellFounded DEF OpToRel, Below
<1> HIDE DEF T
<1>3. PICK x \in T : \A y \in T : <<y, x>> \notin Below
  BY <1>1, <1>2, WFMin
<1>4. x \in Nat /\ x \notin S
  BY DEF T
<1>5. x # 0 /\ x - 1 \in Nat
  BY <1>4
<1>6. <<x - 1, x>> \in Below
  BY <1>4, <1>5 DEF Below
<1>7. x - 1 \in S
  BY <1>3, <1>5, <1>6 DEF T
<1> QED
  BY <1>4, <1>5, <1>7

\* A function on 0 .. N that starts at x0 and goes on as F says, and that there
\* is one.
IsStep(F, X) == F \in [Nat \X X -> X]
IsRun(g, X, x0, F, N) ==
  g \in [0 .. N -> X] /\ g[0] = x0 /\ \A n \in 1 .. N : g[n] = F[<<n, g[n - 1]>>]

LEMMA RecursionExists ==
  ASSUME NEW X, NEW x0 \in X, NEW F, IsStep(F, X), NEW M \in Nat
  PROVE  \E g : IsRun(g, X, x0, F, M)
<1> USE DEF IsStep
<1> DEFINE Good(N, g) == g[0] = x0 /\ \A n \in 1 .. N : g[n] = F[<<n, g[n - 1]>>]
           S == {N \in Nat : \E g \in [0 .. N -> X] : Good(N, g)}
<1>1. 0 \in S
  <2> DEFINE g == [n \in 0 .. 0 |-> x0]
  <2>1. g \in [0 .. 0 -> X] /\ Good(0, g)
    OBVIOUS
  <2> QED
    BY <2>1
<1>2. ASSUME NEW N \in Nat, N \in S
      PROVE  N + 1 \in S
  <2>1. PICK g \in [0 .. N -> X] : Good(N, g)
    BY <1>2
  <2> DEFINE h == [n \in 0 .. N + 1 |-> IF n = N + 1 THEN F[<<N + 1, g[N]>>] ELSE g[n]]
  <2>2. F[<<N + 1, g[N]>>] \in X
    <3>1. g[N] \in X
      OBVIOUS
    <3>2. <<N + 1, g[N]>> \in Nat \X X
      BY <3>1
    <3> QED
      BY <3>2
  <2>3. h \in [0 .. N + 1 -> X]
    BY <2>2
  <2>4. h[0] = x0
    BY <2>1
  <2>5. ASSUME NEW n \in 1 .. N + 1
        PROVE  h[n] = F[<<n, h[n - 1]>>]
    <3>1. h[n - 1] = g[n - 1]
      OBVIOUS
    <3>2. CASE n = N + 1
      <4>1. n - 1 = N /\ h[n] = F[<<N + 1, g[N]>>]
        BY <3>2
      <4> QED
        BY <3>1, <3>2, <4>1
    <3>3. CASE n # N + 1
      BY <2>1, <3>1, <3>3
    <3> QED
      BY <3>2, <3>3
  <2>6. Good(N + 1, h)
    BY <2>4, <2>5
  <2>7. N + 1 \in Nat
    OBVIOUS
  <2> HIDE DEF h, Good
  <2> QED
    BY <2>3, <2>6, <2>7
<1> HIDE DEF S
<1>3. \A N \in Nat : N \in S
  BY <1>1, <1>2, SetInduction
<1> QED
  BY <1>3 DEF S, IsRun

(***************************************************************************)
(* The KNX tunnel: the map of pending acknowledgements.                    *)
(***************************************************************************)
Distinct(p) == \A i, j \in DOMAIN p : p[i].seq = p[j].seq => i = j

LEMMA EntryFields ==
  ASSUME NEW e \in Entries
  PROVE  /\ e.seq \in Seqs /\ e.left \in 0 .. AckTimeout + 1
         /\ e.retries \in 0 .. Retransmits /\ e.id \in 1 .. MaxWrites
BY DEF Entries

\* Entries keep their type when they are aged or repeated.
LEMMA EntryUpdated ==
  ASSUME NEW e \in Entries, NEW l \in 0 .. AckTimeout + 1, NEW r \in 0 .. Retransmits
  PROVE  LET a == [e EXCEPT !.left = l]
             b == [e EXCEPT !.left = l, !.retries = r]
         IN /\ a \in Entries /\ a.seq = e.seq /\ a.id = e.id
            /\ b \in Entries /\ b.seq = e.seq /\ b.id = e.id
BY DEF Entries

LEMMA IndexFound ==
  ASSUME NEW p, NEW s, Has(p, s)
  PROVE  IndexOf(p, s) \in DOMAIN p /\ p[IndexOf(p, s)].seq = s
BY DEF Has, IndexOf

\* What a removal leaves: the entries but the one removed, the last one in its
\* place.
LEMMA RemovedIs ==
  ASSUME NEW p \in Seq(Entries), NEW s, Has(p, s)
  PROVE  /\ Len(p) > 0 /\ Removed(p, s) \in Seq(Entries)
         /\ Len(Removed(p, s)) = Len(p) - 1
         /\ \A j \in 1 .. Len(p) - 1 :
              Removed(p, s)[j] = IF j = IndexOf(p, s) THEN p[Len(p)] ELSE p[j]
<1> DEFINE k == IndexOf(p, s)
           q == [p EXCEPT ![k] = p[Len(p)]]
<1>1. k \in 1 .. Len(p)
  BY IndexFound
<1> HIDE DEF k
<1>2. Len(p) > 0 /\ p[Len(p)] \in Entries
  BY <1>1
<1>3. q \in Seq(Entries) /\ Len(q) = Len(p) /\ \A j \in 1 .. Len(p) : q[j] = IF j = k THEN p[Len(p)] ELSE p[j]
  BY <1>1, <1>2
<1> HIDE DEF q
<1>4. Removed(p, s) = SubSeq(q, 1, Len(q) - 1)
  BY DEF Removed, Front, Last, q, k
<1>5. /\ SubSeq(q, 1, Len(q) - 1) \in Seq(Entries)
      /\ Len(SubSeq(q, 1, Len(q) - 1)) = Len(p) - 1
      /\ \A j \in 1 .. Len(p) - 1 : SubSeq(q, 1, Len(q) - 1)[j] = q[j]
  BY <1>2, <1>3
<1> QED
  BY <1>2, <1>3, <1>4, <1>5 DEF k

LEMMA RemovedKeeps ==
  ASSUME NEW p \in Seq(Entries), NEW s, Distinct(p)
  PROVE  /\ Removed(p, s) \in Seq(Entries) /\ Len(Removed(p, s)) <= Len(p)
         /\ Distinct(Removed(p, s))
         /\ \A i \in DOMAIN Removed(p, s) : \E j \in DOMAIN p : Removed(p, s)[i] = p[j]
         /\ \A j \in DOMAIN p : p[j].seq # s => \E i \in DOMAIN Removed(p, s) : Removed(p, s)[i] = p[j]
         /\ ~Has(Removed(p, s), s)
<1>1. CASE ~Has(p, s)
  BY <1>1 DEF Removed, Has
<1>2. CASE Has(p, s)
  <2> DEFINE k == IndexOf(p, s)
             r == Removed(p, s)
  <2>1. k \in 1 .. Len(p) /\ p[k].seq = s
    BY <1>2, IndexFound
  <2>2. /\ Len(p) > 0 /\ r \in Seq(Entries) /\ Len(r) = Len(p) - 1
        /\ \A j \in 1 .. Len(p) - 1 : r[j] = IF j = k THEN p[Len(p)] ELSE p[j]
    BY <1>2, RemovedIs
  <2>3. DOMAIN r = 1 .. Len(p) - 1 /\ DOMAIN p = 1 .. Len(p)
    BY <2>2
  <2> HIDE DEF r, k
  <2>4. ASSUME NEW i \in DOMAIN r
        PROVE  \E j \in DOMAIN p : r[i] = p[j] /\ j # k /\ (i # k => j = i) /\ (i = k => j = Len(p))
    BY <2>2, <2>3
  <2>5. ASSUME NEW j \in DOMAIN p, j # k
        PROVE  \E i \in DOMAIN r : r[i] = p[j]
    <3>1. CASE j = Len(p)
      BY <2>1, <2>2, <2>3, <2>5, <3>1
    <3>2. CASE j # Len(p)
      BY <2>1, <2>2, <2>3, <2>5, <3>2
    <3> QED
      BY <3>1, <3>2
  <2>6. Distinct(r)
    <3> SUFFICES ASSUME NEW i \in DOMAIN r, NEW j \in DOMAIN r, r[i].seq = r[j].seq
                 PROVE  i = j
      BY DEF Distinct
    <3>1. PICK a \in DOMAIN p : r[i] = p[a] /\ (i # k => a = i) /\ (i = k => a = Len(p))
      BY <2>4
    <3>2. PICK b \in DOMAIN p : r[j] = p[b] /\ (j # k => b = j) /\ (j = k => b = Len(p))
      BY <2>4
    <3>3. a = b
      BY <3>1, <3>2 DEF Distinct
    <3> QED
      BY <2>2, <2>3, <3>1, <3>2, <3>3
  <2>7. ~Has(r, s)
    BY <2>1, <2>3, <2>4 DEF Has, Distinct
  <2>8. \A j \in DOMAIN p : p[j].seq # s => \E i \in DOMAIN r : r[i] = p[j]
    BY <2>1, <2>5
  <2> QED
    BY <2>2, <2>4, <2>6, <2>7, <2>8 DEF r
<1> QED
  BY <1>1, <1>2

\* The telegrams a removal forgets: the one under that number.
LEMMA RemovedIds ==
  ASSUME NEW p \in Seq(Entries), NEW s, Distinct(p)
  PROVE  /\ Ids(Removed(p, s)) \subseteq Ids(p)
         /\ \A t \in Ids(p) \ Ids(Removed(p, s)) : Has(p, s) /\ t = p[IndexOf(p, s)].id
<1> USE RemovedKeeps
<1>1. Ids(Removed(p, s)) \subseteq Ids(p)
  BY DEF Ids
<1>2. ASSUME NEW t \in Ids(p), t \notin Ids(Removed(p, s))
      PROVE  Has(p, s) /\ t = p[IndexOf(p, s)].id
  <2>1. PICK j \in DOMAIN p : t = p[j].id
    BY DEF Ids
  <2>2. p[j].seq = s
    <3> SUFFICES ASSUME p[j].seq # s PROVE FALSE
      OBVIOUS
    <3>1. PICK i \in DOMAIN Removed(p, s) : Removed(p, s)[i] = p[j]
      OBVIOUS
    <3> QED
      BY <1>2, <2>1, <3>1 DEF Ids
  <2>3. Has(p, s)
    BY <2>2 DEF Has
  <2>4. IndexOf(p, s) = j
    BY <2>2, <2>3, IndexFound DEF Distinct
  <2> QED
    BY <2>1, <2>3, <2>4
<1> QED
  BY <1>1, <1>2

\* An insertion that finds room, or its number in use, keeps the map a map.
LEMMA InsertedKeeps ==
  ASSUME NEW p \in Seq(Entries), NEW e \in Entries, Distinct(p)
  PROVE  LET q == Inserted(p, e)
         IN /\ q \in Seq(Entries) /\ Distinct(q)
            /\ Len(q) = IF Has(p, e.seq) THEN Len(p) ELSE Len(p) + 1
            /\ Ids(q) \subseteq Ids(p) \cup {e.id}
            /\ e.id \in Ids(q)
            /\ ~Has(p, e.seq) => Ids(p) \subseteq Ids(q)
<1> DEFINE q == Inserted(p, e)
<1>1. CASE Has(p, e.seq)
  <2> DEFINE k == IndexOf(p, e.seq)
  <2>1. k \in 1 .. Len(p) /\ p[k].seq = e.seq
    BY <1>1, IndexFound
  <2>2. q = [p EXCEPT ![k] = e]
    BY <1>1 DEF Inserted
  <2> HIDE DEF k, q
  <2>3. /\ q \in Seq(Entries) /\ Len(q) = Len(p) /\ DOMAIN q = DOMAIN p
        /\ \A j \in DOMAIN p : q[j] = IF j = k THEN e ELSE p[j]
    BY <2>1, <2>2
  <2>4. Distinct(q)
    BY <2>1, <2>3 DEF Distinct
  <2>5. Ids(q) \subseteq Ids(p) \cup {e.id} /\ e.id \in Ids(q)
    BY <2>1, <2>3 DEF Ids
  <2> QED
    BY <1>1, <2>3, <2>4, <2>5 DEF q
<1>2. CASE ~Has(p, e.seq)
  <2>2. q = Append(p, e)
    BY <1>2 DEF Inserted
  <2> HIDE DEF q
  <2>3. /\ q \in Seq(Entries) /\ Len(q) = Len(p) + 1 /\ DOMAIN q = 1 .. Len(p) + 1
        /\ DOMAIN p = 1 .. Len(p) /\ Len(p) \in Nat
        /\ \A j \in DOMAIN p : q[j] = p[j]
        /\ q[Len(p) + 1] = e
    BY <2>2
  <2>4. Distinct(q)
    <3> SUFFICES ASSUME NEW i \in DOMAIN q, NEW j \in DOMAIN q, q[i].seq = q[j].seq, i # j
                 PROVE  FALSE
      BY DEF Distinct
    <3>1. CASE i \in DOMAIN p /\ j \in DOMAIN p
      BY <2>3, <3>1 DEF Distinct
    <3>2. CASE i \notin DOMAIN p
      BY <1>2, <2>3, <3>2 DEF Has
    <3>3. CASE j \notin DOMAIN p
      BY <1>2, <2>3, <3>3 DEF Has
    <3> QED
      BY <3>1, <3>2, <3>3
  <2>5. Ids(q) \subseteq Ids(p) \cup {e.id}
    BY <2>3 DEF Ids
  <2>6. e.id \in Ids(q) /\ Ids(p) \subseteq Ids(q)
    <3>1. Len(p) + 1 \in DOMAIN q
      BY <2>3
    <3> QED
      BY <2>3, <3>1 DEF Ids
  <2> QED
    BY <1>2, <2>3, <2>4, <2>5, <2>6 DEF q
<1> QED
  BY <1>1, <1>2
(***************************************************************************)
(* The KNX tunnel: the queue of actions.                                   *)
(***************************************************************************)
Acts ==
  [do : {"send"}, seq : Seqs \cup {NoSeq}, connect : BOOLEAN]
    \cup [do : {"ack_timeout"}, seq : Seqs] \cup {Telegram, ResetSocket}

IsReset(a) == a.do = "reset"
IsConnect(a) == a.do = "send" /\ a.connect
Resets(q) == \E i \in DOMAIN q : IsReset(q[i])
Connects(q) == \E i \in DOMAIN q : IsConnect(q[i])

LEMMA ActKinds ==
  /\ Connect \in Acts /\ IsConnect(Connect) /\ ~IsReset(Connect)
  /\ \A s \in Seqs \cup {NoSeq} : Send(s) \in Acts /\ ~IsConnect(Send(s)) /\ ~IsReset(Send(s))
  /\ \A s \in Seqs : Timeout(s) \in Acts /\ ~IsConnect(Timeout(s)) /\ ~IsReset(Timeout(s))
  /\ Telegram \in Acts /\ ~IsConnect(Telegram) /\ ~IsReset(Telegram)
  /\ ResetSocket \in Acts /\ ~IsConnect(ResetSocket) /\ IsReset(ResetSocket)
  /\ \A a \in Acts : a.do \in {"send", "telegram", "reset", "ack_timeout"}
BY DEF Acts, IsReset, IsConnect, Connect, Send, Timeout, Telegram, ResetSocket

LEMMA NoActs ==
  <<>> \in Seq(Acts) /\ ~Resets(<<>>) /\ ~Connects(<<>>)
BY DEF Resets, Connects

LEMMA OneMoreAct ==
  ASSUME NEW q \in Seq(Acts), NEW a \in Acts
  PROVE  /\ Append(q, a) \in Seq(Acts) /\ Len(Append(q, a)) = Len(q) + 1
         /\ Resets(Append(q, a)) <=> Resets(q) \/ IsReset(a)
         /\ Connects(Append(q, a)) <=> Connects(q) \/ IsConnect(a)
<1> DEFINE r == Append(q, a)
<1>1. /\ r \in Seq(Acts) /\ Len(r) = Len(q) + 1 /\ DOMAIN r = 1 .. Len(q) + 1
      /\ DOMAIN q = 1 .. Len(q) /\ Len(q) \in Nat
      /\ \A i \in DOMAIN q : r[i] = q[i]
      /\ r[Len(q) + 1] = a
  OBVIOUS
<1> HIDE DEF r
<1>2. \A i \in DOMAIN r : i \in DOMAIN q \/ i = Len(q) + 1
  BY <1>1
<1>3. Len(q) + 1 \in DOMAIN r /\ DOMAIN q \subseteq DOMAIN r
  BY <1>1
<1>4. Resets(r) <=> Resets(q) \/ IsReset(a)
  BY <1>1, <1>2, <1>3 DEF Resets
<1>5. Connects(r) <=> Connects(q) \/ IsConnect(a)
  BY <1>1, <1>2, <1>3 DEF Connects
<1> QED
  BY <1>1, <1>4, <1>5 DEF r

LEMMA MoreActs ==
  ASSUME NEW q \in Seq(Acts), NEW t \in Seq(Acts)
  PROVE  /\ q \o t \in Seq(Acts)
         /\ Resets(q \o t) <=> Resets(q) \/ Resets(t)
         /\ Connects(q \o t) <=> Connects(q) \/ Connects(t)
<1> DEFINE r == q \o t
<1>1. /\ r \in Seq(Acts) /\ Len(r) = Len(q) + Len(t) /\ DOMAIN r = 1 .. Len(q) + Len(t)
      /\ DOMAIN q = 1 .. Len(q) /\ DOMAIN t = 1 .. Len(t) /\ Len(q) \in Nat /\ Len(t) \in Nat
      /\ \A i \in DOMAIN r : r[i] = IF i <= Len(q) THEN q[i] ELSE t[i - Len(q)]
  OBVIOUS
<1> HIDE DEF r
<1>2. ASSUME NEW i \in DOMAIN r
      PROVE  \/ i \in DOMAIN q /\ r[i] = q[i]
             \/ i - Len(q) \in DOMAIN t /\ r[i] = t[i - Len(q)]
  <2>1. i \in Int /\ 1 <= i /\ i <= Len(q) + Len(t)
    BY <1>1
  <2>2. CASE i <= Len(q)
    <3>1. i \in 1 .. Len(q)
      BY <1>1, <2>1, <2>2
    <3>2. r[i] = q[i]
      BY <1>1, <2>2
    <3> QED
      BY <1>1, <3>1, <3>2
  <2>3. CASE ~(i <= Len(q))
    <3>1. i - Len(q) \in 1 .. Len(t)
      BY <1>1, <2>1, <2>3
    <3> QED
      BY <1>1, <2>3, <3>1
  <2> QED
    BY <2>2, <2>3
<1>3. /\ \A i \in DOMAIN q : i \in DOMAIN r /\ r[i] = q[i]
      /\ \A i \in DOMAIN t : Len(q) + i \in DOMAIN r /\ r[Len(q) + i] = t[i]
  <2>1. ASSUME NEW i \in DOMAIN q PROVE i \in DOMAIN r /\ r[i] = q[i]
    <3>1. i \in 1 .. Len(q)
      BY <1>1
    <3>2. i \in 1 .. Len(q) + Len(t) /\ i <= Len(q)
      BY <1>1, <3>1
    <3>3. i \in DOMAIN r
      BY <1>1, <3>2
    <3> QED
      BY <1>1, <3>2, <3>3
  <2>2. ASSUME NEW i \in DOMAIN t PROVE Len(q) + i \in DOMAIN r /\ r[Len(q) + i] = t[i]
    <3>1. i \in 1 .. Len(t) /\ Len(q) \in Nat /\ Len(t) \in Nat
      BY <1>1
    <3>2. Len(q) + i \in 1 .. Len(q) + Len(t) /\ ~(Len(q) + i <= Len(q)) /\ (Len(q) + i) - Len(q) = i
      BY <3>1
    <3>3. Len(q) + i \in DOMAIN r
      BY <1>1, <3>2
    <3> QED
      BY <1>1, <3>2, <3>3
  <2> QED
    BY <2>1, <2>2
<1>4. Resets(r) <=> Resets(q) \/ Resets(t)
  BY <1>2, <1>3 DEF Resets
<1>5. Connects(r) <=> Connects(q) \/ Connects(t)
  BY <1>2, <1>3 DEF Connects
<1> QED
  BY <1>1, <1>4, <1>5 DEF r

LEMMA OneAct ==
  ASSUME NEW a \in Acts
  PROVE  /\ <<a>> \in Seq(Acts)
         /\ Resets(<<a>>) <=> IsReset(a)
         /\ Connects(<<a>>) <=> IsConnect(a)
<1>1. Append(<<>>, a) = <<a>>
  OBVIOUS
<1>2. /\ Append(<<>>, a) \in Seq(Acts)
      /\ Resets(Append(<<>>, a)) <=> Resets(<<>>) \/ IsReset(a)
      /\ Connects(Append(<<>>, a)) <=> Connects(<<>>) \/ IsConnect(a)
  BY NoActs, OneMoreAct
<1> QED
  BY <1>1, <1>2, NoActs

LEMMA OneActLess ==
  ASSUME NEW q \in Seq(Acts), q # <<>>
  PROVE  /\ Head(q) \in Acts /\ Tail(q) \in Seq(Acts) /\ Len(q) \in Nat /\ Len(Tail(q)) = Len(q) - 1
         /\ Len(q) = 1 => Tail(q) = <<>>
         /\ Resets(q) <=> IsReset(Head(q)) \/ Resets(Tail(q))
         /\ Connects(q) <=> IsConnect(Head(q)) \/ Connects(Tail(q))
<1>1. Head(q) \in Acts /\ Tail(q) \in Seq(Acts) /\ Len(q) \in Nat /\ Len(Tail(q)) = Len(q) - 1
  OBVIOUS
<1>2. q = <<Head(q)>> \o Tail(q)
  OBVIOUS
<1>3. Len(q) = 1 => Tail(q) = <<>>
  <2>1. Len(q) = 1 => Len(Tail(q)) = 0
    BY <1>1
  <2> QED
    BY <1>1, <2>1, EmptySeq
<1> QED
  BY <1>1, <1>2, <1>3, OneAct, MoreActs

(***************************************************************************)
(* The KNX tunnel: the sweep.                                              *)
(***************************************************************************)
SweepAccs == [pending : Seq(Entries), actions : Seq(Acts), lost : SUBSET Nat]

LEMMA SweepOneType ==
  ASSUME NEW acc \in SweepAccs, NEW e \in Entries
  PROVE  SweepOne(acc, e) \in SweepAccs
<1>0. /\ acc.pending \in Seq(Entries) /\ acc.actions \in Seq(Acts) /\ acc.lost \in SUBSET Nat
      /\ acc = [pending |-> acc.pending, actions |-> acc.actions, lost |-> acc.lost]
  BY DEF SweepAccs
<1>1. CASE e.left > 0
  BY <1>1 DEF SweepOne
<1>2. CASE ~(e.left > 0) /\ e.retries > 0
  <2> DEFINE f == [e EXCEPT !.left = AckTimeout + 1, !.retries = e.retries - 1]
             k == IndexOf(acc.pending, e.seq)
  <2>1. f \in Entries
    <3>1. AckTimeout + 1 \in 0 .. AckTimeout + 1 /\ e.retries - 1 \in 0 .. Retransmits
      BY <1>2, EntryFields, KnxAssumption
    <3> QED
      BY <3>1, EntryUpdated
  <2>2. Append(acc.actions, Send(e.seq)) \in Seq(Acts)
    BY <1>0, ActKinds, OneMoreAct, EntryFields
  <2>3. [acc.pending EXCEPT ![k] = f] \in Seq(Entries)
    <3> DEFINE q == acc.pending
    <3> HIDE DEF q, f, k
    <3>1. q \in Seq(Entries) /\ f \in Entries
      BY <1>0, <2>1 DEF q
    <3>2. [q EXCEPT ![k] = f] \in Seq(Entries)
      <4>1. CASE k \in DOMAIN q
        BY <3>1, <4>1
      <4>2. CASE k \notin DOMAIN q
        <5>1. [q EXCEPT ![k] = f] = q
          BY <3>1, <4>2
        <5> QED
          BY <3>1, <5>1
      <4> QED
        BY <4>1, <4>2
    <3> QED
      BY <3>2 DEF q
  <2>4. SweepOne(acc, e) = [acc EXCEPT !.pending = [acc.pending EXCEPT ![k] = f],
                                       !.actions = Append(acc.actions, Send(e.seq))]
    BY <1>2 DEF SweepOne
  <2> QED
    BY <1>0, <2>2, <2>3, <2>4 DEF SweepAccs
<1>3. CASE ~(e.left > 0) /\ ~(e.retries > 0)
  <2>1. Removed(acc.pending, e.seq) \in Seq(Entries)
    BY <1>0, RemovedIs DEF Removed
  <2>2. Append(acc.actions, Timeout(e.seq)) \in Seq(Acts)
    BY <1>0, ActKinds, OneMoreAct, EntryFields
  <2>3. acc.lost \cup {e.id} \in SUBSET Nat
    BY <1>0, EntryFields
  <2>4. SweepOne(acc, e) = [acc EXCEPT !.pending = Removed(acc.pending, e.seq),
                                       !.actions = Append(acc.actions, Timeout(e.seq)),
                                       !.lost = acc.lost \cup {e.id}]
    BY <1>3 DEF SweepOne
  <2> QED
    BY <1>0, <2>1, <2>2, <2>3, <2>4 DEF SweepAccs
<1> QED
  BY <1>1, <1>2, <1>3

\* The recursion of the sweep is well defined.
LEMMA SweepRuns ==
  ASSUME NEW p \in Seq(Entries)
  PROVE  \E after \in [0 .. Len(p) -> SweepAccs] :
            /\ after[0] = Unswept(p)
            /\ \A n \in 1 .. Len(p) : after[n] = SweepOne(after[n - 1], p[n])
            /\ Swept(p) = after[Len(p)]
<1> DEFINE N == Len(p)
           F == [a \in Nat \X SweepAccs |-> IF a[1] \in 1 .. N THEN SweepOne(a[2], p[a[1]]) ELSE a[2]]
           Rec(f) == f = [n \in 0 .. N |-> IF n = 0 THEN Unswept(p) ELSE SweepOne(f[n - 1], p[n])]
<1>0. N \in Nat
  OBVIOUS
<1>1. Unswept(p) \in SweepAccs
  BY NoActs DEF Unswept, SweepAccs
<1>2. F \in [Nat \X SweepAccs -> SweepAccs]
  <2> SUFFICES ASSUME NEW a \in Nat \X SweepAccs
               PROVE  (IF a[1] \in 1 .. N THEN SweepOne(a[2], p[a[1]]) ELSE a[2]) \in SweepAccs
    OBVIOUS
  <2>1. a[2] \in SweepAccs /\ (a[1] \in 1 .. N => p[a[1]] \in Entries)
    OBVIOUS
  <2> QED
    BY <2>1, SweepOneType
<1>3. \A n \in 1 .. N, x \in SweepAccs : F[<<n, x>>] = SweepOne(x, p[n])
  OBVIOUS
<1> HIDE DEF F
<1>4. PICK g \in [0 .. N -> SweepAccs] : g[0] = Unswept(p) /\ \A n \in 1 .. N : g[n] = F[<<n, g[n - 1]>>]
  <2>1. IsStep(F, SweepAccs)
    BY <1>2 DEF IsStep
  <2> HIDE DEF N
  <2>2. \E g : IsRun(g, SweepAccs, Unswept(p), F, N)
    BY <1>0, <1>1, <2>1, RecursionExists
  <2> QED
    BY <2>2 DEF IsRun
<1>5. \A n \in 1 .. N : g[n] = SweepOne(g[n - 1], p[n])
  <2> TAKE n \in 1 .. N
  <2>1. n - 1 \in 0 .. N /\ g[n - 1] \in SweepAccs
    BY <1>0
  <2> QED
    BY <1>3, <1>4, <2>1
<1>6. Rec(g)
  BY <1>0, <1>4, <1>5
<1> DEFINE a == CHOOSE f : Rec(f)
<1>7. Rec(a)
  <2> HIDE DEF Rec
  <2> QED
    BY <1>6
<1>8. Swept(p) = a[N]
  BY DEF Swept
<1> HIDE DEF a
<1>9. /\ a[0] = Unswept(p) /\ DOMAIN a = 0 .. N /\ a = [n \in 0 .. N |-> a[n]]
      /\ \A n \in 1 .. N : a[n] = SweepOne(a[n - 1], p[n])
  BY <1>0, <1>7
<1>10. \A n \in Nat : n \in {k \in Nat : k <= N => a[k] \in SweepAccs}
  <2> DEFINE S == {k \in Nat : k <= N => a[k] \in SweepAccs}
  <2>1. 0 \in S
    BY <1>1, <1>9
  <2>2. ASSUME NEW n \in Nat, n \in S PROVE n + 1 \in S
    <3> SUFFICES ASSUME n + 1 <= N PROVE a[n + 1] \in SweepAccs
      OBVIOUS
    <3>1. a[n] \in SweepAccs /\ n + 1 \in 1 .. N /\ (n + 1) - 1 = n
      BY <1>0, <2>2
    <3>2. p[n + 1] \in Entries
      BY <3>1
    <3>3. a[n + 1] = SweepOne(a[n], p[n + 1])
      BY <1>9, <3>1
    <3> QED
      BY <3>1, <3>2, <3>3, SweepOneType
  <2> HIDE DEF S
  <2>3. \A n \in Nat : n \in S
    BY <2>1, <2>2, SetInduction
  <2> QED
    BY <2>3 DEF S
<1>11. a \in [0 .. N -> SweepAccs]
  BY <1>0, <1>9, <1>10
<1> QED
  BY <1>8, <1>9, <1>11
\* What the sweep has done once it has looked at the first n entries of p: the
\* entries it has not looked at are there, none is there that was not, and a
\* telegram that is gone is reported lost.
SweptSoFar(p, acc, n) ==
  /\ acc \in SweepAccs
  /\ Len(acc.pending) <= Len(p) /\ Distinct(acc.pending)
  /\ \A i \in DOMAIN acc.pending :
       \E j \in DOMAIN p : acc.pending[i].seq = p[j].seq /\ acc.pending[i].id = p[j].id
  /\ \A j \in DOMAIN p : j > n => Has(acc.pending, p[j].seq)
  /\ acc.lost \subseteq Ids(p)
  /\ Ids(p) \subseteq Ids(acc.pending) \cup acc.lost
  /\ ~Resets(acc.actions) /\ ~Connects(acc.actions)

LEMMA SweepOneKeeps ==
  ASSUME NEW p \in Seq(Entries), Distinct(p), NEW n \in 1 .. Len(p),
         NEW acc, SweptSoFar(p, acc, n - 1)
  PROVE  SweptSoFar(p, SweepOne(acc, p[n]), n)
<1> DEFINE e == p[n]
           new == SweepOne(acc, e)
<1>0. /\ e \in Entries /\ n \in DOMAIN p /\ n > n - 1 /\ e.seq \in Seqs
      /\ DOMAIN p = 1 .. Len(p) /\ Len(p) \in Nat
  BY EntryFields
<1>1. /\ acc \in SweepAccs /\ acc.pending \in Seq(Entries) /\ acc.actions \in Seq(Acts)
      /\ acc.lost \in SUBSET Nat
      /\ Len(acc.pending) <= Len(p) /\ Distinct(acc.pending)
      /\ acc = [pending |-> acc.pending, actions |-> acc.actions, lost |-> acc.lost]
  BY DEF SweptSoFar, SweepAccs
<1>2. Has(acc.pending, e.seq)
  BY <1>0 DEF SweptSoFar
<1> DEFINE k == IndexOf(acc.pending, e.seq)
<1>3. k \in DOMAIN acc.pending /\ acc.pending[k].seq = e.seq
  BY <1>2, IndexFound
<1>4. acc.pending[k].id = e.id
  <2>1. PICK j \in DOMAIN p : acc.pending[k].seq = p[j].seq /\ acc.pending[k].id = p[j].id
    BY <1>3 DEF SweptSoFar
  <2>2. j = n
    BY <1>0, <1>3, <2>1 DEF Distinct
  <2> QED
    BY <2>1, <2>2
<1>5. new \in SweepAccs
  BY <1>0, <1>1, SweepOneType
<1>6. \A j \in DOMAIN p : j > n => j > n - 1
  BY <1>0
<1> HIDE DEF e, k
<1>7. CASE e.left > 0
  <2>1. new = acc
    BY <1>7 DEF SweepOne
  <2> QED
    BY <1>6, <2>1 DEF SweptSoFar, e
<1>8. CASE ~(e.left > 0) /\ e.retries > 0
  <2>0. AckTimeout + 1 \in 0 .. AckTimeout + 1 /\ e.retries - 1 \in 0 .. Retransmits
    <3>1. AckTimeout \in Nat /\ Retransmits \in Nat
      BY KnxAssumption
    <3>2. e.retries \in 0 .. Retransmits
      BY <1>0, EntryFields
    <3> QED
      BY <1>8, <3>1, <3>2
  <2> DEFINE f == [e EXCEPT !.left = AckTimeout + 1, !.retries = e.retries - 1]
             q == [acc.pending EXCEPT ![k] = f]
  <2>1. new = [acc EXCEPT !.pending = q, !.actions = Append(acc.actions, Send(e.seq))]
    BY <1>8 DEF SweepOne, k
  <2>2. f \in Entries /\ f.seq = e.seq /\ f.id = e.id
    BY <1>0, <2>0, EntryUpdated, ZenonT(30)
  <2> HIDE DEF f
  <2>3. /\ new.pending = q /\ new.lost = acc.lost
        /\ new.actions = Append(acc.actions, Send(e.seq))
    BY <1>1, <2>1
  <2>4. /\ DOMAIN q = DOMAIN acc.pending /\ Len(q) = Len(acc.pending)
        /\ \A i \in DOMAIN q : q[i].seq = acc.pending[i].seq /\ q[i].id = acc.pending[i].id
    BY <1>1, <1>3, <1>4, <2>2
  <2> HIDE DEF q
  <2>5. Distinct(q)
    BY <1>1, <2>4 DEF Distinct
  <2>6. Ids(q) = Ids(acc.pending)
    BY <2>4 DEF Ids
  <2>7. \A s : Has(acc.pending, s) => Has(q, s)
    BY <2>4 DEF Has
  <2>8. \A i \in DOMAIN q : \E j \in DOMAIN p : q[i].seq = p[j].seq /\ q[i].id = p[j].id
    BY <2>4 DEF SweptSoFar
  <2>9. ~Resets(new.actions) /\ ~Connects(new.actions)
    BY <1>0, <1>1, <2>3, ActKinds, OneMoreAct DEF SweptSoFar
  <2>10. \A j \in DOMAIN p : j > n => Has(q, p[j].seq)
    BY <1>6, <2>7 DEF SweptSoFar
  <2>11. acc.lost \subseteq Ids(p) /\ Ids(p) \subseteq Ids(q) \cup acc.lost
    BY <2>6 DEF SweptSoFar
  <2>12. Len(q) <= Len(p)
    BY <1>1, <2>4
  <2> HIDE DEF new
  <2>13. SweptSoFar(p, new, n)
    BY <1>5, <2>3, <2>5, <2>8, <2>9, <2>10, <2>11, <2>12 DEF SweptSoFar
  <2> QED
    BY <2>13 DEF new, e
<1>9. CASE ~(e.left > 0) /\ ~(e.retries > 0)
  <2>2. acc.pending \in Seq(Entries) /\ Distinct(acc.pending)
    BY <1>1
  <2> DEFINE q == Removed(acc.pending, e.seq)
  <2>1. new = [acc EXCEPT !.pending = q, !.actions = Append(acc.actions, Timeout(e.seq)),
                          !.lost = acc.lost \cup {e.id}]
    BY <1>9 DEF SweepOne
  <2>3. /\ new.pending = q /\ new.lost = acc.lost \cup {e.id}
        /\ new.actions = Append(acc.actions, Timeout(e.seq))
    BY <1>1, <2>1
  <2>4. /\ q \in Seq(Entries) /\ Len(q) <= Len(acc.pending) /\ Distinct(q)
        /\ \A i \in DOMAIN q : \E j \in DOMAIN acc.pending : q[i] = acc.pending[j]
        /\ \A j \in DOMAIN acc.pending : acc.pending[j].seq # e.seq =>
             \E i \in DOMAIN q : q[i] = acc.pending[j]
    BY <2>2, RemovedKeeps
  <2>5. \A t \in Ids(acc.pending) \ Ids(q) : t = e.id
    BY <1>1, <1>4, RemovedIds DEF k
  <2> HIDE DEF q
  <2>8. \A i \in DOMAIN q : \E j \in DOMAIN p : q[i].seq = p[j].seq /\ q[i].id = p[j].id
    BY <2>4 DEF SweptSoFar
  <2>9. ~Resets(new.actions) /\ ~Connects(new.actions)
    BY <1>0, <1>1, <2>3, ActKinds, OneMoreAct DEF SweptSoFar
  <2>10. ASSUME NEW j \in DOMAIN p, j > n
         PROVE  Has(q, p[j].seq)
    <3>1. Has(acc.pending, p[j].seq)
      BY <1>6, <2>10 DEF SweptSoFar
    <3>2. PICK i \in DOMAIN acc.pending : acc.pending[i].seq = p[j].seq
      BY <3>1 DEF Has
    <3>3. j # n
      BY <1>0, <2>10
    <3>4. p[j].seq # e.seq
      BY <1>0, <3>3 DEF Distinct, e
    <3> QED
      BY <2>4, <3>2, <3>4 DEF Has
  <2>11. acc.lost \cup {e.id} \subseteq Ids(p) /\ Ids(p) \subseteq Ids(q) \cup (acc.lost \cup {e.id})
    <3>1. e.id \in Ids(p)
      BY <1>0 DEF Ids, e
    <3> QED
      BY <2>5, <3>1 DEF SweptSoFar
  <2>12. Len(q) <= Len(p)
    BY <1>0, <1>1, <2>4
  <2> HIDE DEF new
  <2>13. SweptSoFar(p, new, n)
    BY <1>5, <2>3, <2>4, <2>8, <2>9, <2>10, <2>11, <2>12 DEF SweptSoFar
  <2> QED
    BY <2>13 DEF new, e
<1> QED
  BY <1>7, <1>8, <1>9

\* A sweep forgets no telegram without a report.
LEMMA SweepKeeps ==
  ASSUME NEW p \in Seq(Entries), Distinct(p)
  PROVE  SweptSoFar(p, Swept(p), Len(p))
<1>0. Len(p) \in Nat /\ DOMAIN p = 1 .. Len(p)
  OBVIOUS
<1>1. PICK after \in [0 .. Len(p) -> SweepAccs] :
            /\ after[0] = Unswept(p)
            /\ \A n \in 1 .. Len(p) : after[n] = SweepOne(after[n - 1], p[n])
            /\ Swept(p) = after[Len(p)]
  BY SweepRuns
<1> DEFINE S == {n \in Nat : n <= Len(p) => SweptSoFar(p, after[n], n)}
<1>2. 0 \in S
  <2>1. SweptSoFar(p, Unswept(p), 0)
    <3> DEFINE u == Unswept(p)
    <3>1. u.pending = p /\ u.actions = <<>> /\ u.lost = {} /\ u \in SweepAccs
      BY NoActs DEF Unswept, SweepAccs
    <3>2. \A j \in DOMAIN p : Has(p, p[j].seq)
      BY DEF Has
    <3> HIDE DEF u
    <3>3. SweptSoFar(p, u, 0)
      BY <1>0, <3>1, <3>2, NoActs DEF SweptSoFar
    <3> QED
      BY <3>3 DEF u
  <2> QED
    BY <1>1, <2>1
<1>3. ASSUME NEW n \in Nat, n \in S PROVE n + 1 \in S
  <2> SUFFICES ASSUME n + 1 <= Len(p) PROVE SweptSoFar(p, after[n + 1], n + 1)
    OBVIOUS
  <2>1. n + 1 \in 1 .. Len(p) /\ (n + 1) - 1 = n /\ n <= Len(p)
    BY <1>0
  <2>2. SweptSoFar(p, after[n], n) /\ after[n + 1] = SweepOne(after[n], p[n + 1])
    BY <1>1, <1>3, <2>1
  <2>3. SweptSoFar(p, after[n], (n + 1) - 1)
    BY <2>1, <2>2
  <2> QED
    BY <2>1, <2>2, <2>3, SweepOneKeeps
<1> HIDE DEF S
<1>4. \A n \in Nat : n \in S
  BY <1>2, <1>3, SetInduction
<1> QED
  BY <1>0, <1>1, <1>4 DEF S
(***************************************************************************)
(* The KNX tunnel: the inductive invariant.                                *)
(***************************************************************************)
\* The engine's own state has its types.
EngineTyped ==
  /\ phase \in {"backoff", "connecting", "connected"}
  /\ timer \in 0 .. Backoff + ConnectTimeout
  /\ outboundSeq \in Seqs /\ pending \in Seq(Entries) /\ Len(pending) <= PendingCap
  /\ heartbeat \in 0 .. Heartbeat /\ unanswered \in {NoWait} \cup 0 .. HeartbeatTimeout
  /\ sweep \in 0 .. AckSweep
  /\ actions \in Seq(Acts)

\* The pending map is a map of telegrams of this channel, and a telegram is in it
\* until its fate is told.
Tracked ==
  /\ written \in 0 .. MaxWrites /\ settled \subseteq 1 .. written
  /\ Distinct(pending) /\ Ids(pending) \subseteq 1 .. written
  /\ phase # "connected" => pending = <<>>
  /\ ~Overrun => 1 .. written \subseteq settled \cup Ids(pending)

\* A reset is on its way through the queue, or its socket is about to go.
Doomed == where = "drain_reset" \/ Resets(actions)

\* A socket is asked on once, after it was bound and before it is given up.
OneAsk ==
  /\ where \in {"bind", "top", "drain", "drain_reset", "select", "closed"}
  /\ inboundFirst \in BOOLEAN /\ readable \in BOOLEAN /\ waiting \in BOOLEAN
  /\ asked \in Nat /\ asked <= 1 /\ endpoint \in {"nat", "bound", "stale"}
  /\ where \in {"bind", "closed"} => actions = <<>> /\ phase = "backoff"
  /\ where = "select" => actions = <<>>
  /\ Doomed => /\ phase = "backoff" /\ where \in {"top", "drain", "drain_reset"}
               /\ where = "top" => timer > 0
  /\ where = "top" /\ phase # "connected" /\ ~Doomed => actions = <<>>
  /\ Connects(actions) => where = "drain" /\ Len(actions) = 1 /\ asked = 0 /\ phase = "connecting"
  /\ phase = "backoff" /\ ~Doomed /\ where \notin {"bind", "closed"} => asked = 0
  /\ endpoint = "stale" => where \in {"bind", "closed"}

TunnelInv == EngineTyped /\ Tracked /\ OneAsk

LEMMA TunnelInit == KnxInit => TunnelInv
<1> SUFFICES ASSUME KnxInit PROVE TunnelInv
  OBVIOUS
<1>1. EngineTyped
  BY NoActs, KnxAssumption DEF KnxInit, EngineTyped, Seqs, NoWait
<1>2. Tracked
  BY KnxAssumption DEF KnxInit, Tracked, Distinct, Ids
<1>3. OneAsk
  <2>1. ~Resets(actions) /\ ~Connects(actions)
    BY NoActs DEF KnxInit
  <2> QED
    <3>1. asked \in Nat /\ asked <= 1 /\ asked = 0
      BY DEF KnxInit
    <3>2. inboundFirst \in BOOLEAN /\ readable \in BOOLEAN /\ waiting \in BOOLEAN
      BY Zenon DEF KnxInit
    <3>3. /\ where = "bind" /\ actions = <<>> /\ phase = "backoff" /\ endpoint = "nat"
      BY Zenon DEF KnxInit
    <3>4. ~Doomed
      BY <2>1, <3>3 DEF Doomed
    <3> QED
      BY <2>1, <3>1, <3>2, <3>3, <3>4 DEF OneAsk
<1> QED
  BY <1>1, <1>2, <1>3 DEF TunnelInv

\* handle_socket_error: the reset is queued, the telegrams go with the channel.
LEMMA SocketErrorKeeps ==
  ASSUME EngineTyped, Tracked, UNCHANGED written, NEW q \in Seq(Acts), SocketError(q)
  PROVE  /\ EngineTyped' /\ Tracked'
         /\ Resets(actions') /\ (Connects(actions') <=> Connects(q))
         /\ phase' = "backoff" /\ timer' = Backoff /\ timer' > 0
<1>1. actions' \in Seq(Acts) /\ Resets(actions') /\ (Connects(actions') <=> Connects(q))
  BY ActKinds, OneMoreAct DEF SocketError
<1>2. EngineTyped'
  BY <1>1, KnxAssumption DEF EngineTyped, SocketError, NoChannel, Seqs, NoWait
<1>3. pending' = <<>> /\ Ids(pending') = {} /\ Distinct(pending')
  BY DEF SocketError, NoChannel, Ids, Distinct
<1>4. Tracked'
  BY <1>3 DEF Tracked, SocketError
<1> QED
  BY <1>1, <1>2, <1>4, KnxAssumption DEF SocketError

\* An acknowledgement, or a send that failed, takes its entry out.
LEMMA SettledKeeps ==
  ASSUME EngineTyped, Tracked, UNCHANGED <<written, phase>>, NEW s, Has(pending, s),
         pending' = Removed(pending, s),
         settled' = settled \cup {pending[IndexOf(pending, s)].id}
  PROVE  pending' \in Seq(Entries) /\ Len(pending') <= PendingCap /\ Tracked'
<1>1. pending \in Seq(Entries) /\ Distinct(pending)
  BY DEF EngineTyped, Tracked
<1>2. pending' \in Seq(Entries) /\ Len(pending') <= Len(pending) /\ Distinct(pending')
  BY <1>1, RemovedKeeps
<1>3. /\ Ids(pending') \subseteq Ids(pending)
      /\ \A t \in Ids(pending) \ Ids(pending') : t = pending[IndexOf(pending, s)].id
  BY <1>1, RemovedIds
<1>4. pending[IndexOf(pending, s)].id \in Ids(pending)
  BY IndexFound DEF Ids
<1>5. Len(pending') <= PendingCap
  BY <1>1, <1>2, KnxAssumption DEF EngineTyped
<1>6. phase' # "connected" => pending' = <<>>
  BY IndexFound DEF Tracked
<1> QED
  BY <1>2, <1>3, <1>4, <1>5, <1>6 DEF Tracked

LEMMA DatagramKeeps ==
  ASSUME EngineTyped, Tracked, UNCHANGED written, HandleDatagram, actions = <<>>
  PROVE  /\ EngineTyped' /\ Tracked' /\ ~Connects(actions')
         /\ \/ Resets(actions') /\ phase' = "backoff" /\ timer' > 0
            \/ ~Resets(actions') /\ phase' = "connected"
            \/ UNCHANGED <<phase, timer, actions>>
<1>0. actions \in Seq(Acts) /\ ~Connects(actions) /\ ~Resets(actions)
  BY NoActs DEF EngineTyped
<1>1. CASE UNCHANGED <<engine, settled>>
  BY <1>0, <1>1 DEF engine, channel, EngineTyped, Tracked
<1>2. CASE phase = "connecting" /\ Opened
  <2>1. EngineTyped'
    <3>1. /\ timer' \in 0 .. Backoff + ConnectTimeout /\ outboundSeq' \in Seqs
          /\ heartbeat' \in 0 .. Heartbeat /\ sweep' \in 0 .. AckSweep
          /\ unanswered' \in {NoWait} \cup 0 .. HeartbeatTimeout
      BY <1>2, KnxAssumption DEF Opened, Seqs
    <3>2. pending' = <<>> /\ pending' \in Seq(Entries) /\ Len(pending') <= PendingCap
      BY <1>2, KnxAssumption DEF Opened
    <3> QED
      BY <1>0, <1>2, <3>1, <3>2 DEF EngineTyped, Opened
  <2>2. Ids(pending') = {} /\ Distinct(pending') /\ Ids(pending) = {}
    BY <1>2 DEF Opened, Ids, Distinct, Tracked
  <2>3. Tracked'
    BY <1>2, <2>2 DEF Tracked, Opened
  <2> QED
    BY <1>0, <1>2, <2>1, <2>3 DEF Opened
<1>3. CASE SocketError(actions)
  BY <1>0, <1>3, SocketErrorKeeps
<1>4. CASE phase = "connected" /\ \E i \in DOMAIN pending : Acked(pending[i].seq)
  <2>1. PICK i \in DOMAIN pending : Acked(pending[i].seq)
    BY <1>4
  <2> DEFINE s == pending[i].seq
             t == pending[IndexOf(pending, s)].id
  <2>2. Has(pending, s)
    BY DEF Has
  <2>3. t \in Ids(pending)
    BY <2>2, IndexFound DEF Ids
  <2>4. settled' = settled \cup {t}
    BY <2>1, <2>3 DEF Acked
  <2>5. pending' = Removed(pending, s) /\ UNCHANGED <<phase, timer, outboundSeq, heartbeat, unanswered, sweep, actions>>
    BY <2>1 DEF Acked
  <2> HIDE DEF s
  <2>6. pending' \in Seq(Entries) /\ Len(pending') <= PendingCap /\ Tracked'
    BY <2>2, <2>4, <2>5, SettledKeeps
  <2>7. EngineTyped'
    BY <2>5, <2>6 DEF EngineTyped
  <2> QED
    BY <1>0, <2>5, <2>6, <2>7
<1>5. CASE /\ phase = "connected"
           /\ \E telegram \in {<<>>, <<Telegram>>} : actions' = actions \o <<Send(NoSeq)>> \o telegram
           /\ UNCHANGED <<phase, timer, channel, settled>>
  <2>1. PICK telegram \in {<<>>, <<Telegram>>} : actions' = actions \o <<Send(NoSeq)>> \o telegram
    BY <1>5
  <2>2. telegram \in Seq(Acts) /\ ~Connects(telegram) /\ ~Resets(telegram)
    BY NoActs, OneAct, ActKinds
  <2>3. <<Send(NoSeq)>> \in Seq(Acts) /\ ~Connects(<<Send(NoSeq)>>) /\ ~Resets(<<Send(NoSeq)>>)
    BY OneAct, ActKinds
  <2>4. /\ actions \o <<Send(NoSeq)>> \in Seq(Acts) /\ ~Connects(actions \o <<Send(NoSeq)>>)
        /\ ~Resets(actions \o <<Send(NoSeq)>>)
    BY <1>0, <2>3, MoreActs
  <2>5. actions' \in Seq(Acts) /\ ~Connects(actions') /\ ~Resets(actions')
    BY <2>1, <2>2, <2>4, MoreActs
  <2> QED
    BY <1>5, <2>5 DEF EngineTyped, Tracked, channel
<1>6. CASE /\ phase = "connected" /\ unanswered' = NoWait
           /\ UNCHANGED <<phase, timer, outboundSeq, pending, heartbeat, sweep, actions, settled>>
  BY <1>0, <1>6 DEF EngineTyped, Tracked
<1> QED
  BY <1>1, <1>2, <1>3, <1>4, <1>5, <1>6 DEF HandleDatagram

\* handle_command: the map has room for the new entry, or makes room.
LEMMA CommandKeeps ==
  ASSUME EngineTyped, Tracked, actions = <<>>, phase = "connected", written < MaxWrites,
         Overrun \/ ~Has(pending, outboundSeq), HandleCommand
  PROVE  EngineTyped' /\ Tracked' /\ ~Connects(actions') /\ ~Resets(actions') /\ phase' = "connected"
<1> DEFINE new == [seq |-> outboundSeq, left |-> AckTimeout + 1, retries |-> Retransmits,
                   id |-> written + 1]
           full == Full(pending, outboundSeq)
           first == pending[1]
           kept == IF full THEN Removed(pending, first.seq) ELSE pending
<1>0. actions \in Seq(Acts) /\ ~Connects(actions) /\ ~Resets(actions)
  BY NoActs DEF EngineTyped
<1>1. new \in Entries /\ new.seq = outboundSeq /\ new.id = written + 1
  BY KnxAssumption DEF EngineTyped, Tracked, Entries
<1>2. /\ outboundSeq' = (outboundSeq + 1) % SeqSpace
      /\ pending' = Inserted(kept, new)
      /\ actions' = actions \o (IF full THEN <<Timeout(first.seq)>> ELSE <<>>) \o <<Send(new.seq)>>
      /\ settled' = settled \cup (IF full THEN {first.id} ELSE {})
      /\ written' = written + 1
      /\ UNCHANGED <<phase, timer, heartbeat, unanswered, sweep>>
  BY DEF HandleCommand
<1> HIDE DEF new
<1>3. /\ pending \in Seq(Entries) /\ Distinct(pending) /\ Len(pending) <= PendingCap
      /\ Len(pending) \in Nat /\ PendingCap \in Nat \ {0} /\ written \in Nat /\ MaxWrites \in Nat
  BY KnxAssumption DEF EngineTyped, Tracked
<1>4. full => first \in Entries /\ Has(pending, first.seq) /\ IndexOf(pending, first.seq) = 1 /\ first.id \in Ids(pending)
  <2> SUFFICES ASSUME full
               PROVE first \in Entries /\ Has(pending, first.seq) /\ IndexOf(pending, first.seq) = 1 /\ first.id \in Ids(pending)
    OBVIOUS
  <2>1. 1 \in DOMAIN pending
    BY <1>3 DEF Full
  <2>2. first \in Entries
    BY <1>3, <2>1
  <2>3. Has(pending, first.seq) /\ first.id \in Ids(pending)
    BY <2>1 DEF Has, Ids
  <2>4. IndexOf(pending, first.seq) = 1
    BY <1>3, <2>1, <2>3, IndexFound DEF Distinct
  <2> QED
    BY <2>2, <2>3, <2>4
<1>5. /\ kept \in Seq(Entries) /\ Distinct(kept) /\ Ids(kept) \subseteq Ids(pending)
      /\ full => Len(kept) = Len(pending) - 1
      /\ ~full => kept = pending
      /\ \A t \in Ids(pending) \ Ids(kept) : full /\ t = first.id
  <2>1. CASE full
    BY <1>3, <1>4, <2>1, RemovedKeeps, RemovedIds, RemovedIs
  <2>2. CASE ~full
    BY <1>3, <2>2
  <2> QED
    BY <2>1, <2>2
<1>6. full => ~Has(kept, outboundSeq)
  <2> SUFFICES ASSUME full, Has(kept, outboundSeq) PROVE FALSE
    OBVIOUS
  <2>1. \A i \in DOMAIN kept : \E j \in DOMAIN pending : kept[i] = pending[j]
    BY <1>3, RemovedKeeps
  <2> QED
    BY <2>1 DEF Full, Has
<1>7. ~full /\ ~Has(kept, outboundSeq) => Len(kept) < PendingCap
  BY <1>3, <1>5 DEF Full
<1> HIDE DEF kept
<1>8. /\ pending' \in Seq(Entries) /\ Distinct(pending')
      /\ Len(pending') = IF Has(kept, outboundSeq) THEN Len(kept) ELSE Len(kept) + 1
      /\ Ids(pending') \subseteq Ids(kept) \cup {written + 1}
      /\ written + 1 \in Ids(pending')
      /\ ~Has(kept, outboundSeq) => Ids(kept) \subseteq Ids(pending')
  BY <1>1, <1>2, <1>5, InsertedKeeps
<1>9. Len(pending') <= PendingCap
  <2>1. Len(kept) \in Nat
    BY <1>5
  <2> QED
    BY <1>3, <1>5, <1>6, <1>7, <1>8, <2>1
<1>10. actions' \in Seq(Acts) /\ ~Connects(actions') /\ ~Resets(actions')
  <2> DEFINE drop == IF full THEN <<Timeout(first.seq)>> ELSE <<>>
             send == <<Send(new.seq)>>
  <2>1. drop \in Seq(Acts) /\ ~Connects(drop) /\ ~Resets(drop)
    BY <1>4, EntryFields, NoActs, OneAct, ActKinds
  <2>2. send \in Seq(Acts) /\ ~Connects(send) /\ ~Resets(send)
    BY <1>1, OneAct, ActKinds DEF EngineTyped
  <2> HIDE DEF drop, send
  <2>3. actions \o drop \in Seq(Acts) /\ ~Connects(actions \o drop) /\ ~Resets(actions \o drop)
    BY <1>0, <2>1, MoreActs
  <2>4. actions' = (actions \o drop) \o send
    BY <1>2 DEF drop, send
  <2> QED
    BY <2>2, <2>3, <2>4, MoreActs
<1>11. outboundSeq' \in Seqs
  BY <1>2, KnxAssumption, SMTT(30) DEF EngineTyped, Seqs
<1>12. EngineTyped'
  BY <1>2, <1>8, <1>9, <1>10, <1>11 DEF EngineTyped
<1>13. settled' \subseteq 1 .. written' /\ written' \in 0 .. MaxWrites /\ Ids(pending') \subseteq 1 .. written'
  <2>1. \A x : x \in 1 .. written => x \in 1 .. written + 1
    BY <1>3
  <2>2. written + 1 \in 1 .. written + 1 /\ written + 1 \in 0 .. MaxWrites
    BY <1>3
  <2> QED
    BY <1>2, <1>4, <1>5, <1>8, <2>1, <2>2 DEF Tracked
<1>14. ASSUME ~Overrun
       PROVE  1 .. written' \subseteq settled' \cup Ids(pending')
  <2>1. ~Has(kept, outboundSeq)
    BY <1>5, <1>6, <1>14
  <2>2. \A x \in 1 .. written + 1 : x \in 1 .. written \/ x = written + 1
    BY <1>3
  <2>3. 1 .. written \subseteq settled \cup Ids(pending)
    BY <1>14 DEF Tracked
  <2> QED
    BY <1>2, <1>5, <1>8, <2>1, <2>2, <2>3
<1>15. Tracked'
  BY <1>2, <1>8, <1>13, <1>14 DEF Tracked
<1> QED
  BY <1>2, <1>10, <1>12, <1>15
\* poll in a channel, its three outcomes.
LEMMA PollConnectedKeeps ==
  ASSUME EngineTyped, Tracked, UNCHANGED written, phase = "connected", PollConnected
  PROVE  /\ EngineTyped' /\ Tracked' /\ (Connects(actions') <=> Connects(actions))
         /\ \/ Resets(actions') /\ phase' = "backoff" /\ timer' > 0
            \/ (Resets(actions') <=> Resets(actions)) /\ phase' = "connected"
<1> DEFINE beat == heartbeat = 0
           due == sweep = 0
           swept == IF due THEN Swept(pending) ELSE Unswept(pending)
           ping == IF beat THEN <<Send(NoSeq)>> ELSE <<>>
           queued == actions \o ping \o swept.actions
<1>1. pending \in Seq(Entries) /\ Distinct(pending) /\ actions \in Seq(Acts)
  BY DEF EngineTyped, Tracked
<1>2. /\ swept \in SweepAccs /\ Len(swept.pending) <= Len(pending) /\ Distinct(swept.pending)
      /\ Ids(swept.pending) \subseteq Ids(pending) /\ swept.lost \subseteq Ids(pending)
      /\ Ids(pending) \subseteq Ids(swept.pending) \cup swept.lost
      /\ ~Resets(swept.actions) /\ ~Connects(swept.actions)
  <2>1. CASE due
    <3> DEFINE r == Swept(pending)
    <3>1. SweptSoFar(pending, r, Len(pending))
      BY <1>1, SweepKeeps
    <3> HIDE DEF r
    <3>2. Ids(r.pending) \subseteq Ids(pending)
      BY <3>1 DEF SweptSoFar, Ids
    <3> QED
      BY <2>1, <3>1, <3>2 DEF SweptSoFar, r
  <2>2. CASE ~due
    <3> DEFINE u == Unswept(pending)
    <3>1. u.pending = pending /\ u.actions = <<>> /\ u.lost = {} /\ u \in SweepAccs
      BY <1>1, NoActs DEF Unswept, SweepAccs
    <3> HIDE DEF u
    <3>2. swept = u
      BY <2>2 DEF u
    <3> HIDE DEF swept
    <3> QED
      BY <1>1, <3>1, <3>2, NoActs
  <2> QED
    BY <2>1, <2>2
<1>3. swept.pending \in Seq(Entries) /\ swept.actions \in Seq(Acts)
  <2> HIDE DEF swept
  <2> QED
    BY <1>2 DEF SweepAccs
<1>4. ping \in Seq(Acts) /\ ~Connects(ping) /\ ~Resets(ping)
  BY NoActs, OneAct, ActKinds
<1> HIDE DEF swept, ping
<1>5. /\ actions \o ping \in Seq(Acts) /\ (Connects(actions \o ping) <=> Connects(actions))
      /\ Resets(actions \o ping) <=> Resets(actions)
  BY <1>1, <1>4, MoreActs
<1>6. /\ queued \in Seq(Acts) /\ (Connects(queued) <=> Connects(actions))
      /\ Resets(queued) <=> Resets(actions)
  BY <1>2, <1>3, <1>5, MoreActs
<1>7. \/ SocketError(actions)
      \/ SocketError(queued)
      \/ /\ unanswered # 0
         /\ actions' = queued /\ pending' = swept.pending
         /\ heartbeat' = (IF beat THEN Heartbeat ELSE heartbeat)
         /\ unanswered' = (IF beat /\ unanswered = NoWait THEN HeartbeatTimeout ELSE unanswered)
         /\ sweep' = (IF due THEN AckSweep ELSE sweep)
         /\ settled' = settled \cup swept.lost
         /\ UNCHANGED <<phase, timer, outboundSeq>>
  BY DEF PollConnected, swept, ping
<1> HIDE DEF queued
<1>8. CASE SocketError(actions)
  BY <1>1, <1>8, SocketErrorKeeps
<1>9. CASE SocketError(queued)
  BY <1>6, <1>9, SocketErrorKeeps
<1>10. CASE /\ unanswered # 0
            /\ actions' = queued /\ pending' = swept.pending
            /\ heartbeat' = (IF beat THEN Heartbeat ELSE heartbeat)
            /\ unanswered' = (IF beat /\ unanswered = NoWait THEN HeartbeatTimeout ELSE unanswered)
            /\ sweep' = (IF due THEN AckSweep ELSE sweep)
            /\ settled' = settled \cup swept.lost
            /\ UNCHANGED <<phase, timer, outboundSeq>>
  <2>1. Len(pending') <= PendingCap
    <3>1. Len(swept.pending) \in Nat /\ Len(pending) \in Nat /\ Len(pending) <= PendingCap
      BY <1>1, <1>3 DEF EngineTyped
    <3> QED
      BY <1>2, <1>10, <3>1, KnxAssumption
  <2>2. EngineTyped'
    BY <1>3, <1>6, <1>10, <2>1, KnxAssumption, SMTT(30) DEF EngineTyped
  <2>3. Tracked'
    BY <1>2, <1>10 DEF Tracked
  <2> QED
    BY <1>6, <1>10, <2>2, <2>3
<1> QED
  BY <1>7, <1>8, <1>9, <1>10

(***************************************************************************)
(* The KNX tunnel: each step keeps the invariant.                          *)
(***************************************************************************)
LEMMA PollEngineKeeps ==
  ASSUME TunnelInv, PollEngine
  PROVE  TunnelInv'
<1> USE DEF TunnelInv
<1>0. /\ where = "top" /\ Poll /\ where' = "drain"
      /\ UNCHANGED <<inboundFirst, readable, waiting, asked, endpoint, written>>
  BY DEF PollEngine
<1>1. actions \in Seq(Acts) /\ ~Connects(actions)
  BY <1>0 DEF EngineTyped, OneAsk
<1>2. CASE /\ phase = "backoff" /\ timer = 0
           /\ phase' = "connecting" /\ timer' = ConnectTimeout
           /\ actions' = Append(actions, Connect)
           /\ UNCHANGED <<channel, settled>>
  <2>1. ~Doomed /\ actions = <<>> /\ asked = 0
    BY <1>0, <1>2 DEF OneAsk
  <2>2. actions' \in Seq(Acts) /\ Connects(actions') /\ ~Resets(actions') /\ Len(actions') = 1
    <3>1. ~Resets(actions) /\ Len(actions) = 0
      BY <2>1, NoActs
    <3>2. Connect \in Acts /\ IsConnect(Connect) /\ ~IsReset(Connect)
      BY ActKinds
    <3> DEFINE r == Append(actions, Connect)
    <3>3. r \in Seq(Acts) /\ Len(r) = 1 /\ ~Resets(r) /\ Connects(r)
      <4>1. /\ r \in Seq(Acts) /\ (Resets(r) <=> Resets(actions) \/ IsReset(Connect))
            /\ Connects(r) <=> Connects(actions) \/ IsConnect(Connect)
        BY <1>1, <3>2, OneMoreAct
      <4>2. r = <<Connect>>
        BY <2>1
      <4>3. Len(r) = 1
        BY <4>2
      <4> QED
        BY <3>1, <3>2, <4>1, <4>3
    <3> HIDE DEF r
    <3>4. actions' = r
      BY <1>2 DEF r
    <3> QED
      BY <3>3, <3>4
  <2>3. EngineTyped'
    BY <1>2, <2>2, KnxAssumption DEF EngineTyped, channel
  <2>4. Tracked'
    BY <1>0, <1>2 DEF Tracked, channel
  <2>5. ~Doomed'
    BY <1>0, <2>2 DEF Doomed
  <2>6. OneAsk'
    BY <1>0, <1>2, <2>1, <2>2, <2>5 DEF OneAsk
  <2> QED
    BY <2>3, <2>4, <2>6
<1>3. CASE SocketError(actions)
  <2>1. EngineTyped' /\ Tracked' /\ Resets(actions') /\ ~Connects(actions') /\ phase' = "backoff"
    BY <1>0, <1>1, <1>3, SocketErrorKeeps
  <2>2. OneAsk'
    BY <1>0, <2>1 DEF OneAsk, Doomed
  <2> QED
    BY <2>1, <2>2
<1>4. CASE phase # "connected" /\ timer > 0 /\ UNCHANGED <<engine, settled>>
  <2>1. EngineTyped' /\ Tracked'
    BY <1>0, <1>4 DEF EngineTyped, Tracked, engine, channel
  <2>2. UNCHANGED <<actions, phase, timer>> /\ (Doomed' <=> Doomed)
    BY <1>0, <1>4 DEF engine, Doomed
  <2>3. OneAsk'
    BY <1>0, <1>1, <2>2 DEF OneAsk
  <2> QED
    BY <2>1, <2>3
<1>5. CASE phase = "connected" /\ PollConnected
  <2>1. /\ EngineTyped' /\ Tracked' /\ ~Connects(actions')
        /\ \/ Resets(actions') /\ phase' = "backoff" /\ timer' > 0
           \/ (Resets(actions') <=> Resets(actions)) /\ phase' = "connected"
    BY <1>0, <1>1, <1>5, PollConnectedKeeps
  <2>2. ~Resets(actions)
    BY <1>5 DEF OneAsk, Doomed
  <2>3. OneAsk'
    BY <1>0, <2>1, <2>2 DEF OneAsk, Doomed
  <2> QED
    BY <2>1, <2>3
<1> QED
  BY <1>0, <1>2, <1>3, <1>4, <1>5 DEF Poll

LEMMA DrainKeeps ==
  ASSUME TunnelInv, Drain
  PROVE  TunnelInv'
<1> USE DEF TunnelInv
<1> DEFINE a == Head(actions)
<1>0. /\ where \in {"drain", "drain_reset"} /\ actions # <<>> /\ actions' = Tail(actions)
      /\ where' = IF a.do = "reset" THEN "drain_reset" ELSE where
      /\ asked' = IF a.do = "send" /\ a.connect THEN asked + 1 ELSE asked
      /\ UNCHANGED <<inboundFirst, readable, waiting, endpoint, phase, timer, outboundSeq,
                     heartbeat, unanswered, sweep, written>>
  BY DEF Drain
<1>1. \/ UNCHANGED <<pending, settled>>
      \/ /\ phase = "connected" /\ Has(pending, a.seq)
         /\ pending' = Removed(pending, a.seq)
         /\ settled' = settled \cup {pending[IndexOf(pending, a.seq)].id}
  BY DEF Drain
<1>2. /\ actions \in Seq(Acts) /\ a \in Acts /\ actions' \in Seq(Acts) /\ Len(actions) \in Nat
      /\ Len(actions') = Len(actions) - 1
      /\ Len(actions) = 1 => actions' = <<>>
      /\ Resets(actions) <=> IsReset(a) \/ Resets(actions')
      /\ Connects(actions) <=> IsConnect(a) \/ Connects(actions')
  BY <1>0, OneActLess DEF EngineTyped
<1>3. where' = (IF IsReset(a) THEN "drain_reset" ELSE where) /\ asked' = IF IsConnect(a) THEN asked + 1 ELSE asked
  BY <1>0 DEF IsReset, IsConnect
<1>4. pending' \in Seq(Entries) /\ Len(pending') <= PendingCap /\ Tracked'
  <2>1. CASE UNCHANGED <<pending, settled>>
    BY <1>0, <2>1 DEF Tracked, EngineTyped
  <2>2. CASE /\ phase = "connected" /\ Has(pending, a.seq)
             /\ pending' = Removed(pending, a.seq)
             /\ settled' = settled \cup {pending[IndexOf(pending, a.seq)].id}
    BY <1>0, <2>2, SettledKeeps
  <2> QED
    BY <1>1, <2>1, <2>2
<1>5. EngineTyped'
  BY <1>0, <1>2, <1>4 DEF EngineTyped
<1>6. Doomed' <=> Doomed
  BY <1>0, <1>2, <1>3 DEF Doomed
<1> HIDE DEF a
<1>7. OneAsk'
  <2>1. CASE IsConnect(a)
    <3>1. where = "drain" /\ Len(actions) = 1 /\ asked = 0 /\ phase = "connecting" /\ ~Doomed
      BY <1>2, <2>1 DEF OneAsk
    <3>2. actions' = <<>> /\ asked' = 1 /\ ~Connects(actions') /\ ~IsReset(a) /\ where' = where
      BY <1>2, <1>3, <2>1, <3>1, NoActs DEF Doomed
    <3> QED
      BY <1>0, <1>6, <3>1, <3>2 DEF OneAsk
  <2>2. CASE ~IsConnect(a)
    <3>1. asked' = asked /\ where' \in {"drain", "drain_reset"}
      BY <1>0, <1>3, <2>2
    <3>2. ~Connects(actions')
      <4> SUFFICES ASSUME Connects(actions') PROVE FALSE
        OBVIOUS
      <4>1. Len(actions) = 1
        BY <1>2 DEF OneAsk
      <4> QED
        BY <1>2, <4>1, NoActs
    <3> QED
      BY <1>0, <1>6, <3>1, <3>2 DEF OneAsk
  <2> QED
    BY <2>1, <2>2
<1> QED
  BY <1>4, <1>5, <1>7

LEMMA ReceiveKeeps ==
  ASSUME TunnelInv, Receive
  PROVE  TunnelInv'
<1> USE DEF TunnelInv
<1>0. /\ where = "select" /\ actions = <<>> /\ where' = "top" /\ inboundFirst' = ~inboundFirst
      /\ readable' = FALSE /\ UNCHANGED <<waiting, asked, endpoint, written>>
      /\ HandleDatagram \/ SocketError(actions)
  BY DEF Receive, Passed, OneAsk
<1>1. actions \in Seq(Acts) /\ ~Connects(actions) /\ ~Resets(actions)
  BY <1>0, NoActs
<1>2. /\ EngineTyped' /\ Tracked' /\ ~Connects(actions')
      /\ \/ Resets(actions') /\ phase' = "backoff" /\ timer' > 0
         \/ ~Resets(actions') /\ phase' = "connected"
         \/ UNCHANGED <<phase, timer, actions>>
  <2>1. CASE HandleDatagram
    BY <1>0, <2>1, DatagramKeeps
  <2>2. CASE SocketError(actions)
    BY <1>0, <1>1, <2>2, SocketErrorKeeps
  <2> QED
    BY <1>0, <2>1, <2>2
<1>3. ~Doomed /\ (Doomed' <=> Resets(actions'))
  BY <1>0, <1>1 DEF Doomed
<1>4. OneAsk'
  BY <1>0, <1>1, <1>2, <1>3 DEF OneAsk
<1> QED
  BY <1>2, <1>4

LEMMA SendStagedKeeps ==
  ASSUME TunnelInv, SendStaged
  PROVE  TunnelInv'
<1> USE DEF TunnelInv
<1>0. /\ where = "select" /\ actions = <<>> /\ where' = "top" /\ inboundFirst' = ~inboundFirst
      /\ phase = "connected" /\ waiting' = FALSE /\ UNCHANGED <<readable, asked, endpoint>>
      /\ \/ written < MaxWrites /\ (Overrun \/ ~Has(pending, outboundSeq)) /\ HandleCommand
         \/ UNCHANGED <<engine, ghost>>
  BY DEF SendStaged, Stageable, Passed, OneAsk
<1>1. EngineTyped' /\ Tracked' /\ ~Connects(actions') /\ ~Resets(actions') /\ phase' = "connected"
  <2>1. CASE UNCHANGED <<engine, ghost>>
    BY <1>0, <2>1, NoActs DEF engine, channel, ghost, EngineTyped, Tracked
  <2>2. CASE written < MaxWrites /\ (Overrun \/ ~Has(pending, outboundSeq)) /\ HandleCommand
    BY <1>0, <2>2, CommandKeeps
  <2> QED
    BY <1>0, <2>1, <2>2
<1>2. ~Doomed'
  BY <1>0, <1>1 DEF Doomed
<1>3. OneAsk'
  BY <1>0, <1>1, <1>2 DEF OneAsk
<1> QED
  BY <1>1, <1>3

\* The steps that leave the engine alone.
LEMMA TaskKeeps ==
  ASSUME TunnelInv, Bind \/ Drained \/ WakeForDeadline \/ BackoffOver \/ Arrive \/ Produce
  PROVE  TunnelInv'
<1> USE DEF TunnelInv
<1>1. UNCHANGED <<engine, ghost>>
  BY DEF Bind, Drained, WakeForDeadline, BackoffOver, Arrive, Produce
<1>2. EngineTyped' /\ Tracked'
  BY <1>1 DEF engine, channel, ghost, EngineTyped, Tracked
<1>3. UNCHANGED <<actions, phase, timer>>
  BY <1>1 DEF engine
<1>4. actions = <<>> => ~Resets(actions) /\ ~Connects(actions)
  BY NoActs
<1>5. CASE Bind
  BY <1>2, <1>3, <1>4, <1>5 DEF Bind, OneAsk, Doomed
<1>6. CASE Drained
  BY <1>2, <1>3, <1>4, <1>6 DEF Drained, OneAsk, Doomed
<1>7. CASE WakeForDeadline
  BY <1>2, <1>3, <1>4, <1>7 DEF WakeForDeadline, Passed, OneAsk, Doomed
<1>8. CASE BackoffOver
  BY <1>2, <1>3, <1>4, <1>8 DEF BackoffOver, OneAsk, Doomed
<1>9. CASE Arrive \/ Produce
  <2>1. /\ UNCHANGED <<where, inboundFirst, asked, endpoint>> /\ readable' \in BOOLEAN /\ waiting' \in BOOLEAN
        /\ Doomed' <=> Doomed
    BY <1>3, <1>9 DEF Arrive, Produce, OneAsk, Doomed
  <2> QED
    BY <1>2, <1>3, <2>1 DEF OneAsk
<1> QED
  BY <1>5, <1>6, <1>7, <1>8, <1>9

LEMMA TickKeeps ==
  ASSUME TunnelInv, Tick
  PROVE  TunnelInv'
<1> USE DEF TunnelInv
<1>0. /\ where # "top" /\ UNCHANGED <<task, phase, outboundSeq, actions, ghost>>
      /\ timer' = Down(timer) /\ heartbeat' = Down(heartbeat) /\ sweep' = Down(sweep)
      /\ unanswered' = Down(unanswered)
      /\ pending' = [i \in DOMAIN pending |-> [pending[i] EXCEPT !.left = Down(pending[i].left)]]
  BY DEF Tick
<1>1. pending \in Seq(Entries)
  BY DEF EngineTyped
<1>2. \A i \in DOMAIN pending : pending'[i] \in Entries /\ pending'[i].seq = pending[i].seq /\ pending'[i].id = pending[i].id
  <2> TAKE i \in DOMAIN pending
  <2> DEFINE e == pending[i]
             l == Down(e.left)
  <2>1. e \in Entries
    BY <1>1
  <2>2. l \in 0 .. AckTimeout + 1
    BY <2>1, EntryFields, KnxAssumption DEF Down
  <2>3. pending'[i] = [e EXCEPT !.left = l]
    BY <1>0
  <2>4. 0 \in 0 .. Retransmits
    BY KnxAssumption
  <2> HIDE DEF l, e
  <2>5. pending'[i] \in Entries /\ pending'[i].seq = e.seq /\ pending'[i].id = e.id
    <3>1. LET a == [e EXCEPT !.left = l]
          IN a \in Entries /\ a.seq = e.seq /\ a.id = e.id
      BY <2>1, <2>2, <2>4, EntryUpdated
    <3> QED
      BY <2>3, <3>1
  <2> QED
    BY <2>5 DEF e
<1>3. DOMAIN pending' = DOMAIN pending /\ pending' \in Seq(Entries) /\ Len(pending') = Len(pending)
  BY <1>0, <1>1, <1>2
<1>4. Ids(pending') = Ids(pending) /\ (Distinct(pending) => Distinct(pending'))
  BY <1>2, <1>3 DEF Ids, Distinct
<1>5. EngineTyped'
  <2>1. /\ timer' \in 0 .. Backoff + ConnectTimeout /\ heartbeat' \in 0 .. Heartbeat
        /\ sweep' \in 0 .. AckSweep
    <3>1. \A k \in Nat : \A t \in 0 .. k : Down(t) \in 0 .. k
      BY DEF Down
    <3>2. Backoff + ConnectTimeout \in Nat /\ Heartbeat \in Nat /\ AckSweep \in Nat
      BY KnxAssumption
    <3>3. /\ timer \in 0 .. Backoff + ConnectTimeout /\ heartbeat \in 0 .. Heartbeat
          /\ sweep \in 0 .. AckSweep
      BY DEF EngineTyped
    <3> HIDE DEF Down
    <3> QED
      BY <1>0, <3>1, <3>2, <3>3
  <2>2. unanswered' \in {NoWait} \cup 0 .. HeartbeatTimeout
    <3>1. CASE unanswered = NoWait
      BY <1>0, <3>1 DEF Down, NoWait
    <3>2. CASE unanswered \in 0 .. HeartbeatTimeout
      BY <1>0, <3>2, KnxAssumption DEF Down
    <3> QED
      BY <3>1, <3>2 DEF EngineTyped
  <2>3. Len(pending') <= PendingCap
    BY <1>3 DEF EngineTyped
  <2> QED
    BY <1>0, <1>3, <2>1, <2>2, <2>3 DEF EngineTyped
<1>6. phase # "connected" => pending' = <<>>
  BY <1>0 DEF Tracked
<1>7. Tracked'
  BY <1>0, <1>4, <1>6 DEF Tracked, ghost
<1>8. Doomed' <=> Doomed
  BY <1>0 DEF Doomed, task
<1>9. OneAsk'
  BY <1>0, <1>8 DEF OneAsk, task
<1> QED
  BY <1>5, <1>7, <1>9

LEMMA TunnelStep == TunnelInv /\ [KnxNext]_knxVars => TunnelInv'
<1> SUFFICES ASSUME TunnelInv, [KnxNext]_knxVars PROVE TunnelInv'
  OBVIOUS
<1>1. CASE UNCHANGED knxVars
  BY <1>1 DEF knxVars, task, engine, channel, ghost, TunnelInv, EngineTyped, Tracked, OneAsk, Doomed
<1>2. CASE KnxNext
  BY <1>2, PollEngineKeeps, DrainKeeps, ReceiveKeeps, SendStagedKeeps, TaskKeeps, TickKeeps DEF KnxNext, Step
<1> QED
  BY <1>1, <1>2

\* HandshakeFitsSocket.  A socket carries one CONNECT_REQUEST, and none
\* advertises the address of a socket that is gone: what drive_connection and
\* TunnelEngine::poll promise each other through ResetSocket.
THEOREM OneHandshakeEach == KnxSpec => []HandshakeFitsSocket
<1>1. TunnelInv => HandshakeFitsSocket
  <2> SUFFICES ASSUME TunnelInv PROVE HandshakeFitsSocket
    OBVIOUS
  <2>1. \A i \in DOMAIN actions : actions[i].do \in {"send", "telegram", "reset", "ack_timeout"}
    <3> TAKE i \in DOMAIN actions
    <3>1. actions[i] \in Acts
      BY DEF TunnelInv, EngineTyped
    <3> QED
      BY <3>1, ActKinds
  <2>2. KnxTypeOK
    BY <2>1 DEF TunnelInv, EngineTyped, Tracked, OneAsk, KnxTypeOK
  <2>3. Connects(actions) => endpoint # "stale"
    BY DEF TunnelInv, OneAsk
  <2> QED
    BY <2>2, <2>3 DEF HandshakeFitsSocket, TunnelInv, OneAsk, Connects, IsConnect
<1> QED
  BY <1>1, TunnelInit, TunnelStep, PTL DEF KnxSpec

\* A telegram handed to the engine is in the pending map until its fate is told:
\* no sweep, removal, retransmission, failed send or teardown drops it untold, as
\* long as a sequence number is not used again while it is pending.
NoneDropsOut == ~Overrun => \A t \in 1 .. written : t \in settled \/ t \in Ids(pending)

THEOREM NoTelegramDropsOut == KnxSpec => []NoneDropsOut
<1>1. TunnelInv => NoneDropsOut
  BY DEF TunnelInv, Tracked, NoneDropsOut
<1> QED
  BY <1>1, TunnelInit, TunnelStep, PTL DEF KnxSpec
=============================================================================
