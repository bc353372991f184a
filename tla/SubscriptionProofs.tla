------------------------ MODULE SubscriptionProofs -------------------------
(***************************************************************************)
(* For any records, ring, funnel and sink: one difference of sequence      *)
(* numbers at the client accounts for the losses at every place, the slots *)
(* the client holds back are free when they are needed, a subscriber that  *)
(* was told of no loss knows the records' last values, and what it knows   *)
(* never goes back.                                                        *)
(*                                                                         *)
(* The invariant follows an update on its way.  Its number is how many     *)
(* there had been when it was made (Numbered); numbers grow from the sink  *)
(* over the wire and the funnel to the server (Ordered); and in the sink   *)
(* each item's number is the one before it, its own gap and one (Chained). *)
(***************************************************************************)
EXTENDS Subscription, FiniteSetTheorems, SequenceTheorems, TLAPS

Errors == [type : {"error"}]

\* Types, with no bound on what is written: the bound of the instances is a sum.
Types ==
  /\ kind \in [Records -> Kinds] /\ fan \subseteq Records
  /\ written \in [Records -> Nat] /\ cursor \in [Records -> Nat]
  /\ skipped \in [Records -> Nat] /\ reading \in Records \cup {NoRec}
  /\ spc \in {"open", "snapshots", "burst", "live", "ending", "over", "lost"}
  /\ burst \in Seq(Records \X Nat) /\ seq \in Nat
  /\ funnel \in Seq(Updates) /\ wire \in Seq(Updates \cup Errors)
  /\ held \in BOOLEAN /\ gone \in BOOLEAN /\ lastSeq \in Nat
  /\ sink \in Seq(Items)
  /\ made \in Seq(Records \X Nat) /\ passed \in [Records -> Nat]
  /\ accounted \in Nat /\ upTo \in Nat

\* The server's number is how many updates there are, but for snapshots not sent
\* yet; and a ring's stream has passed what it has yielded and what it skipped,
\* which only the stream that reads on has not attached to a value.
Numbered ==
  /\ spc \in {"open", "snapshots"} => seq = 0 /\ wire = <<>> /\ made = <<>>
  /\ spc \in {"open", "snapshots", "burst"} =>
       seq + Len(burst) = Len(made) /\ funnel = <<>> /\ reading = NoRec
  /\ spc \in {"live", "ending", "over"} => seq = Len(made)
  /\ seq <= Len(made)
  /\ \A r \in Records : r # reading => skipped[r] = 0
  /\ \A r \in fan : IF kind[r] = "SpmcRing" THEN cursor[r] = passed[r] + skipped[r]
                    ELSE skipped[r] = 0

IsUpdate(u) == u.type # "error"

\* An update's number is how many there had been, and they grow towards the server.
Ordered ==
  /\ held => lastSeq <= seq
  /\ \A i \in 1 .. Len(wire) : IsUpdate(wire[i]) =>
       /\ wire[i].seq = wire[i].upTo /\ wire[i].seq <= seq
       /\ held => lastSeq < wire[i].seq
  /\ \A i \in 1 .. Len(funnel) :
       /\ funnel[i].seq = funnel[i].upTo /\ funnel[i].seq <= seq
       /\ held => lastSeq < funnel[i].seq
  /\ \A i, j \in 1 .. Len(wire) :
       i < j /\ IsUpdate(wire[i]) /\ IsUpdate(wire[j]) => wire[i].seq < wire[j].seq
  /\ \A i, j \in 1 .. Len(funnel) : i < j => funnel[i].seq < funnel[j].seq
  /\ \A i \in 1 .. Len(wire), j \in 1 .. Len(funnel) :
       IsUpdate(wire[i]) => wire[i].seq < funnel[j].seq

\* An error is the last item of a sink nobody holds.  An item's number is that of
\* the one before, its gap and one; the engine's cursor is at the last item.
Chained ==
  /\ upTo = accounted
  /\ \A i \in 1 .. Len(sink) :
       IF sink[i].type = "error" THEN i = Len(sink) /\ ~held
       ELSE sink[i].upTo =
              (IF i = 1 THEN accounted ELSE sink[i - 1].upTo) + 1 + sink[i].skipped
  /\ held => lastSeq = IF sink = <<>> THEN accounted ELSE sink[Len(sink)].upTo

InBurst(u) == u.type \in {"burstBody", "burstEnd"}

\* The burst's end has not reached the client yet.
BurstAhead ==
  \/ spc \in {"open", "snapshots"}
  \/ spc = "burst" /\ burst # <<>>
  \/ \E i \in 1 .. Len(wire) : InBurst(wire[i])

\* The burst is ahead of every event, its end behind its body.
BurstFirst ==
  /\ \A i \in 1 .. Len(funnel) : funnel[i].type = "event"
  /\ spc = "burst" /\ burst # <<>> =>
       \A i \in 1 .. Len(wire) : wire[i].type = "burstBody"
  /\ \A i, j \in 1 .. Len(wire) :
       i < j /\ InBurst(wire[j]) => wire[i].type = "burstBody"

\* A slot for the terminal error, and one more until the burst's end is there.
SlotsKept ==
  /\ held => Len(sink) < SinkCap
  /\ held /\ BurstAhead => Len(sink) + 1 < SinkCap

IInv == Types /\ Numbered /\ Ordered /\ Chained /\ BurstFirst /\ SlotsKept

-----------------------------------------------------------------------------
(* Sequences.                                                              *)

LEMMA Appended ==
  ASSUME NEW S, NEW s \in Seq(S), NEW x \in S
  PROVE  /\ Append(s, x) \in Seq(S) /\ Len(Append(s, x)) = Len(s) + 1
         /\ Len(s) \in Nat /\ Append(s, x)[Len(s) + 1] = x
         /\ \A i \in 1 .. Len(s) : Append(s, x)[i] = s[i]
  BY AppendProperties, LenProperties

LEMMA HeadAndTail ==
  ASSUME NEW S, NEW s \in Seq(S), s # <<>>
  PROVE  /\ Tail(s) \in Seq(S) /\ Len(s) \in Nat \ {0} /\ Len(Tail(s)) = Len(s) - 1
         /\ Head(s) = s[1] /\ s[1] \in S
         /\ \A i \in 1 .. Len(s) - 1 : Tail(s)[i] = s[i + 1]
  BY HeadTailProperties, LenProperties, ElementOfSeq, EmptySeq

LEMMA Elements ==
  ASSUME NEW S, NEW s \in Seq(S)
  PROVE  Len(s) \in Nat /\ \A i \in 1 .. Len(s) : s[i] \in S
  BY LenProperties, ElementOfSeq

LEMMA NoElements ==
  ASSUME NEW S
  PROVE  <<>> \in Seq(S) /\ Len(<<>>) = 0
  BY EmptySeq

\* A function on 1 .. n is a sequence of length n.
LEMMA FunctionIsSeq ==
  ASSUME NEW S, NEW n \in Nat, NEW f \in [1 .. n -> S]
  PROVE  f \in Seq(S) /\ Len(f) = n
<1>1. f \in Seq(S)
  BY IsASeq
<1>2. Len(f) \in Nat /\ DOMAIN f = 1 .. Len(f) /\ DOMAIN f = 1 .. n
  BY <1>1, LenProperties
<1> QED BY <1>1, <1>2

\* What an update is.
LEMMA UpdateType ==
  ASSUME NEW type \in {"event", "burstBody", "burstEnd"}, NEW r \in Records,
         NEW v \in Nat, NEW n \in Nat, NEW m \in Nat
  PROVE  /\ Update(type, r, v, n, m) \in Updates
         /\ Update(type, r, v, n, m).type = type
         /\ Update(type, r, v, n, m).rec = r /\ Update(type, r, v, n, m).val = v
         /\ Update(type, r, v, n, m).seq = n /\ Update(type, r, v, n, m).upTo = m
  BY DEF Update, Updates

\* What is on the wire is an update or an error.
LEMMA FrameType ==
  ASSUME NEW u \in Updates \cup Errors, IsUpdate(u)
  PROVE  /\ u.seq \in Nat /\ u.upTo \in Nat /\ u.val \in Nat /\ u.rec \in Records
         /\ u.type \in {"event", "burstBody", "burstEnd"}
  BY DEF Updates, Errors, IsUpdate

-----------------------------------------------------------------------------
(* The steps.                                                              *)

sinkVars == <<held, lastSeq, sink, accounted, upTo>>
numbers == <<spc, kind, fan, cursor, skipped, reading, burst, seq, funnel, wire, made,
             passed>>

\* The records and the subscriber's drop: no queue and no number changes.
LEMMA Untouched ==
  ASSUME IInv, UNCHANGED <<sinkVars, numbers>>
  PROVE  Numbered' /\ Ordered' /\ Chained' /\ BurstFirst' /\ SlotsKept'
<1> USE DEF IInv, sinkVars, numbers
<1>1. Numbered' BY DEF Numbered
<1>2. Ordered' BY DEF Ordered, IsUpdate
<1>3. Chained' BY DEF Chained
<1>4. BurstFirst' /\ SlotsKept' BY DEF SlotsKept, BurstFirst, BurstAhead, InBurst
<1> QED BY <1>1, <1>2, <1>3, <1>4

LEMMA RecordsKeep ==
  ASSUME IInv, (\E r \in Records : Write(r)) \/ CloseBuffers \/ DropStream
  PROVE  IInv'
<1>1. UNCHANGED <<sinkVars, numbers>>
  BY DEF Write, recVars, CloseBuffers, DropStream, sinkVars, numbers, serverVars, streamVars,
    clientVars, histVars, madeVars, takenVars
<1>2. written' \in [Records -> Nat]
  BY DEF IInv, Types, Write, CloseBuffers, DropStream, recVars
<1>3. gone' \in BOOLEAN
  <2>1. gone' = gone \/ gone' = TRUE
    BY DEF Write, CloseBuffers, DropStream, clientVars
  <2>2. gone \in BOOLEAN
    BY DEF IInv, Types
  <2> QED BY <2>1, <2>2
<1>4. Types'
  BY <1>1, <1>2, <1>3 DEF IInv, Types, sinkVars, numbers
<1> QED BY <1>1, <1>4, Untouched DEF IInv

\* Another reader of a mailbox moves the cursor past what it has taken.
LEMMA TakenByAnotherKeeps ==
  ASSUME IInv, NEW r \in Records, TakenByAnother(r)
  PROVE  IInv'
<1> USE DEF IInv
<1>1. /\ kind[r] = "Mailbox" /\ cursor' = [cursor EXCEPT ![r] = written[r]]
      /\ UNCHANGED <<kind, written, spc, fan, skipped, reading, burst, seq, funnel, wire,
                     held, lastSeq, sink, gone, made, passed, accounted, upTo>>
  BY DEF TakenByAnother, recVars, clientVars, histVars, madeVars, takenVars
<1>2. Types'
  BY <1>1 DEF Types
<1>3. Numbered'
  BY <1>1 DEF Numbered, Types
<1>4. Ordered' /\ Chained'
  BY <1>1 DEF Ordered, IsUpdate, Chained
<1>5. BurstFirst' /\ SlotsKept'
  BY <1>1 DEF SlotsKept, BurstFirst, BurstAhead, InBurst
<1> QED BY <1>2, <1>3, <1>4, <1>5

LEMMA OpenKeeps ==
  ASSUME IInv, Open
  PROVE  IInv'
<1> USE DEF IInv
<1>1. /\ spc = "open" /\ spc' = "snapshots"
      /\ cursor' = [r \in Records |-> StartsAfter(r)] /\ passed' = cursor'
      /\ UNCHANGED <<kind, written, fan, skipped, reading, burst, seq, funnel, wire,
                     held, lastSeq, sink, gone, made, accounted, upTo>>
  BY DEF Open, recVars, clientVars, takenVars
<1>2. \A r \in Records : StartsAfter(r) \in Nat
  BY DEF StartsAfter, Types, Kinds
<1>3. Types'
  BY <1>1, <1>2 DEF Types
<1>4. Numbered'
  <2>1. reading = NoRec /\ \A r \in Records : skipped[r] = 0
    BY <1>1, SubscriptionAssumption DEF Numbered
  <2>2. \A r \in fan' : cursor'[r] = passed'[r] + skipped'[r] /\ skipped'[r] = 0
    BY <1>1, <1>2, <2>1 DEF Types
  <2> QED BY <1>1, <2>1, <2>2 DEF Numbered
<1>5. Ordered' /\ Chained'
  BY <1>1 DEF Ordered, IsUpdate, Chained
<1>6. BurstFirst' /\ SlotsKept'
  BY <1>1 DEF SlotsKept, BurstFirst, BurstAhead, InBurst
<1> QED BY <1>3, <1>4, <1>5, <1>6

\* The burst is a sequence of records and values.
LEMMA BurstType ==
  ASSUME Types, ReadSnapshots
  PROVE  burst' \in Seq(Records \X Nat)
<1>1. PICK covered \in SUBSET {r \in fan : wild /\ HasCurrent(r)} :
        \E order \in SetToSeqs(covered) :
          burst' = [i \in DOMAIN order |-> <<order[i], written[order[i]]>>]
  BY DEF ReadSnapshots
<1>2. PICK order \in SetToSeqs(covered) :
        burst' = [i \in DOMAIN order |-> <<order[i], written[order[i]]>>]
  BY <1>1
<1>3. covered \subseteq Records /\ Cardinality(covered) \in Nat
  <2>1. covered \subseteq Records
    BY DEF Types
  <2> QED BY <2>1, SubscriptionAssumption, FS_Subset, FS_CardinalityType
<1>4. order \in [1 .. Cardinality(covered) -> covered]
  BY DEF SetToSeqs
<1>5. burst' \in [1 .. Cardinality(covered) -> Records \X Nat]
  BY <1>2, <1>3, <1>4 DEF Types
<1> QED BY <1>3, <1>5, FunctionIsSeq

LEMMA ReadSnapshotsKeeps ==
  ASSUME IInv, ReadSnapshots
  PROVE  IInv'
<1> USE DEF IInv
<1>1. /\ spc = "snapshots" /\ spc' = "burst" /\ made' = burst'
      /\ UNCHANGED <<kind, written, fan, cursor, skipped, reading, seq, funnel, wire,
                     held, lastSeq, sink, gone, passed, accounted, upTo>>
  BY DEF ReadSnapshots, recVars, streamVars, clientVars, takenVars
<1>2. burst' \in Seq(Records \X Nat) /\ Len(burst') \in Nat
  BY BurstType, LenProperties
<1>3. Types'
  BY <1>1, <1>2 DEF Types
<1>4. seq = 0 /\ wire = <<>> /\ Len(wire) = 0
  BY <1>1, NoElements DEF Numbered
<1>5. Numbered'
  BY <1>1, <1>2, <1>4 DEF Numbered
<1>6. Ordered' /\ Chained'
  BY <1>1 DEF Ordered, IsUpdate, Chained
<1>7. BurstFirst' /\ SlotsKept'
  BY <1>1, <1>4 DEF SlotsKept, BurstFirst, BurstAhead, InBurst
<1> QED BY <1>3, <1>5, <1>6, <1>7

LEMMA StartPumpKeeps ==
  ASSUME IInv, StartPump
  PROVE  IInv'
<1> USE DEF IInv, StartPump, recVars, clientVars, streamVars, histVars, madeVars, takenVars
<1>1. Types'
  BY DEF Types
<1>2. Len(burst) = 0
  BY NoElements
<1>3. Numbered'
  BY <1>2 DEF Numbered, Types
<1>4. Ordered' /\ Chained'
  BY DEF Ordered, IsUpdate, Chained
<1>5. BurstFirst' /\ SlotsKept'
  BY DEF SlotsKept, BurstFirst, BurstAhead, InBurst
<1> QED BY <1>1, <1>3, <1>4, <1>5

LEMMA ExhaustedKeeps ==
  ASSUME IInv, Exhausted
  PROVE  IInv'
<1> USE DEF IInv, Exhausted, recVars, clientVars, streamVars, histVars, madeVars, takenVars
<1>1. Types'
  BY DEF Types
<1>2. Numbered'
  BY DEF Numbered
<1>3. Ordered' /\ Chained'
  BY DEF Ordered, IsUpdate, Chained
<1>4. BurstFirst' /\ SlotsKept'
  BY DEF SlotsKept, BurstFirst, BurstAhead, InBurst
<1> QED BY <1>1, <1>2, <1>3, <1>4

\* Values were overwritten: the lag grows by as many as the cursor passes.
LEMMA LagKeeps ==
  ASSUME IInv, NEW r \in Records, Lag(r)
  PROVE  IInv'
<1> USE DEF IInv
<1> DEFINE lag == Oldest(r) - 1 - cursor[r]
<1>1. /\ spc = "live" /\ r \in fan /\ reading \in {NoRec, r} /\ kind[r] = "SpmcRing"
      /\ cursor[r] + 1 < Oldest(r)
      /\ skipped' = [skipped EXCEPT ![r] = @ + lag]
      /\ cursor' = [cursor EXCEPT ![r] = Oldest(r) - 1]
      /\ reading' = r
      /\ UNCHANGED <<kind, written, spc, fan, burst, seq, funnel, wire, held, lastSeq, sink,
                     gone, made, passed, accounted, upTo>>
  BY DEF Lag, AddLag, recVars, clientVars, histVars, madeVars, takenVars
<1>2. Oldest(r) \in Nat \ {0} /\ cursor[r] \in Nat /\ skipped[r] \in Nat /\ passed[r] \in Nat
  BY SubscriptionAssumption, SMTT(30) DEF Types, Oldest
<1>3. PICK c \in Nat : c = Oldest(r) - 1
  BY <1>2
<1>4. PICK k \in Nat : k = skipped[r] + lag
  BY <1>1, <1>2
<1>5. cursor' = [cursor EXCEPT ![r] = c] /\ skipped' = [skipped EXCEPT ![r] = k]
  BY <1>1, <1>3, <1>4
<1>6. c = passed[r] + k
  <2>1. cursor[r] = passed[r] + skipped[r]
    BY <1>1 DEF Numbered
  <2>2. PICK o \in Nat : o = Oldest(r)
    BY <1>2
  <2> QED BY <1>2, <1>3, <1>4, <2>1, <2>2
<1> HIDE DEF lag
<1>7. Types'
  <2>1. skipped' \in [Records -> Nat] /\ cursor' \in [Records -> Nat]
    BY <1>5 DEF Types
  <2> QED BY <1>1, <2>1 DEF Types
<1>8. Numbered'
  <2>1. \A q \in Records : q # reading' => skipped'[q] = 0
    BY <1>1, <1>5, SubscriptionAssumption DEF Numbered, Types
  <2>2. ASSUME NEW q \in fan
        PROVE  IF kind[q] = "SpmcRing" THEN cursor'[q] = passed[q] + skipped'[q]
               ELSE skipped'[q] = 0
    <3>1. CASE q = r
      BY <1>1, <1>5, <1>6, <3>1 DEF Types
    <3>2. CASE q # r
      BY <1>5, <3>2 DEF Numbered, Types
    <3> QED BY <3>1, <3>2
  <2> QED BY <1>1, <2>1, <2>2 DEF Numbered
<1>9. Ordered' /\ Chained'
  BY <1>1 DEF Ordered, IsUpdate, Chained
<1>10. BurstFirst' /\ SlotsKept'
  BY <1>1 DEF SlotsKept, BurstFirst, BurstAhead, InBurst
<1> QED BY <1>7, <1>8, <1>9, <1>10

\* A record's stream ends on a value: nothing is numbered.
LEMMA EndStreamKeeps ==
  ASSUME IInv, NEW r \in Records, EndStream(r)
  PROVE  IInv'
<1> USE DEF IInv
<1>1. /\ spc = "live" /\ reading \in {NoRec, r} /\ fan' = fan \ {r}
      /\ cursor' = [cursor EXCEPT ![r] = NextOf(r)]
      /\ skipped' = [skipped EXCEPT ![r] = 0] /\ reading' = NoRec
      /\ UNCHANGED <<kind, written, spc, burst, seq, funnel, wire, held, lastSeq, sink,
                     gone, made, passed, accounted, upTo>>
  BY DEF EndStream, Ready, recVars, clientVars, histVars, madeVars, takenVars
<1>2. NextOf(r) \in Nat
  BY DEF NextOf, Types
<1>3. Types'
  BY <1>1, <1>2 DEF Types
<1>4. Numbered'
  <2>1. \A q \in Records : skipped'[q] = 0
    BY <1>1, SubscriptionAssumption DEF Numbered, Types
  <2>2. \A q \in fan' : q \in fan /\ cursor'[q] = cursor[q] /\ skipped'[q] = skipped[q]
    BY <1>1 DEF Types
  <2> QED BY <1>1, <2>1, <2>2 DEF Numbered
<1>5. Ordered' /\ Chained'
  BY <1>1 DEF Ordered, IsUpdate, Chained
<1>6. BurstFirst' /\ SlotsKept'
  BY <1>1 DEF SlotsKept, BurstFirst, BurstAhead, InBurst
<1> QED BY <1>3, <1>4, <1>5, <1>6

\* One snapshot of the burst: its number is its place.
LEMMA SendSnapshotKeeps ==
  ASSUME IInv, NEW encoded \in BOOLEAN, SendSnapshot(encoded)
  PROVE  IInv'
<1> USE DEF IInv, recVars, clientVars, streamVars, histVars, madeVars, takenVars
<1> DEFINE type == IF Len(burst) = 1 THEN "burstEnd" ELSE "burstBody"
           u == Update(type, Head(burst)[1], Head(burst)[2], seq + 1,
                       Len(made) - Len(burst) + 1)
<1>1. /\ spc = "burst" /\ burst # <<>> /\ seq' = seq + 1 /\ burst' = Tail(burst)
      /\ wire' = IF encoded THEN Append(wire, u) ELSE wire
      /\ UNCHANGED <<written, spc, cursor, skipped, reading, funnel, held, lastSeq, sink,
                     gone, made, passed, kind, fan, accounted, upTo>>
  BY DEF SendSnapshot
<1>2. /\ Tail(burst) \in Seq(Records \X Nat) /\ Len(burst) \in Nat \ {0}
      /\ Len(Tail(burst)) = Len(burst) - 1 /\ Head(burst) \in Records \X Nat
  <2>1. burst \in Seq(Records \X Nat)
    BY DEF Types
  <2> QED BY <1>1, <2>1, HeadAndTail
<1>3. /\ seq + Len(burst) = Len(made) /\ funnel = <<>> /\ reading = NoRec
      /\ seq \in Nat /\ Len(made) \in Nat
  BY <1>1, LenProperties DEF Numbered, Types
<1>4. Len(made) - Len(burst) + 1 = seq + 1 /\ type \in {"event", "burstBody", "burstEnd"}
      /\ seq + 1 \in Nat
  BY <1>2, <1>3
<1>5. Head(burst)[1] \in Records /\ Head(burst)[2] \in Nat
  BY <1>2
<1>6. u \in Updates /\ u.type = type /\ u.seq = seq + 1 /\ u.upTo = seq + 1
  <2>1. PICK n : n = seq + 1
    OBVIOUS
  <2>2. PICK k : k = type
    OBVIOUS
  <2>3. PICK q : q = Head(burst)[1]
    OBVIOUS
  <2>4. PICK v : v = Head(burst)[2]
    OBVIOUS
  <2>5. u = Update(k, q, v, n, n)
    BY <1>4, <2>1, <2>2, <2>3, <2>4
  <2>6. /\ n \in Nat /\ k \in {"event", "burstBody", "burstEnd"}
        /\ q \in Records /\ v \in Nat
    BY <1>4, <1>5, <2>1, <2>2, <2>3, <2>4
  <2> HIDE DEF u
  <2>7. u \in Updates /\ u.type = k /\ u.seq = n /\ u.upTo = n
    BY <2>5, <2>6, UpdateType
  <2> QED BY <2>1, <2>2, <2>7
<1>7. type = "burstEnd" <=> Len(burst) = 1
  OBVIOUS
<1> HIDE DEF u, type
<1>8. /\ wire \in Seq(Updates \cup Errors) /\ Len(wire) \in Nat
      /\ \A i \in 1 .. Len(wire) : wire[i] \in Updates \cup Errors
  BY Elements DEF Types
<1>9. /\ Append(wire, u) \in Seq(Updates \cup Errors)
      /\ Len(Append(wire, u)) = Len(wire) + 1 /\ Append(wire, u)[Len(wire) + 1] = u
      /\ \A i \in 1 .. Len(wire) : Append(wire, u)[i] = wire[i]
  BY <1>6, <1>8, Appended
<1>10. Types'
  BY <1>1, <1>2, <1>4, <1>8, <1>9 DEF Types
<1>11. Numbered'
  <2>1. Len(burst') = Len(burst) - 1 /\ seq' = seq + 1 /\ made' = made
    BY <1>1, <1>2
  <2> HIDE DEF IInv
  <2>2. seq' + Len(burst') = Len(made') /\ seq' <= Len(made')
    <3>1. PICK k \in Nat \ {0} : k = Len(burst)
      BY <1>2
    <3>2. PICK n \in Nat : n = Len(made)
      BY <1>3
    <3>3. seq + k = n /\ seq \in Nat /\ Len(burst') = k - 1 /\ Len(made') = n
      BY <1>3, <2>1, <3>1, <3>2
    <3> QED BY <2>1, <3>3
  <2> QED BY <1>1, <1>3, <2>2 DEF IInv, Numbered
<1>12. Len(funnel) = 0 /\ lastSeq \in Nat
  BY <1>3, NoElements DEF Types
<1>13. \A i \in 1 .. Len(wire) : IsUpdate(wire[i]) =>
         wire[i].seq \in Nat /\ wire[i].seq <= seq
  BY <1>8, FrameType DEF Ordered
<1>14. Ordered'
  <2>1. CASE ~encoded
    BY <1>1, <1>3, <1>12, <1>13, <2>1 DEF Ordered, IsUpdate
  <2>2. CASE encoded
    <3> DEFINE w == Append(wire, u)
    <3>1. wire' = w /\ Len(w) = Len(wire) + 1 /\ w[Len(wire) + 1] = u
          /\ \A i \in 1 .. Len(wire) : w[i] = wire[i]
      BY <1>1, <1>9, <2>2
    <3> HIDE DEF w
    <3>2. \A i \in 1 .. Len(w) : i \in 1 .. Len(wire) \/ i = Len(wire) + 1
      BY <1>8, <3>1
    <3>3. held => lastSeq <= seq /\ lastSeq < seq + 1
      BY <1>3, <1>12 DEF Ordered
    <3>4. \A i \in 1 .. Len(w) : IsUpdate(w[i]) =>
            /\ w[i].seq = w[i].upTo /\ w[i].seq <= seq + 1
            /\ held => lastSeq < w[i].seq
      BY <1>3, <1>6, <1>13, <3>1, <3>2, <3>3, SMTT(30) DEF Ordered, IsUpdate
    <3>5. \A i, j \in 1 .. Len(w) :
            i < j /\ IsUpdate(w[i]) /\ IsUpdate(w[j]) => w[i].seq < w[j].seq
      BY <1>3, <1>6, <1>8, <1>13, <3>1, <3>2, SMTT(30) DEF Ordered, IsUpdate
    <3> QED
      BY <1>1, <1>3, <1>12, <3>1, <3>3, <3>4, <3>5 DEF Ordered, IsUpdate
  <2> QED BY <2>1, <2>2
<1>15. Chained'
  BY <1>1 DEF Chained
<1>16. \A i \in 1 .. Len(wire) : wire[i].type = "burstBody"
  BY <1>1 DEF SlotsKept, BurstFirst
<1>17. Len(burst) # 1 => type = "burstBody"
  BY DEF type
<1>18. Tail(burst) # <<>> => Len(burst) # 1
  BY <1>2
<1>19. held => Len(sink) < SinkCap /\ Len(sink) + 1 < SinkCap
  BY <1>1 DEF SlotsKept, BurstFirst, BurstAhead
<1>20. BurstFirst' /\ SlotsKept'
  <2>1. CASE ~encoded
    BY <1>1, <1>12, <1>16, <1>19, <2>1 DEF SlotsKept, BurstFirst, InBurst
  <2>2. CASE encoded
    <3> DEFINE w == Append(wire, u)
    <3>1. wire' = w /\ Len(w) = Len(wire) + 1 /\ w[Len(wire) + 1] = u
          /\ \A i \in 1 .. Len(wire) : w[i] = wire[i]
      BY <1>1, <1>9, <2>2
    <3> HIDE DEF w
    <3>2. \A i \in 1 .. Len(w) : i \in 1 .. Len(wire) \/ i = Len(wire) + 1
      BY <1>8, <3>1
    <3>3. \A i, j \in 1 .. Len(w) : i < j => w[i].type = "burstBody"
      BY <1>8, <1>16, <3>1, <3>2
    <3>4. Tail(burst) # <<>> => \A i \in 1 .. Len(w) : w[i].type = "burstBody"
      BY <1>6, <1>16, <1>17, <1>18, <3>1, <3>2
    <3> QED
      BY <1>1, <1>12, <1>19, <3>1, <3>3, <3>4 DEF SlotsKept, BurstFirst, InBurst
  <2> QED BY <2>1, <2>2
<1> QED BY <1>10, <1>11, <1>14, <1>15, <1>20

\* What a value adds to the updates made: itself and what a ring lost before it.
LEMMA MadeType ==
  ASSUME Types, Numbered, NEW r \in fan, cursor[r] < written[r]
  PROVE  /\ NextOf(r) \in Nat /\ cursor[r] < NextOf(r) /\ NextOf(r) <= written[r]
         /\ MadeBy(r, NextOf(r)) \in Seq(Records \X Nat)
         /\ Len(MadeBy(r, NextOf(r))) = skipped[r] + 1
         /\ \A i \in 1 .. skipped[r] + 1 :
              MadeBy(r, NextOf(r))[i] = <<r, NextOf(r) - (skipped[r] + 1) + i>>
<1>1. /\ r \in Records /\ cursor[r] \in Nat /\ written[r] \in Nat /\ skipped[r] \in Nat
      /\ passed[r] \in Nat
  BY DEF Types
<1>2. PICK v : v = NextOf(r)
  OBVIOUS
<1>3. v \in Nat /\ cursor[r] < v /\ v <= written[r]
  BY <1>1, <1>2 DEF NextOf
<1>4. PICK before : before = IF kind[r] = "SpmcRing" THEN passed[r] ELSE v - 1
  OBVIOUS
<1>5. before \in Nat /\ v - before = skipped[r] + 1
  BY <1>1, <1>2, <1>3, <1>4, SMTT(30) DEF Numbered, NextOf
<1>6. PICK n \in Nat : n = skipped[r] + 1
  BY <1>1
<1>7. MadeBy(r, v) = [i \in 1 .. n |-> <<r, before + i>>]
  BY <1>4, <1>5, <1>6 DEF MadeBy
<1>8. MadeBy(r, v) \in [1 .. n -> Records \X Nat]
  BY <1>1, <1>5, <1>7
<1>9. MadeBy(r, v) \in Seq(Records \X Nat) /\ Len(MadeBy(r, v)) = n
  BY <1>8, FunctionIsSeq
<1>10. \A i \in 1 .. n : MadeBy(r, v)[i] = <<r, v - n + i>>
  <2> SUFFICES ASSUME NEW i \in 1 .. n
               PROVE  MadeBy(r, v)[i] = <<r, v - n + i>>
    OBVIOUS
  <2>1. before + i = v - n + i
    BY <1>3, <1>5, <1>6
  <2> QED BY <1>7, <2>1
<1> QED BY <1>2, <1>3, <1>6, <1>9, <1>10

\* The next value: it carries the lag before it, so its number is how many updates
\* there are.
LEMMA PumpKeeps ==
  ASSUME IInv, NEW r \in Records, Pump(r)
  PROVE  IInv'
<1> USE DEF IInv
<1> DEFINE u == Update("event", r, NextOf(r), seq + skipped[r] + 1, Len(made'))
<1>1. /\ spc = "live" /\ r \in fan /\ reading \in {NoRec, r} /\ cursor[r] < written[r]
      /\ cursor' = [cursor EXCEPT ![r] = NextOf(r)]
      /\ passed' = [passed EXCEPT ![r] = NextOf(r)]
      /\ made' = made \o MadeBy(r, NextOf(r))
      /\ seq' = seq + skipped[r] + 1
      /\ funnel' = IF Len(funnel) < FunnelCap THEN Append(funnel, u) ELSE funnel
      /\ skipped' = [skipped EXCEPT ![r] = 0]
      /\ reading' = NoRec
      /\ UNCHANGED <<kind, written, spc, fan, burst, wire, held, lastSeq, sink, gone,
                     accounted, upTo>>
  BY DEF Pump, Ready, Offered, recVars, clientVars, takenVars
<1>2. /\ cursor[r] \in Nat /\ skipped[r] \in Nat /\ seq \in Nat
      /\ lastSeq \in Nat /\ made \in Seq(Records \X Nat) /\ Len(made) \in Nat
  BY LenProperties DEF Types
<1>3. /\ NextOf(r) \in Nat /\ made' \in Seq(Records \X Nat)
      /\ Len(made') = Len(made) + skipped[r] + 1
  <2>1. PICK more : more = MadeBy(r, NextOf(r))
    OBVIOUS
  <2>2. NextOf(r) \in Nat /\ more \in Seq(Records \X Nat) /\ Len(more) = skipped[r] + 1
    BY <1>1, <2>1, MadeType
  <2>3. made \o more \in Seq(Records \X Nat) /\ Len(made \o more) = Len(made) + Len(more)
    BY <1>2, <2>2, ConcatProperties
  <2> QED BY <1>1, <1>2, <2>1, <2>2, <2>3
<1>4. seq + skipped[r] + 1 = Len(made') /\ seq' = Len(made') /\ seq < seq' /\ seq' \in Nat
  BY <1>1, <1>2, <1>3, SMTT(30) DEF Numbered
<1>5. u \in Updates /\ u.type = "event" /\ u.seq = seq' /\ u.upTo = seq'
  BY <1>3, <1>4, UpdateType
<1> HIDE DEF u
<1>6. funnel \in Seq(Updates) /\ Len(funnel) \in Nat
      /\ \A i \in 1 .. Len(funnel) : funnel[i] \in Updates
  BY Elements DEF Types
<1>7. \A i \in 1 .. Len(wire) : wire[i] \in Updates \cup Errors
  BY Elements DEF Types
<1>8. /\ Append(funnel, u) \in Seq(Updates)
      /\ Len(Append(funnel, u)) = Len(funnel) + 1 /\ Append(funnel, u)[Len(funnel) + 1] = u
      /\ \A i \in 1 .. Len(funnel) : Append(funnel, u)[i] = funnel[i]
  BY <1>5, <1>6, Appended
<1>9. Types'
  <2>1. /\ skipped' \in [Records -> Nat] /\ cursor' \in [Records -> Nat]
        /\ passed' \in [Records -> Nat]
    BY <1>1, <1>2, <1>3 DEF Types
  <2>2. seq' \in Nat
    BY <1>4
  <2>3. funnel' \in Seq(Updates)
    BY <1>1, <1>6, <1>8
  <2> QED BY <1>1, <1>3, <2>1, <2>2, <2>3 DEF Types
<1>10. Numbered'
  <2>1. \A q \in Records : skipped'[q] = 0
    BY <1>1, SubscriptionAssumption DEF Numbered, Types
  <2>2. ASSUME NEW q \in fan
        PROVE  IF kind[q] = "SpmcRing" THEN cursor'[q] = passed'[q] + skipped'[q]
               ELSE skipped'[q] = 0
    <3>1. CASE q = r
      BY <1>1, <1>3, <2>1, <3>1 DEF Types
    <3>2. CASE q # r
      BY <1>1, <3>2 DEF Numbered, Types
    <3> QED BY <3>1, <3>2
  <2>3. seq' <= Len(made')
    BY <1>4
  <2> QED BY <1>1, <1>4, <2>1, <2>2, <2>3 DEF Numbered
<1>11. \A i \in 1 .. Len(funnel) : funnel[i].seq \in Nat /\ funnel[i].seq <= seq
  BY <1>6 DEF Ordered, Updates
<1>12. \A i \in 1 .. Len(wire) : IsUpdate(wire[i]) =>
         wire[i].seq \in Nat /\ wire[i].seq <= seq
  BY <1>7, FrameType DEF Ordered
<1>13. held => lastSeq < seq' /\ lastSeq <= seq'
  <2>1. seq' \in Nat /\ (held => lastSeq <= seq)
    BY <1>9 DEF Ordered, Types
  <2> QED BY <1>2, <1>4, <2>1
<1>14. PICK f : f = funnel'
  OBVIOUS
<1>15. /\ Len(f) \in Nat
       /\ \A i \in 1 .. Len(f) :
            \/ i \in 1 .. Len(funnel) /\ f[i] = funnel[i]
            \/ i = Len(funnel) + 1 /\ f[i] = u
  <2>1. CASE Len(funnel) < FunnelCap
    BY <1>1, <1>6, <1>8, <1>14, <2>1
  <2>2. CASE ~(Len(funnel) < FunnelCap)
    BY <1>1, <1>6, <1>14, <2>2
  <2> QED BY <2>1, <2>2
<1>16. Ordered'
  <2>1. PICK n \in Nat : n = seq' /\ seq < n /\ seq \in Nat /\ lastSeq \in Nat
    BY <1>2, <1>4
  <2>2. \A i \in 1 .. Len(f) :
          /\ f[i].seq = f[i].upTo /\ f[i].seq <= n
          /\ held => lastSeq < f[i].seq
    <3> SUFFICES ASSUME NEW i \in 1 .. Len(f)
                 PROVE  /\ f[i].seq = f[i].upTo /\ f[i].seq <= n
                        /\ held => lastSeq < f[i].seq
      OBVIOUS
    <3>1. CASE i \in 1 .. Len(funnel) /\ f[i] = funnel[i]
      <4>1. funnel[i].seq \in Nat /\ funnel[i].seq <= seq
        BY <1>11, <3>1
      <4> QED BY <2>1, <3>1, <4>1 DEF Ordered
    <3>2. CASE f[i] = u
      <4>1. f[i].seq = n /\ f[i].upTo = n
        BY <1>5, <2>1, <3>2
      <4> QED BY <1>13, <2>1, <4>1
    <3> QED BY <1>15, <3>1, <3>2
  <2>3. \A i, j \in 1 .. Len(f) : i < j => f[i].seq < f[j].seq
    <3> SUFFICES ASSUME NEW i \in 1 .. Len(f), NEW j \in 1 .. Len(f), i < j
                 PROVE  f[i].seq < f[j].seq
      OBVIOUS
    <3>1. i \in 1 .. Len(funnel) /\ f[i] = funnel[i]
      BY <1>6, <1>15
    <3>2. CASE j \in 1 .. Len(funnel) /\ f[j] = funnel[j]
      BY <3>1, <3>2 DEF Ordered
    <3>3. CASE j = Len(funnel) + 1 /\ f[j] = u
      <4>1. funnel[i].seq \in Nat /\ funnel[i].seq <= seq
        BY <1>11, <3>1
      <4> QED BY <1>5, <2>1, <3>1, <3>3, <4>1
    <3> QED BY <1>15, <3>2, <3>3
  <2>4. \A i \in 1 .. Len(wire), j \in 1 .. Len(f) :
          IsUpdate(wire[i]) => wire[i].seq < f[j].seq
    <3> SUFFICES ASSUME NEW i \in 1 .. Len(wire), NEW j \in 1 .. Len(f),
                        IsUpdate(wire[i])
                 PROVE  wire[i].seq < f[j].seq
      OBVIOUS
    <3>1. CASE j \in 1 .. Len(funnel) /\ f[j] = funnel[j]
      BY <3>1 DEF Ordered
    <3>2. CASE f[j] = u
      <4>1. wire[i].seq \in Nat /\ wire[i].seq <= seq
        BY <1>12
      <4> QED BY <1>5, <2>1, <3>2, <4>1
    <3> QED BY <1>15, <3>1, <3>2
  <2>5. \A i \in 1 .. Len(wire) : IsUpdate(wire[i]) =>
          /\ wire[i].seq = wire[i].upTo /\ wire[i].seq <= n
          /\ held => lastSeq < wire[i].seq
    BY <1>12, <2>1 DEF Ordered
  <2> QED
    BY <1>1, <1>13, <1>14, <2>1, <2>2, <2>3, <2>4, <2>5, SMTT(30) DEF Ordered, IsUpdate
<1>17. Chained'
  BY <1>1 DEF Chained
<1>18. BurstFirst' /\ SlotsKept'
  BY <1>1, <1>5, <1>14, <1>15 DEF SlotsKept, BurstFirst, BurstAhead, InBurst
<1> QED BY <1>9, <1>10, <1>16, <1>17, <1>18

\* The funnel's head goes on the wire, or does not encode.
LEMMA ForwardKeeps ==
  ASSUME IInv, NEW encoded \in BOOLEAN, Forward(encoded)
  PROVE  IInv'
<1> USE DEF IInv, recVars, clientVars, streamVars, histVars, madeVars, takenVars
<1>1. PICK h : h = Head(funnel)
  OBVIOUS
<1>2. PICK f : f = Tail(funnel)
  OBVIOUS
<1>3. /\ spc \in {"live", "ending"} /\ funnel # <<>> /\ funnel' = f
      /\ wire' = IF encoded THEN Append(wire, h) ELSE wire
      /\ UNCHANGED <<written, spc, cursor, skipped, reading, burst, seq, held, lastSeq,
                     sink, gone, made, passed, kind, fan, accounted, upTo>>
  BY <1>1, <1>2 DEF Forward
<1>4. /\ f \in Seq(Updates) /\ Len(funnel) \in Nat \ {0} /\ Len(f) = Len(funnel) - 1
      /\ h = funnel[1] /\ h \in Updates
      /\ \A i \in 1 .. Len(f) : f[i] = funnel[i + 1]
  <2>1. funnel \in Seq(Updates)
    BY DEF Types
  <2> QED BY <1>1, <1>2, <1>3, <2>1, HeadAndTail
<1>5. /\ wire \in Seq(Updates \cup Errors) /\ Len(wire) \in Nat
  BY Elements DEF Types
<1>6. /\ Append(wire, h) \in Seq(Updates \cup Errors)
      /\ Len(Append(wire, h)) = Len(wire) + 1 /\ Append(wire, h)[Len(wire) + 1] = h
      /\ \A i \in 1 .. Len(wire) : Append(wire, h)[i] = wire[i]
  BY <1>4, <1>5, Appended
<1>7. PICK w : w = wire'
  OBVIOUS
<1>8. /\ w \in Seq(Updates \cup Errors) /\ Len(w) \in Nat
      /\ \A i \in 1 .. Len(w) :
            \/ i \in 1 .. Len(wire) /\ w[i] = wire[i]
            \/ i = Len(wire) + 1 /\ w[i] = h
  <2>1. CASE encoded
    BY <1>3, <1>5, <1>6, <1>7, <2>1
  <2>2. CASE ~encoded
    BY <1>3, <1>5, <1>7, <2>2
  <2> QED BY <2>1, <2>2
<1>9. Types'
  BY <1>3, <1>4, <1>7, <1>8 DEF Types
<1>10. Numbered'
  BY <1>3 DEF Numbered
<1>11. \A i \in 1 .. Len(f) : i + 1 \in 1 .. Len(funnel) /\ 1 < i + 1
  BY <1>4
<1>12. 1 \in 1 .. Len(funnel) /\ h.type = "event" /\ h.seq = h.upTo /\ h.seq <= seq
       /\ (held => lastSeq < h.seq)
  BY <1>4 DEF Ordered, BurstFirst
<1>13. Ordered'
  <2>1. \A i \in 1 .. Len(w) : IsUpdate(w[i]) =>
          /\ w[i].seq = w[i].upTo /\ w[i].seq <= seq
          /\ held => lastSeq < w[i].seq
    BY <1>8, <1>12 DEF Ordered
  <2>2. \A i \in 1 .. Len(f) :
          /\ f[i].seq = f[i].upTo /\ f[i].seq <= seq
          /\ held => lastSeq < f[i].seq
    BY <1>4, <1>11 DEF Ordered
  <2>3. \A i, j \in 1 .. Len(f) : i < j => f[i].seq < f[j].seq
    <3> SUFFICES ASSUME NEW i \in 1 .. Len(f), NEW j \in 1 .. Len(f), i < j
                 PROVE  f[i].seq < f[j].seq
      OBVIOUS
    <3>1. i + 1 < j + 1
      BY <1>4
    <3> QED BY <1>4, <1>11, <3>1 DEF Ordered
  <2>4. \A j \in 1 .. Len(f) : h.seq < f[j].seq
    BY <1>4, <1>11, <1>12 DEF Ordered
  <2>5. \A i \in 1 .. Len(w), j \in 1 .. Len(f) :
          IsUpdate(w[i]) => w[i].seq < f[j].seq
    BY <1>4, <1>8, <1>11, <2>4 DEF Ordered
  <2>6. \A i, j \in 1 .. Len(w) :
          i < j /\ IsUpdate(w[i]) /\ IsUpdate(w[j]) => w[i].seq < w[j].seq
    <3> SUFFICES ASSUME NEW i \in 1 .. Len(w), NEW j \in 1 .. Len(w), i < j,
                        IsUpdate(w[i]), IsUpdate(w[j])
                 PROVE  w[i].seq < w[j].seq
      OBVIOUS
    <3>1. i \in 1 .. Len(wire) /\ w[i] = wire[i]
      BY <1>5, <1>8
    <3>2. CASE j \in 1 .. Len(wire) /\ w[j] = wire[j]
      BY <3>1, <3>2 DEF Ordered
    <3>3. CASE j = Len(wire) + 1 /\ w[j] = h
      BY <1>4, <1>12, <3>1, <3>3 DEF Ordered
    <3> QED BY <1>8, <3>2, <3>3
  <2> QED
    BY <1>3, <1>7, <2>1, <2>2, <2>3, <2>5, <2>6 DEF Ordered, IsUpdate
<1>14. Chained'
  BY <1>3 DEF Chained
<1>15. \A i \in 1 .. Len(w) : InBurst(w[i]) => i \in 1 .. Len(wire) /\ w[i] = wire[i]
  BY <1>8, <1>12 DEF InBurst
<1>16. BurstFirst'
  <2>1. \A i \in 1 .. Len(f) : f[i].type = "event"
    BY <1>4, <1>11 DEF BurstFirst
  <2>2. \A i, j \in 1 .. Len(w) : i < j /\ InBurst(w[j]) => w[i].type = "burstBody"
    <3> SUFFICES ASSUME NEW i \in 1 .. Len(w), NEW j \in 1 .. Len(w), i < j,
                        InBurst(w[j])
                 PROVE  w[i].type = "burstBody"
      OBVIOUS
    <3>1. j \in 1 .. Len(wire) /\ w[j] = wire[j]
      BY <1>15
    <3>2. i \in 1 .. Len(wire) /\ w[i] = wire[i]
      BY <1>5, <1>8, <3>1
    <3> QED BY <3>1, <3>2 DEF BurstFirst
  <2> QED BY <1>3, <1>7, <2>1, <2>2 DEF BurstFirst, InBurst
<1>17. BurstAhead' => BurstAhead
  BY <1>3, <1>7, <1>15 DEF BurstAhead, InBurst
<1>18. SlotsKept'
  BY <1>3, <1>17 DEF SlotsKept
<1> QED BY <1>9, <1>10, <1>13, <1>14, <1>16, <1>18

\* The last frame is the error.
LEMMA ReportEndKeeps ==
  ASSUME IInv, ReportEnd
  PROVE  IInv'
<1> USE DEF IInv, recVars, clientVars, streamVars, histVars, madeVars, takenVars
<1>1. PICK h : h = [type |-> "error"]
  OBVIOUS
<1>2. h \in Updates \cup Errors /\ h.type = "error"
  BY <1>1 DEF Errors
<1>3. /\ spc = "ending" /\ spc' = "over" /\ wire' = Append(wire, h)
      /\ UNCHANGED <<written, cursor, skipped, reading, burst, seq, funnel, held,
                     lastSeq, sink, gone, made, passed, kind, fan, accounted, upTo>>
  BY <1>1 DEF ReportEnd
<1>4. wire \in Seq(Updates \cup Errors) /\ Len(wire) \in Nat
  BY Elements DEF Types
<1>5. PICK w : w = wire'
  OBVIOUS
<1>6. /\ w \in Seq(Updates \cup Errors) /\ Len(w) = Len(wire) + 1
      /\ w[Len(wire) + 1] = h
      /\ \A i \in 1 .. Len(wire) : w[i] = wire[i]
  BY <1>2, <1>3, <1>4, <1>5, Appended
<1>7. Types'
  BY <1>3, <1>5, <1>6 DEF Types
<1>8. Numbered'
  BY <1>3 DEF Numbered
<1>9. \A i \in 1 .. Len(w) :
        IsUpdate(w[i]) \/ InBurst(w[i]) => i \in 1 .. Len(wire) /\ w[i] = wire[i]
  BY <1>2, <1>4, <1>6 DEF IsUpdate, InBurst
<1>10. Ordered'
  BY <1>3, <1>5, <1>9 DEF Ordered, IsUpdate
<1>11. Chained'
  BY <1>3 DEF Chained
<1>12. \A i, j \in 1 .. Len(w) : i < j /\ InBurst(w[j]) => w[i].type = "burstBody"
  <2> SUFFICES ASSUME NEW i \in 1 .. Len(w), NEW j \in 1 .. Len(w), i < j,
                      InBurst(w[j])
               PROVE  w[i].type = "burstBody"
    OBVIOUS
  <2>1. j \in 1 .. Len(wire) /\ w[j] = wire[j]
    BY <1>9
  <2>2. i \in 1 .. Len(wire) /\ w[i] = wire[i]
    BY <1>4, <1>6, <2>1
  <2> QED BY <2>1, <2>2 DEF BurstFirst
<1>13. BurstFirst'
  BY <1>3, <1>5, <1>12 DEF BurstFirst, InBurst
<1>14. SlotsKept'
  BY <1>3, <1>5, <1>9 DEF SlotsKept, BurstAhead, InBurst
<1> QED BY <1>7, <1>8, <1>10, <1>11, <1>13, <1>14

\* The wire's head is taken: what is behind it keeps its order, if the engine's
\* cursor stays where it was or moves to the frame taken.
LEMMA WireShorter ==
  ASSUME IInv, wire # <<>>, wire' = Tail(wire),
         UNCHANGED <<spc, skipped, reading, burst, seq, funnel, made, passed,
                      kind, fan, cursor>>,
         held' => held,
         held' => \/ lastSeq' = lastSeq
                  \/ IsUpdate(wire[1]) /\ lastSeq' = wire[1].seq
  PROVE  /\ Numbered' /\ Ordered' /\ BurstFirst' /\ (BurstAhead' => BurstAhead)
         /\ wire' \in Seq(Updates \cup Errors)
         /\ wire[1] \in Updates \cup Errors
         /\ BurstAhead' => wire[1].type = "burstBody"
<1> USE DEF IInv
<1>1. PICK w : w = wire'
  OBVIOUS
<1>2. /\ w \in Seq(Updates \cup Errors) /\ Len(wire) \in Nat \ {0}
      /\ Len(w) = Len(wire) - 1 /\ wire[1] \in Updates \cup Errors
      /\ \A i \in 1 .. Len(w) : w[i] = wire[i + 1]
  <2>1. wire \in Seq(Updates \cup Errors)
    BY DEF Types
  <2> QED BY <1>1, <2>1, HeadAndTail
<1>3. spc \notin {"open", "snapshots"}
  BY DEF Numbered
<1>4. \A i \in 1 .. Len(w) : i + 1 \in 1 .. Len(wire) /\ 1 < i + 1
  BY <1>2
<1>5. 1 \in 1 .. Len(wire)
  BY <1>2
<1>6. Numbered'
  BY <1>3 DEF Numbered
<1>7. Ordered'
  <2>1. held' => lastSeq' <= seq
    BY <1>5 DEF Ordered
  <2>2. \A i \in 1 .. Len(w) : IsUpdate(w[i]) =>
          /\ w[i].seq = w[i].upTo /\ w[i].seq <= seq
          /\ held' => lastSeq' < w[i].seq
    BY <1>2, <1>4, <1>5 DEF Ordered
  <2>3. \A j \in 1 .. Len(funnel) : held' => lastSeq' < funnel[j].seq
    BY <1>5 DEF Ordered
  <2>4. \A i, j \in 1 .. Len(w) :
          i < j /\ IsUpdate(w[i]) /\ IsUpdate(w[j]) => w[i].seq < w[j].seq
    <3> SUFFICES ASSUME NEW i \in 1 .. Len(w), NEW j \in 1 .. Len(w), i < j,
                        IsUpdate(w[i]), IsUpdate(w[j])
                 PROVE  w[i].seq < w[j].seq
      OBVIOUS
    <3>1. i + 1 < j + 1
      BY <1>2
    <3> QED BY <1>2, <1>4, <3>1 DEF Ordered
  <2>5. \A i \in 1 .. Len(w), j \in 1 .. Len(funnel) :
          IsUpdate(w[i]) => w[i].seq < funnel[j].seq
    BY <1>2, <1>4 DEF Ordered
  <2> QED
    BY <1>1, <2>1, <2>2, <2>3, <2>4, <2>5, SMTT(30) DEF Ordered, IsUpdate
<1>8. BurstFirst'
  <2>1. \A i, j \in 1 .. Len(w) : i < j /\ InBurst(w[j]) => w[i].type = "burstBody"
    <3> SUFFICES ASSUME NEW i \in 1 .. Len(w), NEW j \in 1 .. Len(w), i < j,
                        InBurst(w[j])
                 PROVE  w[i].type = "burstBody"
      OBVIOUS
    <3>1. i + 1 < j + 1
      BY <1>2
    <3> QED BY <1>2, <1>4, <3>1 DEF BurstFirst
  <2>2. spc = "burst" /\ burst # <<>> => \A i \in 1 .. Len(w) : w[i].type = "burstBody"
    BY <1>2, <1>4 DEF BurstFirst
  <2> QED BY <1>1, <2>1, <2>2 DEF BurstFirst, InBurst
<1>9. ASSUME BurstAhead'
      PROVE  BurstAhead /\ wire[1].type = "burstBody"
  <2>1. CASE spc = "burst" /\ burst # <<>>
    BY <1>5, <2>1 DEF BurstAhead, BurstFirst
  <2>2. CASE \E i \in 1 .. Len(w) : InBurst(w[i])
    <3>1. PICK i \in 1 .. Len(w) : InBurst(w[i])
      BY <2>2
    <3>2. i + 1 \in 1 .. Len(wire) /\ 1 < i + 1 /\ InBurst(wire[i + 1])
      BY <1>2, <1>4, <3>1
    <3> QED BY <1>5, <3>2 DEF BurstAhead, BurstFirst
  <2> QED BY <1>1, <1>3, <1>9, <2>1, <2>2 DEF BurstAhead, InBurst
<1> QED BY <1>1, <1>2, <1>6, <1>7, <1>8, <1>9

rest == <<kind, written, spc, fan, cursor, skipped, reading, burst, seq, funnel, gone,
          made, passed, accounted, upTo>>

\* The subscription ends at the client: nothing follows the error.
LEMMA EndSubKeeps ==
  ASSUME IInv, wire # <<>>, wire' = Tail(wire), EndSub, UNCHANGED rest
  PROVE  IInv'
<1> USE DEF IInv, rest
<1>1. PICK e : e = [type |-> "error"]
  OBVIOUS
<1>2. e \in Items /\ e.type = "error"
  BY <1>1 DEF Items
<1>3. held' = FALSE /\ lastSeq' = 0
      /\ sink' = IF held /\ ~gone /\ Len(sink) < SinkCap THEN Append(sink, e) ELSE sink
  BY <1>1 DEF EndSub
<1>4. /\ Numbered' /\ Ordered' /\ BurstFirst'
      /\ wire' \in Seq(Updates \cup Errors)
  BY <1>3, WireShorter
<1>5. sink \in Seq(Items) /\ Len(sink) \in Nat
  BY Elements DEF Types
<1>6. /\ Append(sink, e) \in Seq(Items) /\ Len(Append(sink, e)) = Len(sink) + 1
      /\ Append(sink, e)[Len(sink) + 1] = e
      /\ \A i \in 1 .. Len(sink) : Append(sink, e)[i] = sink[i]
  BY <1>2, <1>5, Appended
<1>7. Types'
  <2>1. sink' \in Seq(Items)
    BY <1>3, <1>5, <1>6
  <2>2. held' \in BOOLEAN
    BY <1>3
  <2> QED BY <1>3, <1>4, <2>1, <2>2 DEF Types
<1>8. Chained'
  <2>1. CASE held /\ ~gone /\ Len(sink) < SinkCap
    <3>1. PICK s : s = Append(sink, e)
      OBVIOUS
    <3>2. sink' = s /\ Len(s) = Len(sink) + 1 /\ s[Len(s)] = e
          /\ \A i \in 1 .. Len(sink) : s[i] = sink[i]
      BY <1>3, <1>6, <2>1, <3>1
    <3>3. \A i \in 1 .. Len(sink) :
            /\ sink[i].type # "error"
            /\ sink[i].upTo =
                 (IF i = 1 THEN accounted ELSE sink[i - 1].upTo) + 1 + sink[i].skipped
      BY <2>1 DEF Chained
    <3>4. \A i \in 1 .. Len(s) :
            IF s[i].type = "error" THEN i = Len(s)
            ELSE s[i].upTo =
                   (IF i = 1 THEN accounted ELSE s[i - 1].upTo) + 1 + s[i].skipped
      <4> SUFFICES ASSUME NEW i \in 1 .. Len(s)
                   PROVE  IF s[i].type = "error" THEN i = Len(s)
                          ELSE s[i].upTo =
                            (IF i = 1 THEN accounted ELSE s[i - 1].upTo) + 1 + s[i].skipped
        OBVIOUS
      <4>1. CASE i = Len(s)
        BY <1>2, <3>2, <4>1
      <4>2. CASE i # Len(s)
        <5>1. i \in 1 .. Len(sink) /\ (i # 1 => i - 1 \in 1 .. Len(sink))
          BY <1>5, <3>2, <4>2
        <5> QED BY <3>2, <3>3, <5>1
      <4> QED BY <4>1, <4>2
    <3> QED BY <1>3, <3>2, <3>4 DEF Chained
  <2>2. CASE ~(held /\ ~gone /\ Len(sink) < SinkCap)
    BY <1>3, <2>2 DEF Chained
  <2> QED BY <2>1, <2>2
<1>9. SlotsKept'
  BY <1>3 DEF SlotsKept
<1> QED BY <1>4, <1>7, <1>8, <1>9

\* An update is delivered, dropped, or finds that nobody takes it any more.
LEMMA DeliverKeeps ==
  ASSUME IInv, wire # <<>>, wire' = Tail(wire), IsUpdate(wire[1]), Deliver(wire[1]),
         UNCHANGED rest
  PROVE  IInv'
<1> USE DEF IInv, rest
<1>1. PICK u : u = wire[1]
  OBVIOUS
<1>2. u \in Updates \cup Errors /\ 1 \in 1 .. Len(wire)
  <2>1. wire \in Seq(Updates \cup Errors)
    BY DEF Types
  <2> QED BY <1>1, <2>1, HeadAndTail
<1>3. /\ u.seq \in Nat /\ u.upTo \in Nat /\ u.val \in Nat /\ u.rec \in Records
      /\ u.type \in {"event", "burstBody", "burstEnd"}
      /\ u.seq = u.upTo /\ u.seq <= seq /\ (held => lastSeq < u.seq)
  BY <1>1, <1>2, FrameType DEF Ordered
<1>4. lastSeq \in Nat /\ sink \in Seq(Items) /\ Len(sink) \in Nat
  BY Elements DEF Types
<1>5. Reserved(u.type) \in {1, 2} /\ (u.type = "burstBody" => Reserved(u.type) = 2)
  BY DEF Reserved
<1>6. CASE ~held
  <2>1. UNCHANGED <<held, lastSeq, sink>>
    BY <1>6 DEF Deliver
  <2>2. Numbered' /\ Ordered' /\ BurstFirst' /\ wire' \in Seq(Updates \cup Errors)
    BY <2>1, WireShorter
  <2>3. Types'
    BY <2>1, <2>2 DEF Types
  <2>4. Chained' /\ SlotsKept'
    BY <1>6, <2>1 DEF Chained, SlotsKept
  <2> QED BY <2>2, <2>3, <2>4
<1>7. CASE held /\ ~(Len(sink) + Reserved(u.type) < SinkCap)
  <2>1. UNCHANGED <<held, lastSeq, sink>>
    BY <1>1, <1>7 DEF Deliver, CursorAfter, Types
  <2>2. /\ Numbered' /\ Ordered' /\ BurstFirst' /\ wire' \in Seq(Updates \cup Errors)
        /\ BurstAhead' => BurstAhead
    BY <2>1, WireShorter
  <2>3. Types'
    BY <2>1, <2>2 DEF Types
  <2>4. Chained' /\ SlotsKept'
    BY <1>7, <2>1, <2>2 DEF Chained, SlotsKept
  <2> QED BY <2>2, <2>3, <2>4
<1>8. CASE held /\ Len(sink) + Reserved(u.type) < SinkCap /\ gone
  <2>1. held' = FALSE /\ lastSeq' = 0 /\ sink' = sink
    BY <1>1, <1>8 DEF Deliver
  <2>2. Numbered' /\ Ordered' /\ BurstFirst' /\ wire' \in Seq(Updates \cup Errors)
    BY <2>1, WireShorter
  <2>3. Types'
    BY <2>1, <2>2 DEF Types
  <2>4. Chained' /\ SlotsKept'
    BY <1>8, <2>1 DEF Chained, SlotsKept
  <2> QED BY <2>2, <2>3, <2>4
<1>9. CASE held /\ Len(sink) + Reserved(u.type) < SinkCap /\ ~gone
  <2>1. PICK x : x = [type |-> u.type, rec |-> u.rec, val |-> u.val,
                      skipped |-> Skipped(u), upTo |-> u.upTo]
    OBVIOUS
  <2>2. Skipped(u) \in Nat /\ u.seq = lastSeq + 1 + Skipped(u)
    BY <1>3, <1>4, <1>9 DEF Skipped
  <2>3. x \in Items /\ x.type # "error" /\ x.upTo = u.seq /\ x.skipped = Skipped(u)
    BY <1>3, <2>1, <2>2 DEF Items
  <2>4. held' = TRUE /\ sink' = Append(sink, x) /\ lastSeq' = u.seq
    <3>1. u.seq > lastSeq
      BY <1>3, <1>4, <1>9
    <3>2. held' /\ sink' = Append(sink, x) /\ lastSeq' = u.seq
      BY <1>1, <1>9, <2>1, <3>1 DEF Deliver, CursorAfter
    <3>3. held' = ~((Len(sink) + Reserved(u.type) < SinkCap) /\ gone)
      BY <1>1, <1>9 DEF Deliver
    <3> QED BY <1>9, <3>2, <3>3
  <2>5. /\ Numbered' /\ Ordered' /\ BurstFirst' /\ wire' \in Seq(Updates \cup Errors)
        /\ BurstAhead' => wire[1].type = "burstBody"
    BY <1>1, <1>9, <2>4, WireShorter
  <2>6. PICK s : s = Append(sink, x)
    OBVIOUS
  <2>7. /\ sink' = s /\ s \in Seq(Items) /\ Len(s) = Len(sink) + 1 /\ s[Len(s)] = x
        /\ \A i \in 1 .. Len(sink) : s[i] = sink[i]
    BY <1>4, <2>3, <2>4, <2>6, Appended
  <2>8. Types'
    BY <1>3, <2>4, <2>5, <2>7 DEF Types
  <2>9. Chained'
    <3>1. \A i \in 1 .. Len(sink) :
            /\ sink[i].type # "error"
            /\ sink[i].upTo =
                 (IF i = 1 THEN accounted ELSE sink[i - 1].upTo) + 1 + sink[i].skipped
      BY <1>9 DEF Chained
    <3>2. lastSeq = IF sink = <<>> THEN accounted ELSE sink[Len(sink)].upTo
      BY <1>9 DEF Chained
    <3>3. sink = <<>> <=> Len(sink) = 0
      BY <1>4, EmptySeq
    <3>4. \A i \in 1 .. Len(s) :
            /\ s[i].type # "error"
            /\ s[i].upTo = (IF i = 1 THEN accounted ELSE s[i - 1].upTo) + 1 + s[i].skipped
      <4> SUFFICES ASSUME NEW i \in 1 .. Len(s)
                   PROVE  /\ s[i].type # "error"
                          /\ s[i].upTo =
                            (IF i = 1 THEN accounted ELSE s[i - 1].upTo) + 1 + s[i].skipped
        OBVIOUS
      <4>1. CASE i = Len(s) /\ i = 1
        BY <1>4, <2>2, <2>3, <2>7, <3>2, <3>3, <4>1
      <4>2. CASE i = Len(s) /\ i # 1
        <5>1. i - 1 = Len(sink) /\ Len(sink) \in 1 .. Len(sink) /\ sink # <<>>
          BY <1>4, <2>7, <3>3, <4>2
        <5>2. s[i - 1].upTo = lastSeq
          BY <2>7, <3>2, <5>1
        <5> QED BY <2>2, <2>3, <2>7, <4>2, <5>2
      <4>3. CASE i # Len(s)
        <5>1. i \in 1 .. Len(sink) /\ (i # 1 => i - 1 \in 1 .. Len(sink))
          BY <1>4, <2>7, <4>3
        <5> QED BY <2>7, <3>1, <5>1
      <4> QED BY <4>1, <4>2, <4>3
    <3>5. s # <<>> /\ lastSeq' = s[Len(s)].upTo
      BY <1>4, <2>3, <2>4, <2>7, EmptySeq
    <3> QED BY <2>4, <2>7, <3>4, <3>5 DEF Chained
  <2>10. SlotsKept'
    <3>1. SinkCap \in Nat
      BY SubscriptionAssumption
    <3>2. Len(s) < SinkCap
      BY <1>4, <1>5, <1>9, <2>7, <3>1
    <3>3. BurstAhead' => Len(s) + 1 < SinkCap
      BY <1>1, <1>4, <1>5, <1>9, <2>5, <2>7, <3>1
    <3> QED BY <2>7, <3>2, <3>3 DEF SlotsKept
  <2> QED BY <2>5, <2>8, <2>9, <2>10
<1> QED BY <1>6, <1>7, <1>8, <1>9

LEMMA RecvKeeps ==
  ASSUME IInv, Recv \/ RecvStampless
  PROVE  IInv'
<1>1. /\ wire # <<>> /\ wire' = Tail(wire) /\ UNCHANGED rest
      /\ EndSub \/ (Head(wire).type # "error" /\ Deliver(Head(wire)))
  BY DEF Recv, RecvStampless, rest, recVars, streamVars, histVars, madeVars, takenVars
<1>2. Head(wire) = wire[1]
  <2>1. wire \in Seq(Updates \cup Errors)
    BY DEF IInv, Types
  <2> QED BY <1>1, <2>1, HeadAndTail
<1>3. CASE EndSub
  BY <1>1, <1>3, EndSubKeeps
<1>4. CASE Head(wire).type # "error" /\ Deliver(Head(wire))
  BY <1>1, <1>2, <1>4, DeliverKeeps DEF IsUpdate
<1> QED BY <1>1, <1>3, <1>4

\* The connection takes everything in flight with it, but not the sink's items.
LEMMA DisconnectKeeps ==
  ASSUME IInv, Disconnect
  PROVE  IInv'
<1> USE DEF IInv
<1>1. /\ spc' = "lost" /\ funnel' = <<>> /\ wire' = <<>> /\ burst' = <<>>
      /\ held' = FALSE /\ lastSeq' = 0
      /\ UNCHANGED <<kind, fan, written, cursor, skipped, reading, seq, sink, gone, made, passed,
                     accounted, upTo>>
  BY DEF Disconnect, recVars, streamVars, histVars, madeVars, takenVars
<1>2. Types'
  BY <1>1, NoElements DEF Types
<1>3. Len(wire') = 0 /\ Len(funnel') = 0
  BY <1>1, NoElements
<1>4. Numbered'
  BY <1>1 DEF Numbered
<1>5. Ordered'
  BY <1>1, <1>3 DEF Ordered
<1>6. Chained'
  BY <1>1 DEF Chained
<1>7. BurstFirst' /\ SlotsKept'
  BY <1>1, <1>3 DEF BurstFirst, SlotsKept
<1> QED BY <1>2, <1>4, <1>5, <1>6, <1>7

\* The subscriber takes an item: it has accounted for as much as the item says.
LEMMA TakeKeeps ==
  ASSUME IInv, Take
  PROVE  IInv'
<1> USE DEF IInv
<1>1. PICK x : x = sink[1]
  OBVIOUS
<1>2. PICK t : t = Tail(sink)
  OBVIOUS
<1>3. /\ sink # <<>> /\ sink \in Seq(Items) /\ sink' = t
      /\ UNCHANGED <<spc, written, cursor, skipped, reading, burst, seq, funnel, wire,
                     held, lastSeq, gone, made, passed, kind, fan>>
  BY <1>2 DEF Take, Types, recVars, serverVars, streamVars, madeVars
<1>4. /\ t \in Seq(Items) /\ Len(sink) \in Nat \ {0} /\ Len(t) = Len(sink) - 1
      /\ Head(sink) = x /\ x \in Items
      /\ \A i \in 1 .. Len(t) : t[i] = sink[i + 1]
  BY <1>1, <1>2, <1>3, HeadAndTail
<1>5. /\ x.type = "error" => UNCHANGED <<accounted, upTo>>
      /\ x.type # "error" => accounted' = accounted + 1 + x.skipped /\ upTo' = x.upTo
  BY <1>4 DEF Take, takenVars
<1>6. accounted \in Nat /\ upTo \in Nat /\ 1 \in 1 .. Len(sink)
  BY <1>4 DEF Types
<1>7. x.type # "error" =>
        x.upTo \in Nat /\ x.skipped \in Nat /\ x.upTo = accounted + 1 + x.skipped
  BY <1>1, <1>4, <1>6 DEF Chained, Items
<1>8. Types'
  BY <1>3, <1>4, <1>5, <1>6, <1>7 DEF Types
<1>9. Numbered'
  BY <1>3 DEF Numbered
<1>10. Ordered'
  BY <1>3 DEF Ordered, IsUpdate
<1>11. \A i \in 1 .. Len(t) :
         i + 1 \in 1 .. Len(sink) /\ i + 1 # 1 /\ (i + 1) - 1 = i /\ (i # 1 => i - 1 \in 1 .. Len(t))
  BY <1>4
<1>12. t = <<>> <=> Len(t) = 0
  BY <1>4, EmptySeq
<1>13. Chained'
  <2>1. CASE x.type = "error"
    <3>1. Len(sink) = 1 /\ ~held
      BY <1>1, <1>6, <2>1 DEF Chained
    <3>2. Len(t) = 0
      BY <1>4, <3>1
    <3> QED BY <1>3, <1>5, <2>1, <3>1, <3>2 DEF Chained
  <2>2. CASE x.type # "error"
    <3>1. accounted' = x.upTo /\ upTo' = x.upTo
      BY <1>5, <1>7, <2>2
    <3>2. \A i \in 1 .. Len(t) :
            IF t[i].type = "error" THEN i = Len(t) /\ ~held
            ELSE t[i].upTo =
                   (IF i = 1 THEN x.upTo ELSE t[i - 1].upTo) + 1 + t[i].skipped
      <4> SUFFICES ASSUME NEW i \in 1 .. Len(t)
                   PROVE  IF t[i].type = "error" THEN i = Len(t) /\ ~held
                          ELSE t[i].upTo =
                            (IF i = 1 THEN x.upTo ELSE t[i - 1].upTo) + 1 + t[i].skipped
        OBVIOUS
      <4>1. PICK j \in 1 .. Len(sink) : j = i + 1
        BY <1>11
      <4>2. t[i] = sink[j] /\ j # 1 /\ j - 1 = i
        BY <1>4, <1>11, <4>1
      <4>3. CASE t[i].type = "error"
        <5>1. j = Len(sink) /\ ~held
          BY <4>2, <4>3 DEF Chained
        <5> QED BY <1>4, <4>1, <4>3, <5>1
      <4>4. CASE t[i].type # "error"
        <5>1. sink[j].upTo = sink[i].upTo + 1 + sink[j].skipped
          BY <4>2, <4>4 DEF Chained
        <5>2. sink[i].upTo = IF i = 1 THEN x.upTo ELSE t[i - 1].upTo
          <6>1. i # 1 => i - 1 \in 1 .. Len(t) /\ (i - 1) + 1 = i
            BY <1>11
          <6> QED BY <1>1, <1>4, <6>1
        <5> QED BY <4>2, <4>4, <5>1, <5>2
      <4> QED BY <4>3, <4>4
    <3>3. held => lastSeq = IF t = <<>> THEN x.upTo ELSE t[Len(t)].upTo
      <4>1. held => lastSeq = sink[Len(sink)].upTo
        BY <1>3 DEF Chained
      <4>2. CASE t = <<>>
        <5>1. Len(sink) = 1
          BY <1>4, <1>12, <4>2
        <5> QED BY <1>1, <4>1, <4>2, <5>1
      <4>3. CASE t # <<>>
        <5>1. Len(t) \in 1 .. Len(t) /\ Len(t) + 1 = Len(sink)
          BY <1>4, <1>12, <4>3
        <5> QED BY <1>4, <4>1, <4>3, <5>1
      <4> QED BY <4>2, <4>3
    <3> QED BY <1>3, <3>1, <3>2, <3>3 DEF Chained
  <2> QED BY <2>1, <2>2
<1>14. BurstFirst'
  BY <1>3 DEF BurstFirst, InBurst
<1>15. BurstAhead' => BurstAhead
  BY <1>3 DEF BurstAhead, InBurst
<1>16. SlotsKept'
  <2>1. SinkCap \in Nat
    BY SubscriptionAssumption
  <2> QED BY <1>3, <1>4, <1>15, <2>1 DEF SlotsKept
<1> QED BY <1>8, <1>9, <1>10, <1>13, <1>14, <1>16

-----------------------------------------------------------------------------
(* The theorems.                                                           *)

LEMMA InitInv ==
  ASSUME Init
  PROVE  IInv
<1> USE DEF Init
<1>1. Len(burst) = 0 /\ Len(funnel) = 0 /\ Len(wire) = 0 /\ Len(sink) = 0
  BY NoElements
<1>2. Types
  <2>1. written \in [Records -> Nat]
    OBVIOUS
  <2>2. cursor \in [Records -> Nat] /\ skipped \in [Records -> Nat]
    OBVIOUS
  <2>3. held \in BOOLEAN /\ gone \in BOOLEAN
    OBVIOUS
  <2>4. /\ burst \in Seq(Records \X Nat) /\ funnel \in Seq(Updates)
        /\ wire \in Seq(Updates \cup Errors) /\ sink \in Seq(Items)
    BY NoElements
  <2> QED BY <2>1, <2>2, <2>3, <2>4 DEF Types
<1>3. Numbered
  BY <1>1 DEF Numbered
<1>4. Ordered
  BY <1>1 DEF Ordered
<1>5. Chained
  BY <1>1 DEF Chained
<1>6. BurstFirst /\ SlotsKept
  BY <1>1, SubscriptionAssumption DEF BurstFirst, SlotsKept
<1> QED BY <1>2, <1>3, <1>4, <1>5, <1>6 DEF IInv

LEMMA StepInv ==
  ASSUME IInv, [Next]_vars
  PROVE  IInv'
<1>1. CASE UNCHANGED vars
  <2>1. UNCHANGED <<sinkVars, numbers>> /\ UNCHANGED <<written, cursor, gone>>
    BY <1>1 DEF vars, recVars, serverVars, streamVars, clientVars, histVars, madeVars,
      takenVars, sinkVars, numbers
  <2>2. Types'
    BY <2>1 DEF IInv, Types, sinkVars, numbers
  <2> QED BY <2>1, <2>2, Untouched DEF IInv
<1>2. CASE (\E r \in Records : Write(r)) \/ CloseBuffers \/ DropStream
  BY <1>2, RecordsKeep
<1>3. CASE \E r \in Records : TakenByAnother(r) \/ Lag(r) \/ Pump(r) \/ EndStream(r)
  BY <1>3, TakenByAnotherKeeps, LagKeeps, PumpKeeps, EndStreamKeeps
<1>4. CASE \E encoded \in BOOLEAN : SendSnapshot(encoded) \/ Forward(encoded)
  BY <1>4, SendSnapshotKeeps, ForwardKeeps
<1>5. CASE Open \/ ReadSnapshots \/ StartPump \/ Exhausted \/ ReportEnd
  BY <1>5, OpenKeeps, ReadSnapshotsKeeps, StartPumpKeeps, ExhaustedKeeps, ReportEndKeeps
<1>6. CASE Recv \/ RecvStampless \/ Disconnect \/ Take
  BY <1>6, RecvKeeps, DisconnectKeeps, TakeKeeps
<1> QED BY <1>1, <1>2, <1>3, <1>4, <1>5, <1>6 DEF Next

\* The inductive invariant of a subscription.
THEOREM Invariant == Spec => []IInv
<1>1. Init => IInv
  BY InitInv
<1>2. IInv /\ [Next]_vars => IInv'
  BY StepInv
<1> QED BY <1>1, <1>2, PTL DEF Spec

\* Whatever rings overwrote, the funnel dropped, the codec refused or the sink had
\* no room for: with each update it takes, the subscriber has received or been
\* told of all there had been (record_updates, pump_subscription, deliver).
THEOREM OneDeltaCountsAll == Spec => []EveryLossCounted
<1>1. IInv => EveryLossCounted
  BY DEF IInv, Chained, EveryLossCounted
<1> QED BY <1>1, Invariant, PTL

LEMMA AppendIsNotTail ==
  ASSUME NEW S, NEW s \in Seq(S), NEW x, s # <<>>
  PROVE  Append(s, x) # Tail(s) /\ s # Tail(s)
<1>1. s \in Seq(S \cup {x})
  <2>1. Len(s) \in Nat /\ s \in [1 .. Len(s) -> S]
    BY LenProperties
  <2>2. s \in [1 .. Len(s) -> S \cup {x}]
    BY <2>1
  <2> QED BY <2>1, <2>2, IsASeq
<1>2. Len(Append(s, x)) = Len(s) + 1 /\ Len(Tail(s)) = Len(s) - 1 /\ Len(s) \in Nat
  <2>1. x \in S \cup {x}
    OBVIOUS
  <2> QED BY <1>1, <2>1, Appended, HeadAndTail
<1>3. PICK a : a = Append(s, x)
  OBVIOUS
<1>4. PICK t : t = Tail(s)
  OBVIOUS
<1>5. Len(a) = Len(s) + 1 /\ Len(t) = Len(s) - 1 /\ Len(s) \in Nat
  BY <1>2, <1>3, <1>4
<1>6. a # t /\ s # t
  BY <1>5
<1> QED BY <1>3, <1>4, <1>6

\* The burst's end finds its slot, and so does the error.
LEMMA SlotsStep ==
  ASSUME IInv, Next
  PROVE  /\ wire # <<>> /\ Head(wire).type = "burstEnd" /\ wire' = Tail(wire)
              /\ held /\ held' /\ ~gone
            => Len(sink') = Len(sink) + 1
         /\ held /\ ~held' /\ ~gone /\ spc' # "lost"
            => sink' # <<>> /\ Last(sink').type = "error"
<1>1. /\ wire \in Seq(Updates \cup Errors) /\ sink \in Seq(Items) /\ Len(sink) \in Nat
      /\ SinkCap \in Nat
  BY Elements, SubscriptionAssumption DEF IInv, Types
<1>2. ASSUME EndSub, held, ~gone
      PROVE  sink' # <<>> /\ Last(sink').type = "error"
  <2>1. PICK e : e = [type |-> "error"]
    OBVIOUS
  <2>2. e \in Items /\ e.type = "error"
    BY <2>1 DEF Items
  <2>3. Len(sink) < SinkCap
    BY <1>2 DEF IInv, SlotsKept
  <2>4. sink' = Append(sink, e)
    BY <1>2, <2>1, <2>3 DEF EndSub
  <2>5. PICK s : s = Append(sink, e)
    OBVIOUS
  <2>6. s \in Seq(Items) /\ Len(s) = Len(sink) + 1 /\ s[Len(s)] = e
    BY <1>1, <2>2, <2>5, Appended
  <2>7. s # <<>>
    BY <1>1, <2>6, EmptySeq
  <2> QED BY <2>2, <2>4, <2>5, <2>6, <2>7 DEF Last
<1>3. CASE RecvStampless \/ (Recv /\ Head(wire).type = "error")
  <2>1. EndSub /\ held' = FALSE
    BY <1>3 DEF RecvStampless, Recv, EndSub
  <2> QED BY <1>2, <2>1
<1>4. CASE Recv /\ Head(wire).type # "error"
  <2>1. wire # <<>> /\ Deliver(Head(wire))
    BY <1>4 DEF Recv
  <2>2. PICK u : u = Head(wire)
    OBVIOUS
  <2>3. u = wire[1] /\ 1 \in 1 .. Len(wire)
    BY <1>1, <2>1, <2>2, HeadAndTail
  <2>4. ASSUME u.type = "burstEnd", held, ~gone
        PROVE  Len(sink') = Len(sink) + 1
    <3>1. BurstAhead
      BY <2>3, <2>4 DEF BurstAhead, InBurst
    <3>2. Len(sink) + Reserved(u.type) < SinkCap
      BY <2>4, <3>1 DEF IInv, SlotsKept, Reserved
    <3>3. PICK x : sink' = Append(sink, x) /\ x = [type |-> u.type, rec |-> u.rec,
                     val |-> u.val, skipped |-> Skipped(u), upTo |-> u.upTo]
      BY <2>1, <2>2, <2>4, <3>2 DEF Deliver
    <3>4. IInv'
      BY <1>4, RecvKeeps
    <3>5. u \in Updates \cup Errors /\ IsUpdate(u)
      BY <1>1, <2>1, <2>2, <2>3, <2>4, HeadAndTail DEF IsUpdate
    <3>6. lastSeq \in Nat /\ u.seq \in Nat
      BY <3>5, FrameType DEF IInv, Types
    <3>7. Skipped(u) \in Nat
      BY <3>6 DEF Skipped
    <3>8. x \in Items
      BY <3>3, <3>5, <3>7, FrameType DEF Items
    <3> QED BY <1>1, <3>3, <3>8, Appended
  <2>5. held /\ ~gone => held'
    BY <2>1 DEF Deliver
  <2> QED BY <2>2, <2>4, <2>5
<1>5. CASE Disconnect
  BY <1>5 DEF Disconnect
<1>6. ASSUME held' = held, wire' = wire \/ \E x : wire' = Append(wire, x)
      PROVE  /\ held' = held
             /\ wire # <<>> => wire' # Tail(wire)
  BY <1>1, <1>6, AppendIsNotTail
<1>7. CASE \/ \E r \in Records : \/ Write(r) \/ TakenByAnother(r) \/ Lag(r) \/ Pump(r)
                                  \/ EndStream(r)
           \/ CloseBuffers \/ Open \/ ReadSnapshots \/ StartPump \/ Exhausted
           \/ Take \/ DropStream
  <2>1. held' = held /\ wire' = wire
    BY <1>7 DEF Write, TakenByAnother, EndStream, Lag, Pump, CloseBuffers, Open, ReadSnapshots, StartPump, Exhausted,
      Take, DropStream, serverVars, clientVars
  <2> QED BY <1>6, <2>1
<1>8. CASE \/ \E encoded \in BOOLEAN : SendSnapshot(encoded) \/ Forward(encoded)
           \/ ReportEnd
  <2>1. held' = held /\ (wire' = wire \/ \E x : wire' = Append(wire, x))
    BY <1>8 DEF SendSnapshot, Forward, ReportEnd, clientVars
  <2> QED BY <1>6, <2>1
<1> QED BY <1>3, <1>4, <1>5, <1>7, <1>8 DEF Next

\* However slow the subscriber, the burst's last snapshot and the terminal error
\* find the slots that deliver keeps back for them (deliver, end_sub).
THEOREM SlotsWhenNeeded == Spec => ReservedSlotsHold
<1>1. IInv /\ [Next]_vars =>
        [/\ wire # <<>> /\ Head(wire).type = "burstEnd" /\ wire' = Tail(wire)
              /\ held /\ held' /\ ~gone
            => Len(sink') = Len(sink) + 1
         /\ held /\ ~held' /\ ~gone /\ spc' # "lost"
            => sink' # <<>> /\ Last(sink').type = "error"]_vars
  BY SlotsStep
<1> QED BY <1>1, Invariant, PTL DEF Spec, ReservedSlotsHold

-----------------------------------------------------------------------------
(* What a subscriber that missed nothing knows.                            *)
(*                                                                         *)
(* An update on its way says which one it is of those made, and a record's *)
(* values never go back among these; so whoever has received all of them   *)
(* has the last one of each record.                                        *)

Dated(all, u) == u.upTo \in 1 .. Len(all) /\ all[u.upTo] = <<u.rec, u.val>>

AllDated(all, s) == \A i \in 1 .. Len(s) : IsUpdate(s[i]) => Dated(all, s[i])

\* The types IInv leaves out, and the bounds of the queues.
MoreTypes ==
  /\ closed \in BOOLEAN /\ wild \in BOOLEAN
  /\ opened \in [Records -> Nat] /\ known \in [Records -> Nat] /\ missed \in Nat
  /\ Len(funnel) <= FunnelCap /\ Len(wire) <= WireCap /\ Len(sink) <= SinkCap

\* No update of r made from now on is older.
Newest(r) == IF kind[r] = "SpmcRing" THEN passed[r] ELSE written[r]

\* The values of a record never go back among the updates made.
Ascending ==
  /\ \A i \in 1 .. Len(made) : made[i][2] <= Newest(made[i][1])
  /\ \A i, j \in 1 .. Len(made) :
       i < j /\ made[i][1] = made[j][1] => made[i][2] <= made[j][2]

\* What a stream has read is among the updates made, but for what the stream that
\* reads on has skipped, and behind that there is a value.
Yielded ==
  /\ \A r \in Records : cursor[r] <= written[r]
  /\ \A r \in fan : kind[r] # "Mailbox" =>
       /\ opened[r] <= passed[r]
       /\ passed[r] > opened[r] => \E n \in 1 .. Len(made) : made[n] = <<r, passed[r]>>
       /\ skipped[r] > 0 => cursor[r] < written[r]
       /\ kind[r] = "SingleLatest" => cursor[r] = passed[r] /\ opened[r] = 0

\* What is known of a record was received, and without a loss nothing newer was.
Kept ==
  /\ accounted <= Len(made)
  /\ \A r \in Records :
       known[r] = 0 \/ \E n \in 1 .. accounted : made[n] = <<r, known[r]>>
  /\ missed = 0 => \A n \in 1 .. accounted : made[n][2] <= known[made[n][1]]

\* The items of the sink are in the order made, behind what was received.
SinkOrdered ==
  /\ held => accounted <= lastSeq
  /\ \A i \in 1 .. Len(sink) : IsUpdate(sink[i]) =>
       accounted < sink[i].upTo /\ (held => sink[i].upTo <= lastSeq)
  /\ \A i, j \in 1 .. Len(sink) :
       i < j /\ IsUpdate(sink[i]) /\ IsUpdate(sink[j]) => sink[i].upTo < sink[j].upTo

InTransit ==
  /\ spc = "burst" => \A i \in 1 .. Len(burst) : burst[i] = made[seq + i]
  /\ AllDated(made, funnel) /\ AllDated(made, wire) /\ AllDated(made, sink)

LInv == MoreTypes /\ Ascending /\ Yielded /\ Kept /\ SinkOrdered /\ InTransit
FullInv == IInv /\ LInv

\* What an item of the sink is.
LEMMA ItemType ==
  ASSUME NEW u \in Items, IsUpdate(u)
  PROVE  /\ u.upTo \in Nat /\ u.skipped \in Nat /\ u.val \in Nat /\ u.rec \in Records
         /\ u.type \in {"event", "burstBody", "burstEnd"}
  BY DEF Items, IsUpdate

LEMMA Pair ==
  ASSUME NEW x \in Records \X Nat
  PROVE  \E q \in Records, w \in Nat : x = <<q, w>>
  OBVIOUS

\* What has been made stays made, so what is dated stays dated.
LEMMA DatedStays ==
  ASSUME NEW S, NEW all \in Seq(S), NEW more \in Seq(S), NEW s, AllDated(all, s),
         Len(all) <= Len(more), \A i \in 1 .. Len(all) : more[i] = all[i]
  PROVE  AllDated(more, s)
<1>1. Len(all) \in Nat /\ Len(more) \in Nat
  BY LenProperties
<1>2. 1 .. Len(all) \subseteq 1 .. Len(more)
  BY <1>1
<1> QED BY <1>2 DEF AllDated, Dated

LEMMA DatedAppend ==
  ASSUME NEW all, NEW S, NEW s \in Seq(S), NEW x \in S, AllDated(all, s),
         IsUpdate(x) => Dated(all, x)
  PROVE  AllDated(all, Append(s, x))
<1>1. PICK t : t = Append(s, x)
  OBVIOUS
<1>2. /\ Len(t) = Len(s) + 1 /\ Len(s) \in Nat /\ t[Len(s) + 1] = x
      /\ \A i \in 1 .. Len(s) : t[i] = s[i]
  BY <1>1, Appended
<1>3. ASSUME NEW i \in 1 .. Len(t), IsUpdate(t[i])
      PROVE  Dated(all, t[i])
  <2>1. i = Len(s) + 1 \/ i \in 1 .. Len(s)
    BY <1>2
  <2> QED BY <1>2, <1>3, <2>1 DEF AllDated
<1> QED BY <1>1, <1>3 DEF AllDated

LEMMA DatedTail ==
  ASSUME NEW all, NEW S, NEW s \in Seq(S), s # <<>>, AllDated(all, s)
  PROVE  AllDated(all, Tail(s)) /\ (IsUpdate(Head(s)) => Dated(all, Head(s)))
<1>1. PICK t : t = Tail(s)
  OBVIOUS
<1>2. /\ Len(t) = Len(s) - 1 /\ Len(s) \in Nat \ {0} /\ Head(s) = s[1]
      /\ \A i \in 1 .. Len(s) - 1 : t[i] = s[i + 1]
  BY <1>1, HeadAndTail
<1>3. \A i \in 1 .. Len(t) : i + 1 \in 1 .. Len(s) /\ t[i] = s[i + 1]
  BY <1>2
<1>4. 1 \in 1 .. Len(s)
  BY <1>2
<1>5. AllDated(all, t)
  BY <1>3 DEF AllDated
<1> QED BY <1>1, <1>2, <1>4, <1>5 DEF AllDated

LEMMA DatedNone ==
  ASSUME NEW all
  PROVE  AllDated(all, <<>>)
<1>1. Len(<<>>) = 0
  BY NoElements
<1> QED BY <1>1 DEF AllDated

-----------------------------------------------------------------------------
(* What the steps that make an update do.                                  *)

\* The next value of r and what it carries are behind the updates there are.
LEMMA PumpMakes ==
  ASSUME FullInv, NEW r \in Records, Pump(r)
  PROVE  \E n, m, v \in Nat :
           /\ r \in fan /\ n = Len(made) /\ n < m /\ made' \in Seq(Records \X Nat)
           /\ m = Len(made') /\ v = NextOf(r) /\ cursor[r] < v /\ v <= written[r]
           /\ cursor' = [cursor EXCEPT ![r] = v] /\ passed' = [passed EXCEPT ![r] = v]
           /\ m > 0 /\ made'[m] = <<r, v>>
           /\ \A j \in 1 .. n : made'[j] = made[j]
           /\ \A j \in n + 1 .. m : /\ made'[j] = <<r, v - (m - j)>>
                                    /\ v - (m - j) \in Nat /\ Newest(r) <= v - (m - j)
<1> USE DEF FullInv, IInv, LInv
<1>1. /\ r \in fan /\ cursor[r] < written[r]
      /\ cursor' = [cursor EXCEPT ![r] = NextOf(r)]
      /\ passed' = [passed EXCEPT ![r] = NextOf(r)]
      /\ made' = made \o MadeBy(r, NextOf(r))
  BY DEF Pump, Ready
<1>2. PICK v : v = NextOf(r)
  OBVIOUS
<1>3. PICK more : more = MadeBy(r, v)
  OBVIOUS
<1>4. /\ cursor[r] \in Nat /\ skipped[r] \in Nat /\ written[r] \in Nat
      /\ passed[r] \in Nat /\ made \in Seq(Records \X Nat)
  BY DEF Types
<1>5. PICK k \in Nat : k = skipped[r] + 1
  BY <1>4
<1>6. /\ v \in Nat /\ cursor[r] < v /\ v <= written[r]
      /\ more \in Seq(Records \X Nat) /\ Len(more) = k
      /\ \A i \in 1 .. k : more[i] = <<r, v - k + i>>
  BY <1>1, <1>2, <1>3, <1>5, MadeType
<1>7. PICK n \in Nat : n = Len(made)
  BY <1>4, LenProperties
<1>8. /\ made \o more \in Seq(Records \X Nat) /\ Len(made \o more) = n + k
      /\ \A j \in 1 .. n + k :
           (made \o more)[j] = IF j <= n THEN made[j] ELSE more[j - n]
  BY <1>4, <1>6, <1>7, ConcatProperties
<1>9. made' = made \o more
  BY <1>1, <1>2, <1>3
<1>10. PICK m \in Nat : m = n + k
  OBVIOUS
<1>11. m = Len(made') /\ n < m /\ made' \in Seq(Records \X Nat)
  BY <1>4, <1>5, <1>8, <1>9, <1>10
<1>12. \A j \in 1 .. n : made'[j] = made[j]
  BY <1>8, <1>9
<1>13. v - k \in Nat /\ Newest(r) <= v - k + 1 /\ Newest(r) \in Nat
  <2>1. CASE kind[r] = "SpmcRing"
    <3>1. cursor[r] = passed[r] + skipped[r] /\ v = cursor[r] + 1 /\ Newest(r) = passed[r]
      BY <1>1, <1>2, <2>1 DEF Numbered, NextOf, Newest
    <3> QED BY <1>4, <1>5, <3>1
  <2>2. CASE kind[r] # "SpmcRing"
    <3>1. skipped[r] = 0 /\ v = written[r] /\ Newest(r) = written[r]
      BY <1>1, <1>2, <2>2 DEF Numbered, NextOf, Newest
    <3> QED BY <1>1, <1>4, <1>5, <3>1
  <2> QED BY <2>1, <2>2
<1>14. ASSUME NEW j \in n + 1 .. m
       PROVE  /\ made'[j] = <<r, v - (m - j)>>
              /\ v - (m - j) \in Nat /\ Newest(r) <= v - (m - j)
  <2>1. PICK i \in 1 .. k : i = j - n
    BY <1>10
  <2>2. made'[j] = more[i] /\ more[i] = <<r, v - k + i>>
    <3>1. more[i] = <<r, v - k + i>>
      BY <1>6
    <3>2. j \in 1 .. n + k /\ ~(j <= n) /\ j - n = i
      BY <1>10, <2>1
    <3>3. (made \o more)[j] = more[i]
      BY <1>8, <3>2
    <3> QED BY <1>9, <3>1, <3>3
  <2>3. v - k + i = v - (m - j)
    BY <1>6, <1>10, <2>1
  <2>4. PICK x \in Nat : x = v - k + i /\ Newest(r) <= x
    BY <1>6, <1>13, <2>1
  <2>5. v - (m - j) = x /\ made'[j] = <<r, x>>
    BY <2>2, <2>3, <2>4
  <2> QED BY <2>4, <2>5
<1>15. m > 0 /\ made'[m] = <<r, v>>
  <2>1. m \in n + 1 .. m /\ v - (m - m) = v /\ m > 0
    BY <1>6, <1>11
  <2> QED BY <1>14, <2>1
<1> QED BY <1>1, <1>2, <1>6, <1>7, <1>11, <1>12, <1>14, <1>15

\* A snapshot is the current value of a record that has one.
LEMMA BurstIsCurrent ==
  ASSUME FullInv, ReadSnapshots
  PROVE  \A i \in 1 .. Len(burst') :
           \E q \in Records : burst'[i] = <<q, written[q]>> /\ kind[q] # "SpmcRing"
<1>1. PICK covered \in SUBSET {r \in fan : wild /\ HasCurrent(r)} :
        \E order \in SetToSeqs(covered) :
          burst' = [i \in DOMAIN order |-> <<order[i], written[order[i]]>>]
  BY DEF ReadSnapshots
<1>2. PICK order \in SetToSeqs(covered) :
        burst' = [i \in DOMAIN order |-> <<order[i], written[order[i]]>>]
  BY <1>1
<1>3. \A q \in covered : q \in Records /\ kind[q] # "SpmcRing"
  BY DEF FullInv, IInv, Types, HasCurrent
<1>4. order \in [1 .. Cardinality(covered) -> covered]
  BY DEF SetToSeqs
<1>5. DOMAIN burst' = 1 .. Len(burst')
  BY BurstType, LenProperties DEF FullInv, IInv
<1>6. DOMAIN burst' = DOMAIN order /\ \A i \in DOMAIN order : order[i] \in covered
  BY <1>2, <1>4
<1> QED BY <1>2, <1>3, <1>5, <1>6

\* The updates made only grow.
LEMMA MadeGrows ==
  ASSUME FullInv, [Next]_vars
  PROVE  /\ made \in Seq(Records \X Nat) /\ made' \in Seq(Records \X Nat)
         /\ Len(made) \in Nat /\ Len(made') \in Nat /\ Len(made) <= Len(made')
         /\ \A i \in 1 .. Len(made) : made'[i] = made[i]
<1>1. /\ made \in Seq(Records \X Nat) /\ made' \in Seq(Records \X Nat)
      /\ Len(made) \in Nat /\ Len(made') \in Nat
  BY StepInv, LenProperties DEF FullInv, IInv, Types
<1>2. CASE \E r \in Records : Pump(r)
  <2>1. PICK r \in Records : Pump(r)
    BY <1>2
  <2>2. PICK n, m \in Nat : /\ n = Len(made) /\ n < m /\ m = Len(made')
                            /\ \A j \in 1 .. n : made'[j] = made[j]
    BY <2>1, PumpMakes
  <2> QED BY <1>1, <2>2
<1>3. CASE ReadSnapshots
  <2>1. made = <<>>
    BY <1>3 DEF ReadSnapshots, FullInv, IInv, Numbered
  <2>2. Len(made) = 0
    BY <2>1, NoElements
  <2> QED BY <1>1, <2>2
<1>4. CASE ~ReadSnapshots /\ ~\E r \in Records : Pump(r)
  <2>1. made' = made
    BY <1>4 DEF Next, vars, histVars, madeVars, Write, TakenByAnother, CloseBuffers, Open,
      SendSnapshot, StartPump, Lag, EndStream, Forward, Exhausted, ReportEnd, Recv,
      RecvStampless, Disconnect, Take, DropStream
  <2> QED BY <1>1, <2>1
<1> QED BY <1>2, <1>3, <1>4

\* A frame adds to the sink at most one item, and an update as it was sent.
LEMMA SinkStep ==
  ASSUME IInv, Recv \/ RecvStampless
  PROVE  \/ sink' = sink
         \/ \E x \in Items :
              /\ sink' = Append(sink, x) /\ Len(sink) < SinkCap
              /\ IsUpdate(x) => /\ IsUpdate(Head(wire)) /\ x.rec = Head(wire).rec
                                /\ x.val = Head(wire).val /\ x.upTo = Head(wire).upTo
<1>1. EndSub \/ (IsUpdate(Head(wire)) /\ Deliver(Head(wire)))
  BY DEF Recv, RecvStampless, IsUpdate
<1>2. CASE EndSub
  <2>1. PICK e : e = [type |-> "error"]
    OBVIOUS
  <2>2. e \in Items /\ ~IsUpdate(e)
    BY <2>1 DEF Items, IsUpdate
  <2>3. sink' = sink \/ (sink' = Append(sink, e) /\ Len(sink) < SinkCap)
    BY <1>2, <2>1 DEF EndSub
  <2> QED BY <2>2, <2>3
<1>3. CASE IsUpdate(Head(wire)) /\ Deliver(Head(wire))
  <2>1. PICK u : u = Head(wire)
    OBVIOUS
  <2>2. PICK x : x = [type |-> u.type, rec |-> u.rec, val |-> u.val,
                      skipped |-> Skipped(u), upTo |-> u.upTo]
    OBVIOUS
  <2>3. u \in Updates \cup Errors
    <3>1. wire \in Seq(Updates \cup Errors) /\ wire # <<>>
      BY DEF IInv, Types, Recv, RecvStampless
    <3> QED BY <2>1, <3>1, HeadAndTail
  <2>4. /\ u.seq \in Nat /\ u.upTo \in Nat /\ u.val \in Nat /\ u.rec \in Records
        /\ u.type \in {"event", "burstBody", "burstEnd"}
    BY <1>3, <2>1, <2>3, FrameType
  <2>5. lastSeq \in Nat /\ Len(sink) \in Nat /\ SinkCap \in Nat
    BY Elements, SubscriptionAssumption DEF IInv, Types
  <2>6. Skipped(u) \in Nat
    BY <2>4, <2>5 DEF Skipped
  <2>7. x \in Items /\ x.rec = u.rec /\ x.val = u.val /\ x.upTo = u.upTo
    BY <2>2, <2>4, <2>6 DEF Items
  <2>8. sink' = sink \/ (sink' = Append(sink, x) /\ Len(sink) + Reserved(u.type) < SinkCap)
    BY <1>3, <2>1, <2>2 DEF Deliver
  <2>9. Reserved(u.type) \in Nat
    BY DEF Reserved
  <2>10. Len(sink) + Reserved(u.type) < SinkCap => Len(sink) < SinkCap
    BY <2>5, <2>9
  <2> QED BY <1>3, <2>1, <2>7, <2>8, <2>10
<1> QED BY <1>1, <1>2, <1>3

-----------------------------------------------------------------------------
(* The parts of the invariant, one after the other.                        *)

LEMMA MoreTypesNext ==
  ASSUME FullInv, [Next]_vars
  PROVE  MoreTypes'
<1> USE DEF FullInv, LInv, MoreTypes
<1>1. /\ funnel \in Seq(Updates) /\ Len(funnel) \in Nat
      /\ wire \in Seq(Updates \cup Errors) /\ Len(wire) \in Nat
      /\ sink \in Seq(Items) /\ Len(sink) \in Nat
      /\ FunnelCap \in Nat /\ WireCap \in Nat /\ SinkCap \in Nat
      /\ written \in [Records -> Nat] /\ accounted \in Nat
  BY Elements, SubscriptionAssumption DEF IInv, Types
<1>2. closed' \in BOOLEAN /\ wild' \in BOOLEAN
  <2>1. (closed' = closed \/ closed' = TRUE) /\ wild' = wild
    BY DEF Next, vars, recVars, serverVars, Write, CloseBuffers, TakenByAnother, EndStream, Open, ReadSnapshots,
      SendSnapshot, StartPump, Lag, Pump, Forward, Exhausted, ReportEnd, Recv,
      RecvStampless, Disconnect, Take, DropStream
  <2> QED BY <2>1
<1>4. opened' \in [Records -> Nat]
  <2>1. CASE Open
    <3>1. \A r \in Records : StartsAfter(r) \in Nat
      BY DEF StartsAfter, IInv, Types, Kinds
    <3> QED BY <2>1, <3>1 DEF Open
  <2>2. CASE ~Open
    BY <2>2 DEF Next, vars, histVars, madeVars, takenVars, Write, CloseBuffers, TakenByAnother, EndStream, ReadSnapshots, SendSnapshot,
      StartPump, Lag, Pump, Forward, Exhausted, ReportEnd, Recv, RecvStampless,
      Disconnect, Take, DropStream
  <2> QED BY <2>1, <2>2
<1>5. known' \in [Records -> Nat] /\ missed' \in Nat
  <2>1. CASE Take
    <3>1. PICK u : u = Head(sink)
      OBVIOUS
    <3>2. u \in Items
      <4>1. sink # <<>>
        BY <2>1 DEF Take
      <4> QED BY <1>1, <3>1, <4>1, HeadAndTail
    <3>3. CASE u.type = "error"
      BY <2>1, <3>1, <3>3 DEF Take, takenVars
    <3>4. CASE u.type # "error"
      <4>1. u.skipped \in Nat /\ u.val \in Nat /\ u.rec \in Records
        BY <3>2, <3>4, ItemType DEF IsUpdate
      <4>2. missed' = missed + u.skipped /\ known' = [known EXCEPT ![u.rec] = u.val]
        BY <2>1, <3>1, <3>4 DEF Take
      <4> QED BY <4>1, <4>2
    <3> QED BY <3>3, <3>4
  <2>2. CASE ~Take
    BY <2>2 DEF Next, vars, histVars, madeVars, takenVars, Write, CloseBuffers, TakenByAnother, EndStream, Open, ReadSnapshots,
      SendSnapshot, StartPump, Lag, Pump, Forward, Exhausted, ReportEnd, Recv,
      RecvStampless, Disconnect, DropStream
  <2> QED BY <2>1, <2>2
<1>6. Len(funnel') <= FunnelCap
  <2>1. CASE \E r \in Records : Pump(r)
    <3>1. PICK u : funnel' = IF Len(funnel) < FunnelCap THEN Append(funnel, u) ELSE funnel
      BY <2>1 DEF Pump, Offered
    <3>2. Len(Append(funnel, u)) = Len(funnel) + 1
      BY <1>1, AppendProperties
    <3> QED BY <1>1, <3>1, <3>2
  <2>2. CASE \E encoded \in BOOLEAN : Forward(encoded)
    <3>1. funnel # <<>> /\ funnel' = Tail(funnel)
      BY <2>2 DEF Forward
    <3> QED BY <1>1, <3>1, HeadAndTail
  <2>3. CASE Disconnect
    BY <1>1, <2>3, NoElements DEF Disconnect
  <2>4. CASE ~Disconnect /\ ~(\E r \in Records : Pump(r))
             /\ ~\E encoded \in BOOLEAN : Forward(encoded)
    BY <2>4 DEF Next, vars, serverVars, Write, CloseBuffers, TakenByAnother, EndStream, Open, ReadSnapshots,
      SendSnapshot, StartPump, Lag, Exhausted, ReportEnd, Recv, RecvStampless, Take,
      DropStream
  <2> QED BY <2>1, <2>2, <2>3, <2>4
<1>7. Len(wire') <= WireCap
  <2>1. CASE (\E encoded \in BOOLEAN : SendSnapshot(encoded) \/ Forward(encoded))
             \/ ReportEnd
    <3>1. Len(wire) < WireCap /\ (wire' = wire \/ \E x : wire' = Append(wire, x))
      BY <2>1 DEF SendSnapshot, Forward, ReportEnd
    <3>2. \A x : Len(Append(wire, x)) = Len(wire) + 1
      BY <1>1, AppendProperties
    <3> QED BY <1>1, <3>1, <3>2
  <2>2. CASE Recv \/ RecvStampless
    <3>1. wire # <<>> /\ wire' = Tail(wire)
      BY <2>2 DEF Recv, RecvStampless
    <3> QED BY <1>1, <3>1, HeadAndTail
  <2>3. CASE Disconnect
    BY <1>1, <2>3, NoElements DEF Disconnect
  <2>4. CASE ~Disconnect /\ ~Recv /\ ~RecvStampless /\ ~ReportEnd
             /\ ~\E encoded \in BOOLEAN : SendSnapshot(encoded) \/ Forward(encoded)
    BY <2>4 DEF Next, vars, serverVars, Write, CloseBuffers, TakenByAnother, EndStream, Open, ReadSnapshots,
      StartPump, Lag, Pump, Exhausted, Take, DropStream
  <2> QED BY <2>1, <2>2, <2>3, <2>4
<1>8. Len(sink') <= SinkCap
  <2>1. CASE Recv \/ RecvStampless
    <3>1. CASE sink' = sink
      BY <3>1
    <3>2. CASE \E x \in Items : sink' = Append(sink, x) /\ Len(sink) < SinkCap
      BY <1>1, <3>2, Appended
    <3> QED BY <2>1, <3>1, <3>2, SinkStep
  <2>2. CASE Take
    <3>1. sink # <<>> /\ sink' = Tail(sink)
      BY <2>2 DEF Take
    <3> QED BY <1>1, <3>1, HeadAndTail
  <2>3. CASE ~Recv /\ ~RecvStampless /\ ~Take
    BY <2>3 DEF Next, vars, clientVars, Write, CloseBuffers, TakenByAnother, EndStream, Open, ReadSnapshots,
      SendSnapshot, StartPump, Lag, Pump, Forward, Exhausted, ReportEnd, Disconnect,
      DropStream
  <2> QED BY <2>1, <2>2, <2>3
<1> QED BY <1>2, <1>4, <1>5, <1>6, <1>7, <1>8

LEMMA AscendingNext ==
  ASSUME FullInv, [Next]_vars
  PROVE  Ascending'
<1> USE DEF FullInv, LInv
<1> DEFINE NewNext(q) == IF kind'[q] = "SpmcRing" THEN passed'[q] ELSE written'[q]
<1>1. /\ kind \in [Records -> Kinds] /\ written \in [Records -> Nat]
      /\ passed \in [Records -> Nat] /\ cursor \in [Records -> Nat]
      /\ made \in Seq(Records \X Nat) /\ Len(made) \in Nat
      /\ \A i \in 1 .. Len(made) : made[i] \in Records \X Nat
      /\ \A q \in Records : Newest(q) \in Nat
  BY Elements DEF IInv, Types, Newest
<1>9. \A i \in 1 .. Len(made) : \E q \in Records, w \in Nat : made[i] = <<q, w>>
  BY <1>1, Pair
<1>10. ASSUME /\ \A i \in 1 .. Len(made') : made'[i][2] <= NewNext(made'[i][1])
              /\ \A i, j \in 1 .. Len(made') :
                   i < j /\ made'[i][1] = made'[j][1] => made'[i][2] <= made'[j][2]
       PROVE  Ascending'
  BY <1>10 DEF Ascending, FullInv, LInv, Newest
<1>11. \A i, j \in 1 .. Len(made) :
         i < j /\ made[i][1] = made[j][1] => made[i][2] <= made[j][2]
  BY DEF Ascending, FullInv, LInv
<1> HIDE DEF FullInv, LInv, NewNext
<1>2. CASE \E r \in Records : Pump(r)
  <2>1. PICK r \in Records : Pump(r)
    BY <1>2
  <2>2. PICK n, m, v \in Nat :
          /\ r \in fan /\ n = Len(made) /\ n < m /\ m = Len(made')
          /\ v = NextOf(r) /\ v <= written[r]
          /\ passed' = [passed EXCEPT ![r] = v]
          /\ \A j \in 1 .. n : made'[j] = made[j]
          /\ \A j \in n + 1 .. m : /\ made'[j] = <<r, v - (m - j)>>
                                   /\ v - (m - j) \in Nat /\ Newest(r) <= v - (m - j)
    BY <2>1, PumpMakes
  <2>3. kind' = kind /\ written' = written
    BY <2>1 DEF Pump, recVars
  <2>4. \A q \in Records : q # r => NewNext(q) = Newest(q)
    BY <1>1, <2>2, <2>3 DEF Newest, NewNext
  <2>5. NewNext(r) \in Nat /\ v <= NewNext(r)
    BY <1>1, <2>2, <2>3 DEF Newest, NewNext
  <2>6. Newest(r) <= NewNext(r)
    <3>1. m \in n + 1 .. m /\ m - m = 0
      BY <2>2
    <3>2. Newest(r) <= v
      BY <2>2, <3>1
    <3> QED BY <1>1, <2>5, <3>2
  <2>7. \A j \in 1 .. m : j \in 1 .. n \/ j \in n + 1 .. m
    BY <2>2
  <2>8. ASSUME NEW j \in 1 .. m
        PROVE  made'[j][2] <= NewNext(made'[j][1])
    <3>1. CASE j \in 1 .. n
      <4>1. PICK q \in Records, w \in Nat : made[j] = <<q, w>> /\ made'[j] = <<q, w>>
        BY <1>9, <2>2, <3>1
      <4>2. w <= Newest(q)
        BY <2>2, <3>1, <4>1 DEF Ascending, FullInv, LInv
      <4>3. Newest(q) <= NewNext(q) /\ NewNext(q) \in Nat
        <5>1. CASE q = r
          BY <2>5, <2>6, <5>1
        <5>2. CASE q # r
          <6>1. NewNext(q) = Newest(q) /\ Newest(q) \in Nat
            BY <1>1, <2>4, <5>2
          <6> QED BY <6>1
        <5> QED BY <5>1, <5>2
      <4>4. w <= NewNext(q)
        BY <1>1, <4>2, <4>3
      <4> QED BY <4>1, <4>4
    <3>2. CASE j \in n + 1 .. m
      <4>1. made'[j] = <<r, v - (m - j)>> /\ v - (m - j) <= v
        BY <2>2, <3>2
      <4>2. v - (m - j) <= NewNext(r)
        BY <2>2, <2>5, <3>2, <4>1
      <4> QED BY <4>1, <4>2
    <3> QED BY <2>7, <3>1, <3>2
  <2>9. ASSUME NEW i \in 1 .. m, NEW j \in 1 .. m, i < j, made'[i][1] = made'[j][1]
        PROVE  made'[i][2] <= made'[j][2]
    <3>1. CASE j \in 1 .. n
      <4>1. i \in 1 .. n /\ made'[i] = made[i] /\ made'[j] = made[j]
        BY <2>2, <2>9, <3>1
      <4> QED BY <1>11, <2>2, <2>9, <3>1, <4>1
    <3>2. CASE j \in n + 1 .. m /\ i \in 1 .. n
      <4>1. PICK w \in Nat : made[i] = <<r, w>> /\ made'[i] = <<r, w>>
        <5>1. PICK q \in Records, w \in Nat : made[i] = <<q, w>>
          BY <1>9, <2>2, <3>2
        <5>2. made'[i][1] = q /\ made'[j][1] = r
          BY <2>2, <3>2, <5>1
        <5> QED BY <2>2, <2>9, <3>2, <5>1, <5>2
      <4>2. w <= Newest(r)
        BY <2>2, <3>2, <4>1 DEF Ascending, FullInv, LInv
      <4>3. PICK x \in Nat : made'[j] = <<r, x>> /\ Newest(r) <= x
        BY <2>2, <3>2
      <4>4. w <= x
        BY <1>1, <4>2, <4>3
      <4> QED BY <4>1, <4>3, <4>4
    <3>3. CASE j \in n + 1 .. m /\ i \in n + 1 .. m
      <4>1. PICK x \in Nat : x = v - (m - i) /\ made'[i] = <<r, x>>
        BY <2>2, <3>3
      <4>2. PICK y \in Nat : y = v - (m - j) /\ made'[j] = <<r, y>>
        BY <2>2, <3>3
      <4>3. x <= y
        BY <2>2, <2>9, <4>1, <4>2
      <4> QED BY <4>1, <4>2, <4>3
    <3> QED BY <2>7, <3>1, <3>2, <3>3
  <2> QED BY <1>10, <2>2, <2>8, <2>9
<1>3. CASE ReadSnapshots
  <2>1. made' = burst' /\ UNCHANGED <<kind, written, passed>>
    BY <1>3 DEF ReadSnapshots, recVars
  <2>2. ASSUME NEW i \in 1 .. Len(made')
        PROVE  \E q \in Records : made'[i] = <<q, written[q]>> /\ NewNext(q) = written[q]
    <3>1. PICK q \in Records : burst'[i] = <<q, written[q]>> /\ kind[q] # "SpmcRing"
      BY <1>3, <2>1, BurstIsCurrent
    <3> QED BY <2>1, <3>1 DEF Newest, NewNext
  <2>3. ASSUME NEW i \in 1 .. Len(made')
        PROVE  made'[i][2] <= NewNext(made'[i][1])
    <3>1. PICK q \in Records : made'[i] = <<q, written[q]>> /\ NewNext(q) = written[q]
      BY <2>2
    <3>2. made'[i][1] = q /\ made'[i][2] = written[q] /\ written[q] \in Nat
      BY <1>1, <3>1
    <3> QED BY <3>1, <3>2
  <2>4. ASSUME NEW i \in 1 .. Len(made'), NEW j \in 1 .. Len(made'),
               made'[i][1] = made'[j][1]
        PROVE  made'[i][2] <= made'[j][2]
    <3>1. PICK q \in Records : made'[i] = <<q, written[q]>>
      BY <2>2
    <3>2. PICK p \in Records : made'[j] = <<p, written[p]>>
      BY <2>2
    <3>3. p = q /\ written[q] \in Nat
      BY <1>1, <2>4, <3>1, <3>2
    <3> QED BY <3>1, <3>2, <3>3
  <2> QED BY <1>10, <2>3, <2>4
<1>4. CASE Open
  <2>1. made = <<>> /\ made' = made
    BY <1>4 DEF Open, FullInv, IInv, Numbered
  <2>2. Len(made') = 0
    BY <2>1, NoElements
  <2> QED BY <1>10, <2>2
<1>5. CASE ~ReadSnapshots /\ ~Open /\ ~\E r \in Records : Pump(r)
  <2>1. UNCHANGED <<kind, made, passed>>
    BY <1>5 DEF Next, vars, histVars, madeVars, recVars, Write, TakenByAnother,
      CloseBuffers, SendSnapshot, StartPump, Lag, EndStream, Forward, Exhausted,
      ReportEnd, Recv, RecvStampless, Disconnect, Take, DropStream
  <2>2. \A q \in Records : Newest(q) <= NewNext(q) /\ NewNext(q) \in Nat
    <3>1. \A q \in Records : written[q] <= written'[q] /\ written'[q] \in Nat
      <4>1. CASE \E r \in Records : Write(r)
        BY <1>1, <4>1 DEF Write
      <4>2. CASE ~\E r \in Records : Write(r)
        <5>1. written' = written
          BY <1>5, <4>2 DEF Next, vars, recVars, TakenByAnother, CloseBuffers,
            SendSnapshot, StartPump, Lag, EndStream, Forward, Exhausted, ReportEnd, Recv,
            RecvStampless, Disconnect, Take, DropStream
        <5> QED BY <1>1, <5>1
      <4> QED BY <4>1, <4>2
    <3> QED BY <1>1, <2>1, <3>1 DEF Newest, NewNext
  <2>3. ASSUME NEW i \in 1 .. Len(made)
        PROVE  made[i][2] <= NewNext(made[i][1])
    <3>1. PICK q \in Records, w \in Nat : made[i] = <<q, w>>
      BY <1>9
    <3>2. w <= Newest(q)
      BY <3>1 DEF Ascending, FullInv, LInv
    <3>3. w <= NewNext(q)
      BY <1>1, <2>2, <3>2
    <3> QED BY <3>1, <3>3
  <2> QED BY <1>10, <1>11, <2>1, <2>3
<1> QED BY <1>2, <1>3, <1>4, <1>5

LEMMA YieldedNext ==
  ASSUME FullInv, [Next]_vars
  PROVE  Yielded'
<1> USE DEF FullInv, LInv
<1>1. /\ kind \in [Records -> Kinds] /\ written \in [Records -> Nat]
      /\ passed \in [Records -> Nat] /\ cursor \in [Records -> Nat]
      /\ opened \in [Records -> Nat] /\ skipped \in [Records -> Nat]
      /\ fan \subseteq Records
  BY DEF IInv, Types, MoreTypes
<1>2. /\ Len(made) \in Nat /\ Len(made') \in Nat /\ Len(made) <= Len(made')
      /\ \A i \in 1 .. Len(made) : i \in 1 .. Len(made') /\ made'[i] = made[i]
  BY MadeGrows
<1>3. CASE \E r \in Records : Pump(r)
  <2>1. PICK r \in Records : Pump(r)
    BY <1>3
  <2>2. PICK m, v \in Nat :
          /\ r \in fan /\ m = Len(made') /\ m > 0
          /\ cursor[r] < v /\ v <= written[r]
          /\ cursor' = [cursor EXCEPT ![r] = v] /\ passed' = [passed EXCEPT ![r] = v]
          /\ made'[m] = <<r, v>>
    BY <2>1, PumpMakes
  <2>3. /\ skipped' = [skipped EXCEPT ![r] = 0]
        /\ UNCHANGED <<kind, written, fan, opened>>
    BY <2>1 DEF Pump, recVars
  <2>4. \A q \in Records : cursor'[q] <= written'[q]
    BY <1>1, <2>2, <2>3 DEF Yielded
  <2>5. ASSUME NEW q \in fan, kind[q] # "Mailbox"
        PROVE  /\ opened[q] <= passed'[q]
               /\ passed'[q] > opened[q] =>
                    \E n \in 1 .. Len(made') : made'[n] = <<q, passed'[q]>>
               /\ skipped'[q] > 0 => cursor'[q] < written[q]
               /\ kind[q] = "SingleLatest" => cursor'[q] = passed'[q] /\ opened[q] = 0
    <3>1. CASE q = r
      <4>1. passed[r] <= cursor[r]
        <5>1. kind[r] = "SpmcRing" \/ kind[r] = "SingleLatest"
          BY <1>1, <2>5, <3>1 DEF Kinds
        <5>2. CASE kind[r] = "SpmcRing"
          <6>1. cursor[r] = passed[r] + skipped[r]
            BY <2>2, <5>2 DEF IInv, Numbered
          <6> QED BY <1>1, <6>1
        <5>3. CASE kind[r] = "SingleLatest"
          <6>1. cursor[r] = passed[r]
            BY <2>2, <5>3 DEF Yielded
          <6> QED BY <1>1, <6>1
        <5> QED BY <5>1, <5>2, <5>3
      <4>2. passed'[q] = v /\ cursor'[q] = v /\ skipped'[q] = 0
        BY <1>1, <2>2, <2>3, <3>1
      <4>3. opened[q] <= v
        BY <1>1, <2>2, <2>5, <3>1, <4>1 DEF Yielded
      <4>4. m \in 1 .. Len(made') /\ made'[m] = <<q, v>>
        BY <2>2, <3>1
      <4>5. kind[q] = "SingleLatest" => opened[q] = 0
        BY <2>5 DEF Yielded
      <4> QED BY <4>2, <4>3, <4>4, <4>5
    <3>2. CASE q # r
      <4>1. passed'[q] = passed[q] /\ cursor'[q] = cursor[q] /\ skipped'[q] = skipped[q]
        BY <1>1, <2>2, <2>3, <3>2
      <4> QED BY <1>2, <2>5, <4>1 DEF Yielded
    <3> QED BY <3>1, <3>2
  <2> QED BY <2>3, <2>4, <2>5 DEF Yielded
<1>4. CASE Open
  <2>1. /\ spc = "open" /\ cursor' = [r \in Records |-> StartsAfter(r)]
        /\ opened' = cursor' /\ passed' = cursor'
        /\ UNCHANGED <<kind, written, fan, skipped, made>>
    BY <1>4 DEF Open, recVars
  <2>2. \A q \in Records : skipped[q] = 0
    BY <2>1, SubscriptionAssumption DEF IInv, Numbered
  <2>3. \A q \in Records : /\ StartsAfter(q) \in Nat /\ StartsAfter(q) <= written[q]
                           /\ kind[q] = "SingleLatest" => StartsAfter(q) = 0
    BY <1>1 DEF StartsAfter, Kinds, Yielded
  <2>4. \A q \in Records :
          /\ cursor'[q] \in Nat /\ cursor'[q] <= written[q]
          /\ opened'[q] = cursor'[q] /\ passed'[q] = cursor'[q]
          /\ kind[q] = "SingleLatest" => cursor'[q] = 0
    BY <2>1, <2>3
  <2> QED BY <1>1, <2>1, <2>2, <2>4 DEF Yielded
<1>5. CASE \E r \in Records : Lag(r)
  <2>1. PICK r \in Records : Lag(r)
    BY <1>5
  <2>2. PICK o : o = Oldest(r)
    OBVIOUS
  <2>3. cursor[r] + 1 < o /\ o \in Nat /\ o - 1 < written[r]
    <3>1. cursor[r] + 1 < o
      BY <2>1, <2>2 DEF Lag
    <3>2. RingCap \in Nat \ {0} /\ cursor[r] \in Nat /\ written[r] \in Nat
      BY <1>1, SubscriptionAssumption
    <3>3. o = 1 + (IF written[r] > RingCap THEN written[r] - RingCap ELSE 0)
      BY <2>2 DEF Oldest
    <3> QED BY <3>1, <3>2, <3>3
  <2>4. PICK c \in Nat : c = o - 1 /\ c < written[r]
    BY <1>1, <2>3
  <2>5. /\ kind[r] = "SpmcRing" /\ cursor' = [cursor EXCEPT ![r] = c]
        /\ UNCHANGED <<kind, written, fan, opened, passed, made>>
        /\ \A q \in Records : q # r => skipped'[q] = skipped[q]
    BY <1>1, <2>1, <2>2, <2>4 DEF Lag, AddLag, recVars, histVars, madeVars
  <2>6. \A q \in Records : q # r => cursor'[q] = cursor[q]
    BY <1>1, <2>5
  <2>7. cursor'[r] = c /\ c <= written[r]
    BY <1>1, <2>4, <2>5
  <2> QED BY <1>1, <2>4, <2>5, <2>6, <2>7, ZenonT(30) DEF Yielded
<1>6. CASE \E r \in Records : TakenByAnother(r) \/ EndStream(r)
  <2>1. PICK r \in Records : TakenByAnother(r) \/ EndStream(r)
    BY <1>6
  <2>2. PICK v \in Nat : cursor' = [cursor EXCEPT ![r] = v] /\ v <= written[r]
    <3>1. CASE TakenByAnother(r)
      <4>1. cursor' = [cursor EXCEPT ![r] = written[r]]
        BY <3>1 DEF TakenByAnother
      <4>2. written[r] \in Nat
        BY <1>1
      <4>3. written[r] <= written[r]
        BY <4>2
      <4> WITNESS written[r] \in Nat
      <4> QED BY <4>1, <4>3
    <3>2. CASE EndStream(r)
      <4>1. r \in fan /\ cursor[r] < written[r]
        BY <3>2 DEF EndStream, Ready
      <4>2. NextOf(r) \in Nat /\ NextOf(r) <= written[r]
        BY <4>1, MadeType DEF IInv
      <4> QED BY <3>2, <4>2 DEF EndStream
    <3> QED BY <2>1, <3>1, <3>2
  <2>3. /\ UNCHANGED <<kind, written, opened, passed, made>>
        /\ \A q \in fan' : q \in fan /\ (kind[q] # "Mailbox" => q # r)
        /\ \A q \in Records : q # r => skipped'[q] = skipped[q]
    BY <1>1, <2>1 DEF TakenByAnother, EndStream, recVars, histVars, madeVars
  <2>4. \A q \in Records : cursor'[q] <= written[q] /\ (q # r => cursor'[q] = cursor[q])
    BY <1>1, <2>2 DEF Yielded
  <2>5. \A q \in fan' : kind[q] # "Mailbox" =>
          /\ q \in Records /\ q \in fan
          /\ cursor'[q] = cursor[q] /\ skipped'[q] = skipped[q]
    BY <1>1, <2>3, <2>4
  <2> QED BY <2>3, <2>4, <2>5 DEF Yielded
<1>7. CASE \E r \in Records : Write(r)
  <2>1. /\ UNCHANGED <<kind, fan, cursor, skipped, opened, passed, made>>
        /\ \A q \in Records : written[q] <= written'[q] /\ written'[q] \in Nat
    BY <1>1, <1>7 DEF Write, serverVars, streamVars, histVars, madeVars
  <2>2. \A q \in Records : cursor[q] <= written'[q]
    BY <1>1, <2>1 DEF Yielded
  <2>3. \A q \in fan : cursor[q] < written[q] => cursor[q] < written'[q]
    BY <1>1, <2>1
  <2> QED BY <2>1, <2>2, <2>3 DEF Yielded
<1>8. CASE ReadSnapshots
  <2>1. UNCHANGED <<kind, written, fan, cursor, skipped, opened, passed>>
    BY <1>8 DEF ReadSnapshots, recVars, streamVars
  <2> QED BY <1>2, <2>1, ZenonT(30) DEF Yielded
<1>9. CASE /\ ~ReadSnapshots /\ ~Open
           /\ ~\E r \in Records : \/ Pump(r) \/ Lag(r) \/ TakenByAnother(r)
                                  \/ EndStream(r) \/ Write(r)
  <2>1. UNCHANGED <<kind, written, fan, cursor, skipped, opened, passed, made>>
    BY <1>9 DEF Next, vars, recVars, serverVars, streamVars, histVars, madeVars,
      CloseBuffers, SendSnapshot, StartPump, Forward, Exhausted, ReportEnd, Recv,
      RecvStampless, Disconnect, Take, DropStream
  <2> QED BY <2>1 DEF Yielded
<1> QED BY <1>3, <1>4, <1>5, <1>6, <1>7, <1>8, <1>9

LEMMA KeptNext ==
  ASSUME FullInv, [Next]_vars
  PROVE  Kept'
<1> USE DEF FullInv, LInv
<1>1. /\ known \in [Records -> Nat] /\ accounted \in Nat /\ missed \in Nat
      /\ made \in Seq(Records \X Nat)
      /\ \A i \in 1 .. Len(made) : made[i] \in Records \X Nat
  BY Elements DEF MoreTypes, IInv, Types
<1>2. /\ Len(made) \in Nat /\ Len(made') \in Nat /\ Len(made) <= Len(made')
      /\ \A i \in 1 .. Len(made) : made'[i] = made[i]
  BY MadeGrows
<1>3. accounted <= Len(made) /\ \A n \in 1 .. accounted : n \in 1 .. Len(made)
  BY <1>1, <1>2 DEF Kept
<1>4. CASE ~Take
  <2>1. UNCHANGED <<accounted, missed, known>>
    BY <1>4 DEF Next, vars, histVars, takenVars, Write, TakenByAnother, CloseBuffers,
      Open, ReadSnapshots, SendSnapshot, StartPump, Lag, Pump, EndStream, Forward,
      Exhausted, ReportEnd, Recv, RecvStampless, Disconnect, DropStream
  <2>2. \A n \in 1 .. accounted : made'[n] = made[n]
    BY <1>2, <1>3
  <2>3. accounted <= Len(made')
    BY <1>1, <1>2, <1>3
  <2> QED BY <2>1, <2>2, <2>3 DEF Kept
<1>5. CASE Take
  <2>1. PICK u : u = Head(sink)
    OBVIOUS
  <2>2. sink # <<>> /\ sink \in Seq(Items) /\ made' = made
    BY <1>5 DEF Take, IInv, Types, madeVars
  <2>3. u \in Items /\ u = sink[1] /\ 1 \in 1 .. Len(sink)
    BY <2>1, <2>2, HeadAndTail
  <2>4. CASE u.type = "error"
    BY <1>5, <2>1, <2>2, <2>4 DEF Take, takenVars, Kept
  <2>5. CASE u.type # "error"
    <3>1. u.upTo \in Nat /\ u.skipped \in Nat /\ u.val \in Nat /\ u.rec \in Records
      BY <2>3, <2>5, ItemType DEF IsUpdate
    <3>2. u.upTo \in 1 .. Len(made) /\ made[u.upTo] = <<u.rec, u.val>>
      BY <2>3, <2>5 DEF InTransit, AllDated, Dated, IsUpdate
    <3>3. u.upTo = accounted + 1 + u.skipped
      BY <2>3, <2>5 DEF IInv, Chained
    <3>4. /\ accounted' = u.upTo /\ missed' = missed + u.skipped
          /\ known' = [known EXCEPT ![u.rec] = u.val]
      BY <1>5, <2>1, <2>5, <3>3 DEF Take
    <3>5. accounted' <= Len(made)
      BY <1>2, <3>1, <3>2, <3>4
    <3>6. ASSUME NEW r \in Records
          PROVE  known'[r] = 0 \/ \E n \in 1 .. accounted' : made[n] = <<r, known'[r]>>
      <4>1. CASE r = u.rec
        <5>1. u.upTo \in 1 .. accounted' /\ known'[r] = u.val
          BY <1>1, <3>1, <3>2, <3>4, <4>1, SMTT(30)
        <5> QED BY <3>2, <4>1, <5>1
      <4>2. CASE r # u.rec
        <5>1. known'[r] = known[r]
          BY <1>1, <3>4, <4>2
        <5>2. \A n \in 1 .. accounted : n \in 1 .. accounted'
          BY <1>1, <3>1, <3>3, <3>4
        <5> QED BY <5>1, <5>2 DEF Kept
      <4> QED BY <4>1, <4>2
    <3>7. ASSUME missed' = 0, NEW n \in 1 .. accounted'
          PROVE  made[n][2] <= known'[made[n][1]]
      <4>1. missed = 0 /\ u.upTo = accounted + 1
        BY <1>1, <3>1, <3>3, <3>4, <3>7
      <4>2. n \in 1 .. Len(made) /\ (n \in 1 .. accounted \/ n = u.upTo)
        BY <1>1, <1>2, <3>2, <3>4, <3>5, <4>1
      <4>3. PICK q \in Records, w \in Nat : made[n] = <<q, w>>
        BY <1>1, <4>2, SMTT(30)
      <4>4. CASE n = u.upTo
        <5>1. q = u.rec /\ w = u.val
          BY <3>2, <4>3, <4>4
        <5>2. known'[q] = w
          BY <1>1, <3>4, <5>1
        <5> QED BY <4>3, <5>2
      <4>5. CASE n \in 1 .. accounted /\ q = u.rec
        <5>1. n < u.upTo
          BY <1>1, <4>1, <4>5
        <5>2. made[n][1] = made[u.upTo][1]
          BY <3>2, <4>3, <4>5
        <5>3. made[n][2] <= made[u.upTo][2]
          BY <3>2, <4>2, <5>1, <5>2 DEF Ascending
        <5>4. known'[q] = u.val /\ made[u.upTo][2] = u.val
          BY <1>1, <3>2, <3>4, <4>5
        <5> QED BY <4>3, <5>3, <5>4
      <4>6. CASE n \in 1 .. accounted /\ q # u.rec
        <5>1. known'[q] = known[q]
          BY <1>1, <3>4, <4>6
        <5>2. w <= known[q]
          BY <4>1, <4>3, <4>6 DEF Kept
        <5> QED BY <4>3, <5>1, <5>2
      <4> QED BY <4>2, <4>4, <4>5, <4>6
    <3> QED BY <2>2, <3>5, <3>6, <3>7 DEF Kept
  <2> QED BY <2>4, <2>5
<1> QED BY <1>4, <1>5

\* What the engine puts into the sink comes behind what is there.
LEMMA SinkOrderedNext ==
  ASSUME FullInv, [Next]_vars
  PROVE  SinkOrdered'
<1> USE DEF FullInv, LInv
<1>1. /\ sink \in Seq(Items) /\ Len(sink) \in Nat /\ accounted \in Nat /\ lastSeq \in Nat
      /\ \A i \in 1 .. Len(sink) : sink[i] \in Items
      /\ wire \in Seq(Updates \cup Errors)
  BY Elements DEF IInv, Types
<1>2. \A i \in 1 .. Len(sink) : IsUpdate(sink[i]) => sink[i].upTo \in Nat
  BY <1>1, ItemType
<1>3. CASE Take
  <2>1. PICK u : u = Head(sink)
    OBVIOUS
  <2>2. PICK t : t = Tail(sink)
    OBVIOUS
  <2>3. sink # <<>> /\ sink' = t /\ UNCHANGED <<held, lastSeq>>
    BY <1>3, <2>2 DEF Take
  <2>4. /\ u \in Items /\ u = sink[1] /\ 1 \in 1 .. Len(sink)
        /\ Len(t) = Len(sink) - 1 /\ \A i \in 1 .. Len(t) : t[i] = sink[i + 1]
    BY <1>1, <2>1, <2>2, <2>3, HeadAndTail
  <2>5. \A i \in 1 .. Len(t) : i + 1 \in 1 .. Len(sink) /\ 1 < i + 1
    BY <1>1, <2>4
  <2>6. \A i, j \in 1 .. Len(t) :
          i < j /\ IsUpdate(t[i]) /\ IsUpdate(t[j]) => t[i].upTo < t[j].upTo
    <3> SUFFICES ASSUME NEW i \in 1 .. Len(t), NEW j \in 1 .. Len(t),
                        i < j, IsUpdate(t[i]), IsUpdate(t[j])
                 PROVE  t[i].upTo < t[j].upTo
      OBVIOUS
    <3>1. PICK k, l \in 1 .. Len(sink) : k = i + 1 /\ l = j + 1
      BY <2>5
    <3>2. k < l /\ t[i] = sink[k] /\ t[j] = sink[l]
      BY <1>1, <2>4, <3>1
    <3> QED BY <3>2 DEF SinkOrdered
  <2>7. CASE u.type = "error"
    <3>1. accounted' = accounted
      BY <1>3, <2>1, <2>7 DEF Take, takenVars
    <3>2. \A i \in 1 .. Len(t) : IsUpdate(t[i]) =>
            accounted < t[i].upTo /\ (held => t[i].upTo <= lastSeq)
      BY <2>4, <2>5 DEF SinkOrdered
    <3> QED BY <2>3, <2>6, <3>1, <3>2 DEF SinkOrdered
  <2>8. CASE u.type # "error"
    <3>1. u.upTo \in Nat /\ u.upTo = accounted + 1 + u.skipped
      BY <2>4, <2>8, ItemType DEF IInv, Chained, IsUpdate
    <3>2. accounted' = u.upTo
      BY <1>3, <2>1, <2>8, <3>1 DEF Take
    <3>3. \A i \in 1 .. Len(t) : IsUpdate(t[i]) =>
            u.upTo < t[i].upTo /\ (held => t[i].upTo <= lastSeq)
      <4> SUFFICES ASSUME NEW i \in 1 .. Len(t), IsUpdate(t[i])
                   PROVE  u.upTo < t[i].upTo /\ (held => t[i].upTo <= lastSeq)
        OBVIOUS
      <4>1. PICK k \in 1 .. Len(sink) : k = i + 1 /\ 1 < k
        BY <2>5
      <4>2. t[i] = sink[k]
        BY <2>4, <4>1
      <4> QED BY <2>4, <2>8, <4>1, <4>2 DEF SinkOrdered, IsUpdate
    <3>4. held => u.upTo <= lastSeq
      BY <2>4, <2>8 DEF SinkOrdered, IsUpdate
    <3> QED BY <2>3, <2>6, <3>2, <3>3, <3>4 DEF SinkOrdered
  <2> QED BY <2>7, <2>8
<1>4. CASE Recv \/ RecvStampless
  <2>1. accounted' = accounted
    BY <1>4 DEF Recv, RecvStampless, histVars, takenVars
  <2>2. CASE held'
    <3>1. Recv /\ Head(wire).type # "error" /\ Deliver(Head(wire)) /\ held /\ wire # <<>>
      BY <1>4, <2>2 DEF Recv, RecvStampless, EndSub, Deliver
    <3>2. PICK u : u = Head(wire)
      OBVIOUS
    <3>3. u \in Updates \cup Errors /\ u = wire[1] /\ 1 \in 1 .. Len(wire) /\ IsUpdate(u)
      BY <1>1, <3>1, <3>2, HeadAndTail DEF IsUpdate
    <3>4. u.seq \in Nat /\ u.upTo = u.seq /\ lastSeq < u.seq
      BY <3>1, <3>3, FrameType DEF IInv, Ordered
    <3>5. \/ sink' = sink /\ lastSeq' = lastSeq
          \/ /\ sink' = Append(sink, [type |-> u.type, rec |-> u.rec, val |-> u.val,
                                      skipped |-> Skipped(u), upTo |-> u.upTo])
             /\ lastSeq' = u.seq
      BY <2>2, <3>1, <3>2, <3>4 DEF Deliver, CursorAfter
    <3>6. CASE sink' = sink /\ lastSeq' = lastSeq
      BY <2>1, <3>1, <3>6 DEF SinkOrdered
    <3>7. CASE sink' # sink \/ lastSeq' # lastSeq
      <4>1. PICK x : /\ sink' = Append(sink, x) /\ lastSeq' = u.seq
                     /\ x = [type |-> u.type, rec |-> u.rec, val |-> u.val,
                             skipped |-> Skipped(u), upTo |-> u.upTo]
        BY <3>5, <3>7
      <4>2. x \in Items /\ x.upTo = u.seq
        <5>1. Skipped(u) \in Nat
          BY <1>1, <3>4 DEF Skipped
        <5> QED BY <3>3, <3>4, <4>1, <5>1, FrameType DEF Items
      <4>3. PICK s : s = Append(sink, x)
        OBVIOUS
      <4>4. /\ Len(s) = Len(sink) + 1 /\ s[Len(sink) + 1] = x
            /\ \A i \in 1 .. Len(sink) : s[i] = sink[i]
        BY <1>1, <4>2, <4>3, Appended
      <4>5. \A i \in 1 .. Len(s) : i \in 1 .. Len(sink) \/ i = Len(sink) + 1
        BY <1>1, <4>4
      <4>6. \A i \in 1 .. Len(sink) : IsUpdate(sink[i]) =>
              /\ accounted < sink[i].upTo /\ sink[i].upTo <= lastSeq
              /\ sink[i].upTo < u.seq /\ sink[i].upTo <= u.seq
        BY <1>1, <1>2, <3>1, <3>4 DEF SinkOrdered
      <4>7. accounted < u.seq /\ accounted <= u.seq
        BY <1>1, <3>1, <3>4 DEF SinkOrdered
      <4>8. \A i \in 1 .. Len(s) : IsUpdate(s[i]) =>
              accounted < s[i].upTo /\ s[i].upTo <= u.seq
        BY <3>4, <4>2, <4>4, <4>5, <4>6, <4>7
      <4>9. \A i, j \in 1 .. Len(s) :
              i < j /\ IsUpdate(s[i]) /\ IsUpdate(s[j]) => s[i].upTo < s[j].upTo
        <5> SUFFICES ASSUME NEW i \in 1 .. Len(s), NEW j \in 1 .. Len(s),
                            i < j, IsUpdate(s[i]), IsUpdate(s[j])
                     PROVE  s[i].upTo < s[j].upTo
          OBVIOUS
        <5>1. i \in 1 .. Len(sink) /\ s[i] = sink[i]
          BY <1>1, <4>4
        <5>2. CASE j \in 1 .. Len(sink)
          BY <4>4, <5>1, <5>2 DEF SinkOrdered
        <5>3. CASE j = Len(sink) + 1
          BY <4>2, <4>4, <4>6, <5>1, <5>3
        <5> QED BY <4>5, <5>2, <5>3
      <4> QED BY <2>1, <4>1, <4>3, <4>7, <4>8, <4>9 DEF SinkOrdered
    <3> QED BY <3>6, <3>7
  <2>3. CASE ~held'
    <3>1. CASE sink' = sink
      BY <2>1, <2>3, <3>1 DEF SinkOrdered
    <3>2. CASE sink' # sink
      <4>1. EndSub
        BY <1>4, <2>3, <3>2 DEF Recv, RecvStampless, Deliver
      <4>2. PICK x : x = [type |-> "error"]
        OBVIOUS
      <4>3. x \in Items /\ ~IsUpdate(x) /\ sink' = Append(sink, x)
        BY <3>2, <4>1, <4>2 DEF EndSub, Items, IsUpdate
      <4>4. PICK s : s = Append(sink, x)
        OBVIOUS
      <4>5. /\ Len(s) = Len(sink) + 1 /\ s[Len(sink) + 1] = x
            /\ \A i \in 1 .. Len(sink) : s[i] = sink[i]
        BY <1>1, <4>3, <4>4, Appended
      <4>6. \A i \in 1 .. Len(s) : IsUpdate(s[i]) => i \in 1 .. Len(sink) /\ s[i] = sink[i]
        BY <1>1, <4>3, <4>5
      <4> QED BY <2>1, <2>3, <4>3, <4>4, <4>6 DEF SinkOrdered
    <3> QED BY <3>1, <3>2
  <2> QED BY <2>2, <2>3
<1>5. CASE Disconnect
  <2>1. held' = FALSE /\ UNCHANGED <<sink, accounted>>
    BY <1>5 DEF Disconnect, histVars, takenVars
  <2> QED BY <2>1 DEF SinkOrdered
<1>6. CASE ~Take /\ ~Recv /\ ~RecvStampless /\ ~Disconnect
  <2>1. UNCHANGED <<held, lastSeq, sink, accounted>>
    BY <1>6 DEF Next, vars, clientVars, histVars, takenVars, Write, TakenByAnother,
      CloseBuffers, Open, ReadSnapshots, SendSnapshot, StartPump, Lag, Pump, EndStream,
      Forward, Exhausted, ReportEnd, DropStream
  <2> QED BY <2>1 DEF SinkOrdered
<1> QED BY <1>3, <1>4, <1>5, <1>6

LEMMA InTransitNext ==
  ASSUME FullInv, [Next]_vars
  PROVE  InTransit'
<1> USE DEF FullInv, LInv
<1>1. /\ seq \in Nat /\ burst \in Seq(Records \X Nat)
      /\ funnel \in Seq(Updates) /\ wire \in Seq(Updates \cup Errors)
      /\ sink \in Seq(Items)
  BY DEF IInv, Types
<1>2. /\ AllDated(made', funnel) /\ AllDated(made', wire) /\ AllDated(made', sink)
      /\ made' \in Seq(Records \X Nat) /\ Len(made') \in Nat
  BY MadeGrows, DatedStays DEF InTransit
<1>3. CASE \E r \in Records : Pump(r)
  <2>1. PICK r \in Records : Pump(r)
    BY <1>3
  <2>2. PICK m, v \in Nat : m = Len(made') /\ m > 0 /\ v = NextOf(r) /\ made'[m] = <<r, v>>
    BY <2>1, PumpMakes
  <2>3. PICK k \in Nat : k = seq + skipped[r] + 1
    BY <1>1 DEF IInv, Types
  <2>4. PICK u : u = Update("event", r, v, k, m)
    OBVIOUS
  <2>5. u \in Updates /\ u.rec = r /\ u.val = v /\ u.upTo = m
    <3> HIDE DEF FullInv, LInv
    <3>1. "event" \in {"event", "burstBody", "burstEnd"} /\ v \in Nat /\ m \in Nat /\ k \in Nat
      BY <2>2, <2>3
    <3>2. LET w == Update("event", r, v, k, m)
          IN  w \in Updates /\ w.rec = r /\ w.val = v /\ w.upTo = m
      BY <3>1, UpdateType
    <3> QED BY <2>4, <3>2
  <2>6. Dated(made', u)
    BY <2>2, <2>5 DEF Dated
  <2>7. /\ funnel' = funnel \/ funnel' = Append(funnel, u)
        /\ spc' = "live" /\ wire' = wire /\ sink' = sink
    <3>1. funnel' = Offered(u)
      BY <2>1, <2>2, <2>3, <2>4 DEF Pump
    <3>2. spc' = "live" /\ wire' = wire /\ sink' = sink
      BY <2>1 DEF Pump, Ready, clientVars
    <3> QED BY <3>1, <3>2 DEF Offered
  <2>8. AllDated(made', Append(funnel, u))
    BY <1>1, <1>2, <2>5, <2>6, DatedAppend
  <2> QED BY <1>2, <2>7, <2>8 DEF InTransit
<1>4. CASE ReadSnapshots
  <2>1. made' = burst' /\ UNCHANGED <<seq, funnel, wire, sink>> /\ seq = 0
    BY <1>4 DEF ReadSnapshots, clientVars, IInv, Numbered
  <2>2. \A i \in 1 .. Len(burst') : seq' + i = i
    BY <2>1
  <2> QED BY <1>2, <2>1, <2>2 DEF InTransit
<1>5. CASE \E encoded \in BOOLEAN : SendSnapshot(encoded)
  <2>1. PICK type \in {"burstEnd", "burstBody"} :
          /\ spc = "burst" /\ burst # <<>> /\ UNCHANGED <<made, funnel, sink>>
          /\ seq' = seq + 1 /\ burst' = Tail(burst)
          /\ \/ wire' = wire
             \/ wire' = Append(wire, Update(type, Head(burst)[1], Head(burst)[2], seq + 1,
                                            Len(made) - Len(burst) + 1))
    BY <1>5 DEF SendSnapshot, clientVars, histVars, madeVars
  <2>2. /\ seq + Len(burst) = Len(made) /\ Len(made) \in Nat
    BY <1>2, <2>1 DEF IInv, Numbered
  <2>3. /\ Len(burst) \in Nat \ {0} /\ Head(burst) = burst[1] /\ burst[1] \in Records \X Nat
        /\ Len(Tail(burst)) = Len(burst) - 1
        /\ \A i \in 1 .. Len(burst) - 1 : Tail(burst)[i] = burst[i + 1]
    BY <1>1, <2>1, HeadAndTail
  <2>4. PICK m \in Nat : m = seq + 1 /\ m = Len(made) - Len(burst) + 1 /\ m \in 1 .. Len(made)
    <3>1. PICK k \in Nat \ {0} : k = Len(burst)
      BY <2>3
    <3>2. PICK n \in Nat : n = Len(made)
      BY <2>2
    <3>3. seq + k = n
      BY <2>2, <3>1, <3>2
    <3>4. PICK m \in Nat : m = seq + 1
      BY <1>1
    <3>5. m = n - k + 1 /\ m \in 1 .. n
      BY <1>1, <3>3, <3>4
    <3> QED BY <3>1, <3>2, <3>4, <3>5
  <2>5. PICK q \in Records, v \in Nat : burst[1] = <<q, v>>
    BY <2>3
  <2>6. PICK u : u = Update(type, q, v, m, m)
    OBVIOUS
  <2>7. wire' = wire \/ wire' = Append(wire, u)
    BY <2>1, <2>3, <2>4, <2>5, <2>6
  <2>8. u \in Updates /\ u.rec = q /\ u.val = v /\ u.upTo = m
    BY <2>6, UpdateType
  <2>9. made[m] = <<q, v>>
    <3>1. 1 \in 1 .. Len(burst)
      BY <2>3
    <3> QED BY <2>1, <2>4, <2>5, <3>1 DEF InTransit
  <2>10. Dated(made', u)
    BY <2>1, <2>4, <2>8, <2>9 DEF Dated
  <2>11. AllDated(made', Append(wire, u))
    BY <1>1, <1>2, <2>8, <2>10, DatedAppend
  <2>12. ASSUME NEW i \in 1 .. Len(burst')
         PROVE  burst'[i] = made'[seq' + i]
    <3>1. PICK j \in 1 .. Len(burst) : j = i + 1
      BY <2>1, <2>3
    <3>2. burst'[i] = burst[j] /\ seq' + i = seq + j
      BY <1>1, <2>1, <2>3, <3>1
    <3> QED BY <2>1, <3>2 DEF InTransit
  <2> QED BY <1>2, <2>1, <2>7, <2>11, <2>12 DEF InTransit
<1>6. ASSUME UNCHANGED <<spc, burst, seq, made>> \/ spc' # "burst"
      PROVE  spc' = "burst" => \A i \in 1 .. Len(burst') : burst'[i] = made'[seq' + i]
  BY <1>6 DEF InTransit
<1>7. CASE \E encoded \in BOOLEAN : Forward(encoded)
  <2>1. /\ funnel # <<>> /\ funnel' = Tail(funnel) /\ sink' = sink
        /\ wire' = wire \/ wire' = Append(wire, Head(funnel))
        /\ UNCHANGED <<spc, burst, seq, made>>
    BY <1>7 DEF Forward, clientVars, histVars, madeVars
  <2>2. /\ AllDated(made', Tail(funnel))
        /\ IsUpdate(Head(funnel)) => Dated(made', Head(funnel))
    BY <1>1, <1>2, <2>1, DatedTail
  <2>3. Head(funnel) \in Updates \cup Errors
    BY <1>1, <2>1, HeadAndTail
  <2>4. AllDated(made', Append(wire, Head(funnel)))
    BY <1>1, <1>2, <2>2, <2>3, DatedAppend
  <2> QED BY <1>2, <1>6, <2>1, <2>2, <2>4 DEF InTransit
<1>8. CASE ReportEnd
  <2>1. PICK e : e = [type |-> "error"]
    OBVIOUS
  <2>2. e \in Updates \cup Errors /\ ~IsUpdate(e)
    BY <2>1 DEF Errors, IsUpdate
  <2>3. wire' = Append(wire, e) /\ UNCHANGED <<funnel, sink>> /\ spc' = "over"
    BY <1>8, <2>1 DEF ReportEnd, clientVars
  <2>4. AllDated(made', Append(wire, e))
    BY <1>1, <1>2, <2>2, DatedAppend
  <2> QED BY <1>2, <1>6, <2>3, <2>4 DEF InTransit
<1>9. CASE Recv \/ RecvStampless
  <2>1. wire # <<>> /\ wire' = Tail(wire) /\ UNCHANGED <<spc, burst, seq, made, funnel>>
    BY <1>9 DEF Recv, RecvStampless, histVars, madeVars
  <2>2. AllDated(made', Tail(wire)) /\ (IsUpdate(Head(wire)) => Dated(made', Head(wire)))
    BY <1>1, <1>2, <2>1, DatedTail
  <2>3. AllDated(made', sink')
    <3>1. CASE sink' = sink
      BY <1>2, <3>1
    <3>2. CASE sink' # sink
      <4>1. PICK x \in Items :
              /\ sink' = Append(sink, x)
              /\ IsUpdate(x) => /\ IsUpdate(Head(wire)) /\ x.rec = Head(wire).rec
                                /\ x.val = Head(wire).val /\ x.upTo = Head(wire).upTo
        BY <1>9, <3>2, SinkStep
      <4>2. IsUpdate(x) => Dated(made', x)
        BY <2>2, <4>1 DEF Dated
      <4> QED BY <1>1, <1>2, <4>1, <4>2, DatedAppend
    <3> QED BY <3>1, <3>2
  <2> QED BY <1>2, <1>6, <2>1, <2>2, <2>3 DEF InTransit
<1>10. CASE Disconnect
  <2>1. wire' = <<>> /\ funnel' = <<>> /\ sink' = sink /\ spc' = "lost"
    BY <1>10 DEF Disconnect
  <2> QED BY <1>2, <2>1, DatedNone DEF InTransit
<1>11. CASE Take
  <2>1. /\ sink # <<>> /\ sink' = Tail(sink)
        /\ UNCHANGED <<spc, burst, seq, made, funnel, wire>>
    BY <1>11 DEF Take, serverVars, madeVars
  <2>2. AllDated(made', Tail(sink))
    BY <1>1, <1>2, <2>1, DatedTail
  <2> QED BY <1>2, <1>6, <2>1, <2>2 DEF InTransit
<1>12. CASE \/ \E r \in Records : Write(r) \/ TakenByAnother(r) \/ Lag(r) \/ EndStream(r)
            \/ CloseBuffers \/ Open \/ StartPump \/ Exhausted \/ DropStream
            \/ UNCHANGED vars
  <2>1. /\ UNCHANGED <<funnel, wire, sink>>
        /\ UNCHANGED <<spc, burst, seq, made>> \/ spc' # "burst"
    BY <1>12 DEF Write, TakenByAnother, Lag, EndStream, CloseBuffers, Open, StartPump,
      Exhausted, DropStream, vars, serverVars, clientVars, histVars, madeVars
  <2> QED BY <1>2, <1>6, <2>1 DEF InTransit
<1> QED BY <1>3, <1>4, <1>5, <1>7, <1>8, <1>9, <1>10, <1>11, <1>12 DEF Next

LEMMA FullInit ==
  ASSUME Init
  PROVE  FullInv
<1> USE DEF Init
<1>1. Len(funnel) = 0 /\ Len(wire) = 0 /\ Len(sink) = 0 /\ Len(made) = 0
  BY NoElements
<1>2. IInv
  BY InitInv
<1>3. MoreTypes
  <2>1. closed \in BOOLEAN /\ wild \in BOOLEAN
    OBVIOUS
  <2>2. opened \in [Records -> Nat] /\ known \in [Records -> Nat] /\ missed \in Nat
    OBVIOUS
  <2>3. Len(funnel) <= FunnelCap /\ Len(wire) <= WireCap /\ Len(sink) <= SinkCap
    BY <1>1, SubscriptionAssumption
  <2> QED BY <2>1, <2>2, <2>3 DEF MoreTypes
<1>4. Ascending
  BY <1>1 DEF Ascending
<1>5. Yielded
  BY <1>2 DEF Yielded, IInv, Types
<1>6. Kept
  BY <1>1 DEF Kept
<1>7. SinkOrdered
  BY <1>1 DEF SinkOrdered
<1>8. InTransit
  BY DatedNone DEF InTransit
<1> QED BY <1>2, <1>3, <1>4, <1>5, <1>6, <1>7, <1>8 DEF FullInv, LInv

\* The invariant with the updates made.
THEOREM FullInvariant == Spec => []FullInv
<1>1. Init => FullInv
  BY FullInit
<1>2. FullInv /\ [Next]_vars => FullInv'
  <2> SUFFICES ASSUME FullInv, [Next]_vars
               PROVE  FullInv'
    OBVIOUS
  <2>1. IInv'
    BY StepInv DEF FullInv
  <2>2. LInv'
    BY MoreTypesNext, AscendingNext, YieldedNext, KeptNext, SinkOrderedNext, InTransitNext
      DEF LInv
  <2> QED BY <2>1, <2>2 DEF FullInv
<1> QED BY <1>1, <1>2, PTL DEF Spec

\* A subscriber that was told of no loss, and whose streams have read all, knows
\* the current value of every SingleLatest, whose stream replays it, and the last
\* value of every ring written since the streams were opened; and what it knows of
\* a record never goes back, though the snapshots are read after that opening
\* (Session::subscribe, then Session::snapshots, in run_session).
THEOREM CurrentWhenComplete == Spec => []NothingInBetween
<1>1. FullInv => NothingInBetween
  <2> SUFFICES ASSUME FullInv
               PROVE  NothingInBetween
    OBVIOUS
  <2> USE DEF FullInv, LInv
  <2>1. TypeOK
    BY DEF TypeOK, IInv, Types, MoreTypes, Errors
  <2>2. /\ written \in [Records -> Nat] /\ known \in [Records -> Nat]
        /\ passed \in [Records -> Nat] /\ cursor \in [Records -> Nat]
        /\ skipped \in [Records -> Nat] /\ opened \in [Records -> Nat]
        /\ kind \in [Records -> Kinds] /\ fan \subseteq Records
        /\ accounted \in Nat /\ Len(made) \in Nat
        /\ \A i \in 1 .. Len(made) : made[i] \in Records \X Nat
    BY Elements DEF IInv, Types, MoreTypes
  <2>3. ASSUME Complete, NEW r \in fan, Promised(r)
        PROVE  known[r] = written[r]
    <3>1. cursor[r] = written[r] /\ accounted = Len(made) /\ missed = 0 /\ r \in Records
      BY <2>2, <2>3 DEF Complete
    <3>2. /\ kind[r] # "Mailbox" /\ written[r] > 0
          /\ passed[r] = written[r] /\ opened[r] < written[r]
      <4>1. CASE kind[r] = "SpmcRing"
        <5>1. written[r] > opened[r]
          BY <2>3, <4>1 DEF Promised
        <5>2. cursor[r] = passed[r] + skipped[r]
          BY <4>1 DEF IInv, Numbered
        <5>3. ~(skipped[r] > 0)
          <6>1. skipped[r] > 0 => cursor[r] < written[r]
            BY <4>1 DEF Yielded
          <6>2. cursor[r] \in Nat /\ written[r] \in Nat
            BY <2>2, <3>1
          <6> QED BY <3>1, <6>1, <6>2
        <5> QED BY <2>2, <3>1, <4>1, <5>1, <5>2, <5>3
      <4>2. CASE kind[r] = "SingleLatest"
        <5>1. written[r] > 0
          BY <2>3, <4>2 DEF Promised
        <5>2. cursor[r] = passed[r] /\ opened[r] = 0
          BY <4>2 DEF Yielded
        <5> QED BY <2>2, <3>1, <4>2, <5>1, <5>2
      <4>3. kind[r] # "Mailbox"
        BY <2>3 DEF Promised
      <4> QED BY <2>2, <3>1, <4>1, <4>2, <4>3 DEF Kinds
    <3>3. PICK n \in 1 .. Len(made) : made[n] = <<r, written[r]>>
      BY <2>2, <3>1, <3>2 DEF Yielded
    <3>4. written[r] <= known[r]
      BY <3>1, <3>3 DEF Kept
    <3>5. known[r] # 0
      BY <2>2, <3>1, <3>2, <3>4
    <3>6. PICK k \in 1 .. accounted : made[k] = <<r, known[r]>>
      BY <3>1, <3>5 DEF Kept
    <3>7. known[r] <= written[r]
      <4>1. k \in 1 .. Len(made) /\ Newest(r) = written[r]
        BY <3>1, <3>2, <3>6 DEF Newest
      <4> QED BY <3>6, <4>1 DEF Ascending
    <3> QED BY <2>2, <3>1, <3>4, <3>7
  <2>4. ASSUME NEW i \in DOMAIN sink, sink[i].type # "error"
        PROVE  sink[i].val >= known[sink[i].rec]
    <3>1. /\ i \in 1 .. Len(sink) /\ sink[i] \in Items
      <4>1. sink \in Seq(Items)
        BY DEF IInv, Types
      <4> QED BY <4>1, LenProperties, ElementOfSeq
    <3>2. PICK u : u = sink[i]
      OBVIOUS
    <3>3. IsUpdate(u) /\ u.rec \in Records /\ u.val \in Nat /\ u.upTo \in Nat
      BY <2>4, <3>1, <3>2, ItemType DEF IsUpdate
    <3>4. u.upTo \in 1 .. Len(made) /\ made[u.upTo] = <<u.rec, u.val>>
      BY <3>1, <3>2, <3>3 DEF InTransit, AllDated, Dated
    <3>5. accounted < u.upTo
      BY <3>1, <3>2, <3>3 DEF SinkOrdered
    <3>6. CASE known[u.rec] = 0
      BY <3>2, <3>3, <3>6
    <3>7. CASE known[u.rec] # 0
      <4>1. PICK n \in 1 .. accounted : made[n] = <<u.rec, known[u.rec]>>
        BY <3>3, <3>7 DEF Kept
      <4>2. n \in 1 .. Len(made) /\ n < u.upTo
        BY <2>2, <3>3, <3>4, <3>5, <4>1, SMTT(30)
      <4>3. made[n][2] <= made[u.upTo][2]
        BY <3>4, <4>1, <4>2 DEF Ascending
      <4>4. known[u.rec] <= u.val
        BY <3>4, <4>1, <4>3
      <4> QED BY <2>2, <3>2, <3>3, <4>4
    <3> QED BY <3>6, <3>7
  <2> QED BY <2>1, <2>3, <2>4 DEF NothingInBetween
<1> QED BY <1>1, FullInvariant, PTL
=============================================================================
