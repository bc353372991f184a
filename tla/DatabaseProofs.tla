--------------------------- MODULE DatabaseProofs ---------------------------
(***************************************************************************)
(* What holds of the database and of the handle that embeds it, for any    *)
(* number of records, registrations, frames, values and threads.           *)
(*                                                                         *)
(* First the embedding (SyncHandle): a forked child publishes nothing and  *)
(* joins nothing, the shutdown that joined the thread left a handle no     *)
(* producer can publish through, and get_latest returns the newest value.  *)
(*                                                                         *)
(* Then the database (Builder, RecordGraph, InboundDispatch, Transforms    *)
(* and Database), along the life of one:                                   *)
(*   Shapes, Graphed    the registry, the tasks and Kahn's algorithm: a    *)
(*                      build behind the sort has an order, every record   *)
(*                      in it and its inputs before it;                    *)
(*   Tables             the inbound table is the links' own order, and the *)
(*                      key handed on belongs to the route (KeysAreStable) *)
(*   Collected, Flow    the collected tasks are the registered futures,    *)
(*                      and a value is with the one that reads it until a  *)
(*                      handler counts it (ValuesAccountedFor);            *)
(*   Accounted          the records hold what the calls said, and a call   *)
(*                      that could not be kept is an error of its record;  *)
(*   Complete           the tasks of the records asked so far, in order    *)
(*                      and each once (TasksFollowInputs);                 *)
(*   Reports            the errors name the mistaken records and no other  *)
(*                      (EveryMistakeNamed).                               *)
(***************************************************************************)
EXTENDS Database, SyncHandle, FiniteSetTheorems, SequenceTheorems,
        WellFoundedInduction, TLAPS

(***************************************************************************)
(* The synchronous handle.  The invariant accounts for the strong          *)
(* references: who holds one, and in which state of its owner.  That no    *)
(* reference is left when the caller that took the thread has joined it is *)
(* what makes the producers' weak upgrade fail from then on.               *)
(***************************************************************************)
Publishing == {p \in Producers : pub[p] = "db"}

\* The bound on the values published holds for those on their way, too.
SetsCounted == pushed + Cardinality(Publishing) <= MaxSet

\* How far the thread and the attaching caller can be from each other, and
\* that nothing happens on a handle that does not exist yet.
Attaching ==
  /\ rt = "spawned" => handleCh = "empty" /\ dbCh = "empty" /\ att = "handle"
  /\ rt = "handed" => /\ handleCh = "ok" /\ dbCh = "empty" /\ ~built
                      /\ att \in {"handle", "db"}
  /\ att # "done" => /\ ~handle /\ ~owned /\ ~forked /\ con = "none"
                     /\ \A c \in Closers : closer[c] = "idle"
                     /\ \A p \in Producers : pub[p] = "idle"

\* Every strong reference and what its owner is doing.
References ==
  /\ ~forked /\ "thread" \in holders => rt \in {"run", "idle"}
  /\ "channel" \in holders => att \in {"handle", "db"} /\ ~built
  /\ "owned" \in holders => (built /\ att = "handle") \/ owned
  /\ \A c \in Closers : c \in holders => closer[c] \in Shutting \/ forked
  /\ \A p \in Producers : p \in holders => pub[p] = "db" \/ forked

Bystander == {"idle", "already", "forked"}

\* One caller gets the thread, and who was told Ok has seen it end.
OneTakes ==
  \A c \in Closers :
    /\ closer[c] \notin Bystander =>
         /\ ~owned /\ att = "done"
         /\ \A d \in Closers : d # c => closer[d] \in Bystander
    /\ closer[c] = "joined" => rt \in {"ended", "absent"}

\* A child has no runtime thread and is in no call that would touch it.
ChildIdle ==
  forked => /\ rt = "absent"
            /\ \A p \in Producers : pub[p] # "db"
            /\ \A c \in Closers : closer[c] \notin Shutting

\* get_latest holds the last value read, or has just skipped to one it can read.
DrainHolds == con = "drain" => cur = read \/ read < pushed

IInv ==
  /\ TypeOK /\ SetsCounted /\ Attaching /\ References /\ OneTakes /\ ChildIdle
  /\ DrainHolds

-----------------------------------------------------------------------------
LEMMA PublishingFinite ==
  IsFiniteSet(Publishing) /\ Cardinality(Publishing) \in Nat
  BY SyncAssumption, FS_Subset, FS_CardinalityType DEF Publishing

\* Nobody starts or ends a publish.
LEMMA CountStays ==
  ASSUME SetsCounted, UNCHANGED <<pub, pushed>>
  PROVE  SetsCounted'
  BY DEF SetsCounted, Publishing

LEMMA DrainStays ==
  ASSUME DrainHolds, UNCHANGED <<read, pushed, cur>>, con' # "drain" \/ con' = con
  PROVE  DrainHolds'
  BY DEF DrainHolds

\* The thread starts, or fails to.
LEMMA RtStartKeeps ==
  ASSUME IInv, RtStart
  PROVE  IInv'
<1> USE SyncAssumption DEF IInv, Shutting, RtStart, startVars, callVars, endVars
<1>1. TypeOK'
  BY DEF TypeOK, Holders, Finished
<1>2. SetsCounted'
  BY CountStays
<1>3. Attaching'
  BY DEF Attaching, TypeOK
<1>4. References'
  BY DEF References, Attaching, TypeOK
<1>5. OneTakes'
  BY DEF OneTakes, Attaching, Bystander, TypeOK
<1>6. ChildIdle'
  BY DEF ChildIdle, Attaching, TypeOK
<1>7. DrainHolds'
  BY DrainStays
<1> QED BY <1>1, <1>2, <1>3, <1>4, <1>5, <1>6, <1>7

\* The database is built on the thread: the first two references.
LEMMA RtBuildKeeps ==
  ASSUME IInv, RtBuild
  PROVE  IInv'
<1> USE SyncAssumption DEF IInv, Shutting, RtBuild, startVars, callVars, endVars
<1>1. TypeOK'
  <2>1. holders' \subseteq Holders
    BY DEF TypeOK, Holders
  <2>2. /\ outside' \in BOOLEAN /\ signal' \in BOOLEAN /\ handle' \in BOOLEAN /\ owned' \in BOOLEAN
        /\ closed' \in BOOLEAN
    BY DEF TypeOK
  <2> QED BY <2>1, <2>2 DEF TypeOK, Finished
<1>2. SetsCounted'
  BY CountStays
<1>3. Attaching'
  BY DEF Attaching, TypeOK
<1>4. References'
  BY DEF References, Attaching, TypeOK
<1>5. OneTakes'
  BY DEF OneTakes, Attaching, Bystander, TypeOK
<1>6. ChildIdle'
  BY DEF ChildIdle, Attaching, TypeOK
<1>7. DrainHolds'
  BY DrainStays
<1> QED BY <1>1, <1>2, <1>3, <1>4, <1>5, <1>6, <1>7

\* The attaching caller gets the runtime handle.
LEMMA RecvHandleKeeps ==
  ASSUME IInv, RecvHandle
  PROVE  IInv'
<1> USE SyncAssumption DEF IInv, Shutting, RecvHandle, Assembled, Failed, startVars, callVars, endVars
<1>1. TypeOK'
  <2>1. holders' \subseteq Holders
    BY DEF TypeOK, Holders
  <2>2. /\ outside' \in BOOLEAN /\ signal' \in BOOLEAN /\ handle' \in BOOLEAN /\ owned' \in BOOLEAN
        /\ closed' \in BOOLEAN
    BY DEF TypeOK
  <2> QED BY <2>1, <2>2 DEF TypeOK, Finished
<1>2. SetsCounted'
  BY CountStays
<1>3. Attaching'
  BY DEF Attaching, TypeOK
<1>4. References'
  BY DEF References, Attaching, TypeOK
<1>5. OneTakes'
  BY DEF OneTakes, Attaching, Bystander, TypeOK
<1>6. ChildIdle'
  BY DEF ChildIdle, Attaching, TypeOK
<1>7. DrainHolds'
  BY DrainStays
<1> QED BY <1>1, <1>2, <1>3, <1>4, <1>5, <1>6, <1>7

\* The attaching caller gets the database.
LEMMA RecvDbKeeps ==
  ASSUME IInv, RecvDb
  PROVE  IInv'
<1> USE SyncAssumption DEF IInv, Shutting, RecvDb, Assembled, Failed, startVars, callVars, endVars
<1>1. TypeOK'
  <2>1. holders' \subseteq Holders
    BY DEF TypeOK, Holders
  <2>2. /\ outside' \in BOOLEAN /\ signal' \in BOOLEAN /\ handle' \in BOOLEAN /\ owned' \in BOOLEAN
        /\ closed' \in BOOLEAN
    BY DEF TypeOK
  <2> QED BY <2>1, <2>2 DEF TypeOK, Finished
<1>2. SetsCounted'
  BY CountStays
<1>3. Attaching'
  BY DEF Attaching, TypeOK
<1>4. References'
  BY DEF References, Attaching, TypeOK
<1>5. OneTakes'
  BY DEF OneTakes, Attaching, Bystander, TypeOK
<1>6. ChildIdle'
  BY DEF ChildIdle, Attaching, TypeOK
<1>7. DrainHolds'
  BY DrainStays
<1> QED BY <1>1, <1>2, <1>3, <1>4, <1>5, <1>6, <1>7

\* The runner ends early.
LEMMA RunnerDoneKeeps ==
  ASSUME IInv, RunnerDone
  PROVE  IInv'
<1> USE SyncAssumption DEF IInv, Shutting, RunnerDone, startVars, callVars, endVars
<1>1. TypeOK'
  BY DEF TypeOK, Holders, Finished
<1>2. SetsCounted'
  BY CountStays
<1>3. Attaching'
  BY DEF Attaching, TypeOK
<1>4. References'
  BY DEF References, Attaching, TypeOK
<1>5. OneTakes'
  BY DEF OneTakes, Attaching, Bystander, TypeOK
<1>6. ChildIdle'
  BY DEF ChildIdle, Attaching, TypeOK
<1>7. DrainHolds'
  BY DrainStays
<1> QED BY <1>1, <1>2, <1>3, <1>4, <1>5, <1>6, <1>7

\* The thread lets go of its reference.
LEMMA RtStopKeeps ==
  ASSUME IInv, RtStop
  PROVE  IInv'
<1> USE SyncAssumption DEF IInv, Shutting, RtStop, startVars, callVars, endVars
<1>1. TypeOK'
  BY DEF TypeOK, Holders, Finished
<1>2. SetsCounted'
  BY CountStays
<1>3. Attaching'
  BY DEF Attaching, TypeOK
<1>4. References'
  BY DEF References, Attaching, TypeOK
<1>5. OneTakes'
  BY DEF OneTakes, Attaching, Bystander, TypeOK
<1>6. ChildIdle'
  BY DEF ChildIdle, Attaching, TypeOK
<1>7. DrainHolds'
  BY DrainStays
<1> QED BY <1>1, <1>2, <1>3, <1>4, <1>5, <1>6, <1>7

\* A panic unwinds the thread.
LEMMA RtPanicKeeps ==
  ASSUME IInv, RtPanic
  PROVE  IInv'
<1> USE SyncAssumption DEF IInv, Shutting, RtPanic, startVars, callVars, endVars
<1>1. TypeOK'
  BY DEF TypeOK, Holders, Finished
<1>2. SetsCounted'
  BY CountStays
<1>3. Attaching'
  BY DEF Attaching, TypeOK
<1>4. References'
  BY DEF References, Attaching, TypeOK
<1>5. OneTakes'
  BY DEF OneTakes, Attaching, Bystander, TypeOK
<1>6. ChildIdle'
  BY DEF ChildIdle, Attaching, TypeOK
<1>7. DrainHolds'
  BY DrainStays
<1> QED BY <1>1, <1>2, <1>3, <1>4, <1>5, <1>6, <1>7

\* The thread is down.
LEMMA RtEndKeeps ==
  ASSUME IInv, RtEnd
  PROVE  IInv'
<1> USE SyncAssumption DEF IInv, Shutting, RtEnd, startVars, callVars, endVars
<1>1. TypeOK'
  BY DEF TypeOK, Holders, Finished
<1>2. SetsCounted'
  BY CountStays
<1>3. Attaching'
  BY DEF Attaching, TypeOK
<1>4. References'
  BY DEF References, Attaching, TypeOK
<1>5. OneTakes'
  BY DEF OneTakes, Attaching, Bystander, TypeOK
<1>6. ChildIdle'
  BY DEF ChildIdle, Attaching, TypeOK
<1>7. DrainHolds'
  BY DrainStays
<1> QED BY <1>1, <1>2, <1>3, <1>4, <1>5, <1>6, <1>7

\* Drop for AimDbHandle.
LEMMA DropHandleKeeps ==
  ASSUME IInv, DropHandle
  PROVE  IInv'
<1> USE SyncAssumption DEF IInv, Shutting, DropHandle, startVars, callVars, endVars
<1>1. TypeOK'
  <2>1. holders' \subseteq Holders
    BY DEF TypeOK
  <2>2. /\ signal' \in BOOLEAN /\ handle' \in BOOLEAN /\ owned' \in BOOLEAN
        /\ closed' \in BOOLEAN
    OBVIOUS
  <2>3. outside' \in BOOLEAN
    BY DEF TypeOK
  <2> QED BY <2>1, <2>2, <2>3 DEF TypeOK
<1>2. SetsCounted'
  BY CountStays
<1>3. Attaching'
  BY DEF Attaching, TypeOK
<1>4. References'
  BY DEF References, Attaching, TypeOK
<1>5. OneTakes'
  BY DEF OneTakes, Attaching, Bystander, TypeOK
<1>6. ChildIdle'
  BY DEF ChildIdle, Attaching, TypeOK
<1>7. DrainHolds'
  BY DrainStays
<1> QED BY <1>1, <1>2, <1>3, <1>4, <1>5, <1>6, <1>7

\* The state becomes the child's.
LEMMA ForkKeeps ==
  ASSUME IInv, Fork
  PROVE  IInv'
<1> USE SyncAssumption DEF IInv, Shutting, Fork, startVars
<1>1. TypeOK'
  <2>1. closer' \in [Closers -> {"idle", "gone"} \cup Shutting \cup Finished]
    BY DEF TypeOK
  <2>2. pub' \in [Producers -> {"idle", "db", "shutdown", "forked", "gone"}]
    BY DEF TypeOK
  <2>3. con' \in {"none", "idle", "get", "timed", "catch", "drain", "shutdown",
                  "timeout", "forked", "gone"}
    BY DEF TypeOK
  <2>4. forked' \in BOOLEAN
    OBVIOUS
  <2> QED BY <2>1, <2>2, <2>3, <2>4 DEF TypeOK
<1>2. SetsCounted'
  <2>1. Publishing' = {}
    BY DEF Publishing, TypeOK
  <2>2. Cardinality(Publishing') = 0
    BY <2>1, FS_EmptySet
  <2>3. pushed' \in 0 .. MaxSet
    BY DEF TypeOK
  <2> QED BY <2>2, <2>3 DEF SetsCounted
<1>3. Attaching'
  BY DEF Attaching, TypeOK
<1>4. References'
  BY DEF References, Attaching, TypeOK
<1>5. OneTakes'
  BY DEF OneTakes, Attaching, Bystander, TypeOK
<1>6. ChildIdle'
  BY DEF ChildIdle, TypeOK
<1>7. DrainHolds'
  BY DrainStays
<1> QED BY <1>1, <1>2, <1>3, <1>4, <1>5, <1>6, <1>7

\* Somebody publishes beside the handle.
LEMMA PublishBesideKeeps ==
  ASSUME IInv, PublishBeside
  PROVE  IInv'
<1> USE SyncAssumption DEF IInv, Shutting, PublishBeside, startVars, endVars
<1>1. pushed \in Nat /\ pushed + 1 + Cardinality(Publishing) <= MaxSet
  BY PublishingFinite DEF Allowed, Publishing, TypeOK
<1>2. TypeOK'
  <2>1. pushed + 1 \in 0 .. MaxSet /\ read \in 0 .. pushed + 1 /\ cur \in 0 .. pushed + 1
    BY <1>1, PublishingFinite DEF TypeOK
  <2> QED BY <2>1 DEF TypeOK
<1>3. SetsCounted'
  <2>1. Publishing' = Publishing
    BY DEF Publishing
  <2> QED BY <1>1, <2>1 DEF SetsCounted
<1>4. Attaching' /\ References' /\ OneTakes' /\ ChildIdle'
  BY DEF Attaching, References, OneTakes, ChildIdle
<1>5. DrainHolds'
  BY <1>1 DEF DrainHolds, TypeOK
<1> QED BY <1>2, <1>3, <1>4, <1>5

\* The application's last reference is dropped.
LEMMA LetGoKeeps ==
  ASSUME IInv, LetGo
  PROVE  IInv'
<1> USE DEF IInv, LetGo, callVars, endVars
<1>1. TypeOK'
  <2>1. outside' \in BOOLEAN
    OBVIOUS
  <2> QED BY <2>1 DEF TypeOK
<1>2. SetsCounted'
  BY CountStays
<1>3. Attaching' /\ References' /\ OneTakes' /\ ChildIdle'
  BY DEF Attaching, References, OneTakes, ChildIdle
<1>4. DrainHolds'
  BY DrainStays
<1> QED BY <1>1, <1>2, <1>3, <1>4

\* One caller takes the thread.
LEMMA TakeKeeps ==
  ASSUME IInv, NEW c \in Closers, Take(c)
  PROVE  IInv'
<1> USE SyncAssumption DEF IInv, Shutting, Take, startVars, callVars, endVars
<1>1. TypeOK'
  <2>1. holders' \subseteq Holders
    BY DEF TypeOK, Holders
  <2>2. /\ outside' \in BOOLEAN /\ signal' \in BOOLEAN /\ handle' \in BOOLEAN /\ owned' \in BOOLEAN
        /\ closed' \in BOOLEAN
    BY DEF TypeOK
  <2> QED BY <2>1, <2>2 DEF TypeOK, Finished
<1>2. SetsCounted'
  BY CountStays
<1>3. Attaching'
  BY DEF Attaching, TypeOK
<1>4. References'
  BY DEF References, Attaching, TypeOK
<1>5. OneTakes'
  BY DEF OneTakes, Attaching, Bystander, TypeOK
<1>6. ChildIdle'
  BY DEF ChildIdle, Attaching, TypeOK
<1>7. DrainHolds'
  BY DrainStays
<1> QED BY <1>1, <1>2, <1>3, <1>4, <1>5, <1>6, <1>7

\* The signal is sent.
LEMMA SignalKeeps ==
  ASSUME IInv, NEW c \in Closers, Signal(c)
  PROVE  IInv'
<1> USE SyncAssumption DEF IInv, Shutting, Signal, startVars, callVars, endVars
<1>1. TypeOK'
  BY DEF TypeOK, Holders, Finished
<1>2. SetsCounted'
  BY CountStays
<1>3. Attaching'
  BY DEF Attaching, TypeOK
<1>4. References'
  BY DEF References, Attaching, TypeOK
<1>5. OneTakes'
  BY DEF OneTakes, Attaching, Bystander, TypeOK
<1>6. ChildIdle'
  BY DEF ChildIdle, Attaching, TypeOK
<1>7. DrainHolds'
  BY DrainStays
<1> QED BY <1>1, <1>2, <1>3, <1>4, <1>5, <1>6, <1>7

\* The bounded wait.
LEMMA AwaitKeeps ==
  ASSUME IInv, NEW c \in Closers, Await(c)
  PROVE  IInv'
<1> USE SyncAssumption DEF IInv, Shutting, Await, startVars, callVars, endVars
<1>1. TypeOK'
  <2>1. holders' \subseteq Holders
    BY DEF TypeOK, Holders
  <2>2. /\ outside' \in BOOLEAN /\ signal' \in BOOLEAN /\ handle' \in BOOLEAN /\ owned' \in BOOLEAN
        /\ closed' \in BOOLEAN
    BY DEF TypeOK
  <2> QED BY <2>1, <2>2 DEF TypeOK, Finished
<1>2. SetsCounted'
  BY CountStays
<1>3. Attaching'
  BY DEF Attaching, TypeOK
<1>4. References'
  BY DEF References, Attaching, TypeOK
<1>5. OneTakes'
  BY DEF OneTakes, Attaching, Bystander, TypeOK
<1>6. ChildIdle'
  BY DEF ChildIdle, Attaching, TypeOK
<1>7. DrainHolds'
  BY DrainStays
<1> QED BY <1>1, <1>2, <1>3, <1>4, <1>5, <1>6, <1>7

\* The thread has ended.
LEMMA JoinKeeps ==
  ASSUME IInv, NEW c \in Closers, Join(c)
  PROVE  IInv'
<1> USE SyncAssumption DEF IInv, Shutting, Join, startVars, callVars, endVars
<1>1. TypeOK'
  <2>1. holders' \subseteq Holders
    BY DEF TypeOK, Holders
  <2>2. /\ outside' \in BOOLEAN /\ signal' \in BOOLEAN /\ handle' \in BOOLEAN /\ owned' \in BOOLEAN
        /\ closed' \in BOOLEAN
    BY DEF TypeOK
  <2> QED BY <2>1, <2>2 DEF TypeOK, Finished
<1>2. SetsCounted'
  BY CountStays
<1>3. Attaching'
  BY DEF Attaching, TypeOK
<1>4. References'
  BY DEF References, Attaching, TypeOK
<1>5. OneTakes'
  BY DEF OneTakes, Attaching, Bystander, TypeOK
<1>6. ChildIdle'
  BY DEF ChildIdle, Attaching, TypeOK
<1>7. DrainHolds'
  BY DrainStays
<1> QED BY <1>1, <1>2, <1>3, <1>4, <1>5, <1>6, <1>7

\* A publish begins: it needs somebody who holds a reference.
LEMMA UpgradeKeeps ==
  ASSUME IInv, NEW p \in Producers, Upgrade(p)
  PROVE  IInv'
<1> USE SyncAssumption DEF IInv, Shutting, Upgrade, startVars, callVars, endVars
<1>1. TypeOK'
  <2>1. holders' \subseteq Holders
    BY DEF TypeOK, Holders
  <2>2. /\ outside' \in BOOLEAN /\ signal' \in BOOLEAN /\ handle' \in BOOLEAN /\ owned' \in BOOLEAN
        /\ closed' \in BOOLEAN
    BY DEF TypeOK
  <2> QED BY <2>1, <2>2 DEF TypeOK, Finished
<1>2. SetsCounted'
  <2>1. CASE pub' = [pub EXCEPT ![p] = "db"]
    <3>1. Publishing' = Publishing \cup {p} /\ p \notin Publishing
      BY <2>1 DEF Publishing, TypeOK
    <3>2. Cardinality(Publishing') = Cardinality(Publishing) + 1
      BY <3>1, PublishingFinite, FS_AddElement
    <3>3. pushed + Cardinality(Publishing) < MaxSet /\ pushed' = pushed /\ pushed \in Nat
      BY DEF Allowed, Publishing, TypeOK
    <3> QED BY <3>2, <3>3, PublishingFinite DEF SetsCounted
  <2>2. CASE pub' # [pub EXCEPT ![p] = "db"]
    <3>1. Publishing' = Publishing
      BY <2>2 DEF Publishing, TypeOK
    <3> QED BY <3>1 DEF SetsCounted
  <2> QED BY <2>1, <2>2
<1>3. Attaching'
  BY DEF Attaching, TypeOK
<1>4. References'
  BY DEF References, Attaching, TypeOK
<1>5. OneTakes'
  BY DEF OneTakes, Attaching, Bystander, TypeOK
<1>6. ChildIdle'
  BY DEF ChildIdle, Attaching, TypeOK
<1>7. DrainHolds'
  BY DrainStays
<1> QED BY <1>1, <1>2, <1>3, <1>4, <1>5, <1>6, <1>7

\* A publish ends.
LEMMA ProduceKeeps ==
  ASSUME IInv, NEW p \in Producers, Produce(p)
  PROVE  IInv'
<1> USE SyncAssumption DEF IInv, Shutting, Produce, startVars, callVars, endVars
<1>1. TypeOK'
  <2>1. p \in Publishing
    BY DEF Publishing
  <2>2. Cardinality(Publishing) # 0
    BY <2>1, PublishingFinite, FS_EmptySet
  <2>3. pushed \in Nat /\ pushed + 1 \in 0 .. MaxSet /\ read \in 0 .. pushed + 1
        /\ cur \in 0 .. pushed + 1
    BY <2>2, PublishingFinite DEF TypeOK, SetsCounted
  <2>4. holders' \subseteq Holders
    BY DEF TypeOK
  <2> QED BY <2>3, <2>4 DEF TypeOK
<1>2. SetsCounted'
  <2>1. p \in Publishing /\ Publishing' = Publishing \ {p}
    BY DEF Publishing, TypeOK
  <2>2. Cardinality(Publishing') = Cardinality(Publishing) - 1
    BY <2>1, PublishingFinite, FS_RemoveElement
  <2>3. pushed \in Nat
    BY DEF TypeOK
  <2> QED BY <2>2, <2>3, PublishingFinite DEF SetsCounted
<1>3. Attaching'
  BY DEF Attaching, TypeOK
<1>4. References'
  BY DEF References, Attaching, TypeOK
<1>5. OneTakes'
  BY DEF OneTakes, Attaching, Bystander, TypeOK
<1>6. ChildIdle'
  BY DEF ChildIdle, Attaching, TypeOK
<1>7. DrainHolds'
  BY DEF DrainHolds, TypeOK
<1> QED BY <1>1, <1>2, <1>3, <1>4, <1>5, <1>6, <1>7

\* The consumer disturbs only its own state.
LEMMA ConsumerKeeps ==
  ASSUME IInv, Call \/ Lagged \/ Got \/ GotClosed \/ TimedOut \/ Drained
  PROVE  IInv'
<1> USE SyncAssumption DEF IInv, Shutting, consumerOnly, startVars, endVars
<1>1. UNCHANGED consumerOnly
  BY DEF Call, Lagged, Got, GotClosed, TimedOut, Drained
<1>2. pushed \in Nat /\ read \in 0 .. pushed /\ Oldest \in 0 .. pushed
      /\ (pushed > 0 => Oldest < pushed)
  BY DEF TypeOK, Oldest
<1>3. read' \in 0 .. pushed /\ cur' \in 0 .. pushed /\ con # "none"
      /\ con' \in {"idle", "get", "timed", "catch", "drain", "shutdown", "timeout", "forked"}
  BY <1>2 DEF TypeOK, Call, Lagged, Got, GotClosed, TimedOut, Drained
<1>4. TypeOK'
  BY <1>1, <1>3 DEF TypeOK
<1>5. SetsCounted'
  BY <1>1, CountStays
<1>6. Attaching'
  BY <1>1, <1>3 DEF Attaching
<1>7. References' /\ OneTakes' /\ ChildIdle'
  BY <1>1 DEF References, OneTakes, ChildIdle
<1>8. DrainHolds'
  BY <1>1, <1>2 DEF DrainHolds, TypeOK, Call, Lagged, Got, GotClosed, TimedOut, Drained
<1> QED BY <1>4, <1>5, <1>6, <1>7, <1>8

LEMMA InitInv ==
  ASSUME Init
  PROVE  IInv
<1> USE SyncAssumption DEF Init
<1>1. TypeOK
  <2>1. holders \subseteq Holders
    BY DEF Holders
  <2>2. 0 \in 0 .. MaxSet /\ read \in 0 .. pushed /\ cur \in 0 .. pushed
    OBVIOUS
  <2>3. /\ built \in BOOLEAN /\ outside \in BOOLEAN /\ signal \in BOOLEAN /\ panicked \in BOOLEAN /\ handle \in BOOLEAN
        /\ owned \in BOOLEAN /\ closed \in BOOLEAN /\ forked \in BOOLEAN
    OBVIOUS
  <2> QED BY <2>1, <2>2, <2>3 DEF TypeOK
<1>2. Publishing = {}
  BY DEF Publishing
<1>3. SetsCounted
  BY <1>2, FS_EmptySet DEF SetsCounted
<1>4. Attaching /\ References /\ OneTakes /\ ChildIdle /\ DrainHolds
  BY DEF Attaching, References, OneTakes, Bystander, ChildIdle, DrainHolds
<1> QED BY <1>1, <1>3, <1>4 DEF IInv

LEMMA StepInv ==
  ASSUME IInv, [Next]_vars
  PROVE  IInv'
<1>1. CASE Next
  BY <1>1, RtStartKeeps, RtBuildKeeps, RecvHandleKeeps, RecvDbKeeps, RunnerDoneKeeps,
    RtStopKeeps, RtPanicKeeps, RtEndKeeps, DropHandleKeeps, ForkKeeps, PublishBesideKeeps,
    LetGoKeeps, TakeKeeps, SignalKeeps, AwaitKeeps, JoinKeeps, UpgradeKeeps, ProduceKeeps, ConsumerKeeps
    DEF Next
<1>2. CASE UNCHANGED vars
  <2> USE <1>2 DEF IInv, vars
  <2>1. TypeOK' BY DEF TypeOK
  <2>2. SetsCounted' BY CountStays
  <2>3. Attaching' /\ References' /\ OneTakes' /\ ChildIdle' /\ DrainHolds'
    BY DEF Attaching, References, OneTakes, ChildIdle, DrainHolds
  <2> QED BY <2>1, <2>2, <2>3
<1> QED BY <1>1, <1>2

-----------------------------------------------------------------------------
\* The invariant, whatever the number of threads.
THEOREM Invariant == Spec => []IInv
<1>1. Init => IInv
  BY InitInv
<1>2. IInv /\ [Next]_vars => IInv'
  BY StepInv
<1> QED BY <1>1, <1>2, PTL DEF Spec

\* A child of fork() never gets a reference to the database to publish with, and
\* no shutdown of its copy of the handle comes to wait for the parent's thread.
THEOREM ChildIsInert == Spec => []ChildTouchesNothing
<1>1. IInv => ChildTouchesNothing
  BY DEF IInv, ChildIdle, ChildTouchesNothing
<1> QED BY <1>1, Invariant, PTL

\* For the caller that joined the thread, Ok means that the thread has ended and
\* that, but for a set that was already on its way, no set of a producer begins
\* any more.  A second caller's Ok may come while the thread still runs.
THEOREM JoinMeansDown == Spec => DownMeansDown
<1> DEFINE Down(c) ==
      closer[c] = "joined" =>
        /\ rt \in {"ended", "absent"}
        /\ (\A p \in Producers : pub[p] # "db") => \A p \in Producers : pub'[p] # "db"
<1>1. IInv /\ [Next]_vars => [\A c \in Closers : Down(c)]_vars
  <2>1. SUFFICES ASSUME IInv, Next, NEW c \in Closers, closer[c] = "joined"
                 PROVE  Down(c)
    OBVIOUS
  <2>2. rt \in {"ended", "absent"} /\ ~owned /\ att = "done"
        /\ \A d \in Closers : d # c => closer[d] \in Bystander
    BY <2>1 DEF IInv, OneTakes, Bystander
  <2>3. SUFFICES ASSUME \A p \in Producers : pub[p] # "db", NEW p \in Producers,
                        pub'[p] = "db"
                 PROVE  FALSE
    BY <2>2
  <2>4. PICK q \in Producers : Upgrade(q) /\ ~forked /\ dbAlive
    BY <2>1, <2>3
       DEF IInv, TypeOK, Next, RtStart, RtBuild, RecvHandle, RecvDb, RunnerDone,
           RtStop, RtPanic,
      RtEnd, DropHandle, Fork, PublishBeside, LetGo, Take, Signal, Await, Join, Upgrade, Produce, Call,
      Lagged, Got, GotClosed, TimedOut, Drained, consumerOnly, callVars, endVars
  <2>5. PICK h \in holders : TRUE
    BY <2>4 DEF dbAlive
  <2>6. h \in Holders
    BY <2>1, <2>5 DEF IInv, TypeOK
  <2>7. \A d \in Closers : closer[d] \notin Shutting
    BY <2>1, <2>2 DEF Bystander, Shutting
  <2> QED
    BY <2>1, <2>2, <2>3, <2>4, <2>5, <2>6, <2>7 DEF IInv, References, Holders
<1> QED BY <1>1, Invariant, PTL DEF Spec, DownMeansDown

\* get_latest returns the newest value there is when it returns, also when a
\* lag made it skip while it drained.
THEOREM LatestReturned == Spec => LatestIsNewest
<1>1. IInv /\ [Next]_vars => [con = "drain" /\ con' \notin {"drain", "gone"} => cur = pushed]_vars
  <2>1. SUFFICES ASSUME IInv, Next, con = "drain", con' \notin {"drain", "gone"}
                 PROVE  cur = pushed
    OBVIOUS
  <2>2. att = "done"
    BY <2>1 DEF IInv, Attaching
  <2>3. Drained
    BY <2>1, <2>2
       DEF Next, RtStart, RtBuild, RecvHandle, RecvDb, RunnerDone, RtStop, RtPanic,
      RtEnd, DropHandle, Fork, PublishBeside, LetGo, Take, Signal, Await, Join, Upgrade, Produce, Call,
      Lagged, Got, GotClosed, TimedOut, consumerOnly, callVars, endVars
  <2> QED
    BY <2>1, <2>3 DEF IInv, DrainHolds, Drained, TypeOK
<1> QED BY <1>1, Invariant, PTL DEF Spec, LatestIsNewest

(***************************************************************************)
(* Induction and recursion over the natural numbers.                       *)
(***************************************************************************)
Below == {p \in Nat \X Nat : p[1] < p[2]}

\* Induction over a set of numbers, from the least number outside it.
LEMMA SetInduction ==
  ASSUME NEW S, 0 \in S, \A n \in Nat : n \in S => n + 1 \in S
  PROVE  \A n \in Nat : n \in S
<1> SUFFICES ASSUME NEW k \in Nat, k \notin S PROVE FALSE
  OBVIOUS
<1> DEFINE T == {n \in Nat : n \notin S}
<1>1. T \subseteq Nat /\ T # {}
  OBVIOUS
<1>2. IsWellFoundedOn(Below, Nat)
  BY NatLessThanWellFounded DEF OpToRel, Below
<1> HIDE DEF T
<1>3. PICK x \in T : \A y \in T : <<y, x>> \notin Below
  BY <1>1, <1>2, WFMin
<1>4. x \in Nat /\ x \notin S
  BY DEF T
<1>5. x # 0 /\ x - 1 \in Nat
  BY <1>4
<1>6. <<x - 1, x>> \in Below
  BY <1>4, <1>5 DEF Below
<1>7. x - 1 \in S
  BY <1>3, <1>5, <1>6 DEF T
<1> QED
  BY <1>4, <1>5, <1>7

\* A function on 0 .. N that starts at x0 and goes on as F says, and that there
\* is one.
IsStep(F, X) == F \in [Nat \X X -> X]
IsRun(g, X, x0, F, N) ==
  g \in [0 .. N -> X] /\ g[0] = x0 /\ \A n \in 1 .. N : g[n] = F[<<n, g[n - 1]>>]

LEMMA RecursionExists ==
  ASSUME NEW X, NEW x0 \in X, NEW F, IsStep(F, X), NEW M \in Nat
  PROVE  \E g : IsRun(g, X, x0, F, M)
<1> USE DEF IsStep
<1> DEFINE Good(N, g) == g[0] = x0 /\ \A n \in 1 .. N : g[n] = F[<<n, g[n - 1]>>]
           S == {N \in Nat : \E g \in [0 .. N -> X] : Good(N, g)}
<1>1. 0 \in S
  <2> DEFINE g == [n \in 0 .. 0 |-> x0]
  <2>1. g \in [0 .. 0 -> X] /\ Good(0, g)
    OBVIOUS
  <2> QED
    BY <2>1
<1>2. ASSUME NEW N \in Nat, N \in S
      PROVE  N + 1 \in S
  <2>1. PICK g \in [0 .. N -> X] : Good(N, g)
    BY <1>2
  <2> DEFINE h == [n \in 0 .. N + 1 |-> IF n = N + 1 THEN F[<<N + 1, g[N]>>] ELSE g[n]]
  <2>2. F[<<N + 1, g[N]>>] \in X
    <3>1. g[N] \in X
      OBVIOUS
    <3>2. <<N + 1, g[N]>> \in Nat \X X
      BY <3>1
    <3> QED
      BY <3>2
  <2>3. h \in [0 .. N + 1 -> X]
    BY <2>2
  <2>4. h[0] = x0
    BY <2>1
  <2>5. ASSUME NEW n \in 1 .. N + 1
        PROVE  h[n] = F[<<n, h[n - 1]>>]
    <3>1. h[n - 1] = g[n - 1]
      OBVIOUS
    <3>2. CASE n = N + 1
      <4>1. n - 1 = N /\ h[n] = F[<<N + 1, g[N]>>]
        BY <3>2
      <4> QED
        BY <3>1, <3>2, <4>1
    <3>3. CASE n # N + 1
      BY <2>1, <3>1, <3>3
    <3> QED
      BY <3>2, <3>3
  <2>6. Good(N + 1, h)
    BY <2>4, <2>5
  <2>7. N + 1 \in Nat
    OBVIOUS
  <2> HIDE DEF h, Good
  <2> QED
    BY <2>3, <2>6, <2>7
<1> HIDE DEF S
<1>3. \A N \in Nat : N \in S
  BY <1>1, <1>2, SetInduction
<1> QED
  BY <1>3 DEF S, IsRun

(***************************************************************************)
(* Sequences without repetition.                                           *)
(***************************************************************************)
Elems(q) == {q[i] : i \in DOMAIN q}
NoTwice(q) == \A i, j \in DOMAIN q : q[i] = q[j] => i = j

LEMMA AppendElems ==
  ASSUME NEW X, NEW q \in Seq(X), NEW x \in X
  PROVE  /\ Append(q, x) \in Seq(X) /\ Elems(Append(q, x)) = Elems(q) \cup {x}
         /\ NoTwice(q) /\ x \notin Elems(q) => NoTwice(Append(q, x))
<1> DEFINE r == Append(q, x)
<1>1. /\ r \in Seq(X) /\ DOMAIN r = 1 .. Len(q) + 1 /\ DOMAIN q = 1 .. Len(q) /\ Len(q) \in Nat
      /\ \A i \in DOMAIN q : r[i] = q[i]
      /\ r[Len(q) + 1] = x
  OBVIOUS
<1> HIDE DEF r
<1>2. \A i \in DOMAIN r : i \in DOMAIN q \/ i = Len(q) + 1
  BY <1>1
<1>3. Len(q) + 1 \in DOMAIN r /\ DOMAIN q \subseteq DOMAIN r /\ Len(q) + 1 \notin DOMAIN q
  BY <1>1
<1>4. Elems(r) = Elems(q) \cup {x}
  BY <1>1, <1>2, <1>3 DEF Elems
<1>5. NoTwice(q) /\ x \notin Elems(q) => NoTwice(r)
  BY <1>1, <1>2, <1>3 DEF Elems, NoTwice
<1> QED
  BY <1>1, <1>4, <1>5 DEF r

LEMMA ConcatElems ==
  ASSUME NEW X, NEW q \in Seq(X), NEW t \in Seq(X)
  PROVE  /\ q \o t \in Seq(X) /\ Elems(q \o t) = Elems(q) \cup Elems(t)
         /\ NoTwice(q) /\ NoTwice(t) /\ Elems(q) \cap Elems(t) = {} => NoTwice(q \o t)
<1> DEFINE r == q \o t
<1>1. /\ r \in Seq(X) /\ DOMAIN r = 1 .. Len(q) + Len(t) /\ DOMAIN q = 1 .. Len(q) /\ Len(q) \in Nat
      /\ DOMAIN t = 1 .. Len(t) /\ Len(t) \in Nat
      /\ \A i \in DOMAIN r : r[i] = IF i <= Len(q) THEN q[i] ELSE t[i - Len(q)]
  OBVIOUS
<1> HIDE DEF r
<1>2. ASSUME NEW i \in DOMAIN r
      PROVE  /\ i \in Nat
             /\ i <= Len(q) => i \in DOMAIN q /\ r[i] = q[i]
             /\ ~(i <= Len(q)) => i - Len(q) \in DOMAIN t /\ r[i] = t[i - Len(q)]
  <2>1. i \in Int /\ 1 <= i /\ i <= Len(q) + Len(t)
    BY <1>1
  <2>2. (i <= Len(q) => i \in 1 .. Len(q)) /\ (~(i <= Len(q)) => i - Len(q) \in 1 .. Len(t))
    BY <1>1, <2>1
  <2> QED
    BY <1>1, <2>1, <2>2
<1>3. /\ \A i \in DOMAIN q : i \in DOMAIN r /\ r[i] = q[i]
      /\ \A i \in DOMAIN t : Len(q) + i \in DOMAIN r /\ r[Len(q) + i] = t[i]
  <2>1. ASSUME NEW i \in DOMAIN q PROVE i \in DOMAIN r /\ r[i] = q[i]
    <3>1. i \in 1 .. Len(q)
      BY <1>1
    <3>2. i \in 1 .. Len(q) + Len(t) /\ i <= Len(q)
      BY <1>1, <3>1
    <3>3. i \in DOMAIN r
      BY <1>1, <3>2
    <3> QED
      BY <1>1, <3>2, <3>3
  <2>2. ASSUME NEW i \in DOMAIN t PROVE Len(q) + i \in DOMAIN r /\ r[Len(q) + i] = t[i]
    <3>1. i \in 1 .. Len(t) /\ Len(q) \in Nat /\ Len(t) \in Nat
      BY <1>1
    <3>2. Len(q) + i \in 1 .. Len(q) + Len(t) /\ ~(Len(q) + i <= Len(q)) /\ (Len(q) + i) - Len(q) = i
      BY <3>1
    <3>3. Len(q) + i \in DOMAIN r
      BY <1>1, <3>2
    <3> QED
      BY <1>1, <3>2, <3>3
  <2> QED
    BY <2>1, <2>2
<1>4. Elems(r) = Elems(q) \cup Elems(t)
  BY <1>2, <1>3 DEF Elems
<1>5. ASSUME NoTwice(q), NoTwice(t), Elems(q) \cap Elems(t) = {}
      PROVE  NoTwice(r)
  <2> SUFFICES ASSUME NEW i \in DOMAIN r, NEW j \in DOMAIN r, r[i] = r[j]
               PROVE  i = j
    BY DEF NoTwice
  <2>1. CASE i <= Len(q) /\ j <= Len(q)
    BY <1>2, <1>5, <2>1 DEF NoTwice
  <2>2. CASE ~(i <= Len(q)) /\ ~(j <= Len(q))
    <3>1. i - Len(q) = j - Len(q)
      BY <1>2, <1>5, <2>2 DEF NoTwice
    <3> QED
      BY <1>1, <1>2, <3>1
  <2>3. CASE i <= Len(q) /\ ~(j <= Len(q))
    BY <1>2, <1>5, <2>3, SMTT(30) DEF Elems
  <2>4. CASE ~(i <= Len(q)) /\ j <= Len(q)
    BY <1>2, <1>5, <2>4 DEF Elems
  <2> QED
    BY <2>1, <2>2, <2>3, <2>4
<1> QED
  BY <1>1, <1>4, <1>5 DEF r

LEMMA TailElems ==
  ASSUME NEW X, NEW q \in Seq(X), q # <<>>
  PROVE  /\ Head(q) \in X /\ Tail(q) \in Seq(X)
         /\ Elems(q) = {Head(q)} \cup Elems(Tail(q))
         /\ NoTwice(q) => NoTwice(Tail(q)) /\ Head(q) \notin Elems(Tail(q))
<1> DEFINE r == Tail(q)
<1>1. /\ Head(q) \in X /\ r \in Seq(X) /\ DOMAIN r = 1 .. Len(q) - 1 /\ DOMAIN q = 1 .. Len(q)
      /\ Len(q) \in Nat \ {0} /\ Head(q) = q[1]
      /\ \A i \in DOMAIN r : r[i] = q[i + 1]
  OBVIOUS
<1> HIDE DEF r
<1>2. \A i \in DOMAIN r : i + 1 \in DOMAIN q /\ i + 1 # 1
  BY <1>1
<1>3. \A i \in DOMAIN q : i = 1 \/ (i - 1 \in DOMAIN r /\ (i - 1) + 1 = i)
  BY <1>1
<1>4. 1 \in DOMAIN q
  BY <1>1
<1>5. Elems(q) = {Head(q)} \cup Elems(r)
  BY <1>1, <1>2, <1>3, <1>4 DEF Elems
<1>6. ASSUME NoTwice(q) PROVE NoTwice(r) /\ Head(q) \notin Elems(r)
  <2>1. Head(q) \notin Elems(r)
    BY <1>1, <1>2, <1>4, <1>6 DEF Elems, NoTwice
  <2>2. NoTwice(r)
    <3> SUFFICES ASSUME NEW i \in DOMAIN r, NEW j \in DOMAIN r, r[i] = r[j]
                 PROVE  i = j
      BY DEF NoTwice
    <3>1. i + 1 = j + 1
      BY <1>1, <1>2, <1>6 DEF NoTwice
    <3> QED
      BY <1>1, <3>1
  <2> QED
    BY <2>1, <2>2
<1> QED
  BY <1>1, <1>5, <1>6 DEF r

\* swap_remove_back takes the element out and keeps the others.
LEMMA SwapElems ==
  ASSUME NEW X, NEW q \in Seq(X), NEW k \in DOMAIN q
  PROVE  LET r == SwapRemoveBack(q, k)
         IN  /\ q[k] \in X /\ r \in Seq(X)
             /\ Elems(q) = {q[k]} \cup Elems(r)
             /\ NoTwice(q) => NoTwice(r) /\ q[k] \notin Elems(r)
<1> DEFINE r == SwapRemoveBack(q, k)
           s == [q EXCEPT ![k] = q[Len(q)]]
<1>1. k \in 1 .. Len(q) /\ Len(q) \in Nat /\ Len(q) > 0 /\ q[Len(q)] \in X /\ q[k] \in X /\ DOMAIN q = 1 .. Len(q)
  OBVIOUS
<1>2. s \in Seq(X) /\ Len(s) = Len(q) /\ \A i \in 1 .. Len(q) : s[i] = IF i = k THEN q[Len(q)] ELSE q[i]
  BY <1>1
<1>3. r = SubSeq(s, 1, Len(q) - 1)
  BY DEF SwapRemoveBack
<1> HIDE DEF s
<1>4. /\ SubSeq(s, 1, Len(q) - 1) \in Seq(X) /\ DOMAIN SubSeq(s, 1, Len(q) - 1) = 1 .. Len(q) - 1
      /\ \A i \in 1 .. Len(q) - 1 : SubSeq(s, 1, Len(q) - 1)[i] = s[i]
  BY <1>1, <1>2
<1>5. /\ r \in Seq(X) /\ DOMAIN r = 1 .. Len(q) - 1
      /\ \A i \in DOMAIN r : r[i] = IF i = k THEN q[Len(q)] ELSE q[i]
  BY <1>1, <1>2, <1>3, <1>4
<1> HIDE DEF r
<1>6. ASSUME NEW i \in DOMAIN r
      PROVE  \E j \in DOMAIN q : r[i] = q[j] /\ j # k /\ (i # k => j = i) /\ (i = k => j = Len(q))
  BY <1>1, <1>5
<1>7. ASSUME NEW j \in DOMAIN q, j # k
      PROVE  \E i \in DOMAIN r : r[i] = q[j]
  <2>1. CASE j = Len(q)
    BY <1>1, <1>5, <1>7, <2>1
  <2>2. CASE j # Len(q)
    BY <1>1, <1>5, <1>7, <2>2
  <2> QED
    BY <2>1, <2>2
<1>8. Elems(q) = {q[k]} \cup Elems(r)
  BY <1>6, <1>7 DEF Elems
<1>9. ASSUME NoTwice(q) PROVE NoTwice(r) /\ q[k] \notin Elems(r)
  <2>1. q[k] \notin Elems(r)
    BY <1>6, <1>9 DEF Elems, NoTwice
  <2>2. NoTwice(r)
    <3> SUFFICES ASSUME NEW i \in DOMAIN r, NEW j \in DOMAIN r, r[i] = r[j]
                 PROVE  i = j
      BY DEF NoTwice
    <3>1. PICK a \in DOMAIN q : r[i] = q[a] /\ (i # k => a = i) /\ (i = k => a = Len(q))
      BY <1>6
    <3>2. PICK b \in DOMAIN q : r[j] = q[b] /\ (j # k => b = j) /\ (j = k => b = Len(q))
      BY <1>6
    <3>3. a = b
      BY <1>9, <3>1, <3>2 DEF NoTwice
    <3> QED
      BY <1>1, <1>5, <3>1, <3>2, <3>3
  <2> QED
    BY <2>1, <2>2
<1> QED
  BY <1>1, <1>5, <1>8, <1>9 DEF r

LEMMA UpTo ==
  ASSUME NEW n \in Nat
  PROVE  IsFiniteSet(1 .. n) /\ Cardinality(1 .. n) = n
<1>1. IsFiniteSet(1 .. n) /\ Cardinality(1 .. n) = IF 1 > n THEN 0 ELSE n - 1 + 1
  BY FS_Interval
<1> QED
  BY <1>1

\* A sequence of N different numbers up to N has them all; a shorter one has not.
LEMMA AllOrNot ==
  ASSUME NEW N \in Nat, NEW q \in Seq(1 .. N), NoTwice(q)
  PROVE  Len(q) = N <=> Elems(q) = 1 .. N
<1>1. IsFiniteSet(1 .. N) /\ Cardinality(1 .. N) = N
  BY UpTo
<1>2. DOMAIN q = 1 .. Len(q) /\ Len(q) \in Nat /\ Elems(q) \subseteq 1 .. N
  BY DEF Elems
<1>3. IsFiniteSet(1 .. Len(q)) /\ Cardinality(1 .. Len(q)) = Len(q)
  BY <1>2, UpTo
<1>4. q \in Bijection(1 .. Len(q), Elems(q))
  BY <1>2 DEF Bijection, Injection, Surjection, IsInjective, Elems, NoTwice
<1>5. IsFiniteSet(Elems(q)) /\ Cardinality(Elems(q)) = Len(q)
  BY <1>3, <1>4, FS_Bijection DEF ExistsBijection
<1>6. Cardinality(Elems(q)) = N => Elems(q) = 1 .. N
  BY <1>1, <1>2, FS_Subset
<1> QED
  BY <1>1, <1>5, <1>6
(***************************************************************************)
(* The dependency graph.                                                   *)
(***************************************************************************)
\* One node per record, in registration order, with inputs among the records.
Numbered(ns) ==
  /\ ns \in Seq([key : Nat, inputs : Seq(Nat)])
  /\ \A i \in DOMAIN ns : ns[i].key = i

Closed(ns) ==
  \A i \in DOMAIN ns : \A j \in DOMAIN ns[i].inputs : ns[i].inputs[j] \in DOMAIN ns

LEMMA NodeOf ==
  ASSUME NEW ns, Numbered(ns), NEW k \in DOMAIN ns
  PROVE  (CHOOSE i \in DOMAIN ns : ns[i].key = k) = k
<1>1. \E i \in DOMAIN ns : ns[i].key = k
  BY DEF Numbered
<1>2. \A i \in DOMAIN ns : ns[i].key = k => i = k
  BY DEF Numbered
<1> QED
  BY <1>1, <1>2

LEMMA KeysAre ==
  ASSUME NEW ns, Numbered(ns)
  PROVE  /\ Len(ns) \in Nat /\ DOMAIN ns = 1 .. Len(ns)
         /\ {ns[i].key : i \in DOMAIN ns} = 1 .. Len(ns)
         /\ \A i \in DOMAIN ns : /\ ns[i].inputs \in Seq(Nat)
                                 /\ Len(ns[i].inputs) \in Nat
                                 /\ DOMAIN ns[i].inputs = 1 .. Len(ns[i].inputs)
<1>1. Len(ns) \in Nat /\ DOMAIN ns = 1 .. Len(ns)
  BY DEF Numbered
<1>2. ASSUME NEW i \in DOMAIN ns
      PROVE  ns[i].inputs \in Seq(Nat)
  <2>1. ns[i] \in [key : Nat, inputs : Seq(Nat)]
    <3> DEFINE Node == [key : Nat, inputs : Seq(Nat)]
    <3>1. ns \in Seq(Node)
      BY DEF Numbered
    <3> HIDE DEF Node
    <3>2. ns[i] \in Node
      BY <1>1, <3>1
    <3> QED
      BY <3>2 DEF Node
  <2> QED
    BY <2>1
<1>3. ASSUME NEW i \in DOMAIN ns
      PROVE  Len(ns[i].inputs) \in Nat /\ DOMAIN ns[i].inputs = 1 .. Len(ns[i].inputs)
  BY <1>2
<1>4. \A i \in DOMAIN ns : ns[i].key = i
  BY DEF Numbered
<1> QED
  BY <1>1, <1>2, <1>3, <1>4

\* InOrder lists a set of keys, each once.
LEMMA InOrderIs ==
  ASSUME NEW ns, Numbered(ns), NEW S \in SUBSET (1 .. Len(ns))
  PROVE  /\ InOrder(ns, S) \in Seq(1 .. Len(ns))
         /\ Elems(InOrder(ns, S)) = S /\ NoTwice(InOrder(ns, S))
<1> DEFINE N == Len(ns)
           X == Seq(1 .. N)
           F == [a \in Nat \X X |-> IF a[1] \in S THEN Append(a[2], a[1]) ELSE a[2]]
           Rec(f) == f = [i \in 0 .. N |-> IF i = 0 THEN <<>>
                                          ELSE IF ns[i].key \in S THEN Append(f[i - 1], ns[i].key)
                                               ELSE f[i - 1]]
<1>0. N \in Nat /\ S \subseteq 1 .. N /\ \A i \in 1 .. N : ns[i].key = i
  BY KeysAre DEF Numbered
<1>1. <<>> \in X
  OBVIOUS
<1>2. IsStep(F, X)
  <2> SUFFICES ASSUME NEW a \in Nat \X X
               PROVE  (IF a[1] \in S THEN Append(a[2], a[1]) ELSE a[2]) \in X
    BY DEF IsStep
  <2>1. a[2] \in Seq(1 .. N)
    OBVIOUS
  <2>2. ASSUME a[1] \in S PROVE Append(a[2], a[1]) \in Seq(1 .. N)
    <3>1. a[1] \in 1 .. N
      BY <1>0, <2>2
    <3> HIDE DEF N
    <3> QED
      BY <2>1, <3>1
  <2> QED
    BY <2>1, <2>2
<1>3. \A n \in 1 .. N, x \in X : F[<<n, x>>] = IF n \in S THEN Append(x, n) ELSE x
  OBVIOUS
<1> HIDE DEF F, N, X
<1>4. PICK g : IsRun(g, X, <<>>, F, N)
  BY <1>0, <1>1, <1>2, RecursionExists
<1>5. /\ g \in [0 .. N -> X] /\ g[0] = <<>>
      /\ \A n \in 1 .. N : g[n] = F[<<n, g[n - 1]>>]
  BY <1>4 DEF IsRun
<1>6. \A n \in 1 .. N : g[n] = IF n \in S THEN Append(g[n - 1], n) ELSE g[n - 1]
  <2> TAKE n \in 1 .. N
  <2>1. n - 1 \in 0 .. N /\ g[n - 1] \in X
    BY <1>0, <1>5
  <2> QED
    BY <1>3, <1>5, <2>1
<1>7. Rec(g)
  <2> SUFFICES g = [i \in 0 .. N |-> IF i = 0 THEN <<>>
                                   ELSE IF ns[i].key \in S THEN Append(g[i - 1], ns[i].key)
                                        ELSE g[i - 1]]
    OBVIOUS
  <2>1. ASSUME NEW i \in 0 .. N
        PROVE  g[i] = IF i = 0 THEN <<>>
                      ELSE IF ns[i].key \in S THEN Append(g[i - 1], ns[i].key) ELSE g[i - 1]
    <3>1. CASE i = 0
      BY <1>5, <3>1
    <3>2. CASE i # 0
      <4>1. i \in 1 .. N
        BY <1>0, <3>2
      <4> QED
        BY <1>0, <1>6, <3>2, <4>1
    <3> QED
      BY <3>1, <3>2
  <2> QED
    BY <1>5, <2>1
<1> DEFINE of == CHOOSE f : Rec(f)
<1>8. Rec(of)
  <2> HIDE DEF Rec
  <2> QED
    BY <1>7
<1>9. InOrder(ns, S) = of[N]
  BY DEF InOrder, N
<1> HIDE DEF of
<1>10. of[0] = <<>> /\ \A n \in 1 .. N : of[n] = IF n \in S THEN Append(of[n - 1], n) ELSE of[n - 1]
  <2>1. ASSUME NEW i \in 0 .. N
        PROVE  of[i] = IF i = 0 THEN <<>>
                       ELSE IF ns[i].key \in S THEN Append(of[i - 1], ns[i].key) ELSE of[i - 1]
    BY <1>8
  <2> HIDE DEF Rec
  <2>2. 0 \in 0 .. N /\ \A n \in 1 .. N : n \in 0 .. N /\ n # 0
    BY <1>0
  <2> QED
    BY <1>0, <2>1, <2>2
<1> DEFINE Good == {n \in Nat : n <= N => /\ of[n] \in X /\ NoTwice(of[n])
                                          /\ Elems(of[n]) = S \cap (1 .. n)}
<1>11. 0 \in Good
  BY <1>1, <1>10 DEF NoTwice, Elems
<1>12. ASSUME NEW n \in Nat, n \in Good PROVE n + 1 \in Good
  <2> SUFFICES ASSUME n + 1 <= N
               PROVE  of[n + 1] \in X /\ NoTwice(of[n + 1]) /\ Elems(of[n + 1]) = S \cap (1 .. n + 1)
    OBVIOUS
  <2>1. of[n] \in X /\ NoTwice(of[n]) /\ Elems(of[n]) = S \cap (1 .. n)
    BY <1>0, <1>12
  <2>2. n + 1 \in 1 .. N /\ (n + 1) - 1 = n /\ n + 1 \notin 1 .. n /\ 1 .. n + 1 = (1 .. n) \cup {n + 1}
    BY <1>0
  <2>3. of[n + 1] = IF n + 1 \in S THEN Append(of[n], n + 1) ELSE of[n]
    BY <1>10, <2>2
  <2>4. CASE n + 1 \in S
    <3>1. /\ Append(of[n], n + 1) \in X /\ NoTwice(Append(of[n], n + 1))
          /\ Elems(Append(of[n], n + 1)) = Elems(of[n]) \cup {n + 1}
      <4>1. n + 1 \in 1 .. N /\ of[n] \in Seq(1 .. N) /\ n + 1 \notin Elems(of[n])
        BY <2>1, <2>2 DEF X
      <4> QED
        BY <2>1, <4>1, AppendElems, ZenonT(30) DEF X
    <3> QED
      BY <2>1, <2>2, <2>3, <2>4, <3>1
  <2>5. CASE n + 1 \notin S
    BY <2>1, <2>2, <2>3, <2>5
  <2> QED
    BY <2>4, <2>5
<1> HIDE DEF Good
<1>13. \A n \in Nat : n \in Good
  BY <1>11, <1>12, SetInduction
<1>14. of[N] \in X /\ NoTwice(of[N]) /\ Elems(of[N]) = S \cap (1 .. N)
  BY <1>0, <1>13 DEF Good
<1> QED
  BY <1>0, <1>9, <1>14 DEF X, N

\* The inputs of a node that have not been placed.
Missing(k) == {i \in DOMAIN nodes[k].inputs : nodes[k].inputs[i] \notin Elems(order)}

\* A record is ready, or placed, when it misses no input; what has been placed
\* was placed behind all its inputs.
Kahn ==
  /\ Numbered(nodes) /\ Closed(nodes)
  /\ order \in Seq(1 .. Len(nodes)) /\ NoTwice(order)
  /\ queue \in Seq(1 .. Len(nodes)) /\ NoTwice(queue)
  /\ Elems(order) \cap Elems(queue) = {}
  /\ DOMAIN degree = 1 .. Len(nodes)
  /\ \A k \in 1 .. Len(nodes) : degree[k] = Cardinality(Missing(k))
  /\ \A k \in 1 .. Len(nodes) : degree[k] = 0 <=> k \in Elems(order) \cup Elems(queue)
  /\ \A j \in DOMAIN order : \A i \in DOMAIN nodes[order[j]].inputs :
       \E m \in 1 .. j - 1 : order[m] = nodes[order[j]].inputs[i]

LEMMA KahnStarts ==
  ASSUME NEW ns, Numbered(ns), ~MissingInput(ns), StartSort(ns)
  PROVE  Kahn'
<1> DEFINE N == Len(ns)
           deg == [k \in {ns[i].key : i \in DOMAIN ns} |->
                     Len(EdgesInto(ns[CHOOSE i \in DOMAIN ns : ns[i].key = k]))]
<1>1. N \in Nat /\ DOMAIN ns = 1 .. N /\ {ns[i].key : i \in DOMAIN ns} = 1 .. N
  BY KeysAre
<1>2. /\ nodes' = ns /\ degree' = deg /\ order' = <<>>
      /\ queue' = InOrder(ns, {k \in DOMAIN deg : deg[k] = 0})
  BY DEF StartSort
<1>3. DOMAIN deg = 1 .. N /\ \A k \in 1 .. N : deg[k] = Len(ns[k].inputs)
  BY <1>1, NodeOf DEF EdgesInto
<1> HIDE DEF deg, N
<1>4. Closed(ns)
  BY KeysAre DEF MissingInput, Closed
<1>5. queue' \in Seq(1 .. N) /\ NoTwice(queue') /\ Elems(queue') = {k \in DOMAIN deg : deg[k] = 0}
  BY <1>2, <1>3, InOrderIs DEF N
<1>6. order' \in Seq(1 .. N) /\ NoTwice(order') /\ Elems(order') = {}
  BY <1>2 DEF NoTwice, Elems
<1>7. ASSUME NEW k \in 1 .. N
      PROVE  degree'[k] = Cardinality(Missing(k)')
  <2>1. ns[k].inputs \in Seq(Nat) /\ Len(ns[k].inputs) \in Nat /\ DOMAIN ns[k].inputs = 1 .. Len(ns[k].inputs)
    BY <1>1, <1>7, KeysAre
  <2>2. Missing(k)' = 1 .. Len(ns[k].inputs)
    BY <1>2, <1>6, <2>1 DEF Missing
  <2> QED
    BY <1>2, <1>3, <2>1, <2>2, UpTo
<1>8. \A j \in DOMAIN order' : FALSE
  BY <1>2
<1> QED
  BY <1>2, <1>3, <1>4, <1>5, <1>6, <1>7, <1>8 DEF Kahn, N

LEMMA KahnPlaces ==
  ASSUME Kahn, NEW key \in Elems(queue), NEW rest \in Seq(1 .. Len(nodes)),
         Elems(queue) = {key} \cup Elems(rest), NoTwice(rest), key \notin Elems(rest),
         Place(key, rest)
  PROVE  Kahn'
<1> DEFINE N == Len(nodes)
           left == [k \in DOMAIN degree |->
                 LET n == nodes[CHOOSE i \in DOMAIN nodes : nodes[i].key = k]
                 IN  degree[k] - EdgesFrom(key, n)]
           fresh == {k \in DOMAIN degree : degree[k] > 0 /\ left[k] = 0}
<1>1. N \in Nat /\ DOMAIN nodes = 1 .. N /\ Numbered(nodes) /\ Closed(nodes) /\ DOMAIN degree = 1 .. N
  BY KeysAre DEF Kahn
<1>2. key \in 1 .. N /\ key \notin Elems(order)
  <2>1. queue \in Seq(1 .. N) /\ key \notin Elems(order)
    BY DEF Kahn, N
  <2>2. PICK i \in DOMAIN queue : key = queue[i]
    BY DEF Elems
  <2> QED
    BY <2>1, <2>2
<1>3. /\ nodes' = nodes /\ order' = Append(order, key) /\ degree' = left
      /\ queue' = rest \o InOrder(nodes, fresh)
  BY DEF Place
<1>4. DOMAIN left = 1 .. N /\ \A k \in 1 .. N : left[k] = degree[k] - EdgesFrom(key, nodes[k])
  BY <1>1, NodeOf
<1> HIDE DEF left, N
<1>5. /\ order' \in Seq(1 .. N) /\ NoTwice(order') /\ Elems(order') = Elems(order) \cup {key}
  BY <1>2, <1>3, AppendElems DEF Kahn, N
<1>6. ASSUME NEW k \in 1 .. N
      PROVE  /\ degree[k] \in Nat /\ left[k] \in Nat /\ left[k] <= degree[k]
             /\ left[k] = Cardinality(Missing(k)')
  <2> DEFINE in == nodes[k].inputs
             from == {i \in DOMAIN in : in[i] = key}
  <2>1. in \in Seq(Nat) /\ Len(in) \in Nat /\ DOMAIN in = 1 .. Len(in)
    BY <1>1, KeysAre
  <2> HIDE DEF in
  <2>2. IsFiniteSet(DOMAIN in)
    BY <2>1, UpTo
  <2>3. Missing(k) = {i \in DOMAIN in : in[i] \notin Elems(order)}
    BY DEF Missing, in
  <2>4. Missing(k)' = {i \in DOMAIN in : in[i] \notin Elems(order) \cup {key}}
    BY <1>3, <1>5 DEF Missing, in
  <2>5. from \subseteq DOMAIN in /\ Missing(k) \subseteq DOMAIN in /\ Missing(k)' \subseteq DOMAIN in
    BY <2>3, <2>4
  <2>6. /\ IsFiniteSet(from) /\ IsFiniteSet(Missing(k)) /\ IsFiniteSet(Missing(k)')
    BY <2>2, <2>5, FS_Subset
  <2>7. Missing(k) = Missing(k)' \cup from /\ Missing(k)' \cap from = {}
    BY <1>2, <2>3, <2>4
  <2> DEFINE c == Cardinality(Missing(k)')
             d == Cardinality(from)
  <2>8. c \in Nat /\ d \in Nat
    BY <2>6, FS_CardinalityType
  <2>9. Cardinality(Missing(k)) = c + d
    <3>1. Cardinality({}) = 0
      BY FS_EmptySet
    <3>2. Cardinality(Missing(k)' \cup from) = c + d - Cardinality(Missing(k)' \cap from)
      BY <2>6, FS_Union
    <3>3. Cardinality(Missing(k)' \cup from) = c + d - 0
      BY <2>7, <3>1, <3>2
    <3> HIDE DEF c, d
    <3> QED
      BY <2>7, <2>8, <3>3
  <2>10. EdgesFrom(key, nodes[k]) = d
    BY DEF EdgesFrom, EdgesInto, in
  <2>11. degree[k] = Cardinality(Missing(k))
    BY DEF Kahn, N
  <2> HIDE DEF c, d
  <2>12. left[k] = degree[k] - d
    BY <1>4, <2>10
  <2>13. degree[k] = c + d /\ left[k] = c
    BY <2>8, <2>9, <2>11, <2>12
  <2> QED
    BY <2>8, <2>13 DEF c
<1>7. fresh \subseteq 1 .. N
  BY <1>1
<1>8. /\ InOrder(nodes, fresh) \in Seq(1 .. N) /\ Elems(InOrder(nodes, fresh)) = fresh
      /\ NoTwice(InOrder(nodes, fresh))
  BY <1>1, <1>7, InOrderIs DEF N
<1>9. \A k \in Elems(rest) \cup Elems(order) : k \in 1 .. N /\ degree[k] = 0
  <2>1. \A k \in Elems(queue) \cup Elems(order) : k \in 1 .. N
    BY DEF Kahn, Elems, N
  <2> QED
    BY <2>1 DEF Kahn, N
<1>10. Elems(rest) \cap fresh = {} /\ Elems(order) \cap fresh = {} /\ key \notin fresh
  <2>1. degree[key] = 0
    BY <1>2 DEF Kahn, N
  <2> QED
    BY <1>9, <2>1
<1>11. /\ queue' \in Seq(1 .. N) /\ NoTwice(queue') /\ Elems(queue') = Elems(rest) \cup fresh
  <2>1. rest \in Seq(1 .. N) /\ Elems(rest) \cap Elems(InOrder(nodes, fresh)) = {} /\ NoTwice(rest)
    BY <1>8, <1>10 DEF N
  <2> DEFINE t == InOrder(nodes, fresh)
  <2>2. t \in Seq(1 .. N) /\ NoTwice(t) /\ Elems(t) = fresh /\ Elems(rest) \cap Elems(t) = {}
    BY <1>8, <2>1
  <2>3. queue' = rest \o t
    BY <1>3
  <2> HIDE DEF t, fresh
  <2>4. rest \o t \in Seq(1 .. N) /\ Elems(rest \o t) = Elems(rest) \cup Elems(t) /\ NoTwice(rest \o t)
    BY <2>1, <2>2, ConcatElems
  <2> QED
    BY <2>2, <2>3, <2>4
<1>12. Elems(order') \cap Elems(queue') = {}
  <2>1. Elems(order) \cap Elems(rest) = {}
    BY DEF Kahn
  <2> QED
    BY <1>5, <1>10, <1>11, <2>1
<1>13. ASSUME NEW k \in 1 .. N
       PROVE  left[k] = 0 <=> k \in Elems(order') \cup Elems(queue')
  <2>1. degree[k] = 0 <=> k \in Elems(order) \cup {key} \cup Elems(rest)
    BY <1>2 DEF Kahn, N
  <2>2. degree[k] = 0 => left[k] = 0
    BY <1>6
  <2>3. left[k] = 0 => degree[k] = 0 \/ k \in fresh
    BY <1>1, <1>6
  <2> QED
    BY <1>5, <1>11, <2>1, <2>2, <2>3
<1>14. ASSUME NEW j \in DOMAIN order', NEW i \in DOMAIN nodes'[order'[j]].inputs
       PROVE  \E m \in 1 .. j - 1 : order'[m] = nodes'[order'[j]].inputs[i]
  <2>0. /\ order \in Seq(1 .. N) /\ Len(order) \in Nat /\ DOMAIN order = 1 .. Len(order)
        /\ DOMAIN order' = 1 .. Len(order) + 1 /\ order'[Len(order) + 1] = key
        /\ \A m \in 1 .. Len(order) : order'[m] = order[m]
    BY <1>2, <1>3, SMTT(30) DEF Kahn, N
  <2>1. CASE j \in DOMAIN order
    <3>1. order'[j] = order[j] /\ nodes' = nodes
      BY <1>3, <2>0, <2>1
    <3>2. PICK m \in 1 .. j - 1 : order[m] = nodes[order[j]].inputs[i]
      BY <2>1, <3>1 DEF Kahn
    <3>3. m \in 1 .. Len(order)
      BY <2>0, <2>1
    <3> QED
      BY <2>0, <3>1, <3>2, <3>3
  <2>2. CASE j = Len(order) + 1
    <3>1. order'[j] = key /\ nodes' = nodes
      BY <1>3, <2>0, <2>2
    <3> DEFINE in == nodes[key].inputs
    <3>2. degree[key] = 0 /\ degree[key] = Cardinality(Missing(key))
      BY <1>2 DEF Kahn, N
    <3>3. IsFiniteSet(Missing(key))
      <4>1. in \in Seq(Nat) /\ Len(in) \in Nat /\ DOMAIN in = 1 .. Len(in)
        BY <1>1, <1>2, KeysAre
      <4>2. Missing(key) \subseteq 1 .. Len(in)
        BY <4>1 DEF Missing
      <4> QED
        BY <4>1, <4>2, UpTo, FS_Subset
    <3>4. Missing(key) = {}
      BY <3>2, <3>3, FS_EmptySet
    <3>5. in[i] \in Elems(order)
      BY <3>1, <3>4 DEF Missing
    <3>6. PICK m \in DOMAIN order : order[m] = in[i]
      BY <3>5 DEF Elems
    <3>7. m \in 1 .. j - 1 /\ order'[m] = order[m]
      BY <2>0, <2>2
    <3> QED
      BY <3>1, <3>6, <3>7
  <2>3. j \in DOMAIN order \/ j = Len(order) + 1
    BY <2>0
  <2> QED
    BY <2>1, <2>2, <2>3
<1>15. \A k \in 1 .. N : degree'[k] = Cardinality(Missing(k)')
  BY <1>3, <1>6
<1>16. \A k \in 1 .. N : degree'[k] = 0 <=> k \in Elems(order') \cup Elems(queue')
  BY <1>3, <1>13
<1>17. Numbered(nodes') /\ Closed(nodes') /\ DOMAIN degree' = 1 .. N /\ Len(nodes') = N
  BY <1>1, <1>3, <1>4 DEF N
<1> QED
  BY <1>5, <1>11, <1>12, <1>14, <1>15, <1>16, <1>17 DEF Kahn

(***************************************************************************)
(* The builder: the shape of its state.                                    *)
(***************************************************************************)
Phases == {"configuring", "sorting", "collecting", "connecting", "running", "failed"}

AtMostOne(S) == \A d, e \in S : d = e

\* All key tables of a record have the same capacity.
OneCapacity(r) ==
  \A i, j \in DOMAIN r.inbound : r.inbound[i] = 0 \/ r.inbound[j] = 0 \/ r.inbound[i] = r.inbound[j]

Shapes ==
  /\ phase \in Phases
  /\ connectors \in Seq(BOOLEAN)
  /\ records \in Seq(Keys) /\ \A i \in DOMAIN records : records[i] = i
  /\ rec \in Seq(TypedRecord) /\ Len(rec) = Len(records)
  /\ \A k \in DOMAIN rec : AtMostOne(rec[k].transform) /\ OneCapacity(rec[k])
  /\ spawn \subseteq DOMAIN rec
  /\ phase \in {"configuring", "sorting"} => spawn = DOMAIN rec /\ tasks = <<>>

LEMMA ShapesGive ==
  ASSUME Shapes
  PROVE  /\ Len(rec) \in Nat /\ DOMAIN rec = 1 .. Len(rec) /\ DOMAIN records = DOMAIN rec
         /\ Registered = DOMAIN rec /\ DOMAIN rec \subseteq Keys
         /\ \A k \in DOMAIN rec : rec[k] \in TypedRecord /\ records[k] = k
<1>1. /\ records \in Seq(Keys) /\ rec \in Seq(TypedRecord) /\ Len(rec) = Len(records)
      /\ \A i \in DOMAIN records : records[i] = i
  BY DEF Shapes
<1> HIDE DEF Shapes
<1>2. Len(rec) \in Nat /\ DOMAIN rec = 1 .. Len(rec) /\ DOMAIN records = 1 .. Len(rec)
  BY <1>1
<1>3. \A k \in DOMAIN rec : rec[k] \in TypedRecord
  BY <1>1
<1>4. \A k \in DOMAIN records : records[k] \in Keys
  BY <1>1
<1> QED
  BY <1>1, <1>2, <1>3, <1>4 DEF Registered

LEMMA Edited ==
  ASSUME NEW r \in TypedRecord
  PROVE  /\ [r EXCEPT !.source = TRUE] \in TypedRecord
         /\ [r EXCEPT !.buffer = TRUE] \in TypedRecord
         /\ [r EXCEPT !.remote = TRUE] \in TypedRecord
         /\ [r EXCEPT !.taps = @ + 1] \in TypedRecord
         /\ [r EXCEPT !.outbound = @ + 1] \in TypedRecord
         /\ \A d \in Descriptors : [r EXCEPT !.transform = {d}] \in TypedRecord
         /\ \A v \in 1 .. 2 : [r EXCEPT !.schema = v] \in TypedRecord
         /\ \A c \in 0 .. 2 : [r EXCEPT !.inbound = Append(@, c)] \in TypedRecord
         /\ Taken(r) \in TypedRecord
<1>1. r.taps + 1 \in Nat /\ r.outbound + 1 \in Nat
  BY DEF TypedRecord
<1>2. \A c \in 0 .. 2 : Append(r.inbound, c) \in Seq(0 .. 2)
  BY DEF TypedRecord
<1>3. \A d \in Descriptors : {d} \in SUBSET Descriptors
  OBVIOUS
<1>4. \A v \in 1 .. 2 : v \in 0 .. 2
  OBVIOUS
<1>5. /\ [r EXCEPT !.source = TRUE] \in TypedRecord
      /\ [r EXCEPT !.buffer = TRUE] \in TypedRecord
      /\ [r EXCEPT !.remote = TRUE] \in TypedRecord
  BY DEF TypedRecord
<1>6. /\ [r EXCEPT !.taps = @ + 1] \in TypedRecord
      /\ [r EXCEPT !.outbound = @ + 1] \in TypedRecord
  BY <1>1 DEF TypedRecord
<1>7. \A d \in Descriptors : [r EXCEPT !.transform = {d}] \in TypedRecord
  BY <1>3 DEF TypedRecord
<1>8. \A v \in 1 .. 2 : [r EXCEPT !.schema = v] \in TypedRecord
  BY <1>4 DEF TypedRecord
<1>9. \A c \in 0 .. 2 : [r EXCEPT !.inbound = Append(@, c)] \in TypedRecord
  BY <1>2 DEF TypedRecord
<1>10. Taken(r) \in TypedRecord
  BY DEF TypedRecord, Taken
<1> QED
  BY <1>5, <1>6, <1>7, <1>8, <1>9, <1>10

LEMMA StageParts ==
  ASSUME NEW st \in Stages
  PROVE  /\ st.kind \in {"source", "tap", "remote", "buffer", "schema", "transform", "inbound", "outbound"}
         /\ st.kind = "transform" => st.of \in Descriptors
         /\ st.kind = "schema" => st.version \in 1 .. 2
         /\ st.kind \in {"inbound", "outbound"} => st.link \in Links
         /\ st.kind = "inbound" /\ st.link.flawed => st.link.capacity = 0
  BY DEF Stages

\* One record is replaced by r.
LEMMA KeepOne ==
  ASSUME Shapes, NEW k \in DOMAIN rec, NEW r \in TypedRecord, Keep(k, r)
  PROVE  /\ rec' \in Seq(TypedRecord) /\ Len(rec') = Len(rec) /\ DOMAIN rec' = DOMAIN rec
         /\ rec'[k] = r /\ \A j \in DOMAIN rec : j # k => rec'[j] = rec[j]
<1>1. rec \in Seq(TypedRecord) /\ rec' = [rec EXCEPT ![k] = r]
  BY DEF Shapes, Keep
<1> QED
  BY <1>1

\* What a closure's call does: one change of its record, or one mistake noted.
LEMMA RegistrarIs ==
  ASSUME Shapes, NEW k \in DOMAIN rec, NEW st \in Stages, Registrar(k, st)
  PROVE  \/ \E what : PushConfigError(k, what)
         \/ \E r \in TypedRecord : /\ Keep(k, r) /\ r.type = rec[k].type
                                   /\ AtMostOne(r.transform) /\ OneCapacity(r)
<1> DEFINE Done == \/ \E what : PushConfigError(k, what)
                   \/ \E r \in TypedRecord : /\ Keep(k, r) /\ r.type = rec[k].type
                                             /\ AtMostOne(r.transform) /\ OneCapacity(r)
<1>1. rec[k] \in TypedRecord /\ AtMostOne(rec[k].transform) /\ OneCapacity(rec[k])
  BY ShapesGive DEF Shapes
<1> DEFINE q == rec[k]
<1>2. ASSUME NEW r \in TypedRecord, r.type = q.type, r.inbound = q.inbound, AtMostOne(r.transform),
             Keep(k, r)
      PROVE  Done
  BY <1>1, <1>2 DEF OneCapacity
<1>3. CASE SetProducer(k)
  <2> DEFINE r == [q EXCEPT !.source = TRUE]
  <2>1. r \in TypedRecord
    BY <1>1, Edited
  <2>2. r.type = q.type /\ r.inbound = q.inbound /\ r.transform = q.transform
    BY <1>1 DEF TypedRecord
  <2>3. Keep(k, r) \/ \E what : PushConfigError(k, what)
    BY <1>3 DEF SetProducer
  <2> HIDE DEF r
  <2> QED
    BY <1>1, <1>2, <2>1, <2>2, <2>3
<1>4. CASE st.kind = "transform" /\ SetTransform(k, st.of)
  <2> DEFINE r == [q EXCEPT !.transform = {st.of}]
  <2>1. r \in TypedRecord
    BY <1>1, <1>4, Edited, StageParts
  <2>2. r.type = q.type /\ r.inbound = q.inbound /\ r.transform = {st.of}
    BY <1>1 DEF TypedRecord
  <2>3. Keep(k, r) \/ \E what : PushConfigError(k, what)
    BY <1>4 DEF SetTransform
  <2>4. AtMostOne(r.transform)
    BY <2>2 DEF AtMostOne
  <2> HIDE DEF r
  <2> QED
    BY <1>2, <2>1, <2>2, <2>3, <2>4
<1>5. CASE st.kind = "schema" /\ SetSchema(k, st.version)
  <2> DEFINE r == [q EXCEPT !.schema = st.version]
  <2>1. r \in TypedRecord
    BY <1>1, <1>5, Edited, StageParts
  <2>2. r.type = q.type /\ r.inbound = q.inbound /\ r.transform = q.transform
    BY <1>1 DEF TypedRecord
  <2>3. Keep(k, r) \/ \E what : PushConfigError(k, what)
    BY <1>5 DEF SetSchema
  <2> HIDE DEF r
  <2> QED
    BY <1>1, <1>2, <2>1, <2>2, <2>3
<1>6. CASE AddConsumer(k)
  <2> DEFINE r == [q EXCEPT !.taps = @ + 1]
  <2>1. r \in TypedRecord
    BY <1>1, Edited
  <2>2. r.type = q.type /\ r.inbound = q.inbound /\ r.transform = q.transform
    BY <1>1 DEF TypedRecord
  <2>3. Keep(k, r)
    BY <1>6 DEF AddConsumer
  <2> HIDE DEF r
  <2> QED
    BY <1>1, <1>2, <2>1, <2>2, <2>3
<1>7. CASE WithRemoteAccess(k)
  <2> DEFINE r == [q EXCEPT !.remote = TRUE]
  <2>1. r \in TypedRecord
    BY <1>1, Edited
  <2>2. r.type = q.type /\ r.inbound = q.inbound /\ r.transform = q.transform
    BY <1>1 DEF TypedRecord
  <2>3. Keep(k, r)
    BY <1>7 DEF WithRemoteAccess
  <2> HIDE DEF r
  <2> QED
    BY <1>1, <1>2, <2>1, <2>2, <2>3
<1>8. CASE SetBuffer(k)
  <2> DEFINE r == [q EXCEPT !.buffer = TRUE]
  <2>1. r \in TypedRecord
    BY <1>1, Edited
  <2>2. r.type = q.type /\ r.inbound = q.inbound /\ r.transform = q.transform
    BY <1>1 DEF TypedRecord
  <2>3. Keep(k, r)
    BY <1>8 DEF SetBuffer
  <2> HIDE DEF r
  <2> QED
    BY <1>1, <1>2, <2>1, <2>2, <2>3
<1>9. CASE PushOutbound(k, st.link)
  <2> DEFINE r == [q EXCEPT !.outbound = @ + 1]
  <2>1. r \in TypedRecord
    BY <1>1, Edited
  <2>2. r.type = q.type /\ r.inbound = q.inbound /\ r.transform = q.transform
    BY <1>1 DEF TypedRecord
  <2>3. Keep(k, r) \/ \E what : PushConfigError(k, what)
    BY <1>9 DEF PushOutbound
  <2> HIDE DEF r
  <2> QED
    BY <1>1, <1>2, <2>1, <2>2, <2>3
<1>10. CASE st.kind = "inbound" /\ PushInbound(k, st.link)
  <2> DEFINE c == st.link.capacity
             r == [q EXCEPT !.inbound = Append(@, c)]
  <2>1. c \in 0 .. 2
    BY <1>10, StageParts DEF Links
  <2>2. r \in TypedRecord
    BY <1>1, <2>1, Edited
  <2>3. r.type = q.type /\ r.inbound = Append(q.inbound, c) /\ r.transform = q.transform
    BY <1>1 DEF TypedRecord
  <2>4. \/ Keep(k, r) /\ SameCapacity(q, st.link)
        \/ \E what : PushConfigError(k, what)
    BY <1>10 DEF PushInbound
  <2>5. ASSUME SameCapacity(q, st.link) PROVE OneCapacity(r)
    <3> DEFINE in == q.inbound
    <3>1. in \in Seq(0 .. 2) /\ Len(in) \in Nat /\ DOMAIN in = 1 .. Len(in)
      BY <1>1 DEF TypedRecord
    <3>2. c = 0 \/ \A i \in DOMAIN in : in[i] \in {0, c}
      BY <2>5 DEF SameCapacity
    <3>3. \A i, j \in DOMAIN in : in[i] = 0 \/ in[j] = 0 \/ in[i] = in[j]
      BY <1>1 DEF OneCapacity
    <3> HIDE DEF in, c
    <3>4. /\ DOMAIN Append(in, c) = 1 .. Len(in) + 1 /\ Append(in, c)[Len(in) + 1] = c
          /\ \A i \in 1 .. Len(in) : Append(in, c)[i] = in[i]
      BY <2>1, <3>1
    <3>5. \A i \in DOMAIN Append(in, c) : i \in DOMAIN in \/ i = Len(in) + 1
      BY <3>1, <3>4
    <3>6. \A i, j \in DOMAIN Append(in, c) :
            Append(in, c)[i] = 0 \/ Append(in, c)[j] = 0 \/ Append(in, c)[i] = Append(in, c)[j]
      BY <3>1, <3>2, <3>3, <3>4, <3>5
    <3> QED
      BY <2>3, <3>6 DEF OneCapacity, in
  <2> HIDE DEF r
  <2> QED
    BY <1>1, <2>2, <2>3, <2>4, <2>5
<1> QED
  BY <1>3, <1>4, <1>5, <1>6, <1>7, <1>8, <1>9, <1>10 DEF Registrar

LEMMA DescriptorParts ==
  ASSUME NEW d \in Descriptors
  PROVE  /\ d.join \in BOOLEAN /\ d.inputs \in Seq(Keys) /\ d.reads \in Types
         /\ Len(d.inputs) \in Nat /\ DOMAIN d.inputs = 1 .. Len(d.inputs)
         /\ \A i \in DOMAIN d.inputs : d.inputs[i] \in Keys
<1>1. \A k \in Keys : <<k>> \in Seq(Keys)
  OBVIOUS
<1>2. JoinInputs \subseteq Seq(Keys)
  <2>0. ASSUME NEW in \in JoinInputs PROVE in = <<>> \/ in \in Keys \X Keys
    BY DEF JoinInputs
  <2>3. <<>> \in Seq(Keys)
    OBVIOUS
  <2> SUFFICES ASSUME NEW in \in Keys \X Keys PROVE in \in Seq(Keys)
    BY <2>0, <2>3
  <2>1. in = <<in[1], in[2]>> /\ in[1] \in Keys /\ in[2] \in Keys
    OBVIOUS
  <2>2. \A a, b \in Keys : <<a, b>> \in Seq(Keys)
    OBVIOUS
  <2> QED
    BY <2>1, <2>2
<1>3. d.join \in BOOLEAN /\ d.inputs \in Seq(Keys) /\ d.reads \in Types
  BY <1>1, <1>2, BuilderAssumption DEF Descriptors
<1> QED
  BY <1>3

LEMMA OriginTyped ==
  ASSUME NEW r \in TypedRecord
  PROVE  OriginInputs(r) \in Seq(Nat)
<1>1. r.transform \subseteq Descriptors
  BY DEF TypedRecord
<1>2. CASE r.transform = {}
  BY <1>2 DEF OriginInputs
<1>3. CASE r.transform # {}
  <2> DEFINE d == CHOOSE d \in r.transform : TRUE
  <2>1. d \in r.transform
    BY <1>3
  <2>2. d.inputs \in Seq(Keys)
    BY <1>1, <2>1, DescriptorParts
  <2>3. ASSUME NEW q \in Seq(Keys) PROVE q \in Seq(Nat)
    <3>1. \A k \in Keys : k \in Nat
      BY BuilderAssumption DEF Keys
    <3>2. Len(q) \in Nat /\ q \in [1 .. Len(q) -> Keys]
      OBVIOUS
    <3>3. q \in [1 .. Len(q) -> Nat]
      BY <3>1, <3>2
    <3> QED
      BY <3>2, <3>3
  <2> QED
    BY <1>3, <2>2, <2>3 DEF OriginInputs
<1> QED
  BY <1>2, <1>3

LEMMA NodesNumbered ==
  ASSUME Shapes
  PROVE  /\ Numbered(GraphNodes) /\ Len(GraphNodes) = Len(rec)
         /\ \A k \in DOMAIN rec : GraphNodes[k].inputs = OriginInputs(rec[k])
<1> DEFINE Node == [key : Nat, inputs : Seq(Nat)]
           n == Len(rec)
<1>1. n \in Nat /\ DOMAIN rec = 1 .. n /\ DOMAIN records = 1 .. n /\ \A k \in 1 .. n : records[k] = k
  BY ShapesGive
<1>2. GraphNodes = [i \in 1 .. n |-> [key |-> i, inputs |-> OriginInputs(rec[i])]]
  BY <1>1 DEF GraphNodes
<1>3. ASSUME NEW i \in 1 .. n
      PROVE  [key |-> i, inputs |-> OriginInputs(rec[i])] \in Node
  <2>1. OriginInputs(rec[i]) \in Seq(Nat)
    BY <1>1, ShapesGive, OriginTyped
  <2> QED
    BY <1>1, <2>1
<1> HIDE DEF n, Node
<1>4. GraphNodes \in Seq(Node) /\ Len(GraphNodes) = n /\ DOMAIN GraphNodes = 1 .. n
  BY <1>1, <1>2, <1>3
<1>5. \A i \in DOMAIN GraphNodes : GraphNodes[i].key = i /\ GraphNodes[i].inputs = OriginInputs(rec[i])
  BY <1>2, <1>4
<1> QED
  BY <1>1, <1>4, <1>5 DEF Numbered, Node, n

(***************************************************************************)
(* The graph along the phases of build().                                  *)
(***************************************************************************)
Accepted == {"collecting", "connecting", "running"}

\* What has not been spawned is the rest of the order.
Graphed ==
  /\ Kahn
  /\ phase = "configuring" => nodes = <<>>
  /\ phase \in {"sorting"} \cup Accepted =>
       /\ Len(nodes) = Len(rec)
       /\ \A k \in spawn : nodes[k].inputs = OriginInputs(rec[k])
  /\ phase \in Accepted =>
       /\ errors = {} /\ Elems(order) = DOMAIN rec
       /\ \A a, b \in DOMAIN order : a < b /\ order[a] \in spawn => order[b] \in spawn

\* The first index of a sequence at which its element is in S.
LEMMA FirstIndex ==
  ASSUME NEW q, NEW n \in Nat, DOMAIN q = 1 .. n, NEW S, Elems(q) \cap S # {}
  PROVE  \E i \in DOMAIN q : q[i] \in S /\ \A j \in 1 .. i - 1 : q[j] \notin S
<1> DEFINE T == {i \in DOMAIN q : q[i] \in S}
<1>1. T \subseteq Nat /\ T # {}
  BY DEF Elems
<1>2. IsWellFoundedOn(Below, Nat)
  BY NatLessThanWellFounded DEF OpToRel, Below
<1> HIDE DEF T
<1>3. PICK x \in T : \A y \in T : <<y, x>> \notin Below
  BY <1>1, <1>2, WFMin
<1>4. x \in DOMAIN q /\ q[x] \in S
  BY DEF T
<1>5. ASSUME NEW j \in 1 .. x - 1 PROVE q[j] \notin S
  <2>1. j \in DOMAIN q /\ j \in Nat /\ x \in Nat /\ j < x
    BY <1>4
  <2>2. <<j, x>> \in Below
    BY <2>1 DEF Below
  <2> QED
    BY <1>3, <2>1, <2>2 DEF T
<1> QED
  BY <1>4, <1>5

LEMMA NextIs ==
  ASSUME Shapes, Graphed, phase = "collecting", spawn # {}
  PROVE  \E a \in DOMAIN order : /\ NextToSpawn = order[a] /\ order[a] \in spawn
                                 /\ \A j \in 1 .. a - 1 : order[j] \notin spawn
<1> DEFINE Is(i) == order[i] \in spawn /\ \A j \in 1 .. i - 1 : order[j] \notin spawn
<1>1. Len(order) \in Nat /\ DOMAIN order = 1 .. Len(order) /\ Elems(order) \cap spawn # {}
  BY DEF Shapes, Graphed, Kahn, Accepted
<1>2. \E i \in DOMAIN order : Is(i)
  BY <1>1, FirstIndex
<1>3. (CHOOSE i \in DOMAIN order : Is(i)) \in DOMAIN order /\ Is(CHOOSE i \in DOMAIN order : Is(i))
  <2> HIDE DEF Is
  <2> QED
    BY <1>2
<1> QED
  BY <1>3 DEF NextToSpawn, FirstWaiting

LEMMA ShapesInit ==
  ASSUME DbInit
  PROVE  Shapes /\ Graphed
<1>1. /\ phase = "configuring" /\ connectors = <<>> /\ records = <<>> /\ rec = <<>>
      /\ spawn = {} /\ tasks = <<>> /\ nodes = <<>> /\ degree = <<>> /\ queue = <<>> /\ order = <<>>
  BY DEF DbInit, BuilderInit, GraphInit
<1>2. Shapes
  BY <1>1 DEF Shapes, Phases
<1>3. /\ <<>> \in Seq([key : Nat, inputs : Seq(Nat)]) /\ <<>> \in Seq(1 .. Len(<<>>))
      /\ DOMAIN <<>> = {} /\ 1 .. Len(<<>>) = {}
  OBVIOUS
<1>4. Kahn
  BY <1>1, <1>3 DEF Kahn, Numbered, Closed, NoTwice, Elems
<1> QED
  BY <1>1, <1>2, <1>4 DEF Graphed, Accepted

LEMMA ShapesConfigure ==
  ASSUME Shapes, Configure
  PROVE  Shapes'
<1>0. /\ phase \in Phases /\ connectors \in Seq(BOOLEAN) /\ spawn \subseteq DOMAIN rec
      /\ records \in Seq(Keys) /\ rec \in Seq(TypedRecord) /\ Len(rec) = Len(records)
      /\ \A k \in DOMAIN rec : AtMostOne(rec[k].transform) /\ OneCapacity(rec[k])
      /\ phase \in {"configuring", "sorting"} => spawn = DOMAIN rec /\ tasks = <<>>
  BY DEF Shapes
<1>1. ASSUME NEW owns \in BOOLEAN, WithConnector(owns) PROVE Shapes'
  <2>1. connectors' \in Seq(BOOLEAN)
    BY <1>0, <1>1 DEF WithConnector
  <2> QED
    BY <1>1, <2>1 DEF WithConnector, Shapes
<1>2. CASE StartOrderSeed
  BY <1>2 DEF StartOrderSeed, Shapes
<1>3. ASSUME NEW t \in Types, NEW b \in BOOLEAN, ConfigureNew(t, b) PROVE Shapes'
  <2> DEFINE k == Len(records) + 1
             r == [NewRecord(t) EXCEPT !.buffer = b]
  <2>1. /\ k \in Keys /\ phase = "configuring" /\ records' = Append(records, k) /\ rec' = Append(rec, r)
        /\ spawn' = spawn \cup {k} /\ UNCHANGED <<phase, connectors, tasks>>
    BY <1>3 DEF ConfigureNew
  <2>2. r \in TypedRecord /\ r.transform = {} /\ r.inbound = <<>>
    <3>1. <<>> \in Seq(0 .. 2)
      OBVIOUS
    <3>2. NewRecord(t) \in TypedRecord
      BY <3>1 DEF NewRecord, TypedRecord
    <3> QED
      BY <3>1, <3>2 DEF NewRecord, TypedRecord
  <2>3. AtMostOne(r.transform) /\ OneCapacity(r)
    BY <2>2 DEF AtMostOne, OneCapacity
  <2>4. Len(records) \in Nat /\ DOMAIN rec = 1 .. Len(records) /\ DOMAIN records = 1 .. Len(records)
    BY <1>0
  <2>5. \A i \in DOMAIN records : records[i] = i
    BY DEF Shapes
  <2> HIDE DEF r
  <2>6. /\ records' \in Seq(Keys) /\ Len(records') = k /\ DOMAIN records' = 1 .. k
        /\ records'[k] = k /\ \A i \in 1 .. Len(records) : records'[i] = records[i]
    BY <1>0, <2>1
  <2>7. /\ rec' \in Seq(TypedRecord) /\ Len(rec') = k /\ DOMAIN rec' = 1 .. k
        /\ rec'[k] = r /\ \A i \in 1 .. Len(records) : rec'[i] = rec[i]
    BY <1>0, <2>1, <2>2
  <2>8. \A i \in 1 .. k : i \in 1 .. Len(records) \/ i = k
    BY <2>4
  <2>9. spawn' = DOMAIN rec'
    BY <1>0, <2>1, <2>4, <2>7
  <2>10. \A i \in DOMAIN records' : records'[i] = i
    BY <2>4, <2>5, <2>6, <2>8
  <2>11. \A i \in DOMAIN rec' : AtMostOne(rec'[i].transform) /\ OneCapacity(rec'[i])
    BY <1>0, <2>3, <2>4, <2>7, <2>8
  <2> QED
    BY <1>0, <2>1, <2>6, <2>7, <2>9, <2>10, <2>11 DEF Shapes
<1>4. ASSUME NEW k \in Registered, ConfigureRetyped(k) PROVE Shapes'
  BY <1>4 DEF ConfigureRetyped, Shapes
<1>5. ASSUME NEW k \in Registered, NEW st \in Stages, Register(k, st) PROVE Shapes'
  <2>1. k \in DOMAIN rec /\ Registrar(k, st) /\ UNCHANGED <<phase, connectors, records, spawn, tasks>>
    BY <1>5, ShapesGive DEF Register
  <2>2. CASE \E what : PushConfigError(k, what)
    BY <2>1, <2>2 DEF PushConfigError, Shapes
  <2>3. ASSUME NEW r \in TypedRecord, Keep(k, r), AtMostOne(r.transform), OneCapacity(r)
        PROVE  Shapes'
    <3>1. /\ rec' \in Seq(TypedRecord) /\ Len(rec') = Len(rec) /\ DOMAIN rec' = DOMAIN rec
          /\ rec'[k] = r /\ \A j \in DOMAIN rec : j # k => rec'[j] = rec[j]
      BY <2>1, <2>3, KeepOne
    <3>2. \A j \in DOMAIN rec' : AtMostOne(rec'[j].transform) /\ OneCapacity(rec'[j])
      BY <1>0, <2>3, <3>1
    <3> QED
      BY <1>0, <2>1, <3>1, <3>2 DEF Shapes
  <2> QED
    BY <2>1, <2>2, <2>3, RegistrarIs
<1> QED
  BY <1>1, <1>2, <1>3, <1>4, <1>5 DEF Configure

\* The producer, the transform and the taps of a spawned record are taken.
LEMMA CollectIs ==
  ASSUME Shapes, Graphed, Collect
  PROVE  LET k == NextToSpawn
         IN  /\ k \in spawn /\ k \in DOMAIN rec
             /\ \/ Fail({[key |-> k, what |-> "tap"]}) /\ UNCHANGED <<rec, spawn>>
                \/ /\ tasks' = tasks \o Futures(k) /\ spawn' = spawn \ {k}
                   /\ rec' \in Seq(TypedRecord) /\ Len(rec') = Len(rec) /\ DOMAIN rec' = DOMAIN rec
                   /\ rec'[k] = Taken(rec[k]) /\ \A j \in DOMAIN rec : j # k => rec'[j] = rec[j]
                   /\ UNCHANGED <<phase, errors>>
<1> DEFINE k == NextToSpawn
<1>1. k \in spawn /\ k \in DOMAIN rec
  <2>1. phase = "collecting" /\ spawn # {} /\ spawn \subseteq DOMAIN rec
    BY DEF Collect, Shapes
  <2> QED
    BY <2>1, NextIs
<1>2. rec[k] \in TypedRecord
  BY <1>1, ShapesGive
<1>3. Taken(rec[k]) \in TypedRecord
  BY <1>2, Edited
<1>4. rec \in Seq(TypedRecord)
  BY DEF Shapes
<1> HIDE DEF k
<1>5. \/ Fail({[key |-> k, what |-> "tap"]}) /\ UNCHANGED <<rec, spawn>>
      \/ /\ tasks' = tasks \o Futures(k) /\ spawn' = spawn \ {k} /\ UNCHANGED <<phase, errors>>
         /\ rec' = [rec EXCEPT ![k] = Taken(rec[k])]
  BY DEF Collect, k
<1>6. ASSUME rec' = [rec EXCEPT ![k] = Taken(rec[k])]
      PROVE  /\ rec' \in Seq(TypedRecord) /\ Len(rec') = Len(rec) /\ DOMAIN rec' = DOMAIN rec
             /\ rec'[k] = Taken(rec[k]) /\ \A j \in DOMAIN rec : j # k => rec'[j] = rec[j]
  BY <1>1, <1>3, <1>4, <1>6
<1> QED
  BY <1>1, <1>5, <1>6 DEF k

LEMMA ShapesBuild ==
  ASSUME Shapes, Graphed, Build
  PROVE  Shapes'
<1>1. CASE Validate
  BY <1>1 DEF Validate, Fail, Shapes, Phases
<1>2. CASE Sort
  BY <1>2 DEF Sort, builderVars, Shapes
<1>3. CASE Conclude
  BY <1>3 DEF Conclude, Fail, Shapes, Phases
<1>4. CASE Collect
  <2> DEFINE k == NextToSpawn
  <2>1. UNCHANGED <<connectors, records>> /\ phase = "collecting"
    BY <1>4 DEF Collect
  <2>2. CASE Fail({[key |-> k, what |-> "tap"]}) /\ UNCHANGED <<rec, spawn>>
    BY <2>1, <2>2 DEF Fail, Shapes, Phases
  <2>3. CASE /\ spawn' = spawn \ {k}
             /\ rec' \in Seq(TypedRecord) /\ Len(rec') = Len(rec) /\ DOMAIN rec' = DOMAIN rec
             /\ rec'[k] = Taken(rec[k]) /\ \A j \in DOMAIN rec : j # k => rec'[j] = rec[j]
             /\ UNCHANGED <<phase, errors>>
    <3>1. /\ rec[k] \in TypedRecord /\ AtMostOne(rec[k].transform) /\ OneCapacity(rec[k])
      BY <1>4, CollectIs, ShapesGive DEF Shapes
    <3>2. Taken(rec[k]).transform = {} /\ Taken(rec[k]).inbound = rec[k].inbound
      BY <3>1 DEF Taken, TypedRecord
    <3>3. AtMostOne(Taken(rec[k]).transform) /\ OneCapacity(Taken(rec[k]))
      BY <3>1, <3>2 DEF AtMostOne, OneCapacity
    <3>4. \A j \in DOMAIN rec' : AtMostOne(rec'[j].transform) /\ OneCapacity(rec'[j])
      BY <2>3, <3>3 DEF Shapes
    <3> HIDE DEF k
    <3> QED
      BY <2>1, <2>3, <3>4 DEF Shapes
  <2> HIDE DEF k
  <2> QED
    BY <1>4, <2>2, <2>3, CollectIs DEF k
<1>5. CASE CheckSchemes
  BY <1>5 DEF CheckSchemes, Fail, Shapes, Phases
<1>6. CASE BuildConnector
  BY <1>6 DEF BuildConnector, Fail, Shapes, Phases
<1>7. CASE Built
  BY <1>7 DEF Built, Shapes, Phases
<1> QED
  BY <1>1, <1>2, <1>3, <1>4, <1>5, <1>6, <1>7 DEF Build

LEMMA KahnSorts ==
  ASSUME Kahn, TakeOldest \/ TakeDrawn
  PROVE  Kahn' /\ nodes' = nodes
<1>0. queue \in Seq(1 .. Len(nodes)) /\ NoTwice(queue)
  BY DEF Kahn
<1>1. CASE TakeOldest
  <2>1. queue # <<>> /\ Place(Head(queue), Tail(queue))
    BY <1>1 DEF TakeOldest
  <2>2. /\ Tail(queue) \in Seq(1 .. Len(nodes)) /\ Elems(queue) = {Head(queue)} \cup Elems(Tail(queue))
        /\ NoTwice(Tail(queue)) /\ Head(queue) \notin Elems(Tail(queue))
    BY <1>0, <2>1, TailElems
  <2>3. Head(queue) \in Elems(queue)
    BY <2>2
  <2>4. Kahn'
    BY <2>1, <2>2, <2>3, KahnPlaces
  <2> QED
    BY <2>1, <2>4 DEF Place
<1>2. CASE TakeDrawn
  <2>1. PICK i \in DOMAIN queue : Place(queue[i], SwapRemoveBack(queue, i))
    BY <1>2 DEF TakeDrawn
  <2> DEFINE r == SwapRemoveBack(queue, i)
  <2>2. /\ r \in Seq(1 .. Len(nodes)) /\ Elems(queue) = {queue[i]} \cup Elems(r)
        /\ NoTwice(r) /\ queue[i] \notin Elems(r)
    BY <1>0, SwapElems
  <2>3. queue[i] \in Elems(queue)
    BY <2>2
  <2> HIDE DEF r
  <2>4. Kahn'
    BY <2>1, <2>2, <2>3, KahnPlaces DEF r
  <2> QED
    BY <2>1, <2>4 DEF Place
<1> QED
  BY <1>1, <1>2

LEMMA KahnKept ==
  ASSUME Kahn, UNCHANGED graphVars
  PROVE  Kahn'
BY DEF graphVars, Kahn, Missing

LEMMA GraphedBuild ==
  ASSUME Shapes, Graphed, Build
  PROVE  Graphed'
<1>1. CASE Validate
  <2>1. phase = "configuring" /\ UNCHANGED <<rec, spawn>> /\ spawn = DOMAIN rec
    BY <1>1 DEF Validate, Shapes
  <2>2. CASE MissingInput(GraphNodes)
    <3>1. phase' = "failed" /\ UNCHANGED graphVars
      BY <1>1, <2>2 DEF Validate, Fail
    <3> QED
      BY <3>1, KahnKept DEF Graphed, Accepted
  <2>3. CASE ~MissingInput(GraphNodes)
    <3>1. phase' = "sorting" /\ StartSort(GraphNodes)
      BY <1>1, <2>3 DEF Validate
    <3>2. nodes' = GraphNodes
      BY <3>1 DEF StartSort
    <3>3. Kahn'
      BY <2>3, <3>1, NodesNumbered, KahnStarts
    <3>4. Len(nodes') = Len(rec') /\ \A k \in spawn' : nodes'[k].inputs = OriginInputs(rec'[k])
      BY <2>1, <3>2, NodesNumbered
    <3> QED
      BY <3>1, <3>3, <3>4 DEF Graphed, Accepted
  <2> QED
    BY <2>2, <2>3
<1>2. CASE Sort
  <2>1. phase = "sorting" /\ UNCHANGED <<phase, rec, spawn>> /\ (TakeOldest \/ TakeDrawn)
    BY <1>2 DEF Sort, builderVars
  <2>2. Kahn' /\ nodes' = nodes
    BY <2>1, KahnSorts DEF Graphed
  <2> QED
    BY <2>1, <2>2 DEF Graphed, Accepted
<1>3. CASE Conclude
  <2>1. /\ phase = "sorting" /\ UNCHANGED <<rec, spawn, nodes, degree, queue, order>>
        /\ \/ phase' = "failed"
           \/ phase' = "collecting" /\ AllPlaced /\ errors = {} /\ errors' = errors
    BY <1>3 DEF Conclude, Fail, graphVars
  <2>2. Kahn'
    BY <2>1, KahnKept DEF Graphed, graphVars
  <2>3. spawn = DOMAIN rec /\ DOMAIN rec = 1 .. Len(rec) /\ Len(rec) \in Nat
    BY <2>1, ShapesGive DEF Shapes
  <2>4. AllPlaced => Elems(order) = DOMAIN rec
    <3>1. order \in Seq(1 .. Len(rec)) /\ NoTwice(order) /\ Len(nodes) = Len(rec)
      BY <2>1 DEF Graphed, Kahn, Accepted
    <3> QED
      BY <2>3, <3>1, AllOrNot DEF AllPlaced
  <2>5. AllPlaced => \A b \in DOMAIN order : order[b] \in spawn
    BY <2>3, <2>4 DEF Elems
  <2>6. /\ Len(nodes') = Len(rec') /\ \A k \in spawn' : nodes'[k].inputs = OriginInputs(rec'[k])
    BY <2>1 DEF Graphed, Accepted
  <2> QED
    BY <2>1, <2>2, <2>4, <2>5, <2>6 DEF Graphed, Accepted
<1>4. CASE Collect
  <2> DEFINE k == NextToSpawn
  <2>1. UNCHANGED graphVars /\ phase = "collecting" /\ spawn # {}
    BY <1>4 DEF Collect
  <2>2. Kahn'
    BY <2>1, KahnKept DEF Graphed
  <2>3. PICK a \in DOMAIN order : /\ k = order[a] /\ order[a] \in spawn
                                  /\ \A j \in 1 .. a - 1 : order[j] \notin spawn
    BY <2>1, NextIs
  <2>4. CASE Fail({[key |-> k, what |-> "tap"]})
    BY <2>2, <2>4 DEF Fail, Graphed, Accepted
  <2>5. CASE /\ spawn' = spawn \ {k} /\ Len(rec') = Len(rec) /\ DOMAIN rec' = DOMAIN rec
             /\ \A j \in DOMAIN rec : j # k => rec'[j] = rec[j]
             /\ UNCHANGED <<phase, errors>>
    <3>1. \A j \in spawn' : rec'[j] = rec[j]
      BY <2>5 DEF Shapes
    <3>2. \A x, y \in DOMAIN order : x < y /\ order[x] \in spawn' => order[y] \in spawn'
      <4> SUFFICES ASSUME NEW x \in DOMAIN order, NEW y \in DOMAIN order, x < y, order[x] \in spawn'
                   PROVE  order[y] \in spawn \ {order[a]}
        BY <2>3, <2>5
      <4>1. order[y] \in spawn
        BY <2>1, <2>5 DEF Graphed, Accepted
      <4>2. Len(order) \in Nat /\ DOMAIN order = 1 .. Len(order) /\ NoTwice(order)
        BY DEF Graphed, Kahn
      <4>3. ~(x < a)
        BY <2>3, <2>5, <4>2
      <4>4. y # a
        BY <4>2, <4>3
      <4> QED
        BY <4>1, <4>2, <4>4 DEF NoTwice
    <3>3. UNCHANGED <<nodes, order>>
      BY <2>1 DEF graphVars
    <3>4. \A j \in spawn' : OriginInputs(rec'[j]) = nodes[j].inputs
      <4> SUFFICES ASSUME NEW j \in spawn' PROVE OriginInputs(rec'[j]) = nodes[j].inputs
        OBVIOUS
      <4>1. rec'[j] = rec[j] /\ j \in spawn
        BY <2>5, <3>1
      <4> QED
        BY <2>1, <4>1 DEF Graphed, Accepted
    <3> HIDE DEF k
    <3> QED
      BY <2>1, <2>2, <2>5, <3>2, <3>3, <3>4 DEF Graphed, Accepted
  <2> HIDE DEF k
  <2> QED
    BY <1>4, <2>4, <2>5, CollectIs DEF k
<1>5. CASE CheckSchemes
  <2>1. /\ phase = "collecting" /\ phase' \in {"failed", "connecting"}
        /\ phase' = "connecting" => errors' = errors
        /\ UNCHANGED <<rec, spawn>> /\ UNCHANGED graphVars
    BY <1>5 DEF CheckSchemes, Fail
  <2> QED
    BY <2>1, KahnKept DEF Graphed, Accepted, graphVars
<1>6. CASE BuildConnector
  <2>1. /\ phase = "connecting" /\ phase' \in {"failed", "connecting"}
        /\ phase' = "connecting" => errors' = errors
        /\ UNCHANGED <<rec, spawn>> /\ UNCHANGED graphVars
    BY <1>6 DEF BuildConnector, Fail
  <2> QED
    BY <2>1, KahnKept DEF Graphed, Accepted, graphVars
<1>7. CASE Built
  <2>1. /\ phase = "connecting" /\ phase' = "running" /\ errors' = errors
        /\ UNCHANGED <<rec, spawn>> /\ UNCHANGED graphVars
    BY <1>7 DEF Built
  <2> QED
    BY <2>1, KahnKept DEF Graphed, Accepted, graphVars
<1> QED
  BY <1>1, <1>2, <1>3, <1>4, <1>5, <1>6, <1>7 DEF Build

LEMMA ShapesStep ==
  ASSUME Shapes, Graphed, [DbNext]_databaseVars
  PROVE  Shapes' /\ Graphed'
<1>1. CASE Configure
  <2>1. UNCHANGED <<phase, graphVars>>
    BY <1>1
       DEF Configure, WithConnector, StartOrderSeed, ConfigureNew, ConfigureRetyped,
           Register
  <2>2. phase = "configuring"
    BY <1>1
       DEF Configure, WithConnector, StartOrderSeed, ConfigureNew, ConfigureRetyped,
           Register
  <2>3. Graphed'
    BY <2>1, <2>2, KahnKept DEF Graphed, Accepted, graphVars
  <2> QED
    BY <1>1, <2>3, ShapesConfigure
<1>2. CASE Build
  BY <1>2, ShapesBuild, GraphedBuild
<1>3. CASE UNCHANGED <<builderVars, graphVars>>
  <2>1. Shapes'
    BY <1>3 DEF Shapes, builderVars
  <2>2. Graphed'
    BY <1>3, KahnKept DEF Graphed, builderVars, graphVars
  <2> QED
    BY <2>1, <2>2
<1> QED
  BY <1>1, <1>2, <1>3 DEF DbNext, BuildStep, WorkStep, databaseVars

(***************************************************************************)
(* The key tables.                                                         *)
(***************************************************************************)
Route == [record : Nat, capacity : 0 .. 2]

\* A route stands for an inbound link of its record.
OfLink(r) == r.record \in DOMAIN rec /\ \E j \in DOMAIN rec[r.record].inbound :
                                          r.capacity = rec[r.record].inbound[j]

LEMMA RoutesAre ==
  ASSUME Shapes
  PROVE  /\ Routes \in Seq(Route) /\ Len(Routes) \in Nat /\ DOMAIN Routes = 1 .. Len(Routes)
         /\ \A i \in DOMAIN Routes : OfLink(Routes[i])
<1> DEFINE N == Len(records)
           R == {r \in Route : OfLink(r)}
           X == Seq(R)
           L(i) == [j \in DOMAIN rec[records[i]].inbound |->
                      [record |-> records[i], capacity |-> rec[records[i]].inbound[j]]]
           F == [a \in Nat \X X |-> IF a[1] \in 1 .. N THEN a[2] \o L(a[1]) ELSE a[2]]
           Rec(f) == f = [i \in 0 .. N |-> IF i = 0 THEN <<>> ELSE f[i - 1] \o L(i)]
<1>0. /\ N \in Nat /\ DOMAIN records = 1 .. N /\ DOMAIN rec = 1 .. N
      /\ \A k \in 1 .. N : k \in Nat /\ rec[k] \in TypedRecord /\ records[k] = k
  BY ShapesGive DEF Shapes, Keys
<1>1. <<>> \in X
  OBVIOUS
<1>2. ASSUME NEW i \in 1 .. N PROVE L(i) \in X
  <2> DEFINE in == rec[i].inbound
  <2>1. in \in Seq(0 .. 2)
    BY <1>0 DEF TypedRecord
  <2>2. records[i] = i /\ i \in Nat /\ i \in DOMAIN rec
    BY <1>0
  <2>3. Len(in) \in Nat /\ DOMAIN in = 1 .. Len(in) /\ \A j \in DOMAIN in : in[j] \in 0 .. 2
    BY <2>1
  <2>4. L(i) = [j \in 1 .. Len(in) |-> [record |-> i, capacity |-> in[j]]]
    BY <2>2, <2>3
  <2>5. ASSUME NEW j \in 1 .. Len(in)
        PROVE  [record |-> i, capacity |-> in[j]] \in R
    <3> DEFINE r == [record |-> i, capacity |-> in[j]]
    <3>1. r \in Route /\ r.record = i /\ r.capacity = in[j]
      BY <2>2, <2>3 DEF Route
    <3>2. OfLink(r)
      BY <2>2, <2>3, <3>1 DEF OfLink
    <3> QED
      BY <3>1, <3>2
  <2> HIDE DEF in, R, L
  <2> QED
    BY <2>3, <2>4, <2>5
<1> HIDE DEF R, L
<1>3. IsStep(F, X)
  <2> SUFFICES ASSUME NEW a \in Nat \X X
               PROVE  (IF a[1] \in 1 .. N THEN a[2] \o L(a[1]) ELSE a[2]) \in X
    BY DEF IsStep
  <2>1. a[2] \in Seq(R)
    OBVIOUS
  <2>2. ASSUME a[1] \in 1 .. N PROVE a[2] \o L(a[1]) \in Seq(R)
    <3>1. L(a[1]) \in Seq(R)
      BY <1>2, <2>2
    <3> QED
      BY <2>1, <3>1
  <2> QED
    BY <2>1, <2>2
<1>4. \A n \in 1 .. N, x \in X : F[<<n, x>>] = x \o L(n)
  BY <1>0
<1> HIDE DEF F, N, X
<1>5. PICK g : IsRun(g, X, <<>>, F, N)
  BY <1>0, <1>1, <1>3, RecursionExists
<1>6. /\ g \in [0 .. N -> X] /\ g[0] = <<>>
      /\ \A n \in 1 .. N : g[n] = F[<<n, g[n - 1]>>]
  BY <1>5 DEF IsRun
<1>7. \A n \in 1 .. N : g[n] = g[n - 1] \o L(n)
  <2> TAKE n \in 1 .. N
  <2>1. n - 1 \in 0 .. N /\ g[n - 1] \in X
    BY <1>0, <1>6
  <2> QED
    BY <1>4, <1>6, <2>1
<1>8. Rec(g)
  <2> SUFFICES g = [i \in 0 .. N |-> IF i = 0 THEN <<>> ELSE g[i - 1] \o L(i)]
    OBVIOUS
  <2>1. ASSUME NEW i \in 0 .. N
        PROVE  g[i] = IF i = 0 THEN <<>> ELSE g[i - 1] \o L(i)
    <3>1. CASE i = 0
      BY <1>6, <3>1
    <3>2. CASE i # 0
      <4>1. i \in 1 .. N
        BY <1>0, <3>2
      <4> QED
        BY <1>7, <3>2, <4>1
    <3> QED
      BY <3>1, <3>2
  <2> QED
    BY <1>6, <2>1
<1> DEFINE of == CHOOSE f : Rec(f)
<1>9. Rec(of)
  <2> HIDE DEF Rec
  <2> QED
    BY <1>8
<1>10. LinksInOrder(records, rec) = of[N]
  BY DEF LinksInOrder, N, L
<1> HIDE DEF of
<1>11. of[0] = <<>> /\ \A n \in 1 .. N : of[n] = of[n - 1] \o L(n)
  <2>1. ASSUME NEW i \in 0 .. N
        PROVE  of[i] = IF i = 0 THEN <<>> ELSE of[i - 1] \o L(i)
    BY <1>9
  <2> HIDE DEF Rec
  <2>2. 0 \in 0 .. N /\ \A n \in 1 .. N : n \in 0 .. N /\ n # 0
    BY <1>0
  <2> QED
    BY <2>1, <2>2
<1> DEFINE Good == {n \in Nat : n <= N => of[n] \in X}
<1>12. 0 \in Good
  BY <1>1, <1>11
<1>13. ASSUME NEW n \in Nat, n \in Good PROVE n + 1 \in Good
  <2> SUFFICES ASSUME n + 1 <= N PROVE of[n + 1] \in X
    OBVIOUS
  <2>1. of[n] \in X /\ n + 1 \in 1 .. N /\ (n + 1) - 1 = n
    BY <1>0, <1>13
  <2>2. of[n + 1] = of[n] \o L(n + 1)
    BY <1>11, <2>1
  <2>3. of[n] \in Seq(R) /\ L(n + 1) \in Seq(R)
    BY <1>2, <2>1 DEF X
  <2>4. of[n] \o L(n + 1) \in Seq(R)
    BY <2>3
  <2> QED
    BY <2>2, <2>4 DEF X
<1> HIDE DEF Good
<1>14. N \in Good
  BY <1>0, <1>12, <1>13, SetInduction
<1>15. Routes \in Seq(R)
  BY <1>0, <1>1, <1>10, <1>14 DEF Good, X, Routes
<1>16. Routes \in [1 .. Len(Routes) -> R] /\ Len(Routes) \in Nat
  BY <1>15
<1>17. \A r \in R : r \in Route /\ OfLink(r)
  BY DEF R
<1>18. Routes \in [1 .. Len(Routes) -> Route]
  BY <1>16, <1>17
<1>19. Routes \in Seq(Route)
  BY <1>16, <1>18
<1> QED
  BY <1>16, <1>17, <1>19

LEMMA RoutesKept ==
  ASSUME UNCHANGED <<rec, records, connectors>>
  PROVE  Routes' = Routes
BY DEF Routes

\* A key table holds each name once and no more names than any key of its
\* record allows; what a deserializer was given is in it.
Tables ==
  /\ names \in [Keys -> Seq(Names)]
  /\ \A k \in Keys : NoTwice(names[k])
  /\ routing \in [Dispatchers -> [name : Names, route : Nat] \cup {Idle}]
  /\ \A d \in Dispatchers : routing[d] = Idle \/ routing[d].route \in DOMAIN Routes
  /\ phase # "running" => /\ \A d \in Dispatchers : routing[d] = Idle
                          /\ \A k \in Keys : names[k] = <<>>
                          /\ delivered = {}
  /\ \A k \in DOMAIN rec : \A i \in DOMAIN rec[k].inbound :
       rec[k].inbound[i] > 0 => Len(names[k]) <= rec[k].inbound[i]
  /\ \A x \in delivered : /\ x.record \in DOMAIN rec /\ x.key \in DOMAIN names[x.record]
                          /\ names[x.record][x.key] = x.name

LEMMA TablesInit ==
  ASSUME DbInit
  PROVE  Tables
<1>1. /\ rec = <<>> /\ delivered = {} /\ names = [k \in Keys |-> <<>>]
      /\ routing = [d \in Dispatchers |-> Idle]
  BY DEF DbInit, BuilderInit, InboundInit
<1> QED
  BY <1>1 DEF Tables, NoTwice

\* Before the database runs, and while it runs and no message moves.
LEMMA TablesRest ==
  ASSUME Shapes, Shapes', Tables, UNCHANGED inboundVars,
         \/ phase # "running"
         \/ UNCHANGED <<phase, rec, records, connectors>>
  PROVE  Tables'
<1>1. UNCHANGED <<names, routing, delivered>>
  BY DEF inboundVars
<1>2. CASE phase # "running"
  <2>1. /\ \A d \in Dispatchers : routing[d] = Idle
        /\ \A k \in Keys : names[k] = <<>>
        /\ delivered = {}
    BY <1>2 DEF Tables
  <2>2. ASSUME NEW k \in DOMAIN rec', NEW i \in DOMAIN rec'[k].inbound
        PROVE  rec'[k].inbound[i] > 0 => Len(names'[k]) <= rec'[k].inbound[i]
    <3>0. /\ rec' \in Seq(TypedRecord) /\ Len(rec') = Len(records') /\ records' \in Seq(Keys)
          /\ \A j \in DOMAIN records' : records'[j] = j
      BY DEF Shapes
    <3>1. k \in Keys
      <4>1. k \in DOMAIN records'
        BY <3>0
      <4> QED
        BY <3>0, <4>1
    <3>2. rec'[k] \in TypedRecord
      BY <3>0
    <3>3. rec'[k].inbound \in Seq(0 .. 2)
      BY <3>2 DEF TypedRecord
    <3>4. rec'[k].inbound[i] \in 0 .. 2
      BY <3>3
    <3>5. names'[k] = <<>> /\ Len(<<>>) = 0
      BY <1>1, <2>1, <3>1
    <3> QED
      BY <3>4, <3>5
  <2> QED
    BY <1>1, <2>1, <2>2 DEF Tables
<1>3. CASE UNCHANGED <<phase, rec, records, connectors>>
  <2>1. Routes' = Routes
    BY <1>3, RoutesKept
  <2> QED
    BY <1>1, <1>3, <2>1 DEF Tables
<1> QED
  BY <1>2, <1>3

LEMMA TablesReceive ==
  ASSUME Shapes, Tables, phase = "running", UNCHANGED builderVars,
         NEW d \in Dispatchers, NEW name \in Names, Receive(d, name)
  PROVE  Tables'
<1>1. /\ Routes # <<>> /\ routing' = [routing EXCEPT ![d] = [name |-> name, route |-> 1]]
      /\ UNCHANGED <<names, delivered, phase, rec, records, connectors>>
  BY DEF Receive, builderVars
<1>2. 1 \in DOMAIN Routes
  BY <1>1, RoutesAre
<1>3. UNCHANGED Routes
  BY <1>1, RoutesKept
<1>4. [name |-> name, route |-> 1] \in [name : Names, route : Nat]
  OBVIOUS
<1>5. routing' \in [Dispatchers -> [name : Names, route : Nat] \cup {Idle}]
  BY <1>1, <1>4 DEF Tables
<1>6. \A e \in Dispatchers : routing'[e] = Idle \/ routing'[e].route \in DOMAIN Routes'
  BY <1>1, <1>2, <1>3 DEF Tables
<1> QED
  BY <1>1, <1>5, <1>6 DEF Tables

LEMMA TablesRoute ==
  ASSUME Shapes, Tables, phase = "running", UNCHANGED builderVars,
         NEW d \in Dispatchers, NEW ok, RouteOne(d, ok)
  PROVE  Tables'
<1> DEFINE r == Routes[routing[d].route]
           name == routing[d].name
           k == r.record
<1>1. /\ routing[d] # Idle /\ Advance(d) /\ UNCHANGED <<phase, rec, records, connectors>>
  BY DEF RouteOne, builderVars
<1>2. UNCHANGED Routes
  BY <1>1, RoutesKept
<1>3. /\ routing[d].route \in DOMAIN Routes /\ name \in Names
      /\ routing[d] \in [name : Names, route : Nat]
  BY <1>1 DEF Tables
<1>4. /\ r.capacity \in 0 .. 2 /\ k \in DOMAIN rec /\ k \in Keys
      /\ \E j \in DOMAIN rec[k].inbound : r.capacity = rec[k].inbound[j]
  <2>1. r \in Route /\ OfLink(r)
    BY <1>3, RoutesAre
  <2> QED
    BY <2>1, ShapesGive DEF Route, OfLink
<1>5. /\ routing' \in [Dispatchers -> [name : Names, route : Nat] \cup {Idle}]
      /\ \A e \in Dispatchers : routing'[e] = Idle \/ routing'[e].route \in DOMAIN Routes'
  <2> DEFINE m == routing[d]
             on == [name |-> m.name, route |-> m.route + 1]
             after == IF m.route = Len(Routes) THEN Idle ELSE on
  <2>1. routing' = [routing EXCEPT ![d] = after]
    BY <1>1 DEF Advance
  <2>2. on \in [name : Names, route : Nat] /\ on.route = m.route + 1
    BY <1>3
  <2>3. m.route # Len(Routes) => m.route + 1 \in DOMAIN Routes
    <3>1. m.route \in 1 .. Len(Routes) /\ Len(Routes) \in Nat /\ DOMAIN Routes = 1 .. Len(Routes)
      BY <1>3, RoutesAre
    <3> QED
      BY <3>1
  <2> HIDE DEF on
  <2>4. after \in [name : Names, route : Nat] \cup {Idle} /\ (after = Idle \/ after.route \in DOMAIN Routes)
    BY <2>2, <2>3
  <2> HIDE DEF after
  <2> QED
    BY <1>2, <2>1, <2>4 DEF Tables
<1> HIDE DEF r, name, k
<1>6. CASE UNCHANGED <<names, delivered>>
  BY <1>1, <1>5, <1>6 DEF Tables
<1>7. ASSUME NEW key \in KeyOf(r, name), r.capacity > 0,
             names' = [names EXCEPT ![k] = IF key > Len(names[k]) THEN Append(names[k], name) ELSE names[k]],
             delivered' = delivered \cup {[record |-> k, name |-> name, key |-> key]}
      PROVE  Tables'
  <2> DEFINE q == names[k]
             q2 == IF key > Len(q) THEN Append(q, name) ELSE q
             new == [record |-> k, name |-> name, key |-> key]
  <2>1. q \in Seq(Names) /\ Len(q) \in Nat /\ DOMAIN q = 1 .. Len(q) /\ NoTwice(q)
    BY <1>4 DEF Tables
  <2>2. names' = [names EXCEPT ![k] = q2] /\ names \in [Keys -> Seq(Names)]
    BY <1>7 DEF Tables
  <2>3. \A i \in DOMAIN rec[k].inbound : rec[k].inbound[i] > 0 => Len(q) <= rec[k].inbound[i]
    BY <1>4 DEF Tables
  <2> HIDE DEF q
  <2>4. /\ q2 \in Seq(Names) /\ NoTwice(q2) /\ DOMAIN q \subseteq DOMAIN q2
        /\ \A i \in DOMAIN q : q2[i] = q[i]
        /\ key \in DOMAIN q2 /\ q2[key] = name
        /\ \A i \in DOMAIN rec[k].inbound : rec[k].inbound[i] > 0 => Len(q2) <= rec[k].inbound[i]
    <3>1. CASE Known(k, name)
      <4>1. key \in DOMAIN q /\ q[key] = name
        BY <1>7, <3>1 DEF KeyOf, k, q
      <4>2. ~(key > Len(q))
        BY <2>1, <4>1
      <4> QED
        BY <2>1, <2>3, <4>1, <4>2
    <3>2. CASE ~Known(k, name)
      <4>1. key = Len(q) + 1 /\ key <= r.capacity
        BY <1>7, <3>2 DEF KeyOf, k, q
      <4>2. name \notin Elems(q)
        BY <3>2 DEF Known, Elems, q
      <4>3. q2 = Append(q, name)
        <5>1. key > Len(q)
          BY <2>1, <4>1
        <5> QED
          BY <5>1
      <4>4. Append(q, name) \in Seq(Names) /\ NoTwice(Append(q, name))
        BY <1>3, <2>1, <4>2, AppendElems DEF name
      <4>5. /\ Len(Append(q, name)) = Len(q) + 1 /\ DOMAIN Append(q, name) = 1 .. Len(q) + 1
            /\ Append(q, name)[Len(q) + 1] = name /\ \A i \in 1 .. Len(q) : Append(q, name)[i] = q[i]
        BY <1>3, <2>1 DEF name
      <4>6. ASSUME NEW i \in DOMAIN rec[k].inbound, rec[k].inbound[i] > 0
            PROVE  Len(q) + 1 <= rec[k].inbound[i]
        <5>1. PICK j \in DOMAIN rec[k].inbound : r.capacity = rec[k].inbound[j]
          BY <1>4
        <5>2. rec[k].inbound[j] = 0 \/ rec[k].inbound[i] = 0 \/ rec[k].inbound[i] = rec[k].inbound[j]
          BY <1>4 DEF Shapes, OneCapacity
        <5> QED
          BY <1>4, <1>7, <4>1, <4>6, <5>1, <5>2
      <4>7. Len(q) + 1 \in 1 .. Len(q) + 1 /\ 1 .. Len(q) \subseteq 1 .. Len(q) + 1
        BY <2>1
      <4> HIDE DEF q2
      <4> QED
        BY <2>1, <4>1, <4>3, <4>4, <4>5, <4>6, <4>7
    <3> QED
      BY <3>1, <3>2
  <2> HIDE DEF q2
  <2>5. names' \in [Keys -> Seq(Names)] /\ names'[k] = q2 /\ \A j \in Keys : j # k => names'[j] = names[j]
    BY <1>4, <2>2, <2>4
  <2>6. \A j \in Keys : NoTwice(names'[j])
    BY <2>4, <2>5 DEF Tables
  <2>7. ASSUME NEW j \in DOMAIN rec', NEW i \in DOMAIN rec'[j].inbound, rec'[j].inbound[i] > 0
        PROVE  Len(names'[j]) <= rec'[j].inbound[i]
    <3>1. j \in Keys /\ j \in DOMAIN rec /\ i \in DOMAIN rec[j].inbound /\ rec' = rec
      BY <1>1, <2>7, ShapesGive
    <3> QED
      BY <2>4, <2>5, <2>7, <3>1 DEF Tables
  <2>8. new.record = k /\ new.name = name /\ new.key = key
    OBVIOUS
  <2>9. ASSUME NEW x \in delivered'
        PROVE  /\ x.record \in DOMAIN rec' /\ x.key \in DOMAIN names'[x.record]
               /\ names'[x.record][x.key] = x.name
    <3>1. CASE x \in delivered
      <4>1. /\ x.record \in DOMAIN rec /\ x.key \in DOMAIN names[x.record]
            /\ names[x.record][x.key] = x.name /\ x.record \in Keys
        BY <3>1, ShapesGive DEF Tables
      <4>2. CASE x.record = k
        BY <1>1, <2>4, <2>5, <4>1, <4>2 DEF q
      <4>3. CASE x.record # k
        BY <1>1, <2>5, <4>1, <4>3
      <4> QED
        BY <4>2, <4>3
    <3>2. CASE x = new
      BY <1>1, <1>4, <2>4, <2>5, <2>8, <3>2
    <3> QED
      BY <1>7, <3>1, <3>2
  <2> QED
    BY <1>1, <1>5, <2>5, <2>6, <2>7, <2>9 DEF Tables
<1> QED
  BY <1>6, <1>7 DEF RouteOne, r, name, k

LEMMA TablesStep ==
  ASSUME Shapes, Shapes', Tables, [DbNext]_databaseVars
  PROVE  Tables'
<1>1. CASE Configure /\ UNCHANGED inboundVars
  <2>1. phase = "configuring"
    BY <1>1
       DEF Configure, WithConnector, StartOrderSeed, ConfigureNew, ConfigureRetyped,
           Register
  <2> QED
    BY <1>1, <2>1, TablesRest
<1>2. CASE BuildStep
  <2>1. phase # "running" /\ UNCHANGED inboundVars
    BY <1>2
       DEF BuildStep, Build, Validate, Sort, Conclude, Collect, CheckSchemes,
           BuildConnector, Built
  <2> QED
    BY <2>1, TablesRest
<1>3. CASE Running /\ Outside /\ UNCHANGED <<builderVars, graphVars>>
  <2>1. phase = "running" /\ UNCHANGED builderVars /\ UNCHANGED <<phase, rec, records, connectors>>
    BY <1>3 DEF Running, builderVars
  <2>2. CASE UNCHANGED inboundVars
    BY <2>1, <2>2, TablesRest
  <2>3. ASSUME NEW d \in Dispatchers, NEW name \in Names, Message(d, name) PROVE Tables'
    BY <2>1, <2>3, TablesReceive DEF Message
  <2> QED
    BY <1>3, <2>2, <2>3 DEF Outside, SourceWrite, AppWrite, RemoteWrite, Write
<1>4. CASE WorkStep
  <2>1. phase = "running" /\ UNCHANGED builderVars /\ UNCHANGED <<phase, rec, records, connectors>>
    BY <1>4 DEF WorkStep, Running, builderVars
  <2>2. CASE UNCHANGED inboundVars
    BY <2>1, <2>2, TablesRest
  <2>3. ASSUME NEW d \in Dispatchers, Ingest(d) PROVE Tables'
    BY <2>1, <2>3, TablesRoute DEF Ingest
  <2> QED
    BY <1>4, <2>2, <2>3 DEF WorkStep, Work
<1>5. CASE UNCHANGED databaseVars
  <2>1. UNCHANGED inboundVars /\ UNCHANGED <<phase, rec, records, connectors>>
    BY <1>5 DEF databaseVars, builderVars
  <2> QED
    BY <2>1, TablesRest
<1> QED
  BY <1>1, <1>2, <1>3, <1>4, <1>5 DEF DbNext

\* For any number of records, links, names and tasks that dispatch messages: a
\* name always gets the same key, different names get different keys, and no key
\* is beyond the capacity of a key table of its record.
THEOREM KeysAreStable == DbSpec => []OneKeyPerName
<1> DEFINE I == Shapes /\ Graphed /\ Tables
<1>1. DbInit => I
  BY ShapesInit, TablesInit
<1>2. I /\ [DbNext]_databaseVars => I'
  BY ShapesStep, TablesStep
<1>3. I => OneKeyPerName
  <2> SUFFICES ASSUME I, NEW x \in delivered, NEW y \in delivered, x.record = y.record
               PROVE  /\ (x.name = y.name) <=> (x.key = y.key)
                      /\ names[x.record][x.key] = x.name
                      /\ \A i \in DOMAIN rec[x.record].inbound :
                           rec[x.record].inbound[i] > 0 => x.key <= rec[x.record].inbound[i]
    BY DEF OneKeyPerName
  <2> DEFINE k == x.record
             q == names[k]
  <2>1. /\ k \in DOMAIN rec /\ x.key \in DOMAIN q /\ y.key \in DOMAIN q
        /\ q[x.key] = x.name /\ q[y.key] = y.name
    BY DEF Tables
  <2>2. k \in Keys
    BY <2>1, ShapesGive
  <2>3. q \in Seq(Names) /\ NoTwice(q)
    BY <2>2 DEF Tables
  <2>4. \A i \in DOMAIN rec[k].inbound : rec[k].inbound[i] > 0 => Len(q) <= rec[k].inbound[i]
    BY <2>1 DEF Tables
  <2>5. rec[k].inbound \in Seq(0 .. 2)
    <3>1. rec[k] \in TypedRecord
      BY <2>1, ShapesGive
    <3> QED
      BY <3>1 DEF TypedRecord
  <2>6. \A i \in DOMAIN rec[k].inbound : rec[k].inbound[i] \in 0 .. 2
    BY <2>5
  <2> HIDE DEF q
  <2>7. x.key \in 1 .. Len(q) /\ Len(q) \in Nat
    BY <2>1, <2>3
  <2>8. (x.name = y.name) <=> (x.key = y.key)
    BY <2>1, <2>3 DEF NoTwice
  <2>9. \A i \in DOMAIN rec[k].inbound : rec[k].inbound[i] > 0 => x.key <= rec[k].inbound[i]
    BY <2>4, <2>6, <2>7
  <2> QED
    BY <2>1, <2>8, <2>9 DEF q
<1> HIDE DEF I
<1> QED
  BY <1>1, <1>2, <1>3, PTL DEF DbSpec

(***************************************************************************)
(* How often a sequence meets a set.                                       *)
(***************************************************************************)
Hits(q, S) == {i \in DOMAIN q : q[i] \in S}
HowMany(q, S) == Cardinality(Hits(q, S))

LEMMA HitsCounted ==
  ASSUME NEW X, NEW q \in Seq(X), NEW S
  PROVE  /\ IsFiniteSet(Hits(q, S)) /\ HowMany(q, S) \in Nat
         /\ (\A i \in DOMAIN q : q[i] \in S) => HowMany(q, S) = Len(q)
         /\ (\A i \in DOMAIN q : q[i] \notin S) => HowMany(q, S) = 0
<1>1. Len(q) \in Nat /\ DOMAIN q = 1 .. Len(q)
  OBVIOUS
<1>2. IsFiniteSet(1 .. Len(q)) /\ Cardinality(1 .. Len(q)) = Len(q)
  BY <1>1, UpTo
<1>3. Hits(q, S) \subseteq 1 .. Len(q)
  BY <1>1 DEF Hits
<1>4. IsFiniteSet(Hits(q, S))
  BY <1>2, <1>3, FS_Subset
<1>5. HowMany(q, S) \in Nat
  BY <1>4, FS_CardinalityType DEF HowMany
<1>6. (\A i \in DOMAIN q : q[i] \in S) => Hits(q, S) = 1 .. Len(q)
  BY <1>1 DEF Hits
<1>7. (\A i \in DOMAIN q : q[i] \notin S) => Hits(q, S) = {}
  BY DEF Hits
<1> QED
  BY <1>2, <1>4, <1>5, <1>6, <1>7, FS_EmptySet DEF HowMany

LEMMA HitsConcat ==
  ASSUME NEW X, NEW q \in Seq(X), NEW t \in Seq(X), NEW S
  PROVE  HowMany(q \o t, S) = HowMany(q, S) + HowMany(t, S)
<1> DEFINE r == q \o t
           n == Len(q)
           later == {i \in DOMAIN r : ~(i <= n) /\ r[i] \in S}
<1>1. /\ n \in Nat /\ Len(t) \in Nat /\ DOMAIN q = 1 .. n /\ DOMAIN t = 1 .. Len(t)
      /\ DOMAIN r = 1 .. n + Len(t)
      /\ \A i \in DOMAIN r : r[i] = IF i <= n THEN q[i] ELSE t[i - n]
  OBVIOUS
<1>2. IsFiniteSet(Hits(q, S)) /\ IsFiniteSet(Hits(t, S))
  BY HitsCounted
<1> HIDE DEF r, n
<1>3. Hits(r, S) = Hits(q, S) \cup later
  <2>1. ASSUME NEW i \in DOMAIN r, i <= n PROVE i \in DOMAIN q /\ r[i] = q[i]
    <3>1. i \in 1 .. n + Len(t)
      BY <1>1
    <3>2. i \in 1 .. n
      BY <1>1, <2>1, <3>1
    <3> QED
      BY <1>1, <2>1, <3>2
  <2>2. ASSUME NEW i \in DOMAIN q PROVE i \in DOMAIN r /\ i <= n
    <3>1. i \in 1 .. n
      BY <1>1
    <3>2. i \in 1 .. n + Len(t) /\ i <= n
      BY <1>1, <3>1
    <3> QED
      BY <1>1, <3>2
  <2> QED
    BY <2>1, <2>2 DEF Hits
<1>4. Hits(q, S) \cap later = {}
  <2>1. \A i \in DOMAIN q : i <= n
    BY <1>1
  <2> QED
    BY <2>1 DEF Hits
<1>5. ExistsBijection(Hits(t, S), later)
  <2> DEFINE f == [i \in Hits(t, S) |-> n + i]
  <2>1. ASSUME NEW i \in DOMAIN t
        PROVE  n + i \in DOMAIN r /\ ~(n + i <= n) /\ r[n + i] = t[i]
    <3>1. i \in 1 .. Len(t)
      BY <1>1
    <3>2. n + i \in 1 .. n + Len(t) /\ ~(n + i <= n) /\ (n + i) - n = i
      BY <1>1, <3>1
    <3> QED
      BY <1>1, <3>2
  <2>2. ASSUME NEW j \in later
        PROVE  \E i \in Hits(t, S) : j = n + i
    <3>1. j \in 1 .. n + Len(t) /\ ~(j <= n)
      BY <1>1
    <3>2. j - n \in 1 .. Len(t) /\ n + (j - n) = j
      BY <1>1, <3>1
    <3>3. r[j] = t[j - n]
      BY <1>1, <3>1
    <3>4. j - n \in Hits(t, S)
      BY <1>1, <3>2, <3>3 DEF Hits
    <3> QED
      BY <3>2, <3>4
  <2>3. f \in [Hits(t, S) -> later]
    BY <2>1 DEF Hits
  <2>4. \A i, j \in Hits(t, S) : n + i = n + j => i = j
    BY <1>1 DEF Hits
  <2>5. IsInjective(f)
    BY <2>4 DEF IsInjective
  <2>6. \A j \in later : \E i \in Hits(t, S) : f[i] = j
    BY <2>2
  <2> QED
    BY <2>3, <2>5, <2>6 DEF ExistsBijection, Bijection, Injection, Surjection
<1>6. IsFiniteSet(later) /\ Cardinality(later) = HowMany(t, S)
  BY <1>2, <1>5, FS_Bijection DEF HowMany
<1> HIDE DEF later
<1>7. Cardinality(Hits(q, S) \cup later)
        = Cardinality(Hits(q, S)) + Cardinality(later) - Cardinality(Hits(q, S) \cap later)
  BY <1>2, <1>6, FS_Union
<1>8. HowMany(r, S) = HowMany(q, S) + HowMany(t, S) - 0
  BY <1>3, <1>4, <1>6, <1>7, FS_EmptySet DEF HowMany
<1>9. HowMany(q, S) \in Nat /\ HowMany(t, S) \in Nat
  BY HitsCounted
<1> QED
  BY <1>8, <1>9 DEF r

LEMMA HitsOne ==
  ASSUME NEW x, NEW S
  PROVE  HowMany(<<x>>, S) = IF x \in S THEN 1 ELSE 0
<1>1. <<x>> \in Seq({x}) /\ Len(<<x>>) = 1 /\ \A i \in DOMAIN <<x>> : <<x>>[i] = x
  OBVIOUS
<1> HIDE DEF Hits
<1>2. x \in S => HowMany(<<x>>, S) = Len(<<x>>)
  BY <1>1, HitsCounted
<1>3. x \notin S => HowMany(<<x>>, S) = 0
  BY <1>1, HitsCounted
<1> QED
  BY <1>1, <1>2, <1>3

LEMMA HitsAppend ==
  ASSUME NEW X, NEW q \in Seq(X), NEW x \in X, NEW S
  PROVE  HowMany(Append(q, x), S) = HowMany(q, S) + (IF x \in S THEN 1 ELSE 0)
<1>1. Append(q, x) = q \o <<x>> /\ <<x>> \in Seq(X)
  OBVIOUS
<1>2. HowMany(q \o <<x>>, S) = HowMany(q, S) + HowMany(<<x>>, S)
  BY <1>1, HitsConcat
<1>3. HowMany(<<x>>, S) = IF x \in S THEN 1 ELSE 0
  BY HitsOne
<1> QED
  BY <1>1, <1>2, <1>3

LEMMA HitsTail ==
  ASSUME NEW X, NEW q \in Seq(X), q # <<>>, NEW S
  PROVE  HowMany(q, S) = (IF Head(q) \in S THEN 1 ELSE 0) + HowMany(Tail(q), S)
<1>1. q = <<Head(q)>> \o Tail(q) /\ <<Head(q)>> \in Seq(X) /\ Tail(q) \in Seq(X)
  OBVIOUS
<1>2. HowMany(<<Head(q)>> \o Tail(q), S) = HowMany(<<Head(q)>>, S) + HowMany(Tail(q), S)
  BY <1>1, HitsConcat
<1> QED
  BY <1>1, <1>2, HitsOne

(***************************************************************************)
(* The tasks build() collects.                                             *)
(***************************************************************************)
Task ==
  [record : Nat, does : {"source"}]
  \cup [record : Nat, does : {"transform"}, of : Descriptors]
  \cup [record : Nat, does : {"forward"}, input : Nat]
  \cup [record : Nat, does : {"tap"}, nr : Nat]
  \cup [record : Nat, does : {"connect"}, nr : Nat]

Doing(k, what) == {t \in Task : t.record = k /\ t.does = what}

OriginOf(k) == CHOOSE d \in rec[k].transform : TRUE

Forwarding(k) ==
  IF rec[k].transform = {} \/ ~OriginOf(k).join THEN 0 ELSE Len(OriginOf(k).inputs)

\* A sequence of tasks of record k that all do the same.
Alike(q, k, what) ==
  /\ q \in Seq(Task) /\ Len(q) \in Nat
  /\ \A i \in DOMAIN q : /\ q[i].record = k /\ q[i].does = what
                         /\ what = "transform" => q[i].of = OriginOf(k)

LEMMA AlikeCount ==
  ASSUME NEW q, NEW k, NEW what, Alike(q, k, what), NEW j, NEW other
  PROVE  HowMany(q, Doing(j, other)) = IF j = k /\ other = what THEN Len(q) ELSE 0
<1>1. q \in Seq(Task) /\ \A i \in DOMAIN q : q[i] \in Task /\ q[i].record = k /\ q[i].does = what
  BY DEF Alike
<1>2. j = k /\ other = what => \A i \in DOMAIN q : q[i] \in Doing(j, other)
  BY <1>1 DEF Doing
<1>3. ~(j = k /\ other = what) => \A i \in DOMAIN q : q[i] \notin Doing(j, other)
  BY <1>1 DEF Doing
<1> QED
  BY <1>1, <1>2, <1>3, HitsCounted

\* The four parts of the futures of a record.
LEMMA FutureParts ==
  ASSUME Shapes, NEW k \in DOMAIN rec
  PROVE  /\ Alike(ProducerFuture(k), k, "source")
         /\ Len(ProducerFuture(k)) = IF rec[k].source THEN 1 ELSE 0
         /\ Alike(ConsumerFutures(k), k, "tap") /\ Len(ConsumerFutures(k)) = rec[k].taps
         /\ rec[k].transform = {} => TransformFutures(k) = <<>>
         /\ rec[k].transform # {} =>
              \E one, more : /\ TransformFutures(k) = one \o more
                             /\ Alike(one, k, "transform") /\ Len(one) = 1
                             /\ Alike(more, k, "forward") /\ Len(more) = Forwarding(k)
<1>1. k \in Nat /\ rec[k] \in TypedRecord /\ rec[k].taps \in Nat /\ rec[k].transform \subseteq Descriptors
  BY ShapesGive DEF TypedRecord
<1>2. Alike(ProducerFuture(k), k, "source") /\ Len(ProducerFuture(k)) = IF rec[k].source THEN 1 ELSE 0
  <2> DEFINE t == [record |-> k, does |-> "source"]
  <2>1. t \in Task /\ t.record = k /\ t.does = "source"
    BY <1>1 DEF Task
  <2> HIDE DEF t
  <2>2. <<t>> \in Seq(Task) /\ Len(<<t>>) = 1 /\ \A i \in DOMAIN <<t>> : <<t>>[i] = t
    BY <2>1
  <2>3. Alike(<<t>>, k, "source")
    BY <2>1, <2>2 DEF Alike
  <2>4. Alike(<<>>, k, "source") /\ Len(<<>>) = 0
    BY DEF Alike
  <2>5. ProducerFuture(k) = IF rec[k].source THEN <<t>> ELSE <<>>
    BY DEF ProducerFuture, t
  <2> QED
    BY <2>2, <2>3, <2>4, <2>5
<1>3. Alike(ConsumerFutures(k), k, "tap") /\ Len(ConsumerFutures(k)) = rec[k].taps
  <2> DEFINE n == rec[k].taps
             t(i) == [record |-> k, does |-> "tap", nr |-> i]
             q == [i \in 1 .. n |-> t(i)]
  <2>1. ConsumerFutures(k) = q
    BY DEF ConsumerFutures
  <2>2. \A i \in 1 .. n : t(i) \in Task /\ t(i).record = k /\ t(i).does = "tap"
    BY <1>1 DEF Task
  <2> HIDE DEF t, n
  <2>3. q \in Seq(Task) /\ Len(q) = n /\ DOMAIN q = 1 .. n /\ \A i \in 1 .. n : q[i] = t(i)
    BY <1>1, <2>2 DEF n
  <2> HIDE DEF q
  <2> QED
    BY <1>1, <2>1, <2>2, <2>3 DEF Alike, n
<1>4. rec[k].transform = {} => TransformFutures(k) = <<>>
  BY DEF TransformFutures
<1>5. ASSUME rec[k].transform # {}
      PROVE  \E one, more : /\ TransformFutures(k) = one \o more
                            /\ Alike(one, k, "transform") /\ Len(one) = 1
                            /\ Alike(more, k, "forward") /\ Len(more) = Forwarding(k)
  <2> DEFINE d == OriginOf(k)
             t == [record |-> k, does |-> "transform", of |-> d]
             in == d.inputs
             f(i) == [record |-> k, does |-> "forward", input |-> i]
             q == [i \in DOMAIN in |-> f(i)]
  <2>1. d \in Descriptors
    BY <1>1, <1>5 DEF OriginOf
  <2>2. Len(in) \in Nat /\ DOMAIN in = 1 .. Len(in)
    BY <2>1, DescriptorParts
  <2>3. TransformFutures(k) = <<t>> \o (IF d.join THEN q ELSE <<>>)
    BY <1>5 DEF TransformFutures, FaninFutures, OriginOf
  <2>4. t \in Task /\ t.record = k /\ t.does = "transform" /\ t.of = d
    BY <1>1, <2>1 DEF Task
  <2>5. \A i \in 1 .. Len(in) : f(i) \in Task /\ f(i).record = k /\ f(i).does = "forward"
    BY <1>1, <2>2 DEF Task
  <2> HIDE DEF t, f, in, d
  <2>6. <<t>> \in Seq(Task) /\ Len(<<t>>) = 1 /\ \A i \in DOMAIN <<t>> : <<t>>[i] = t
    BY <2>4
  <2>7. Alike(<<t>>, k, "transform")
    BY <2>4, <2>6 DEF Alike, d
  <2>8. /\ q \in Seq(Task) /\ Len(q) = Len(in) /\ DOMAIN q = 1 .. Len(in)
        /\ \A i \in 1 .. Len(in) : q[i] = f(i)
    BY <2>2, <2>5
  <2>9. Alike(q, k, "forward")
    <3> HIDE DEF q
    <3> QED
      BY <2>2, <2>5, <2>8 DEF Alike
  <2>10. Alike(<<>>, k, "forward") /\ Len(<<>>) = 0
    BY DEF Alike
  <2> DEFINE more == IF d.join THEN q ELSE <<>>
  <2>11. Alike(more, k, "forward") /\ Len(more) = Forwarding(k)
    BY <1>5, <2>8, <2>9, <2>10 DEF Forwarding, d, in
  <2> HIDE DEF q
  <2>12. TransformFutures(k) = <<t>> \o more
    BY <2>3
  <2> HIDE DEF more
  <2> QED
    BY <2>6, <2>7, <2>11, <2>12
<1> QED
  BY <1>2, <1>3, <1>4, <1>5

LEMMA FuturesAre ==
  ASSUME Shapes, NEW k \in DOMAIN rec
  PROVE  /\ Futures(k) \in Seq(Task)
         /\ \A t \in Elems(Futures(k)) : /\ t.record = k /\ t.does # "connect"
                                         /\ t.does = "transform" => t.of = OriginOf(k) /\ rec[k].transform # {}
         /\ HowMany(Futures(k), Doing(k, "source")) = IF rec[k].source THEN 1 ELSE 0
         /\ HowMany(Futures(k), Doing(k, "transform")) = IF rec[k].transform = {} THEN 0 ELSE 1
         /\ HowMany(Futures(k), Doing(k, "forward")) = Forwarding(k)
         /\ HowMany(Futures(k), Doing(k, "tap")) = rec[k].taps
         /\ \A j, what : j # k => HowMany(Futures(k), Doing(j, what)) = 0
<1> DEFINE p == ProducerFuture(k)
           m == TransformFutures(k)
           c == ConsumerFutures(k)
           Good(t) == /\ t.record = k /\ t.does # "connect"
                      /\ t.does = "transform" => t.of = OriginOf(k) /\ rec[k].transform # {}
<1>1. /\ Alike(p, k, "source") /\ Alike(c, k, "tap") /\ Len(c) = rec[k].taps
      /\ Len(p) = IF rec[k].source THEN 1 ELSE 0
  BY FutureParts
<1>2. p \in Seq(Task) /\ c \in Seq(Task) /\ \A t \in Elems(p) \cup Elems(c) : Good(t)
  BY <1>1 DEF Alike, Elems
<1>3. rec[k].taps \in Nat
  BY ShapesGive DEF TypedRecord
<1>4. /\ m \in Seq(Task) /\ \A t \in Elems(m) : Good(t)
      /\ \A j, what : HowMany(m, Doing(j, what)) =
           IF j = k /\ what = "transform" THEN (IF rec[k].transform = {} THEN 0 ELSE 1)
           ELSE IF j = k /\ what = "forward" THEN Forwarding(k) ELSE 0
  <2>1. CASE rec[k].transform = {}
    <3>1. m = <<>> /\ <<>> \in Seq(Task) /\ \A i \in DOMAIN <<>> : FALSE
      BY <2>1, FutureParts
    <3>2. \A j, what : HowMany(m, Doing(j, what)) = 0
      BY <3>1, HitsCounted
    <3>3. Forwarding(k) = 0
      BY <2>1 DEF Forwarding
    <3> QED
      BY <2>1, <3>1, <3>2, <3>3 DEF Elems
  <2>2. CASE rec[k].transform # {}
    <3>1. PICK one, more : /\ m = one \o more
                           /\ Alike(one, k, "transform") /\ Len(one) = 1
                           /\ Alike(more, k, "forward") /\ Len(more) = Forwarding(k)
      BY <2>2, FutureParts
    <3> HIDE DEF m
    <3>2. one \in Seq(Task) /\ more \in Seq(Task) /\ \A t \in Elems(one) \cup Elems(more) : Good(t)
      BY <2>2, <3>1 DEF Alike, Elems
    <3> HIDE DEF Good
    <3>3. m \in Seq(Task) /\ Elems(m) = Elems(one) \cup Elems(more)
      BY <3>1, <3>2, ConcatElems
    <3>4. ASSUME NEW j, NEW what
          PROVE  HowMany(m, Doing(j, what)) =
                   IF j = k /\ what = "transform" THEN 1
                   ELSE IF j = k /\ what = "forward" THEN Forwarding(k) ELSE 0
      <4>1. HowMany(m, Doing(j, what)) = HowMany(one, Doing(j, what)) + HowMany(more, Doing(j, what))
        BY <3>1, <3>2, HitsConcat
      <4>2. HowMany(one, Doing(j, what)) = IF j = k /\ what = "transform" THEN 1 ELSE 0
        <5>0. Alike(one, k, "transform")
          BY <3>1
        <5>1. HowMany(one, Doing(j, what)) = IF j = k /\ what = "transform" THEN Len(one) ELSE 0
          BY <5>0, AlikeCount
        <5> QED
          BY <3>1, <5>1
      <4>3. HowMany(more, Doing(j, what)) = IF j = k /\ what = "forward" THEN Forwarding(k) ELSE 0
        <5>0. Alike(more, k, "forward")
          BY <3>1
        <5>1. HowMany(more, Doing(j, what)) = IF j = k /\ what = "forward" THEN Len(more) ELSE 0
          BY <5>0, AlikeCount
        <5> QED
          BY <3>1, <5>1
      <4>4. Forwarding(k) \in Nat
        BY <3>1 DEF Alike
      <4>5. CASE j = k /\ what = "transform"
        BY <4>1, <4>2, <4>3, <4>5
      <4>6. CASE j = k /\ what = "forward"
        BY <4>1, <4>2, <4>3, <4>4, <4>6
      <4>7. CASE ~(j = k /\ what = "transform") /\ ~(j = k /\ what = "forward")
        BY <4>1, <4>2, <4>3, <4>7
      <4> QED
        BY <4>5, <4>6, <4>7
    <3> QED
      BY <2>2, <3>2, <3>3, <3>4
  <2> QED
    BY <2>1, <2>2
<1> HIDE DEF m, p, c
<1>5. p \o m \in Seq(Task) /\ Elems(p \o m) = Elems(p) \cup Elems(m)
  BY <1>2, <1>4, ConcatElems
<1>6. /\ (p \o m) \o c \in Seq(Task)
      /\ Elems((p \o m) \o c) = (Elems(p) \cup Elems(m)) \cup Elems(c)
  <2> DEFINE b == p \o m
  <2> HIDE DEF b
  <2>1. b \in Seq(Task) /\ Elems(b) = Elems(p) \cup Elems(m) /\ c \in Seq(Task)
    BY <1>2, <1>5 DEF b
  <2>2. b \o c \in Seq(Task) /\ Elems(b \o c) = Elems(b) \cup Elems(c)
    BY <2>1, ConcatElems
  <2> QED
    BY <2>1, <2>2 DEF b
<1>7. Futures(k) = (p \o m) \o c
  BY DEF Futures, p, m, c
<1>8. \A j, what : HowMany(Futures(k), Doing(j, what)) =
        (HowMany(p, Doing(j, what)) + HowMany(m, Doing(j, what))) + HowMany(c, Doing(j, what))
  <2> DEFINE b == p \o m
  <2> HIDE DEF b
  <2>1. b \in Seq(Task) /\ c \in Seq(Task)
    BY <1>2, <1>5 DEF b
  <2>2. \A j, what : HowMany(b \o c, Doing(j, what)) = HowMany(b, Doing(j, what)) + HowMany(c, Doing(j, what))
    BY <2>1, HitsConcat
  <2>3. \A j, what : HowMany(b, Doing(j, what)) = HowMany(p, Doing(j, what)) + HowMany(m, Doing(j, what))
    BY <1>2, <1>4, HitsConcat DEF b
  <2> QED
    BY <1>7, <2>2, <2>3 DEF b
<1>9. \A j, what : HowMany(p, Doing(j, what)) = IF j = k /\ what = "source" THEN Len(p) ELSE 0
  BY <1>1, AlikeCount
<1>10. \A j, what : HowMany(c, Doing(j, what)) = IF j = k /\ what = "tap" THEN Len(c) ELSE 0
  BY <1>1, AlikeCount
<1>11. Forwarding(k) \in Nat
  <2>1. HowMany(m, Doing(k, "forward")) = Forwarding(k)
    BY <1>4
  <2> QED
    BY <1>4, <2>1, HitsCounted
<1>12. \A j, what : j # k => HowMany(Futures(k), Doing(j, what)) = 0
  BY <1>4, <1>8, <1>9, <1>10
<1>13. HowMany(Futures(k), Doing(k, "source")) = IF rec[k].source THEN 1 ELSE 0
  BY <1>1, <1>4, <1>8, <1>9, <1>10
<1>14. HowMany(Futures(k), Doing(k, "transform")) = IF rec[k].transform = {} THEN 0 ELSE 1
  BY <1>1, <1>4, <1>8, <1>9, <1>10
<1>15. HowMany(Futures(k), Doing(k, "forward")) = Forwarding(k)
  BY <1>1, <1>4, <1>8, <1>9, <1>10, <1>11
<1>16. HowMany(Futures(k), Doing(k, "tap")) = rec[k].taps
  BY <1>1, <1>3, <1>4, <1>8, <1>9, <1>10
<1>17. \A t \in Elems(Futures(k)) : Good(t)
  BY <1>2, <1>4, <1>6, <1>7
<1> QED
  BY <1>6, <1>7, <1>12, <1>13, <1>14, <1>15, <1>16, <1>17

LEMMA InputsAre ==
  ASSUME Kahn
  PROVE  /\ \A k \in DOMAIN nodes : Inputs(k) = Elems(nodes[k].inputs)
         /\ \A k : k \notin DOMAIN nodes => Inputs(k) = {}
         /\ \A k : Inputs(k) \subseteq DOMAIN nodes
<1>1. Numbered(nodes) /\ Closed(nodes) /\ \A i \in DOMAIN nodes : nodes[i].key = i
  BY DEF Kahn, Numbered
<1>2. ASSUME NEW k \in DOMAIN nodes PROVE Inputs(k) = Elems(nodes[k].inputs)
  <2>1. {n \in DOMAIN nodes : nodes[n].key = k} = {k}
    BY <1>1
  <2> QED
    BY <2>1 DEF Inputs, Elems
<1>3. ASSUME NEW k, k \notin DOMAIN nodes PROVE Inputs(k) = {}
  <2>1. {n \in DOMAIN nodes : nodes[n].key = k} = {}
    BY <1>1, <1>3
  <2> QED
    BY <2>1 DEF Inputs
<1>4. ASSUME NEW k PROVE Inputs(k) \subseteq DOMAIN nodes
  <2>1. CASE k \in DOMAIN nodes
    BY <1>1, <1>2, <2>1 DEF Closed, Elems
  <2>2. CASE k \notin DOMAIN nodes
    BY <1>3, <2>2
  <2> QED
    BY <2>1, <2>2
<1> QED
  BY <1>2, <1>3, <1>4

\* The inputs of a placed record are placed before it.
LEMMA InputsFirst ==
  ASSUME Kahn, NEW b \in DOMAIN order, NEW x \in Inputs(order[b])
  PROVE  \E m \in 1 .. b - 1 : m \in DOMAIN order /\ order[m] = x
<1>1. order \in Seq(1 .. Len(nodes)) /\ DOMAIN order = 1 .. Len(order) /\ Len(order) \in Nat
  BY DEF Kahn
<1>2. order[b] \in DOMAIN nodes
  <2>1. DOMAIN nodes = 1 .. Len(nodes)
    BY KeysAre DEF Kahn
  <2> QED
    BY <1>1, <2>1
<1>3. PICK i \in DOMAIN nodes[order[b]].inputs : x = nodes[order[b]].inputs[i]
  BY <1>2, InputsAre DEF Elems
<1>4. PICK m \in 1 .. b - 1 : order[m] = x
  BY <1>3 DEF Kahn
<1> QED
  BY <1>1, <1>4

\* Tasks stand behind those of the records their record reads.
InTurn(q) == \A i, j \in DOMAIN q : q[i].record \in Inputs(q[j].record) => i < j

Collected ==
  /\ tasks \in Seq(Task)
  /\ \A t \in Elems(tasks) : \/ t.record \in DOMAIN rec \ spawn /\ t.does # "connect"
                             \/ t.record = NoKey /\ t.does = "connect"
  /\ \A t, u \in Elems(tasks) :
       t.does = "transform" /\ u.does = "transform" /\ t.record = u.record => t.of = u.of
  /\ phase = "failed" => tasks = <<>>
  /\ InTurn(tasks)

\* No task reads a record that comes behind those collected.
LEMMA TurnConcat ==
  ASSUME NEW q \in Seq(Task), NEW t \in Seq(Task), InTurn(q),
         \A i \in DOMAIN t, j \in DOMAIN q : t[i].record \notin Inputs(q[j].record),
         \A i, j \in DOMAIN t : t[i].record \notin Inputs(t[j].record)
  PROVE  InTurn(q \o t)
<1> DEFINE r == q \o t
           n == Len(q)
<1>1. /\ n \in Nat /\ Len(t) \in Nat /\ DOMAIN q = 1 .. n /\ DOMAIN t = 1 .. Len(t)
      /\ DOMAIN r = 1 .. n + Len(t)
      /\ \A i \in DOMAIN r : r[i] = IF i <= n THEN q[i] ELSE t[i - n]
  OBVIOUS
<1> HIDE DEF r, n
<1>2. ASSUME NEW i \in DOMAIN r
      PROVE  \/ i <= n /\ i \in DOMAIN q /\ r[i] = q[i]
             \/ ~(i <= n) /\ i - n \in DOMAIN t /\ r[i] = t[i - n]
  <2>1. i \in 1 .. n + Len(t)
    BY <1>1
  <2>2. CASE i <= n
    BY <1>1, <2>1, <2>2
  <2>3. CASE ~(i <= n)
    <3>1. i - n \in 1 .. Len(t)
      BY <1>1, <2>1, <2>3
    <3> QED
      BY <1>1, <2>3, <3>1
  <2> QED
    BY <2>2, <2>3
<1> SUFFICES ASSUME NEW i \in DOMAIN r, NEW j \in DOMAIN r, r[i].record \in Inputs(r[j].record)
             PROVE  i < j
  BY DEF InTurn, r
<1>3. CASE i <= n /\ j <= n
  BY <1>2, <1>3 DEF InTurn
<1>4. CASE i <= n /\ ~(j <= n)
  BY <1>1, <1>4
<1>5. CASE ~(i <= n) /\ j <= n
  BY <1>2, <1>5
<1>6. CASE ~(i <= n) /\ ~(j <= n)
  BY <1>2, <1>6
<1> QED
  BY <1>3, <1>4, <1>5, <1>6

LEMMA CollectedRest ==
  ASSUME Collected, UNCHANGED <<phase, rec, spawn, tasks>>, UNCHANGED graphVars
  PROVE  Collected'
BY DEF Collected, InTurn, Inputs, graphVars

LEMMA CollectedNone ==
  ASSUME tasks' = <<>>
  PROVE  Collected'
<1>1. <<>> \in Seq(Task) /\ DOMAIN <<>> = {}
  OBVIOUS
<1> QED
  BY <1>1 DEF Collected, InTurn, Elems

LEMMA CollectedOne ==
  ASSUME Shapes, Graphed, Collected, Collect
  PROVE  Collected'
<1> DEFINE k == NextToSpawn
           t == Futures(k)
<1>1. phase = "collecting" /\ spawn # {} /\ UNCHANGED graphVars
  BY DEF Collect
<1>2. PICK a \in DOMAIN order : /\ k = order[a] /\ order[a] \in spawn
                                /\ \A j \in 1 .. a - 1 : order[j] \notin spawn
  BY <1>1, NextIs
<1>3. k \in DOMAIN rec /\ k \in spawn
  BY CollectIs
<1>4. /\ tasks \in Seq(Task)
      /\ \A u \in Elems(tasks) : \/ u.record \in DOMAIN rec \ spawn /\ u.does # "connect"
                                 \/ u.record = NoKey /\ u.does = "connect"
      /\ \A u, w \in Elems(tasks) :
           u.does = "transform" /\ w.does = "transform" /\ u.record = w.record => u.of = w.of
      /\ InTurn(tasks)
  BY DEF Collected
<1>5. t \in Seq(Task) /\ \A u \in Elems(t) : /\ u.record = k /\ u.does # "connect"
                                             /\ u.does = "transform" => u.of = OriginOf(k)
  BY <1>3, FuturesAre
<1>6. CASE tasks' = <<>>
  BY <1>6, CollectedNone
<1>7. CASE /\ tasks' = tasks \o t /\ spawn' = spawn \ {k} /\ DOMAIN rec' = DOMAIN rec
           /\ UNCHANGED phase
  <2> HIDE DEF t
  <2>1. tasks' \in Seq(Task) /\ Elems(tasks') = Elems(tasks) \cup Elems(t)
    BY <1>4, <1>5, <1>7, ConcatElems
  <2>2. Kahn /\ NoTwice(order) /\ DOMAIN order = 1 .. Len(order) /\ Len(order) \in Nat
    BY DEF Graphed, Kahn
  <2>3. /\ Elems(order) = DOMAIN rec /\ DOMAIN nodes = DOMAIN rec
        /\ \A x, y \in DOMAIN order : x < y /\ order[x] \in spawn => order[y] \in spawn
    <3>1. /\ Elems(order) = DOMAIN rec /\ Len(nodes) = Len(rec)
          /\ \A x, y \in DOMAIN order : x < y /\ order[x] \in spawn => order[y] \in spawn
      BY <1>1 DEF Graphed, Accepted
    <3>2. DOMAIN nodes = 1 .. Len(nodes)
      BY <2>2, KeysAre DEF Kahn
    <3> QED
      BY <3>1, <3>2, ShapesGive
  <2> HIDE DEF k
  <2>4. ASSUME NEW j \in DOMAIN tasks PROVE k \notin Inputs(tasks[j].record)
    <3> DEFINE w == tasks[j].record
    <3>1. w \in DOMAIN rec \ spawn \/ w = NoKey
      BY <1>4 DEF Elems
    <3>2. CASE w = NoKey
      <4>1. NoKey \notin DOMAIN nodes
        BY <2>3, ShapesGive DEF NoKey
      <4> QED
        BY <2>2, <3>2, <4>1, InputsAre
    <3>3. ASSUME w \in DOMAIN rec \ spawn, k \in Inputs(w) PROVE FALSE
      <4>1. PICK b \in DOMAIN order : order[b] = w
        BY <2>3, <3>3 DEF Elems
      <4>2. PICK m \in 1 .. b - 1 : m \in DOMAIN order /\ order[m] = k
        BY <2>2, <3>3, <4>1, InputsFirst
      <4>3. m < b
        BY <2>2, <4>1
      <4>4. order[b] \in spawn
        BY <1>3, <2>3, <4>2, <4>3
      <4> QED
        BY <3>3, <4>1, <4>4
    <3> QED
      BY <3>1, <3>2, <3>3
  <2>5. k \notin Inputs(k)
    <3> SUFFICES ASSUME k \in Inputs(k) PROVE FALSE
      OBVIOUS
    <3>1. PICK m \in 1 .. a - 1 : m \in DOMAIN order /\ order[m] = k
      BY <1>2, <2>2, InputsFirst
    <3> QED
      BY <1>2, <3>1
  <2>6. \A i \in DOMAIN t : t[i].record = k
    BY <1>5 DEF Elems
  <2>7. InTurn(tasks \o t)
    BY <1>4, <1>5, <2>4, <2>5, <2>6, TurnConcat
  <2>8. InTurn(tasks')
    BY <1>7, <2>7
  <2>9. \A u \in Elems(tasks') : \/ u.record \in DOMAIN rec' \ spawn' /\ u.does # "connect"
                                 \/ u.record = NoKey /\ u.does = "connect"
    BY <1>3, <1>4, <1>5, <1>7, <2>1
  <2>10. ASSUME NEW u \in Elems(tasks'), NEW w \in Elems(tasks'),
                u.does = "transform", w.does = "transform", u.record = w.record
         PROVE  u.of = w.of
    <3>1. k # NoKey
      BY <1>3, ShapesGive DEF NoKey
    <3>2. \A v \in Elems(tasks) : v.record # k
      BY <1>3, <1>4, <3>1
    <3>3. CASE u \in Elems(tasks)
      BY <1>4, <1>5, <2>1, <2>10, <3>2, <3>3
    <3>4. CASE u \in Elems(t)
      BY <1>5, <2>1, <2>10, <3>2, <3>4
    <3> QED
      BY <2>1, <3>3, <3>4
  <2>11. InTurn(tasks)'
    BY <1>1, <2>8 DEF InTurn, Inputs, graphVars
  <2>12. phase' # "failed"
    BY <1>1, <1>7
  <2> QED
    BY <2>1, <2>9, <2>10, <2>11, <2>12 DEF Collected
<1> HIDE DEF t
<1> QED
  BY <1>6, <1>7, CollectIs DEF Fail, t

LEMMA CollectedConnect ==
  ASSUME Shapes, Graphed, Collected, BuildConnector, tasks' # <<>>
  PROVE  Collected'
<1> DEFINE u == [record |-> NoKey, does |-> "connect", nr |-> Connected + 1]
<1>1. /\ tasks' = Append(tasks, u) /\ UNCHANGED <<phase, rec, spawn>> /\ UNCHANGED graphVars
      /\ phase = "connecting"
  BY DEF BuildConnector, Fail
<1>2. tasks \in Seq(Task) /\ InTurn(tasks)
  BY DEF Collected
<1>3. u \in Task /\ u.record = NoKey /\ u.does = "connect"
  <2>1. Connected \in Nat
    <3> DEFINE S == {t \in Task : t.does = "connect"}
    <3>1. Hits(tasks, S) = {i \in DOMAIN tasks : tasks[i].does = "connect"}
      BY <1>2 DEF Hits
    <3>2. HowMany(tasks, S) \in Nat
      BY <1>2, HitsCounted
    <3> QED
      BY <3>1, <3>2 DEF HowMany, Connected
  <2> QED
    BY <2>1 DEF Task, NoKey
<1> HIDE DEF u
<1>4. tasks' \in Seq(Task) /\ Elems(tasks') = Elems(tasks) \cup {u}
  BY <1>1, <1>2, <1>3, AppendElems
<1>5. \A k : NoKey \notin Inputs(k)
  <2>1. Kahn
    BY DEF Graphed
  <2>2. NoKey \notin DOMAIN nodes
    BY <2>1, KeysAre DEF Kahn, NoKey
  <2> QED
    BY <2>1, <2>2, InputsAre
<1>6. InTurn(tasks')
  <2>1. <<u>> \in Seq(Task) /\ \A i \in DOMAIN <<u>> : <<u>>[i] = u
    BY <1>3
  <2>2. Append(tasks, u) = tasks \o <<u>>
    BY <1>2, <1>3
  <2> DEFINE o == <<u>>
  <2> HIDE DEF o
  <2>3. o \in Seq(Task) /\ \A i \in DOMAIN o : o[i].record = NoKey
    BY <1>3, <2>1 DEF o
  <2>4. InTurn(tasks \o o)
    BY <1>2, <1>5, <2>3, TurnConcat
  <2> QED
    BY <1>1, <2>2, <2>4 DEF o
<1>7. InTurn(tasks)'
  BY <1>1, <1>6 DEF InTurn, Inputs, graphVars
<1>8. \A t \in Elems(tasks') : \/ t.record \in DOMAIN rec' \ spawn' /\ t.does # "connect"
                               \/ t.record = NoKey /\ t.does = "connect"
  BY <1>1, <1>3, <1>4 DEF Collected
<1>9. \A t, w \in Elems(tasks') :
        t.does = "transform" /\ w.does = "transform" /\ t.record = w.record => t.of = w.of
  BY <1>3, <1>4 DEF Collected
<1> QED
  BY <1>1, <1>4, <1>7, <1>8, <1>9 DEF Collected

LEMMA CollectedStep ==
  ASSUME Shapes, Graphed, Collected, [DbNext]_databaseVars
  PROVE  Collected'
<1>1. CASE Configure
  <2>1. phase = "configuring" /\ tasks' = tasks
    BY <1>1
       DEF Configure, WithConnector, StartOrderSeed, ConfigureNew, ConfigureRetyped,
           Register
  <2>2. tasks' = <<>>
    BY <2>1 DEF Shapes
  <2> QED
    BY <2>2, CollectedNone
<1>2. CASE Validate \/ Sort \/ Conclude
  <2>1. tasks' = <<>>
    BY <1>2 DEF Validate, Sort, Conclude, Fail, builderVars, Shapes
  <2> QED
    BY <2>1, CollectedNone
<1>3. CASE Collect
  BY <1>3, CollectedOne
<1>4. CASE CheckSchemes
  <2>1. CASE tasks' = <<>>
    BY <2>1, CollectedNone
  <2>2. CASE phase' = "connecting" /\ UNCHANGED tasks
    <3>1. UNCHANGED <<rec, spawn, tasks>> /\ UNCHANGED graphVars
      BY <1>4, <2>2 DEF CheckSchemes
    <3> QED
      BY <2>2, <3>1 DEF Collected, InTurn, Inputs, graphVars
  <2> QED
    BY <1>4, <2>1, <2>2 DEF CheckSchemes, Fail
<1>5. CASE BuildConnector
  <2>1. CASE tasks' = <<>>
    BY <2>1, CollectedNone
  <2> QED
    BY <1>5, <2>1, CollectedConnect
<1>6. CASE Built
  <2>1. UNCHANGED <<rec, spawn, tasks>> /\ UNCHANGED graphVars /\ phase' = "running"
    BY <1>6 DEF Built
  <2> QED
    BY <2>1 DEF Collected, InTurn, Inputs, graphVars
<1>7. CASE UNCHANGED <<builderVars, graphVars>>
  BY <1>7, CollectedRest DEF builderVars
<1> QED
  BY <1>1, <1>2, <1>3, <1>4, <1>5, <1>6, <1>7
     DEF DbNext, BuildStep, Build, WorkStep, databaseVars

(***************************************************************************)
(* The values on their way to transforms and join handlers.                *)
(***************************************************************************)
ReaderState ==
  [at : {"start", "reading", "sending", "ended"}, seen : Int, first : Int, missed : Int, heard : Int]

Fresh(r) == r.at = "start" => r.seen = 0 /\ r.first = 0 /\ r.missed = 0 /\ r.heard = 0

Queued(x) == IF x[1] \in DOMAIN fanin THEN HowMany(fanin[x[1]], {x[2]}) ELSE 0

Balanced(r, n) == r.seen - r.first = r.missed + r.heard + n + (IF r.at = "sending" THEN 1 ELSE 0)

Counted(x) ==
  \/ x[1] \in DOMAIN handler /\ handler[x[1]] = "ended"
  \/ Balanced(reader[x], Queued(x)) /\ (reader[x].at = "ended" => ~rec[InputOf(x)].buffer)

Flow ==
  /\ written \in [Keys -> Nat]
  /\ phase # "running" => reader = <<>> /\ fanin = <<>> /\ handler = <<>>
  /\ handler \in [DOMAIN handler -> {"running", "ended"}]
  /\ fanin \in [DOMAIN handler -> Seq(Nat)]
  /\ \A k \in DOMAIN handler : /\ Len(fanin[k]) <= QueueCap
                               /\ \A i \in Elems(fanin[k]) : <<k, i>> \in DOMAIN reader
  /\ reader \in [DOMAIN reader -> ReaderState] /\ DOMAIN reader \subseteq Nat \X Nat
  /\ \A x \in DOMAIN reader : InputOf(x) \in Keys /\ Fresh(reader[x]) /\ Counted(x)
  /\ \A x \in DOMAIN reader : reader[x].at = "sending" => x[1] \in DOMAIN handler

LEMMA InputKept ==
  ASSUME UNCHANGED tasks, NEW x
  PROVE  InputOf(x)' = InputOf(x)
BY DEF InputOf, Derived

LEMMA WrittenTyped ==
  ASSUME NEW w \in [Keys -> Nat], NEW k
  PROVE  Written(w, k) \in [Keys -> Nat]
<1> DEFINE n == IF rec[k].buffer THEN w[k] + 1 ELSE w[k]
<1>1. k \in Keys => n \in Nat
  BY DEF Keys
<1>2. Written(w, k) = [w EXCEPT ![k] = n]
  BY DEF Written
<1> HIDE DEF n
<1> QED
  BY <1>1, <1>2

\* The numbers of a reader that has just been made.
LEMMA NewReaderFits ==
  /\ NewReader \in ReaderState /\ Fresh(NewReader) /\ Balanced(NewReader, 0)
  /\ NewReader.at = "start"
BY DEF NewReader, ReaderState, Fresh, Balanced

LEMMA FlowInit ==
  ASSUME DbInit
  PROVE  Flow
<1>1. written = [k \in Keys |-> 0] /\ reader = <<>> /\ fanin = <<>> /\ handler = <<>>
  BY DEF DbInit, TransformsInit
<1>2. DOMAIN <<>> = {} /\ \A S : <<>> \in [{} -> S]
  OBVIOUS
<1>3. written \in [Keys -> Nat]
  BY <1>1
<1> QED
  BY <1>1, <1>2, <1>3 DEF Flow

\* The input of a reader that the runner polls.
LEMMA InputIs ==
  ASSUME Collected, NEW t \in Derived
  PROVE  /\ t.record \in Nat /\ t.of \in Descriptors
         /\ \A i \in DOMAIN t.of.inputs : InputOf(<<t.record, i>>) \in Keys
<1>1. tasks \in Seq(Task) /\ \A u \in Elems(tasks) : u \in Task
  BY DEF Collected, Elems
<1>2. ASSUME NEW u \in Derived
      PROVE  \E w \in Elems(tasks) : /\ w.does = "transform" /\ u.record = w.record /\ u.of = w.of
                                     /\ w.record \in Nat /\ w.of \in Descriptors
  <2>1. PICK i \in DOMAIN tasks : tasks[i].does = "transform"
                                  /\ u = [record |-> tasks[i].record, of |-> tasks[i].of]
    BY DEF Derived
  <2>2. tasks[i] \in Elems(tasks) /\ tasks[i] \in Task
    BY <1>1 DEF Elems
  <2> QED
    BY <2>1, <2>2 DEF Task
<1>3. \A u, w \in Derived : u.record = w.record => u.of = w.of
  BY <1>2 DEF Collected
<1>4. t.record \in Nat /\ t.of \in Descriptors
  BY <1>2
<1> DEFINE u == CHOOSE u \in Derived : u.record = t.record
<1>5. u \in Derived /\ u.record = t.record
  OBVIOUS
<1>6. u.of = t.of
  BY <1>3, <1>5
<1> HIDE DEF u
<1>7. ASSUME NEW i \in DOMAIN t.of.inputs PROVE InputOf(<<t.record, i>>) \in Keys
  <2>1. InputOf(<<t.record, i>>) = u.of.inputs[i]
    BY DEF InputOf, u
  <2>2. t.of.inputs[i] \in Keys
    BY <1>4, DescriptorParts
  <2> QED
    BY <1>6, <2>1, <2>2
<1> QED
  BY <1>4, <1>7

LEMMA FlowStarts ==
  ASSUME Collected, Flow, phase' = "running", UNCHANGED <<tasks, rec>>, StartRunner
  PROVE  Flow'
<1> DEFINE D == UNION {{<<t.record, i>> : i \in DOMAIN t.of.inputs} : t \in Derived}
           J == {t.record : t \in Joins}
<1>1. /\ reader' = [x \in D |-> NewReader] /\ fanin' = [k \in J |-> <<>>]
      /\ handler' = [k \in J |-> "running"] /\ written' = written
  BY DEF StartRunner
<1>2. ASSUME NEW x \in D
      PROVE  x \in Nat \X Nat /\ InputOf(x) \in Keys
  <2>1. PICK t \in Derived : \E i \in DOMAIN t.of.inputs : x = <<t.record, i>>
    OBVIOUS
  <2>2. PICK i \in DOMAIN t.of.inputs : x = <<t.record, i>>
    BY <2>1
  <2>3. t.record \in Nat /\ t.of \in Descriptors /\ InputOf(<<t.record, i>>) \in Keys
    BY InputIs
  <2>4. i \in Nat
    BY <2>3, DescriptorParts
  <2> QED
    BY <2>2, <2>3, <2>4
<1> HIDE DEF D, J
<1>3. <<>> \in Seq(Nat) /\ Len(<<>>) = 0 /\ Elems(<<>>) = {} /\ DOMAIN <<>> = {}
  BY DEF Elems
<1>4. DOMAIN reader' = D /\ \A x \in D : reader'[x] = NewReader
  BY <1>1
<1>5. DOMAIN handler' = J /\ DOMAIN fanin' = J /\ \A k \in J : fanin'[k] = <<>> /\ handler'[k] = "running"
  BY <1>1
<1>6. ASSUME NEW x \in D PROVE Queued(x)' = 0
  <2>1. HowMany(<<>>, {x[2]}) = 0
    BY <1>3, HitsCounted
  <2>2. x[1] \in DOMAIN fanin' => HowMany(fanin'[x[1]], {x[2]}) = 0
    BY <1>5, <2>1
  <2> QED
    BY <2>2 DEF Queued
<1>7. ASSUME NEW x \in D PROVE InputOf(x)' \in Keys /\ Fresh(reader'[x]) /\ Counted(x)'
  <2>1. Balanced(reader'[x], Queued(x)') /\ Fresh(reader'[x]) /\ reader'[x].at # "ended"
    BY <1>4, <1>6, NewReaderFits
  <2>2. Balanced(reader[x], Queued(x))'
    BY <2>1
  <2> QED
    BY <1>2, <2>1, <2>2, InputKept DEF Counted
<1>8. reader' \in [D -> ReaderState] /\ fanin' \in [J -> Seq(Nat)] /\ handler' \in [J -> {"running", "ended"}]
  BY <1>1, <1>3, NewReaderFits
<1>9. \A k \in J : Len(fanin'[k]) <= QueueCap /\ \A i \in Elems(fanin'[k]) : <<k, i>> \in DOMAIN reader'
  BY <1>3, <1>5, TransformsAssumption
<1>10. written' \in [Keys -> Nat] /\ phase' = "running"
  BY <1>1 DEF Flow
<1> QED
  BY <1>2, <1>4, <1>5, <1>7, <1>8, <1>9, <1>10, NewReaderFits DEF Flow

Polled == phase = "running" /\ UNCHANGED builderVars /\ written' \in [Keys -> Nat]

\* Writes, and what moves no reader and no channel.
LEMMA FlowWrites ==
  ASSUME Flow, UNCHANGED builderVars, written' \in [Keys -> Nat], UNCHANGED <<reader, fanin, handler>>
  PROVE  Flow'
<1>1. UNCHANGED <<phase, tasks, rec>>
  BY DEF builderVars
<1>2. ASSUME NEW x \in DOMAIN reader
      PROVE  InputOf(x)' \in Keys /\ Counted(x)'
  <2>1. InputOf(x)' = InputOf(x)
    BY <1>1, InputKept
  <2>2. Queued(x)' = Queued(x)
    BY DEF Queued
  <2> QED
    BY <1>1, <2>1, <2>2 DEF Flow, Counted
<1> QED
  BY <1>1, <1>2 DEF Flow

\* One reader moves on.
LEMMA FlowReader ==
  ASSUME Flow, Polled, UNCHANGED <<fanin, handler>>,
         NEW x \in DOMAIN reader, NEW r \in ReaderState, reader' = [reader EXCEPT ![x] = r],
         Fresh(r), r.at = "sending" => x[1] \in DOMAIN handler,
         \/ x[1] \in DOMAIN handler /\ handler[x[1]] = "ended"
         \/ Balanced(r, Queued(x)) /\ (r.at = "ended" => ~rec[InputOf(x)].buffer)
  PROVE  Flow'
<1>1. UNCHANGED <<phase, tasks, rec>> /\ phase = "running" /\ written' \in [Keys -> Nat]
  BY DEF Polled, builderVars
<1>2. /\ reader' \in [DOMAIN reader -> ReaderState] /\ DOMAIN reader' = DOMAIN reader /\ reader'[x] = r
      /\ \A y \in DOMAIN reader : y # x => reader'[y] = reader[y]
  BY DEF Flow
<1>3. ASSUME NEW y \in DOMAIN reader
      PROVE  /\ InputOf(y)' \in Keys /\ Fresh(reader'[y]) /\ Counted(y)'
             /\ reader'[y].at = "sending" => y[1] \in DOMAIN handler
  <2>1. InputOf(y)' = InputOf(y) /\ InputOf(y) \in Keys
    BY <1>1, InputKept DEF Flow
  <2>2. Queued(y)' = Queued(y)
    BY DEF Queued
  <2>3. CASE y = x
    BY <1>1, <1>2, <2>1, <2>2, <2>3 DEF Counted, Balanced
  <2>4. CASE y # x
    BY <1>1, <1>2, <2>1, <2>2, <2>4 DEF Flow, Counted
  <2> QED
    BY <2>3, <2>4
<1> QED
  BY <1>1, <1>2, <1>3 DEF Flow

\* One reader and the channel of its join move on together.
LEMMA FlowBoth ==
  ASSUME Flow, Polled, UNCHANGED handler,
         NEW x \in DOMAIN reader, NEW r \in ReaderState, reader' = [reader EXCEPT ![x] = r],
         x[1] \in DOMAIN handler, Fresh(r), r.at = "ended" => ~rec[InputOf(x)].buffer,
         NEW q \in Seq(Nat), fanin' = [fanin EXCEPT ![x[1]] = q], Len(q) <= QueueCap,
         Elems(q) \subseteq Elems(fanin[x[1]]) \cup {x[2]},
         \A i : i # x[2] => HowMany(q, {i}) = HowMany(fanin[x[1]], {i}),
         Balanced(r, HowMany(q, {x[2]}))
  PROVE  Flow'
<1> DEFINE k == x[1]
<1>1. UNCHANGED <<phase, tasks, rec>> /\ phase = "running" /\ written' \in [Keys -> Nat]
  BY DEF Polled, builderVars
<1>2. /\ reader' \in [DOMAIN reader -> ReaderState] /\ DOMAIN reader' = DOMAIN reader /\ reader'[x] = r
      /\ \A y \in DOMAIN reader : y # x => reader'[y] = reader[y]
  BY DEF Flow
<1>3. DOMAIN fanin = DOMAIN handler /\ fanin \in [DOMAIN handler -> Seq(Nat)]
  BY DEF Flow
<1>4. /\ fanin' \in [DOMAIN handler -> Seq(Nat)] /\ DOMAIN fanin' = DOMAIN handler /\ fanin'[k] = q
      /\ \A j \in DOMAIN handler : j # k => fanin'[j] = fanin[j]
  BY <1>3
<1>5. \A y \in DOMAIN reader : y = <<y[1], y[2]>>
  BY DEF Flow
<1>6. ASSUME NEW y \in DOMAIN reader
      PROVE  /\ InputOf(y)' \in Keys /\ Fresh(reader'[y]) /\ Counted(y)'
             /\ reader'[y].at = "sending" => y[1] \in DOMAIN handler
  <2>1. InputOf(y)' = InputOf(y) /\ InputOf(y) \in Keys
    BY <1>1, InputKept DEF Flow
  <2>2. CASE y = x
    <3>1. Queued(x)' = HowMany(q, {x[2]})
      BY <1>4 DEF Queued
    <3> QED
      BY <1>1, <1>2, <2>1, <2>2, <3>1 DEF Counted, Balanced
  <2>3. CASE y # x
    <3>1. Queued(y)' = Queued(y)
      <4>1. CASE y[1] = k
        <5>1. y[2] # x[2]
          BY <1>5, <2>3, <4>1
        <5>2. HowMany(q, {y[2]}) = HowMany(fanin[k], {y[2]})
          BY <5>1
        <5> QED
          BY <1>3, <1>4, <4>1, <5>2 DEF Queued
      <4>2. CASE y[1] # k
        BY <1>3, <1>4, <4>2 DEF Queued
      <4> QED
        BY <4>1, <4>2
    <3> QED
      BY <1>1, <1>2, <2>1, <2>3, <3>1 DEF Flow, Counted
  <2> QED
    BY <2>2, <2>3
<1>7. ASSUME NEW j \in DOMAIN handler
      PROVE  Len(fanin'[j]) <= QueueCap /\ \A i \in Elems(fanin'[j]) : <<j, i>> \in DOMAIN reader
  <2>1. CASE j = k
    <3>1. <<k, x[2]>> \in DOMAIN reader
      BY <1>5
    <3>2. \A i \in Elems(fanin[k]) : <<k, i>> \in DOMAIN reader
      BY DEF Flow
    <3> QED
      BY <1>4, <2>1, <3>1, <3>2
  <2>2. CASE j # k
    BY <1>4, <2>2 DEF Flow
  <2> QED
    BY <2>1, <2>2
<1> QED
  BY <1>1, <1>2, <1>4, <1>6, <1>7 DEF Flow

\* What holds of one reader.
LEMMA ReaderIs ==
  ASSUME Flow, NEW x \in DOMAIN reader
  PROVE  LET r == reader[x]
         IN  /\ r \in ReaderState /\ Fresh(r) /\ Counted(x) /\ InputOf(x) \in Keys
             /\ written[InputOf(x)] \in Nat /\ Queued(x) \in Nat
             /\ r.seen \in Int /\ r.first \in Int /\ r.missed \in Int /\ r.heard \in Int
<1>1. reader[x] \in ReaderState /\ Fresh(reader[x]) /\ Counted(x) /\ InputOf(x) \in Keys
  BY DEF Flow
<1>2. written[InputOf(x)] \in Nat
  BY <1>1 DEF Flow
<1>3. Queued(x) \in Nat
  <2>1. CASE x[1] \in DOMAIN fanin
    <3>1. fanin[x[1]] \in Seq(Nat)
      BY <2>1 DEF Flow
    <3> QED
      BY <2>1, <3>1, HitsCounted DEF Queued
  <2>2. CASE x[1] \notin DOMAIN fanin
    BY <2>2 DEF Queued
  <2> QED
    BY <2>1, <2>2
<1> QED
  BY <1>1, <1>2, <1>3 DEF ReaderState

LEMMA FlowEnds ==
  ASSUME Flow, Polled, UNCHANGED <<fanin, handler>>, NEW x \in DOMAIN reader, Ends(x),
         \/ x[1] \in DOMAIN handler /\ handler[x[1]] = "ended"
         \/ reader[x].at # "sending" /\ ~rec[InputOf(x)].buffer
  PROVE  Flow'
<1> DEFINE r == [reader[x] EXCEPT !.at = "ended"]
<1>1. reader[x] \in ReaderState /\ Fresh(reader[x]) /\ Counted(x)
  BY ReaderIs
<1>2. /\ r \in ReaderState /\ r.at = "ended" /\ r.seen = reader[x].seen /\ r.first = reader[x].first
      /\ r.missed = reader[x].missed /\ r.heard = reader[x].heard
  BY <1>1 DEF ReaderState
<1>3. reader' = [reader EXCEPT ![x] = r]
  BY DEF Ends
<1> HIDE DEF r
<1>4. Fresh(r) /\ r.at # "sending"
  BY <1>2 DEF Fresh
<1>5. \/ x[1] \in DOMAIN handler /\ handler[x[1]] = "ended"
      \/ Balanced(r, Queued(x)) /\ (r.at = "ended" => ~rec[InputOf(x)].buffer)
  BY <1>1, <1>2 DEF Counted, Balanced
<1> QED
  BY <1>2, <1>3, <1>4, <1>5, FlowReader

LEMMA FlowSubscribe ==
  ASSUME Flow, phase = "running", UNCHANGED builderVars, NEW x \in DOMAIN reader, Subscribe(x)
  PROVE  Flow'
<1> DEFINE w == written[InputOf(x)]
           r == [reader[x] EXCEPT !.at = "reading", !.seen = w, !.first = w]
<1>1. Polled /\ UNCHANGED <<fanin, handler>> /\ reader[x].at = "start"
  BY DEF Polled, Subscribe, Flow
<1>2. CASE ~rec[InputOf(x)].buffer
  <2>1. Ends(x)
    BY <1>2 DEF Subscribe
  <2> QED
    BY <1>1, <1>2, <2>1, FlowEnds
<1>3. CASE rec[InputOf(x)].buffer
  <2>1. reader' = [reader EXCEPT ![x] = r]
    BY <1>3 DEF Subscribe
  <2>2. reader[x] \in ReaderState /\ Fresh(reader[x]) /\ Counted(x) /\ w \in Nat /\ Queued(x) \in Nat
    BY ReaderIs
  <2> HIDE DEF w
  <2>3. /\ r \in ReaderState /\ r.at = "reading" /\ r.seen = w /\ r.first = w
        /\ r.missed = reader[x].missed /\ r.heard = reader[x].heard
    <3>1. w \in Int
      BY <2>2
    <3> QED
      BY <2>2, <3>1 DEF ReaderState
  <2> HIDE DEF r
  <2>4. Fresh(r) /\ r.at # "sending" /\ r.at # "ended"
    BY <2>3 DEF Fresh
  <2>5. r.missed = 0 /\ r.heard = 0
    BY <1>1, <2>2, <2>3 DEF Fresh
  <2>6. Balanced(reader[x], Queued(x)) => Queued(x) = 0
    BY <1>1, <2>2 DEF Balanced, Fresh
  <2>7. Queued(x) = 0 => Balanced(r, Queued(x))
    BY <2>2, <2>3, <2>5 DEF Balanced
  <2>8. \/ x[1] \in DOMAIN handler /\ handler[x[1]] = "ended"
        \/ Balanced(r, Queued(x)) /\ (r.at = "ended" => ~rec[InputOf(x)].buffer)
    BY <2>2, <2>4, <2>6, <2>7 DEF Counted
  <2> QED
    BY <1>1, <2>1, <2>3, <2>4, <2>8, FlowReader
<1> QED
  BY <1>2, <1>3

LEMMA FlowLag ==
  ASSUME Flow, phase = "running", UNCHANGED builderVars, NEW x \in DOMAIN reader, Lag(x)
  PROVE  Flow'
<1> DEFINE w == written[InputOf(x)]
           r == [reader[x] EXCEPT !.seen = w - Ring, !.missed = @ + Behind(x) - Ring]
<1>1. Polled /\ UNCHANGED <<fanin, handler>> /\ reader[x].at = "reading"
  BY DEF Polled, Lag, Flow
<1>2. reader' = [reader EXCEPT ![x] = r]
  BY DEF Lag
<1>3. /\ reader[x] \in ReaderState /\ Counted(x) /\ w \in Nat /\ Queued(x) \in Nat /\ Ring \in Nat
      /\ reader[x].seen \in Int /\ reader[x].first \in Int /\ reader[x].missed \in Int /\ reader[x].heard \in Int
  BY ReaderIs, TransformsAssumption
<1>4. Behind(x) = w - reader[x].seen
  BY DEF Behind
<1> HIDE DEF w
<1>5. w - Ring \in Int /\ reader[x].missed + Behind(x) - Ring \in Int
  BY <1>3, <1>4
<1>6. /\ r \in ReaderState /\ r.at = reader[x].at /\ r.seen = w - Ring /\ r.first = reader[x].first
      /\ r.missed = reader[x].missed + Behind(x) - Ring /\ r.heard = reader[x].heard
  BY <1>3, <1>5 DEF ReaderState
<1> HIDE DEF r
<1>7. Fresh(r) /\ r.at # "sending" /\ r.at # "ended"
  BY <1>1, <1>6 DEF Fresh
<1>8. Balanced(reader[x], Queued(x)) => Balanced(r, Queued(x))
  BY <1>1, <1>3, <1>4, <1>6, SMTT(30) DEF Balanced
<1>9. \/ x[1] \in DOMAIN handler /\ handler[x[1]] = "ended"
      \/ Balanced(r, Queued(x)) /\ (r.at = "ended" => ~rec[InputOf(x)].buffer)
  BY <1>3, <1>7, <1>8 DEF Counted
<1> QED
  BY <1>1, <1>2, <1>6, <1>7, <1>9, FlowReader

LEMMA Produces ==
  ASSUME Flow, NEW k, MayProduce(k)
  PROVE  written' \in [Keys -> Nat]
<1>1. written \in [Keys -> Nat]
  BY DEF Flow
<1> QED
  BY <1>1, WrittenTyped DEF MayProduce

LEMMA FlowRecv ==
  ASSUME Flow, phase = "running", UNCHANGED builderVars, NEW x \in DOMAIN reader, Recv(x)
  PROVE  Flow'
<1>1. UNCHANGED <<fanin, handler>> /\ reader[x].at = "reading"
  BY DEF Recv
<1>2. /\ reader[x] \in ReaderState /\ Counted(x) /\ Queued(x) \in Nat
      /\ reader[x].seen \in Int /\ reader[x].first \in Int /\ reader[x].missed \in Int /\ reader[x].heard \in Int
  BY ReaderIs
<1>3. reader[x].seen + 1 \in Int /\ reader[x].heard + 1 \in Int
  BY <1>2
<1>4. CASE x[1] \in DOMAIN handler
  <2> DEFINE r == [reader[x] EXCEPT !.at = "sending", !.seen = @ + 1]
  <2>1. reader' = [reader EXCEPT ![x] = r] /\ UNCHANGED written
    BY <1>4 DEF Recv
  <2>2. /\ r \in ReaderState /\ r.at = "sending" /\ r.seen = reader[x].seen + 1 /\ r.first = reader[x].first
        /\ r.missed = reader[x].missed /\ r.heard = reader[x].heard
    BY <1>2, <1>3 DEF ReaderState
  <2> HIDE DEF r
  <2>3. Fresh(r) /\ r.at # "ended"
    BY <2>2 DEF Fresh
  <2>4. Balanced(reader[x], Queued(x)) => Balanced(r, Queued(x))
    BY <1>1, <1>2, <2>2 DEF Balanced
  <2>5. \/ x[1] \in DOMAIN handler /\ handler[x[1]] = "ended"
        \/ Balanced(r, Queued(x)) /\ (r.at = "ended" => ~rec[InputOf(x)].buffer)
    BY <1>2, <2>3, <2>4 DEF Counted
  <2>6. Polled
    BY <2>1 DEF Polled, Flow
  <2> QED
    BY <1>1, <1>4, <2>1, <2>2, <2>3, <2>5, <2>6, FlowReader
<1>5. CASE x[1] \notin DOMAIN handler
  <2> DEFINE r == [reader[x] EXCEPT !.seen = @ + 1, !.heard = @ + 1]
  <2>1. reader' = [reader EXCEPT ![x] = r] /\ MayProduce(x[1])
    BY <1>5 DEF Recv
  <2>2. /\ r \in ReaderState /\ r.at = "reading" /\ r.seen = reader[x].seen + 1 /\ r.first = reader[x].first
        /\ r.missed = reader[x].missed /\ r.heard = reader[x].heard + 1
    BY <1>1, <1>2, <1>3 DEF ReaderState
  <2> HIDE DEF r
  <2>3. Fresh(r) /\ r.at # "ended" /\ r.at # "sending"
    BY <2>2 DEF Fresh
  <2>4. Balanced(reader[x], Queued(x)) => Balanced(r, Queued(x))
    BY <1>1, <1>2, <2>2 DEF Balanced
  <2>5. \/ x[1] \in DOMAIN handler /\ handler[x[1]] = "ended"
        \/ Balanced(r, Queued(x)) /\ (r.at = "ended" => ~rec[InputOf(x)].buffer)
    BY <1>2, <2>3, <2>4 DEF Counted
  <2>6. Polled
    BY <2>1, Produces DEF Polled
  <2> QED
    BY <1>1, <2>1, <2>2, <2>3, <2>5, <2>6, FlowReader
<1> QED
  BY <1>4, <1>5

LEMMA FlowSend ==
  ASSUME Flow, phase = "running", UNCHANGED builderVars, NEW x \in DOMAIN reader, Send(x)
  PROVE  Flow'
<1> DEFINE k == x[1]
<1>1. Polled /\ UNCHANGED handler /\ reader[x].at = "sending" /\ k \in DOMAIN handler
  BY DEF Polled, Send, Flow
<1>2. CASE handler[k] = "ended" /\ Ends(x) /\ UNCHANGED fanin
  BY <1>1, <1>2, FlowEnds
<1>3. CASE /\ handler[k] = "running" /\ Len(fanin[k]) < QueueCap
           /\ fanin' = [fanin EXCEPT ![k] = Append(fanin[k], x[2])]
           /\ reader' = [reader EXCEPT ![x].at = "reading"]
  <2> DEFINE r == [reader[x] EXCEPT !.at = "reading"]
             f == fanin[k]
             q == Append(f, x[2])
  <2>1. /\ reader[x] \in ReaderState /\ Counted(x) /\ Queued(x) \in Nat
        /\ reader[x].seen \in Int /\ reader[x].first \in Int /\ reader[x].missed \in Int /\ reader[x].heard \in Int
    BY ReaderIs
  <2>2. /\ r \in ReaderState /\ r.at = "reading" /\ r.seen = reader[x].seen /\ r.first = reader[x].first
        /\ r.missed = reader[x].missed /\ r.heard = reader[x].heard
    BY <2>1 DEF ReaderState
  <2>3. reader' = [reader EXCEPT ![x] = r] /\ fanin' = [fanin EXCEPT ![k] = q]
    BY <1>3
  <2>4. f \in Seq(Nat) /\ x[2] \in Nat /\ Queued(x) = HowMany(f, {x[2]}) /\ Len(f) < QueueCap
    BY <1>1, <1>3 DEF Flow, Queued
  <2> HIDE DEF r, f
  <2>5. q \in Seq(Nat) /\ Elems(q) \subseteq Elems(f) \cup {x[2]}
    BY <2>4, AppendElems
  <2>6. Len(q) <= QueueCap
    BY <2>4, TransformsAssumption
  <2>7. \A i : HowMany(q, {i}) = HowMany(f, {i}) + (IF x[2] \in {i} THEN 1 ELSE 0)
    BY <2>4, HitsAppend
  <2>8. ASSUME NEW i, i # x[2] PROVE HowMany(q, {i}) = HowMany(f, {i})
    <3>1. HowMany(f, {i}) \in Nat
      BY <2>4, HitsCounted
    <3>2. HowMany(q, {i}) = HowMany(f, {i}) + (IF x[2] \in {i} THEN 1 ELSE 0)
      BY <2>7
    <3>3. x[2] \notin {i}
      BY <2>8
    <3>4. HowMany(q, {i}) = HowMany(f, {i}) + 0
      BY <3>2, <3>3
    <3> QED
      BY <3>1, <3>4
  <2>9. HowMany(q, {x[2]}) = Queued(x) + 1
    BY <2>4, <2>7
  <2> HIDE DEF q
  <2>10. Fresh(r) /\ r.at # "ended"
    BY <2>2 DEF Fresh
  <2>11. Balanced(reader[x], Queued(x))
    BY <1>3, <2>1 DEF Counted
  <2>12. Balanced(r, HowMany(q, {x[2]}))
    BY <1>1, <2>1, <2>2, <2>9, <2>11 DEF Balanced
  <2> QED
    BY <1>1, <2>2, <2>3, <2>5, <2>6, <2>8, <2>10, <2>12, FlowBoth DEF f
<1> QED
  BY <1>1, <1>2, <1>3 DEF Send

LEMMA FlowTrigger ==
  ASSUME Flow, phase = "running", UNCHANGED builderVars, NEW k \in DOMAIN handler, Trigger(k)
  PROVE  Flow'
<1> DEFINE f == fanin[k]
           q == Tail(f)
           x == <<k, Head(f)>>
           r == [reader[x] EXCEPT !.heard = @ + 1]
<1>1. /\ handler[k] = "running" /\ f # <<>> /\ fanin' = [fanin EXCEPT ![k] = q]
      /\ reader' = [reader EXCEPT ![x] = r] /\ MayProduce(k) /\ UNCHANGED handler
  BY DEF Trigger
<1>2. f \in Seq(Nat) /\ Len(f) <= QueueCap /\ \A i \in Elems(f) : <<k, i>> \in DOMAIN reader
  BY DEF Flow
<1>3. q \in Seq(Nat) /\ Elems(f) = {Head(f)} \cup Elems(q) /\ Head(f) \in Nat
  BY <1>1, <1>2, TailElems
<1>4. x \in DOMAIN reader /\ x[1] = k /\ x[2] = Head(f)
  BY <1>2, <1>3
<1>5. Len(q) <= QueueCap
  BY <1>1, <1>2, TransformsAssumption
<1>6. \A i : HowMany(f, {i}) = (IF Head(f) \in {i} THEN 1 ELSE 0) + HowMany(q, {i})
  BY <1>1, <1>2, HitsTail
<1>7. \A i : HowMany(q, {i}) \in Nat
  BY <1>3, HitsCounted
<1>8. Queued(x) = HowMany(f, {x[2]})
  BY <1>4 DEF Queued, Flow
<1> HIDE DEF x, f
<1>9. /\ reader[x] \in ReaderState /\ Counted(x) /\ Fresh(reader[x]) /\ Queued(x) \in Nat
      /\ reader[x].seen \in Int /\ reader[x].first \in Int /\ reader[x].missed \in Int /\ reader[x].heard \in Int
  BY <1>4, ReaderIs
<1>10. reader[x].heard + 1 \in Int
  BY <1>9
<1>11. /\ r \in ReaderState /\ r.at = reader[x].at /\ r.seen = reader[x].seen /\ r.first = reader[x].first
       /\ r.missed = reader[x].missed /\ r.heard = reader[x].heard + 1
  BY <1>9, <1>10 DEF ReaderState
<1> HIDE DEF r, q
<1>12. Balanced(reader[x], Queued(x)) /\ (reader[x].at = "ended" => ~rec[InputOf(x)].buffer)
  BY <1>1, <1>4, <1>9 DEF Counted
<1>13. Queued(x) = 1 + HowMany(q, {x[2]})
  BY <1>4, <1>6, <1>8
<1>14. ASSUME NEW i, i # x[2] PROVE HowMany(q, {i}) = HowMany(f, {i})
  <2>1. HowMany(q, {i}) \in Nat
    BY <1>7
  <2>2. HowMany(f, {i}) = (IF Head(f) \in {i} THEN 1 ELSE 0) + HowMany(q, {i})
    BY <1>6
  <2>3. Head(f) \notin {i}
    BY <1>4, <1>14
  <2>4. HowMany(f, {i}) = 0 + HowMany(q, {i})
    BY <2>2, <2>3
  <2> QED
    BY <2>1, <2>4
<1>15. Balanced(r, HowMany(q, {x[2]}))
  <2>1. HowMany(q, {x[2]}) \in Nat
    BY <1>7
  <2> QED
    BY <1>9, <1>11, <1>12, <1>13, <2>1 DEF Balanced
<1>16. reader[x].at # "start"
  <2> SUFFICES ASSUME reader[x].at = "start" PROVE FALSE
    OBVIOUS
  <2>1. HowMany(q, {x[2]}) \in Nat
    BY <1>7
  <2>2. Queued(x) = 0
    BY <1>9, <1>12 DEF Balanced, Fresh
  <2> QED
    BY <1>13, <2>1, <2>2
<1>17. Fresh(r)
  BY <1>11, <1>16 DEF Fresh
<1>18. Polled
  BY <1>1, Produces DEF Polled
<1>19. Elems(q) \subseteq Elems(fanin[x[1]]) \cup {x[2]}
  BY <1>3, <1>4 DEF f
<1> QED
  BY <1>1, <1>3, <1>4, <1>5, <1>11, <1>12, <1>14, <1>15, <1>17, <1>18, <1>19, FlowBoth
     DEF f

LEMMA FlowHandlerEnds ==
  ASSUME Flow, phase = "running", UNCHANGED builderVars, NEW k \in DOMAIN handler, HandlerEnds(k)
  PROVE  Flow'
<1>1. UNCHANGED <<phase, tasks, rec, written, reader>>
  BY DEF HandlerEnds, builderVars
<1>2. /\ DOMAIN handler' = DOMAIN handler /\ handler' \in [DOMAIN handler -> {"running", "ended"}]
      /\ handler'[k] = "ended" /\ \A j \in DOMAIN handler : j # k => handler'[j] = handler[j]
  BY DEF HandlerEnds, Flow
<1>3. <<>> \in Seq(Nat) /\ Len(<<>>) = 0 /\ Elems(<<>>) = {}
  BY DEF Elems
<1>4. /\ fanin' \in [DOMAIN handler -> Seq(Nat)] /\ DOMAIN fanin' = DOMAIN handler /\ DOMAIN fanin = DOMAIN handler
      /\ fanin'[k] = <<>> /\ \A j \in DOMAIN handler : j # k => fanin'[j] = fanin[j]
  BY <1>3 DEF HandlerEnds, Flow
<1>5. ASSUME NEW x \in DOMAIN reader PROVE InputOf(x)' \in Keys /\ Counted(x)'
  <2>1. InputOf(x)' = InputOf(x) /\ InputOf(x) \in Keys
    BY <1>1, InputKept DEF Flow
  <2>2. CASE x[1] = k
    BY <1>2, <2>1, <2>2 DEF Counted
  <2>3. CASE x[1] # k
    <3>1. Queued(x)' = Queued(x)
      BY <1>4, <2>3 DEF Queued
    <3> QED
      BY <1>1, <1>2, <2>1, <2>3, <3>1 DEF Flow, Counted
  <2> QED
    BY <2>2, <2>3
<1>6. ASSUME NEW j \in DOMAIN handler
      PROVE  Len(fanin'[j]) <= QueueCap /\ \A i \in Elems(fanin'[j]) : <<j, i>> \in DOMAIN reader
  <2>1. CASE j = k
    BY <1>3, <1>4, <2>1, TransformsAssumption
  <2>2. CASE j # k
    BY <1>1, <1>4, <2>2 DEF Flow
  <2> QED
    BY <2>1, <2>2
<1> QED
  BY <1>1, <1>2, <1>4, <1>5, <1>6 DEF Flow

LEMMA FlowStep ==
  ASSUME Flow, Collected, [DbNext]_databaseVars
  PROVE  Flow'
<1>0. written \in [Keys -> Nat]
  BY DEF Flow
<1>1. CASE phase # "running" /\ phase' # "running" /\ UNCHANGED transformVars
  <2>1. /\ reader' = <<>> /\ fanin' = <<>> /\ handler' = <<>> /\ written' = written
        /\ reader = <<>> /\ fanin = <<>> /\ handler = <<>>
    BY <1>1 DEF Flow, transformVars
  <2> QED
    BY <2>1 DEF Flow
<1>2. CASE phase # "running" /\ phase' = "running" /\ UNCHANGED transformVars /\ UNCHANGED <<tasks, rec>>
  <2>1. /\ reader' = <<>> /\ fanin' = <<>> /\ handler' = <<>> /\ written' = written
        /\ reader = <<>> /\ fanin = <<>> /\ handler = <<>>
    BY <1>2 DEF Flow, transformVars
  <2> QED
    BY <2>1 DEF Flow
<1>3. CASE Configure /\ UNCHANGED transformVars
  BY <1>1, <1>3
     DEF Configure, WithConnector, StartOrderSeed, ConfigureNew, ConfigureRetyped,
         Register
<1>4. CASE BuildStep
  <2>1. phase # "running"
    BY <1>4
       DEF BuildStep, Build, Validate, Sort, Conclude, Collect, CheckSchemes,
           BuildConnector, Built
  <2>2. phase' = "running" => UNCHANGED <<tasks, rec>>
    BY <1>4
       DEF BuildStep, Build, Validate, Sort, Conclude, Collect, CheckSchemes,
           BuildConnector, Built,
                builderVars, Fail
  <2>3. CASE phase' = "running" /\ StartRunner
    BY <2>2, <2>3, FlowStarts
  <2> QED
    BY <1>1, <1>2, <1>4, <2>1, <2>2, <2>3 DEF BuildStep
<1>5. CASE Running /\ Outside /\ UNCHANGED <<builderVars, graphVars>>
  <2>1. UNCHANGED builderVars /\ UNCHANGED <<reader, fanin, handler>>
    BY <1>5
       DEF Outside, SourceWrite, AppWrite, RemoteWrite, Write, Message, transformVars
  <2>2. written' = written \/ \E k : written' = Written(written, k)
    BY <1>5
       DEF Outside, SourceWrite, AppWrite, RemoteWrite, Write, Message, transformVars
  <2> QED
    BY <1>0, <2>1, <2>2, WrittenTyped, FlowWrites
<1>6. CASE WorkStep
  <2>1. UNCHANGED builderVars /\ phase = "running"
    BY <1>6 DEF WorkStep, Running
  <2>2. ASSUME NEW d \in Dispatchers, Ingest(d) PROVE Flow'
    <3>1. UNCHANGED <<reader, fanin, handler>>
      BY <2>2 DEF Ingest
    <3>2. written' = written \/ \E k : written' = Written(written, k)
      BY <2>2 DEF Ingest
    <3> QED
      BY <1>0, <2>1, <3>1, <3>2, WrittenTyped, FlowWrites
  <2>3. CASE RunTransforms
    BY <2>1, <2>3, FlowSubscribe, FlowLag, FlowRecv, FlowSend, FlowTrigger, FlowHandlerEnds
       DEF RunTransforms, QueueClosed, Returns
  <2> QED
    BY <1>6, <2>2, <2>3 DEF WorkStep, Work
<1>7. CASE UNCHANGED databaseVars
  <2>1. UNCHANGED builderVars /\ UNCHANGED <<written, reader, fanin, handler>>
    BY <1>7 DEF databaseVars, transformVars
  <2> QED
    BY <1>0, <2>1, FlowWrites
<1> QED
  BY <1>3, <1>4, <1>5, <1>6, <1>7 DEF DbNext

\* For any number of records, transforms, joins and inputs and any capacities of
\* rings and channels: every value of an input was handed to the transform or
\* the join handler, waits in the join's channel, is being sent or was reported
\* as lagged, unless the handler has returned; a task that reads an input ends
\* only when the input has no buffer or the handler has returned.
THEOREM ValuesAccountedFor == DbSpec => []EveryValueCounted
<1> DEFINE I == Shapes /\ Graphed /\ Collected /\ Flow
<1>1. DbInit => I
  <2>1. DbInit => tasks = <<>>
    BY DEF DbInit, BuilderInit
  <2>2. <<>> \in Seq(Task) /\ DOMAIN <<>> = {}
    OBVIOUS
  <2>3. DbInit => Collected
    BY <2>1, <2>2 DEF Collected, InTurn, Elems
  <2> QED
    BY <2>3, ShapesInit, FlowInit
<1>2. I /\ [DbNext]_databaseVars => I'
  BY ShapesStep, CollectedStep, FlowStep
<1>3. I => EveryValueCounted
  <2> SUFFICES ASSUME Flow PROVE EveryValueCounted
    OBVIOUS
  <2>1. \A k \in DOMAIN fanin : Len(fanin[k]) <= QueueCap
    BY DEF Flow
  <2>2. ASSUME NEW x \in DOMAIN reader
        PROVE  LET r == reader[x]
                   queued == IF x[1] \in DOMAIN fanin
                               THEN Cardinality({i \in DOMAIN fanin[x[1]] : fanin[x[1]][i] = x[2]}) ELSE 0
               IN  \/ x[1] \in DOMAIN handler /\ handler[x[1]] = "ended"
                   \/ /\ r.seen - r.first = r.missed + r.heard + queued + (IF r.at = "sending" THEN 1 ELSE 0)
                      /\ r.at = "ended" => ~rec[InputOf(x)].buffer
    <3>1. Counted(x)
      BY DEF Flow
    <3>2. Hits(fanin[x[1]], {x[2]}) = {i \in DOMAIN fanin[x[1]] : fanin[x[1]][i] = x[2]}
      BY DEF Hits
    <3>3. Queued(x) = IF x[1] \in DOMAIN fanin
                        THEN Cardinality({i \in DOMAIN fanin[x[1]] : fanin[x[1]][i] = x[2]}) ELSE 0
      BY <3>2 DEF Queued, HowMany
    <3> QED
      BY <3>1, <3>3 DEF Counted, Balanced
  <2> QED
    BY <2>1, <2>2 DEF EveryValueCounted
<1> HIDE DEF I
<1> QED
  BY <1>1, <1>2, <1>3, PTL DEF DbSpec

(***************************************************************************)
(* The registrations made.                                                 *)
(***************************************************************************)
StageKinds == {"source", "tap", "remote", "buffer", "schema", "transform", "inbound", "outbound"}
RecordKinds == StageKinds \cup {"new", "retyped"}

\* The calls of S, each as often as f has it.
NumberedCopies(f, S) == UNION {{<<c, n>> : n \in 1 .. f[c]} : c \in S}

\* Every registration about a record names one that was configured.
Recorded ==
  /\ made \in [DOMAIN made -> Nat \ {0}] /\ IsFiniteSet(Copies(DOMAIN made))
  /\ \A c \in DOMAIN made : /\ c.kind \in RecordKinds => c.key \in DOMAIN rec
                            /\ c.kind \in StageKinds => c.stage \in Stages /\ c.stage.kind = c.kind

\* Bag g has one x more than bag f.
OneMore(f, g, x) ==
  /\ f \in [DOMAIN f -> Nat \ {0}] /\ g \in [DOMAIN f \cup {x} -> Nat \ {0}]
  /\ \A c \in DOMAIN f : c # x => g[c] = f[c]
  /\ g[x] = (IF x \in DOMAIN f THEN f[x] ELSE 0) + 1

LEMMA NoteIs ==
  ASSUME made \in [DOMAIN made -> Nat \ {0}], NEW x, made' = made (+) SetToBag({x})
  PROVE  OneMore(made, made', x) /\ DOMAIN made' = DOMAIN made \cup {x}
BY DEF (+), SetToBag, OneMore

LEMMA NoteNothing ==
  ASSUME made \in [DOMAIN made -> Nat \ {0}], made' = made (+) EmptyBag
  PROVE  made' = made
<1>1. DOMAIN EmptyBag = {}
  BY DEF EmptyBag, SetToBag
<1>2. \A c \in DOMAIN made : made[c] + 0 = made[c]
  OBVIOUS
<1> QED
  BY <1>1, <1>2 DEF (+)

LEMMA CopiesAre ==
  ASSUME NEW f, NEW S, NEW y
  PROVE  y \in NumberedCopies(f, S) <=> \E c \in S : \E n \in 1 .. f[c] : y = <<c, n>>
BY DEF NumberedCopies

\* One more registration x adds one copy to the sets that x belongs to.
LEMMA CopiesKept ==
  ASSUME NEW f, NEW g, NEW x, OneMore(f, g, x), NEW S, S \subseteq DOMAIN f, x \notin S
  PROVE  NumberedCopies(g, S) = NumberedCopies(f, S)
<1>1. \A c \in S : g[c] = f[c]
  BY DEF OneMore
<1>2. \A y : y \in NumberedCopies(g, S) <=> y \in NumberedCopies(f, S)
  BY <1>1, CopiesAre
<1> QED
  BY <1>2

LEMMA OneMoreCopy ==
  ASSUME NEW f, NEW g, NEW x, OneMore(f, g, x), NEW S, S \subseteq DOMAIN f,
         x \in DOMAIN f => x \in S
  PROVE  /\ NumberedCopies(g, S \cup {x}) = NumberedCopies(f, S) \cup {<<x, g[x]>>}
         /\ <<x, g[x]>> \notin NumberedCopies(f, S)
<1> DEFINE D == DOMAIN f
<1>0. /\ f \in [D -> Nat \ {0}] /\ g \in [D \cup {x} -> Nat \ {0}] /\ S \subseteq D
      /\ \A c \in D : c # x => g[c] = f[c]
      /\ g[x] = (IF x \in D THEN f[x] ELSE 0) + 1
  BY DEF OneMore
<1>1. g[x] \in Nat /\ (x \in S => g[x] = f[x] + 1 /\ f[x] \in Nat) /\ (x \notin S => g[x] = 1)
  BY <1>0
<1>2. <<x, g[x]>> \notin NumberedCopies(f, S)
  <2> SUFFICES ASSUME NEW c \in S, NEW n \in 1 .. f[c], <<x, g[x]>> = <<c, n>>
               PROVE FALSE
    BY CopiesAre
  <2>1. x = c /\ g[x] = n /\ n <= f[c]
    OBVIOUS
  <2> QED
    BY <1>1, <2>1
<1>3. ASSUME NEW c \in S \cup {x}, NEW n \in 1 .. g[c]
      PROVE  <<c, n>> \in NumberedCopies(f, S) \cup {<<x, g[x]>>}
  <2>1. CASE c # x
    <3>1. c \in S /\ g[c] = f[c]
      BY <1>0, <2>1
    <3> QED
      BY <3>1, CopiesAre
  <2>2. CASE c = x /\ n = g[x]
    BY <2>2
  <2>3. CASE c = x /\ n # g[x]
    <3>1. c \in S /\ n \in 1 .. f[c]
      BY <1>1, <2>3
    <3> QED
      BY <3>1, CopiesAre
  <2> QED
    BY <2>1, <2>2, <2>3
<1>4. ASSUME NEW c \in S, NEW n \in 1 .. f[c]
      PROVE  <<c, n>> \in NumberedCopies(g, S \cup {x})
  <2>1. n \in 1 .. g[c]
    <3>1. CASE c = x
      BY <1>1, <3>1
    <3>2. CASE c # x
      BY <1>0, <3>2
    <3> QED
      BY <3>1, <3>2
  <2> QED
    BY <2>1, CopiesAre
<1>5. <<x, g[x]>> \in NumberedCopies(g, S \cup {x})
  <2>1. g[x] \in 1 .. g[x]
    BY <1>1
  <2> QED
    BY <2>1, CopiesAre
<1>6. \A y : y \in NumberedCopies(g, S \cup {x}) => y \in NumberedCopies(f, S) \cup {<<x, g[x]>>}
  BY <1>3, CopiesAre
<1>7. \A y : y \in NumberedCopies(f, S) => y \in NumberedCopies(g, S \cup {x})
  BY <1>4, CopiesAre
<1> QED
  BY <1>2, <1>5, <1>6, <1>7

LEMMA CallsGrow ==
  ASSUME Recorded, NEW x, made' = made (+) SetToBag({x}), NEW k, NEW kinds
  PROVE  Calls(k, kinds)' = IF x.kind \in kinds /\ x.key = k THEN Calls(k, kinds) \cup {x} ELSE Calls(k, kinds)
<1>1. DOMAIN made' = DOMAIN made \cup {x}
  BY NoteIs DEF Recorded
<1> QED
  BY <1>1 DEF Calls

LEMMA TimesTyped ==
  ASSUME Recorded, NEW k, NEW kind
  PROVE  /\ IsFiniteSet(Copies(Calls(k, {kind}))) /\ Times(k, kind) \in Nat
         /\ Times(k, kind) > 0 <=> Calls(k, {kind}) # {}
<1> DEFINE C == Calls(k, {kind})
<1>1. C \subseteq DOMAIN made /\ IsFiniteSet(Copies(DOMAIN made)) /\ made \in [DOMAIN made -> Nat \ {0}]
  BY DEF Calls, Recorded
<1>2. Copies(C) = NumberedCopies(made, C) /\ Copies(DOMAIN made) = NumberedCopies(made, DOMAIN made)
  BY DEF Copies, NumberedCopies
<1> HIDE DEF C
<1>3. Copies(C) \subseteq Copies(DOMAIN made)
  BY <1>1, <1>2, CopiesAre
<1>4. IsFiniteSet(Copies(C)) /\ Cardinality(Copies(C)) \in Nat
  BY <1>1, <1>3, FS_Subset, FS_CardinalityType
<1>5. Cardinality(Copies(C)) = 0 <=> Copies(C) = {}
  BY <1>4, FS_EmptySet
<1>6. C # {} => Copies(C) # {}
  <2> SUFFICES ASSUME NEW c \in C PROVE Copies(C) # {}
    OBVIOUS
  <2>1. 1 \in 1 .. made[c]
    BY <1>1
  <2>2. <<c, 1>> \in NumberedCopies(made, C)
    BY <2>1, CopiesAre
  <2> QED
    BY <1>2, <2>2
<1>7. C = {} => Copies(C) = {}
  BY <1>2 DEF NumberedCopies
<1> QED
  BY <1>4, <1>5, <1>6, <1>7 DEF Times, C

LEMMA TimesGrow ==
  ASSUME Recorded, NEW x, made' = made (+) SetToBag({x}), NEW k, NEW kind
  PROVE  Times(k, kind)' = Times(k, kind) + (IF x.kind = kind /\ x.key = k THEN 1 ELSE 0)
<1> DEFINE C == Calls(k, {kind})
           D == DOMAIN made
<1>0. C \subseteq D /\ made \in [D -> Nat \ {0}]
  BY DEF Calls, Recorded
<1>1. OneMore(made, made', x)
  BY <1>0, NoteIs
<1>2. C' = IF x.kind = kind /\ x.key = k THEN C \cup {x} ELSE C
  <2>1. x.kind \in {kind} <=> x.kind = kind
    OBVIOUS
  <2> QED
    BY <2>1, CallsGrow
<1>3. Times(k, kind) = Cardinality(NumberedCopies(made, C)) /\ Times(k, kind)' = Cardinality(NumberedCopies(made', C'))
  BY DEF Times, Copies, NumberedCopies
<1>4. IsFiniteSet(NumberedCopies(made, C)) /\ Times(k, kind) \in Nat
  BY TimesTyped DEF Copies, NumberedCopies
<1>5. x \in D => (x \in C <=> x.kind = kind /\ x.key = k)
  BY DEF Calls
<1>50. x \in C => x.kind = kind /\ x.key = k
  BY DEF Calls
<1> HIDE DEF C, D
<1>6. CASE ~(x.kind = kind /\ x.key = k)
  <2>1. C' = C /\ x \notin C
    BY <1>2, <1>50, <1>6
  <2>2. NumberedCopies(made', C) = NumberedCopies(made, C)
    <3> DEFINE m == made'
    <3> HIDE DEF m
    <3>1. OneMore(made, m, x) /\ C \subseteq DOMAIN made
      BY <1>0, <1>1 DEF D, m
    <3>2. NumberedCopies(m, C) = NumberedCopies(made, C)
      BY <2>1, <3>1, CopiesKept
    <3> QED
      BY <3>2 DEF m
  <2> QED
    BY <1>3, <1>4, <1>6, <2>1, <2>2
<1>7. CASE x.kind = kind /\ x.key = k
  <2>1. C' = C \cup {x} /\ (x \in D => x \in C)
    BY <1>2, <1>5, <1>7
  <2> DEFINE m == made'
  <2> HIDE DEF m
  <2>3. OneMore(made, m, x) /\ C \subseteq DOMAIN made /\ (x \in DOMAIN made => x \in C)
    BY <1>0, <1>1, <2>1 DEF D, m
  <2>4. /\ NumberedCopies(m, C \cup {x}) = NumberedCopies(made, C) \cup {<<x, m[x]>>}
        /\ <<x, m[x]>> \notin NumberedCopies(made, C)
    BY <2>3, OneMoreCopy
  <2>2. /\ NumberedCopies(made', C \cup {x}) = NumberedCopies(made, C) \cup {<<x, made'[x]>>}
        /\ <<x, made'[x]>> \notin NumberedCopies(made, C)
    BY <2>4 DEF m
  <2>5. Cardinality(NumberedCopies(made, C) \cup {<<x, made'[x]>>}) = Cardinality(NumberedCopies(made, C)) + 1
    BY <1>4, <2>2, FS_AddElement
  <2> QED
    BY <1>3, <1>7, <2>1, <2>2, <2>5
<1> QED
  BY <1>6, <1>7

LEMMA RecordedGrows ==
  ASSUME Recorded, NEW x, made' = made (+) SetToBag({x}), DOMAIN rec \subseteq DOMAIN rec',
         x.kind \in RecordKinds => x.key \in DOMAIN rec',
         x.kind \in StageKinds => x.stage \in Stages /\ x.stage.kind = x.kind
  PROVE  Recorded'
<1> DEFINE D == DOMAIN made
<1>0. made \in [D -> Nat \ {0}] /\ IsFiniteSet(NumberedCopies(made, D))
  BY DEF Recorded, Copies, NumberedCopies
<1>1. OneMore(made, made', x) /\ DOMAIN made' = D \cup {x}
  BY <1>0, NoteIs
<1>2. NumberedCopies(made', D \cup {x}) = NumberedCopies(made, D) \cup {<<x, made'[x]>>}
  <2> DEFINE m == made'
  <2> HIDE DEF m
  <2>1. OneMore(made, m, x) /\ D \subseteq DOMAIN made /\ (x \in DOMAIN made => x \in D)
    BY <1>1 DEF m
  <2>2. /\ NumberedCopies(m, D \cup {x}) = NumberedCopies(made, D) \cup {<<x, m[x]>>}
        /\ <<x, m[x]>> \notin NumberedCopies(made, D)
    <3> HIDE DEF D
    <3> QED
      BY <2>1, OneMoreCopy
  <2> QED
    BY <2>2 DEF m
<1>3. IsFiniteSet(NumberedCopies(made', D \cup {x}))
  <2> DEFINE S == NumberedCopies(made, D)
             y == <<x, made'[x]>>
  <2> HIDE DEF S, y
  <2>1. IsFiniteSet(S \cup {y})
    BY <1>0, FS_AddElement DEF S
  <2> QED
    BY <1>2, <2>1 DEF S, y
<1>4. IsFiniteSet(Copies(DOMAIN made))'
  BY <1>1, <1>3 DEF Copies, NumberedCopies
<1>5. \A c \in DOMAIN made' : /\ c.kind \in RecordKinds => c.key \in DOMAIN rec'
                              /\ c.kind \in StageKinds => c.stage \in Stages /\ c.stage.kind = c.kind
  BY <1>1 DEF Recorded
<1> QED
  BY <1>1, <1>4, <1>5 DEF Recorded, OneMore

(***************************************************************************)
(* What the builder keeps of the registrations of a record.                *)
(***************************************************************************)
Blamed(k, what) == [key |-> k, what |-> what] \in errors

\* A link that is good for nothing: flawed, or no connector was there to serve it.
Unserved(c) == c.stage.link.flawed \/ ~c.served

NotedSource(k) ==
  /\ rec[k].source <=> Times(k, "source") > 0
  /\ Blamed(k, "source") <=> Times(k, "source") > 1

NotedTransform(k) ==
  /\ rec[k].transform # {} <=> Times(k, "transform") > 0
  /\ Blamed(k, "transform") <=> Times(k, "transform") > 1
  /\ \A c \in Calls(k, {"transform"}) : Blamed(k, "transform") \/ rec[k].transform = {c.stage.of}
  /\ \A d \in rec[k].transform : \E c \in Calls(k, {"transform"}) : c.stage.of = d

NotedTaps(k) == rec[k].taps = Times(k, "tap")

NotedType(k) == Blamed(k, "type") <=> Calls(k, {"retyped"}) # {}

NotedSchema(k) ==
  /\ rec[k].schema = 0 <=> Calls(k, {"schema"}) = {}
  /\ rec[k].schema # 0 => \E c \in Calls(k, {"schema"}) : c.stage.version = rec[k].schema
  /\ Blamed(k, "schema") <=> \E c \in Calls(k, {"schema"}) : c.stage.version # rec[k].schema

NotedRemote(k) == rec[k].remote <=> Calls(k, {"remote"}) # {}

NotedBuffer(k) == rec[k].buffer <=> Buffered(k)

NotedOutbound(k) ==
  /\ Calls(k, {"outbound"}) # {} <=> rec[k].outbound > 0 \/ Blamed(k, "outbound")
  /\ Blamed(k, "outbound") <=> \E c \in Calls(k, {"outbound"}) : Unserved(c)

\* Two calls name different capacities.
Apart(c, d) ==
  LET a == c.stage.link.capacity
      b == d.stage.link.capacity
  IN  a # 0 /\ b # 0 /\ a # b

NotedInbound(k) ==
  LET calls == Calls(k, {"inbound"})
  IN  /\ calls # {} <=> rec[k].inbound # <<>> \/ Blamed(k, "inbound")
      /\ \A c \in calls : Unserved(c) => Blamed(k, "inbound")
      /\ \A c \in calls : \/ Blamed(k, "inbound") \/ c.stage.link.capacity = 0
                          \/ c.stage.link.capacity \in Elems(rec[k].inbound)
      /\ \A v \in Elems(rec[k].inbound) : \E c \in calls : c.stage.link.capacity = v
      /\ Blamed(k, "inbound") => \/ \E c \in calls : Unserved(c)
                                 \/ \E c, d \in calls : Apart(c, d)

Noted(k) ==
  /\ NotedSource(k) /\ NotedTransform(k) /\ NotedTaps(k) /\ NotedType(k) /\ NotedSchema(k)
  /\ NotedRemote(k) /\ NotedBuffer(k) /\ NotedOutbound(k) /\ NotedInbound(k)

\* Nothing happens to record k.
LEMMA NotedRest ==
  ASSUME NEW k, Noted(k), rec'[k] = rec[k],
         \A kinds \in SUBSET RecordKinds : Calls(k, kinds)' = Calls(k, kinds),
         \A kind \in RecordKinds : Times(k, kind)' = Times(k, kind),
         \A what : Blamed(k, what)' <=> Blamed(k, what)
  PROVE  Noted(k)'
<1>1. /\ {"source"} \in SUBSET RecordKinds /\ {"transform"} \in SUBSET RecordKinds
      /\ {"retyped"} \in SUBSET RecordKinds /\ {"schema"} \in SUBSET RecordKinds
      /\ {"remote"} \in SUBSET RecordKinds /\ {"buffer"} \in SUBSET RecordKinds
      /\ {"new"} \in SUBSET RecordKinds /\ {"outbound"} \in SUBSET RecordKinds
      /\ {"inbound"} \in SUBSET RecordKinds
      /\ "source" \in RecordKinds /\ "transform" \in RecordKinds /\ "tap" \in RecordKinds
  BY DEF RecordKinds, StageKinds
<1>2. /\ NotedSource(k) /\ NotedTransform(k) /\ NotedTaps(k) /\ NotedType(k) /\ NotedSchema(k)
      /\ NotedRemote(k) /\ NotedBuffer(k) /\ NotedOutbound(k) /\ NotedInbound(k)
  BY DEF Noted
<1>3. NotedSource(k)'
  BY <1>1, <1>2 DEF NotedSource
<1>4. NotedTransform(k)'
  BY <1>1, <1>2 DEF NotedTransform
<1>5. NotedTaps(k)'
  BY <1>1, <1>2 DEF NotedTaps
<1>6. NotedType(k)'
  BY <1>1, <1>2 DEF NotedType
<1>7. NotedSchema(k)'
  BY <1>1, <1>2 DEF NotedSchema
<1>8. NotedRemote(k)'
  BY <1>1, <1>2 DEF NotedRemote
<1>9. NotedBuffer(k)'
  BY <1>1, <1>2 DEF NotedBuffer, Buffered
<1>10. NotedOutbound(k)'
  BY <1>1, <1>2 DEF NotedOutbound
<1>11. NotedInbound(k)'
  <2>1. Calls(k, {"inbound"})' = Calls(k, {"inbound"}) /\ (Blamed(k, "inbound")' <=> Blamed(k, "inbound"))
    BY <1>1
  <2> QED
    BY <1>2, <2>1 DEF NotedInbound, Unserved, Apart
<1> QED
  BY <1>3, <1>4, <1>5, <1>6, <1>7, <1>8, <1>9, <1>10, <1>11 DEF Noted

\* The mistake a registration is, if any.
Mistake(k, st) ==
  \/ st.kind = "source" /\ rec[k].source
  \/ st.kind = "transform" /\ rec[k].transform # {}
  \/ st.kind = "schema" /\ rec[k].schema \notin {0, st.version}
  \/ st.kind = "outbound" /\ ~LinkUsable(st.link)
  \/ st.kind = "inbound" /\ ~(LinkUsable(st.link) /\ SameCapacity(rec[k], st.link))

\* A registration changes one field, and only when it is no mistake.
Registers(k, st, q, r) ==
  /\ r.type = q.type
  /\ r.source = IF st.kind = "source" THEN TRUE ELSE q.source
  /\ r.transform = IF st.kind = "transform" /\ ~Mistake(k, st) THEN {st.of} ELSE q.transform
  /\ r.schema = IF st.kind = "schema" /\ ~Mistake(k, st) THEN st.version ELSE q.schema
  /\ r.taps = IF st.kind = "tap" THEN q.taps + 1 ELSE q.taps
  /\ r.remote = IF st.kind = "remote" THEN TRUE ELSE q.remote
  /\ r.buffer = IF st.kind = "buffer" THEN TRUE ELSE q.buffer
  /\ r.outbound = IF st.kind = "outbound" /\ ~Mistake(k, st) THEN q.outbound + 1 ELSE q.outbound
  /\ r.inbound = IF st.kind = "inbound" /\ ~Mistake(k, st) THEN Append(q.inbound, st.link.capacity)
                 ELSE q.inbound

LEMMA RegistrarDoes ==
  ASSUME Shapes, NEW k \in DOMAIN rec, NEW st \in Stages, Registrar(k, st)
  PROVE  /\ Registers(k, st, rec[k], rec'[k])
         /\ DOMAIN rec' = DOMAIN rec /\ \A j \in DOMAIN rec : j # k => rec'[j] = rec[j]
         /\ errors' = errors \cup {e \in {[key |-> k, what |-> st.kind]} : Mistake(k, st)}
<1> DEFINE q == rec[k]
           Done == /\ Registers(k, st, rec[k], rec'[k])
                   /\ DOMAIN rec' = DOMAIN rec /\ \A j \in DOMAIN rec : j # k => rec'[j] = rec[j]
                   /\ errors' = errors \cup {e \in {[key |-> k, what |-> st.kind]} : Mistake(k, st)}
<1>1. q \in TypedRecord /\ rec \in Seq(TypedRecord)
  BY ShapesGive DEF Shapes
<1>2. ASSUME PushConfigError(k, st.kind), Mistake(k, st)
      PROVE  Done
  <2>1. rec' = rec /\ errors' = errors \cup {[key |-> k, what |-> st.kind]}
    BY <1>2 DEF PushConfigError
  <2>2. st.kind \notin {"tap", "remote", "buffer"} /\ (st.kind = "source" => q.source = TRUE)
    BY <1>1, <1>2 DEF Mistake, TypedRecord
  <2>3. Registers(k, st, q, q)
    BY <1>2, <2>2 DEF Registers
  <2> QED
    BY <1>2, <2>1, <2>3
<1>3. ASSUME NEW r \in TypedRecord, Keep(k, r), ~Mistake(k, st), Registers(k, st, q, r)
      PROVE  Done
  <2>1. /\ DOMAIN rec' = DOMAIN rec /\ rec'[k] = r /\ \A j \in DOMAIN rec : j # k => rec'[j] = rec[j]
    BY <1>3, KeepOne
  <2>2. errors' = errors
    BY <1>3 DEF Keep
  <2> QED
    BY <1>3, <2>1, <2>2
<1>4. CASE st.kind = "source" /\ SetProducer(k)
  <2> DEFINE r == [q EXCEPT !.source = TRUE]
  <2>1. r \in TypedRecord
    BY <1>1, Edited
  <2>2. IF Mistake(k, st) THEN PushConfigError(k, st.kind) ELSE Keep(k, r)
    BY <1>4 DEF SetProducer, Mistake
  <2>3. ~Mistake(k, st) => Registers(k, st, q, r)
    BY <1>1, <1>4 DEF Registers, TypedRecord
  <2> HIDE DEF r
  <2> QED
    BY <1>2, <1>3, <2>1, <2>2, <2>3
<1>5. CASE st.kind = "transform" /\ SetTransform(k, st.of)
  <2> DEFINE r == [q EXCEPT !.transform = {st.of}]
  <2>1. r \in TypedRecord
    BY <1>1, Edited, <1>5, StageParts
  <2>2. IF Mistake(k, st) THEN PushConfigError(k, st.kind) ELSE Keep(k, r)
    BY <1>5 DEF SetTransform, Mistake
  <2>3. ~Mistake(k, st) => Registers(k, st, q, r)
    BY <1>1, <1>5 DEF Registers, TypedRecord
  <2> HIDE DEF r
  <2> QED
    BY <1>2, <1>3, <2>1, <2>2, <2>3
<1>6. CASE st.kind = "schema" /\ SetSchema(k, st.version)
  <2> DEFINE r == [q EXCEPT !.schema = st.version]
  <2>1. r \in TypedRecord
    BY <1>1, Edited, <1>6, StageParts
  <2>2. IF Mistake(k, st) THEN PushConfigError(k, st.kind) ELSE Keep(k, r)
    BY <1>6 DEF SetSchema, Mistake
  <2>3. ~Mistake(k, st) => Registers(k, st, q, r)
    BY <1>1, <1>6 DEF Registers, TypedRecord
  <2> HIDE DEF r
  <2> QED
    BY <1>2, <1>3, <2>1, <2>2, <2>3
<1>7. CASE st.kind = "tap" /\ AddConsumer(k)
  <2> DEFINE r == [q EXCEPT !.taps = @ + 1]
  <2>1. r \in TypedRecord
    BY <1>1, Edited
  <2>2. Keep(k, r) /\ ~Mistake(k, st)
    BY <1>7 DEF AddConsumer, Mistake
  <2>3. Registers(k, st, q, r)
    BY <1>1, <1>7, <2>2 DEF Registers, TypedRecord
  <2> HIDE DEF r
  <2> QED
    BY <1>3, <2>1, <2>2, <2>3
<1>8. CASE st.kind = "remote" /\ WithRemoteAccess(k)
  <2> DEFINE r == [q EXCEPT !.remote = TRUE]
  <2>1. r \in TypedRecord
    BY <1>1, Edited
  <2>2. Keep(k, r) /\ ~Mistake(k, st)
    BY <1>8 DEF WithRemoteAccess, Mistake
  <2>3. Registers(k, st, q, r)
    BY <1>1, <1>8, <2>2 DEF Registers, TypedRecord
  <2> HIDE DEF r
  <2> QED
    BY <1>3, <2>1, <2>2, <2>3
<1>9. CASE st.kind = "buffer" /\ SetBuffer(k)
  <2> DEFINE r == [q EXCEPT !.buffer = TRUE]
  <2>1. r \in TypedRecord
    BY <1>1, Edited
  <2>2. Keep(k, r) /\ ~Mistake(k, st)
    BY <1>9 DEF SetBuffer, Mistake
  <2>3. Registers(k, st, q, r)
    BY <1>1, <1>9, <2>2 DEF Registers, TypedRecord
  <2> HIDE DEF r
  <2> QED
    BY <1>3, <2>1, <2>2, <2>3
<1>10. CASE st.kind = "outbound" /\ PushOutbound(k, st.link)
  <2> DEFINE r == [q EXCEPT !.outbound = @ + 1]
  <2>1. r \in TypedRecord
    BY <1>1, Edited
  <2>2. IF Mistake(k, st) THEN PushConfigError(k, st.kind) ELSE Keep(k, r)
    BY <1>10 DEF PushOutbound, Mistake
  <2>3. ~Mistake(k, st) => Registers(k, st, q, r)
    BY <1>1, <1>10 DEF Registers, TypedRecord
  <2> HIDE DEF r
  <2> QED
    BY <1>2, <1>3, <2>1, <2>2, <2>3
<1>11. CASE st.kind = "inbound" /\ PushInbound(k, st.link)
  <2> DEFINE r == [q EXCEPT !.inbound = Append(@, st.link.capacity)]
  <2>0. st.link.capacity \in 0 .. 2
    BY <1>11, StageParts DEF Links
  <2>1. r \in TypedRecord
    BY <1>1, <2>0, Edited
  <2>2. IF Mistake(k, st) THEN PushConfigError(k, st.kind) ELSE Keep(k, r)
    BY <1>11 DEF PushInbound, Mistake
  <2>3. ~Mistake(k, st) => Registers(k, st, q, r)
    BY <1>1, <1>11 DEF Registers, TypedRecord
  <2> HIDE DEF r
  <2> QED
    BY <1>2, <1>3, <2>1, <2>2, <2>3
<1>12. Done
  BY <1>4, <1>5, <1>6, <1>7, <1>8, <1>9, <1>10, <1>11 DEF Registrar
<1> QED
  BY <1>12 DEF Done

\* The registration that Register notes.
CallOf(k, st) == [key |-> k, kind |-> st.kind, stage |-> st, served |-> connectors # <<>>]

\* What changes in the account of record k.
Accounts(k, st) ==
  /\ Registers(k, st, rec[k], rec'[k])
  /\ \A kinds : Calls(k, kinds)' = IF st.kind \in kinds THEN Calls(k, kinds) \cup {CallOf(k, st)}
                                                        ELSE Calls(k, kinds)
  /\ \A kind : Times(k, kind)' = Times(k, kind) + (IF kind = st.kind THEN 1 ELSE 0)
  /\ \A what : Blamed(k, what)' <=> Blamed(k, what) \/ (what = st.kind /\ Mistake(k, st))

LEMMA RegisterIs ==
  ASSUME Shapes, Recorded, NEW k \in DOMAIN rec, NEW st \in Stages, Register(k, st)
  PROVE  /\ Accounts(k, st)
         /\ DOMAIN rec' = DOMAIN rec /\ Recorded'
         /\ \A j \in DOMAIN rec : j # k =>
              /\ rec'[j] = rec[j]
              /\ \A kinds : Calls(j, kinds)' = Calls(j, kinds)
              /\ \A kind : Times(j, kind)' = Times(j, kind)
              /\ \A what : Blamed(j, what)' <=> Blamed(j, what)
<1> DEFINE x == CallOf(k, st)
<1>1. made' = made (+) SetToBag({x}) /\ Registrar(k, st)
  BY DEF Register, Note, CallOf
<1>2. /\ Registers(k, st, rec[k], rec'[k]) /\ DOMAIN rec' = DOMAIN rec
      /\ \A j \in DOMAIN rec : j # k => rec'[j] = rec[j]
      /\ errors' = errors \cup {e \in {[key |-> k, what |-> st.kind]} : Mistake(k, st)}
  BY <1>1, RegistrarDoes
<1>3. x.key = k /\ x.kind = st.kind /\ x.stage = st
  BY DEF CallOf
<1>4. st.kind \in StageKinds
  BY StageParts DEF StageKinds
<1> HIDE DEF x
<1>5. ASSUME NEW j, NEW kinds
      PROVE  Calls(j, kinds)' = IF x.kind \in kinds /\ x.key = j THEN Calls(j, kinds) \cup {x}
                                                                   ELSE Calls(j, kinds)
  BY <1>1, CallsGrow
<1>6. ASSUME NEW j, NEW kind
      PROVE  Times(j, kind)' = Times(j, kind) + (IF x.kind = kind /\ x.key = j THEN 1 ELSE 0)
  BY <1>1, TimesGrow
<1>7. ASSUME NEW j, NEW what
      PROVE  Blamed(j, what)' <=> Blamed(j, what) \/ (j = k /\ what = st.kind /\ Mistake(k, st))
  BY <1>2 DEF Blamed
<1>8. Recorded'
  BY <1>1, <1>2, <1>3, <1>4, RecordedGrows
<1>9. Accounts(k, st)
  <2>1. \A kinds : Calls(k, kinds)' = IF st.kind \in kinds THEN Calls(k, kinds) \cup {x} ELSE Calls(k, kinds)
    BY <1>3, <1>5
  <2>2. \A kind : Times(k, kind)' = Times(k, kind) + (IF kind = st.kind THEN 1 ELSE 0)
    BY <1>3, <1>6
  <2> QED
    BY <1>2, <1>7, <2>1, <2>2 DEF Accounts, x
<1>10. ASSUME NEW j \in DOMAIN rec, j # k
       PROVE  /\ rec'[j] = rec[j]
              /\ \A kinds : Calls(j, kinds)' = Calls(j, kinds)
              /\ \A kind : Times(j, kind)' = Times(j, kind)
              /\ \A what : Blamed(j, what)' <=> Blamed(j, what)
  <2>1. \A kinds : Calls(j, kinds)' = Calls(j, kinds)
    BY <1>3, <1>5, <1>10
  <2>2. \A kind : Times(j, kind)' = Times(j, kind)
    <3> SUFFICES ASSUME NEW kind PROVE Times(j, kind)' = Times(j, kind)
      OBVIOUS
    <3>1. Times(j, kind) \in Nat
      BY TimesTyped
    <3> QED
      BY <1>3, <1>6, <1>10, <3>1
  <2> QED
    BY <1>2, <1>7, <1>10, <2>1, <2>2
<1> QED
  BY <1>2, <1>8, <1>9, <1>10

LEMMA NotedRegister ==
  ASSUME Shapes, Recorded, NEW k \in DOMAIN rec, NEW st \in Stages, Register(k, st), Noted(k)
  PROVE  Noted(k)'
<1> DEFINE x == CallOf(k, st)
           q == rec[k]
           r == rec'[k]
           bad == Mistake(k, st)
<1>1. /\ Registers(k, st, q, r)
      /\ \A kinds : Calls(k, kinds)' = IF st.kind \in kinds THEN Calls(k, kinds) \cup {x} ELSE Calls(k, kinds)
      /\ \A kind : Times(k, kind)' = Times(k, kind) + (IF kind = st.kind THEN 1 ELSE 0)
      /\ \A what : Blamed(k, what)' <=> Blamed(k, what) \/ (what = st.kind /\ bad)
  BY RegisterIs DEF Accounts
<1>2. x.key = k /\ x.kind = st.kind /\ x.stage = st /\ (x.served <=> connectors # <<>>)
  BY DEF CallOf
<1>3. /\ NotedSource(k) /\ NotedTransform(k) /\ NotedTaps(k) /\ NotedType(k) /\ NotedSchema(k)
      /\ NotedRemote(k) /\ NotedBuffer(k) /\ NotedOutbound(k) /\ NotedInbound(k)
  BY DEF Noted
<1>4. \A kind : Times(k, kind) \in Nat /\ (Times(k, kind) > 0 <=> Calls(k, {kind}) # {})
  BY TimesTyped
<1>5. q \in TypedRecord /\ st.kind \notin {"retyped", "new", "type"}
  BY ShapesGive, StageParts
<1>6. /\ st.kind = "source" => (bad <=> q.source)
      /\ st.kind = "transform" => (bad <=> q.transform # {})
      /\ st.kind = "schema" => (bad <=> q.schema \notin {0, st.version})
      /\ st.kind = "outbound" => (bad <=> ~LinkUsable(st.link))
      /\ st.kind = "inbound" => (bad <=> ~(LinkUsable(st.link) /\ SameCapacity(q, st.link)))
  BY DEF Mistake
<1>7. /\ r.source = IF st.kind = "source" THEN TRUE ELSE q.source
      /\ r.transform = IF st.kind = "transform" /\ ~bad THEN {st.of} ELSE q.transform
      /\ r.schema = IF st.kind = "schema" /\ ~bad THEN st.version ELSE q.schema
      /\ r.taps = IF st.kind = "tap" THEN q.taps + 1 ELSE q.taps
      /\ r.remote = IF st.kind = "remote" THEN TRUE ELSE q.remote
      /\ r.buffer = IF st.kind = "buffer" THEN TRUE ELSE q.buffer
      /\ r.outbound = IF st.kind = "outbound" /\ ~bad THEN q.outbound + 1 ELSE q.outbound
      /\ r.inbound = IF st.kind = "inbound" /\ ~bad THEN Append(q.inbound, st.link.capacity)
                     ELSE q.inbound
  BY <1>1 DEF Registers
<1> HIDE DEF x, r, bad
<1>8. NotedSource(k)'
  <2>1. q.source \in BOOLEAN /\ Times(k, "source") \in Nat
    BY <1>4, <1>5 DEF TypedRecord
  <2>2. /\ r.source <=> Times(k, "source")' > 0
        /\ Blamed(k, "source")' <=> Times(k, "source")' > 1
    BY <1>1, <1>3, <1>6, <1>7, <2>1 DEF NotedSource
  <2> QED
    BY <2>2 DEF NotedSource, r
<1>9. NotedTransform(k)'
  <2>1. Times(k, "transform") \in Nat /\ (Times(k, "transform") > 0 <=> Calls(k, {"transform"}) # {})
    BY <1>4
  <2>2. /\ r.transform # {} <=> Times(k, "transform")' > 0
        /\ Blamed(k, "transform")' <=> Times(k, "transform")' > 1
    BY <1>1, <1>3, <1>6, <1>7, <2>1 DEF NotedTransform
  <2>3. \A c \in Calls(k, {"transform"})' : Blamed(k, "transform")' \/ r.transform = {c.stage.of}
    <3>1. CASE st.kind # "transform"
      BY <1>1, <1>3, <1>7, <3>1 DEF NotedTransform
    <3>2. CASE st.kind = "transform" /\ bad
      BY <1>1, <3>2
    <3>3. CASE st.kind = "transform" /\ ~bad
      <4>1. Calls(k, {"transform"}) = {}
        BY <1>3, <1>6, <2>1, <3>3 DEF NotedTransform
      <4> QED
        BY <1>1, <1>2, <1>7, <3>3, <4>1
    <3> QED
      BY <3>1, <3>2, <3>3
  <2>4. \A d \in r.transform : \E c \in Calls(k, {"transform"})' : c.stage.of = d
    <3>1. CASE st.kind # "transform" \/ bad
      <4>1. r.transform = q.transform /\ Calls(k, {"transform"}) \subseteq Calls(k, {"transform"})'
        BY <1>1, <1>7, <3>1
      <4> QED
        BY <1>3, <4>1 DEF NotedTransform
    <3>2. CASE st.kind = "transform" /\ ~bad
      <4>1. x \in Calls(k, {"transform"})' /\ r.transform = {x.stage.of}
        BY <1>1, <1>2, <1>7, <3>2
      <4> QED
        BY <4>1
    <3> QED
      BY <3>1, <3>2
  <2> QED
    BY <2>2, <2>3, <2>4 DEF NotedTransform, r
<1>10. NotedTaps(k)'
  <2>1. Times(k, "tap") \in Nat
    BY <1>4
  <2> QED
    BY <1>1, <1>3, <1>7, <2>1 DEF NotedTaps, r
<1>11. NotedType(k)'
  BY <1>1, <1>3, <1>5 DEF NotedType
<1>12. NotedRemote(k)'
  BY <1>1, <1>3, <1>7 DEF NotedRemote, r
<1>13. NotedBuffer(k)'
  <2>1. CASE st.kind = "buffer"
    <3>1. x \in Calls(k, {"buffer"})' /\ r.buffer
      BY <1>1, <1>7, <2>1
    <3> QED
      BY <3>1 DEF NotedBuffer, Buffered, r
  <2>2. CASE st.kind # "buffer"
    <3>1. /\ Calls(k, {"buffer"})' = Calls(k, {"buffer"}) /\ Calls(k, {"new"})' = Calls(k, {"new"})
          /\ r.buffer = q.buffer
      BY <1>1, <1>5, <1>7, <2>2
    <3> QED
      BY <1>3, <3>1 DEF NotedBuffer, Buffered, r
  <2> QED
    BY <2>1, <2>2
<1>14. NotedSchema(k)'
  <2>1. CASE st.kind # "schema"
    <3>1. /\ Calls(k, {"schema"})' = Calls(k, {"schema"}) /\ (Blamed(k, "schema")' <=> Blamed(k, "schema"))
          /\ r.schema = q.schema
      BY <1>1, <1>7, <2>1
    <3> QED
      BY <1>3, <3>1 DEF NotedSchema, r
  <2>2. CASE st.kind = "schema"
    <3>1. Calls(k, {"schema"})' = Calls(k, {"schema"}) \cup {x}
      BY <1>1, <2>2
    <3>2. st.version \in 1 .. 2 /\ x.stage.version = st.version
      BY <1>2, <2>2, StageParts
    <3>3. Blamed(k, "schema")' <=> Blamed(k, "schema") \/ bad
      BY <1>1, <2>2
    <3>4. r.schema = (IF bad THEN q.schema ELSE st.version) /\ (bad <=> q.schema \notin {0, st.version})
      BY <1>6, <1>7, <2>2
    <3>5. /\ q.schema = 0 <=> Calls(k, {"schema"}) = {}
          /\ q.schema # 0 => \E c \in Calls(k, {"schema"}) : c.stage.version = q.schema
          /\ Blamed(k, "schema") <=> \E c \in Calls(k, {"schema"}) : c.stage.version # q.schema
      BY <1>3 DEF NotedSchema
    <3>6. r.schema = (IF q.schema = 0 THEN st.version ELSE q.schema) /\ r.schema # 0
      BY <3>2, <3>4
    <3>7. \E c \in Calls(k, {"schema"})' : c.stage.version = r.schema
      BY <3>1, <3>2, <3>5, <3>6
    <3>8. (\E c \in Calls(k, {"schema"})' : c.stage.version # r.schema)
             <=> (\E c \in Calls(k, {"schema"}) : c.stage.version # r.schema) \/ st.version # r.schema
      BY <3>1, <3>2
    <3>9. Blamed(k, "schema")' <=> \E c \in Calls(k, {"schema"})' : c.stage.version # r.schema
      <4>1. CASE q.schema = 0
        BY <3>2, <3>3, <3>4, <3>5, <3>8, <4>1
      <4>2. CASE q.schema # 0
        BY <3>2, <3>3, <3>4, <3>5, <3>6, <3>8, <4>2
      <4> QED
        BY <4>1, <4>2
    <3> QED
      BY <3>1, <3>6, <3>7, <3>9 DEF NotedSchema, r
  <2> QED
    BY <2>1, <2>2
<1>15. NotedOutbound(k)'
  <2>1. CASE st.kind # "outbound"
    <3>1. /\ Calls(k, {"outbound"})' = Calls(k, {"outbound"})
          /\ (Blamed(k, "outbound")' <=> Blamed(k, "outbound")) /\ r.outbound = q.outbound
      BY <1>1, <1>7, <2>1
    <3> QED
      BY <1>3, <3>1 DEF NotedOutbound, Unserved, r
  <2>2. CASE st.kind = "outbound"
    <3>1. Calls(k, {"outbound"})' = Calls(k, {"outbound"}) \cup {x}
      BY <1>1, <2>2
    <3>2. Blamed(k, "outbound")' <=> Blamed(k, "outbound") \/ bad
      BY <1>1, <2>2
    <3>3. Unserved(x) <=> bad
      BY <1>2, <1>6, <2>2 DEF Unserved, LinkUsable
    <3>4. q.outbound \in Nat /\ r.outbound = IF bad THEN q.outbound ELSE q.outbound + 1
      BY <1>5, <1>7, <2>2 DEF TypedRecord
    <3>5. Blamed(k, "outbound") <=> \E c \in Calls(k, {"outbound"}) : Unserved(c)
      BY <1>3 DEF NotedOutbound
    <3>6. r.outbound > 0 \/ Blamed(k, "outbound")'
      BY <3>2, <3>4
    <3>7. Blamed(k, "outbound")' <=> \E c \in Calls(k, {"outbound"})' : Unserved(c)
      BY <3>1, <3>2, <3>3, <3>5
    <3> QED
      BY <3>1, <3>6, <3>7 DEF NotedOutbound, Unserved, r
  <2> QED
    BY <2>1, <2>2
<1>16. NotedInbound(k)'
  <2> DEFINE C == Calls(k, {"inbound"})
             E == Blamed(k, "inbound")
             cap == st.link.capacity
  <2>1. CASE st.kind # "inbound"
    <3>1. C' = C /\ (E' <=> E) /\ r.inbound = q.inbound
      BY <1>1, <1>7, <2>1
    <3> QED
      BY <1>3, <3>1 DEF NotedInbound, Unserved, Apart, r
  <2>2. CASE st.kind = "inbound"
    <3>1. C' = C \cup {x} /\ (E' <=> E \/ bad) /\ r.inbound = IF bad THEN q.inbound ELSE Append(q.inbound, cap)
      BY <1>1, <1>7, <2>2
    <3>2. bad <=> Unserved(x) \/ ~SameCapacity(q, st.link)
      BY <1>2, <1>6, <2>2 DEF Unserved, LinkUsable
    <3>3. cap \in 0 .. 2 /\ x.stage.link.capacity = cap /\ q.inbound \in Seq(0 .. 2)
      BY <1>2, <1>5, <2>2, StageParts DEF Links, TypedRecord
    <3>4. /\ C # {} <=> q.inbound # <<>> \/ E
          /\ \A c \in C : Unserved(c) => E
          /\ \A c \in C : E \/ c.stage.link.capacity = 0 \/ c.stage.link.capacity \in Elems(q.inbound)
          /\ \A v \in Elems(q.inbound) : \E c \in C : c.stage.link.capacity = v
          /\ E => (\E c \in C : Unserved(c)) \/ (\E c, d \in C : Apart(c, d))
      BY <1>3 DEF NotedInbound
    <3>5. ~bad => Elems(r.inbound) = Elems(q.inbound) \cup {cap} /\ r.inbound # <<>>
      <4> DEFINE in == q.inbound
                 n == cap
      <4> HIDE DEF in, n
      <4>1. in \in Seq(0 .. 2) /\ n \in 0 .. 2
        BY <3>3 DEF in, n
      <4>2. Elems(Append(in, n)) = Elems(in) \cup {n} /\ Append(in, n) # <<>>
        BY <4>1, AppendElems
      <4> QED
        BY <3>1, <4>2 DEF in, n
    <3>6. ~SameCapacity(q, st.link) => \E c \in C : Apart(c, x)
      <4> SUFFICES ASSUME ~SameCapacity(q, st.link) PROVE \E c \in C : Apart(c, x)
        OBVIOUS
      <4>1. cap # 0 /\ \E i \in DOMAIN q.inbound : q.inbound[i] \notin {0, cap}
        BY DEF SameCapacity
      <4>2. PICK c \in C : c.stage.link.capacity \notin {0, cap}
        BY <3>4, <4>1 DEF Elems
      <4> QED
        BY <3>3, <4>1, <4>2 DEF Apart
    <3> HIDE DEF C, E, cap
    <3>7. C' # {} /\ (r.inbound # <<>> \/ E')
      BY <3>1, <3>5
    <3>8. \A c \in C' : Unserved(c) => E'
      BY <3>1, <3>2, <3>4
    <3>9. \A c \in C' : E' \/ c.stage.link.capacity = 0 \/ c.stage.link.capacity \in Elems(r.inbound)
      <4>1. CASE bad
        BY <3>1, <4>1
      <4>2. CASE ~bad
        BY <3>1, <3>3, <3>4, <3>5, <4>2
      <4> QED
        BY <4>1, <4>2
    <3>10. \A v \in Elems(r.inbound) : \E c \in C' : c.stage.link.capacity = v
      <4>1. CASE bad
        BY <3>1, <3>4, <4>1
      <4>2. CASE ~bad
        BY <3>1, <3>3, <3>4, <3>5, <4>2
      <4> QED
        BY <4>1, <4>2
    <3>11. E' => (\E c \in C' : Unserved(c)) \/ (\E c, d \in C' : Apart(c, d))
      BY <3>1, <3>2, <3>4, <3>6
    <3> QED
      BY <3>7, <3>8, <3>9, <3>10, <3>11 DEF NotedInbound, Unserved, Apart, C, E, r
  <2> QED
    BY <2>1, <2>2
<1> QED
  BY <1>8, <1>9, <1>10, <1>11, <1>12, <1>13, <1>14, <1>15, <1>16 DEF Noted

LEMMA Elsewhere ==
  ASSUME Recorded, NEW x, made' = made (+) SetToBag({x}), NEW j
  PROVE  /\ \A kinds : ~(x.kind \in kinds /\ x.key = j) => Calls(j, kinds)' = Calls(j, kinds)
         /\ \A kind : ~(x.kind = kind /\ x.key = j) => Times(j, kind)' = Times(j, kind)
<1>1. ASSUME NEW kinds, ~(x.kind \in kinds /\ x.key = j)
      PROVE  Calls(j, kinds)' = Calls(j, kinds)
  BY <1>1, CallsGrow
<1>2. ASSUME NEW kind, ~(x.kind = kind /\ x.key = j)
      PROVE  Times(j, kind)' = Times(j, kind)
  <2>1. Times(j, kind) \in Nat
    BY TimesTyped
  <2>2. Times(j, kind)' = Times(j, kind) + 0
    BY <1>2, TimesGrow
  <2> QED
    BY <2>1, <2>2
<1> QED
  BY <1>1, <1>2

\* No registration, or one that is not about record j.
LEMMA NotedElsewhere ==
  ASSUME Recorded, NEW j, Noted(j), rec'[j] = rec[j],
         \A what : Blamed(j, what)' <=> Blamed(j, what),
         made' = made \/ \E x : /\ made' = made (+) SetToBag({x})
                                /\ ~(x.kind \in RecordKinds /\ x.key = j)
  PROVE  Noted(j)'
<1>1. CASE made' = made
  <2>1. \A kinds : Calls(j, kinds)' = Calls(j, kinds)
    BY <1>1 DEF Calls
  <2>2. \A kind : Times(j, kind)' = Times(j, kind)
    BY <1>1 DEF Times, Copies, Calls
  <2> QED
    BY <2>1, <2>2, NotedRest
<1>2. ASSUME NEW x, made' = made (+) SetToBag({x}), ~(x.kind \in RecordKinds /\ x.key = j)
      PROVE  Noted(j)'
  <2>1. \A kinds \in SUBSET RecordKinds : Calls(j, kinds)' = Calls(j, kinds)
    BY <1>2, Elsewhere
  <2>2. \A kind \in RecordKinds : Times(j, kind)' = Times(j, kind)
    BY <1>2, Elsewhere
  <2> QED
    BY <2>1, <2>2, NotedRest
<1> QED
  BY <1>1, <1>2

LEMMA NotedNew ==
  ASSUME NEW k, NEW t, NEW b \in BOOLEAN, rec'[k] = [NewRecord(t) EXCEPT !.buffer = b],
         \A kinds \in SUBSET (RecordKinds \ {"new"}) : Calls(k, kinds)' = {},
         \A kind \in RecordKinds \ {"new"} : Times(k, kind)' = 0,
         \A what : ~Blamed(k, what)',
         b <=> \A c \in Calls(k, {"new"})' : c.buffer
  PROVE  Noted(k)'
<1> DEFINE r == rec'[k]
<1>1. /\ r.source = FALSE /\ r.transform = {} /\ r.taps = 0 /\ r.inbound = <<>> /\ r.outbound = 0
      /\ r.remote = FALSE /\ r.schema = 0 /\ r.buffer = b
  BY DEF NewRecord
<1>2. /\ Calls(k, {"retyped"})' = {} /\ Calls(k, {"schema"})' = {} /\ Calls(k, {"remote"})' = {}
      /\ Calls(k, {"buffer"})' = {} /\ Calls(k, {"outbound"})' = {} /\ Calls(k, {"inbound"})' = {}
      /\ Calls(k, {"transform"})' = {}
      /\ Times(k, "source")' = 0 /\ Times(k, "transform")' = 0 /\ Times(k, "tap")' = 0
  BY DEF RecordKinds, StageKinds
<1> HIDE DEF r
<1>3. NotedSource(k)'
  BY <1>1, <1>2 DEF NotedSource, r
<1>4. NotedTransform(k)'
  BY <1>1, <1>2 DEF NotedTransform, r
<1>5. NotedTaps(k)'
  BY <1>1, <1>2 DEF NotedTaps, r
<1>6. NotedType(k)'
  BY <1>1, <1>2 DEF NotedType, r
<1>7. NotedSchema(k)'
  BY <1>1, <1>2 DEF NotedSchema, r
<1>8. NotedRemote(k)'
  BY <1>1, <1>2 DEF NotedRemote, r
<1>9. NotedBuffer(k)'
  BY <1>1, <1>2 DEF NotedBuffer, Buffered, r
<1>10. NotedOutbound(k)'
  BY <1>1, <1>2 DEF NotedOutbound, r
<1>11. NotedInbound(k)'
  <2>1. Elems(<<>>) = {}
    BY DEF Elems
  <2>2. ~Blamed(k, "inbound")' /\ r.inbound = <<>> /\ Calls(k, {"inbound"})' = {}
    BY <1>1, <1>2
  <2> QED
    BY <2>1, <2>2 DEF NotedInbound, r
<1> QED
  BY <1>3, <1>4, <1>5, <1>6, <1>7, <1>8, <1>9, <1>10, <1>11 DEF Noted

MistakeKinds == {"type", "source", "transform", "schema", "inbound", "outbound"}

Accounted ==
  /\ Recorded
  /\ phase = "configuring" =>
       /\ errors \subseteq [key : DOMAIN rec, what : MistakeKinds]
       /\ \A k \in DOMAIN rec : Noted(k)

LEMMA AccountedInit ==
  ASSUME DbInit
  PROVE  Accounted
<1>1. /\ rec = <<>> /\ errors = {}
      /\ made = IF runtime THEN EmptyBag ELSE SetToBag({[kind |-> "no runtime"]})
  BY DEF DbInit, BuilderInit
<1> DEFINE c0 == [kind |-> "no runtime"]
<1>9. c0.kind = "no runtime"
  OBVIOUS
<1> HIDE DEF c0
<1>10. made = [c \in {} |-> 1] \/ made = [c \in {c0} |-> 1]
  BY <1>1 DEF EmptyBag, SetToBag, c0
<1>2. made \in [DOMAIN made -> Nat \ {0}] /\ DOMAIN made \subseteq {c0} /\ \A c \in DOMAIN made : made[c] = 1
  <2>1. CASE made = [c \in {} |-> 1]
    <3>1. DOMAIN made = {}
      BY <2>1
    <3> QED
      BY <2>1, <3>1
  <2>2. CASE made = [c \in {c0} |-> 1]
    <3>1. DOMAIN made = {c0} /\ made[c0] = 1 /\ 1 \in Nat \ {0}
      BY <2>2
    <3> QED
      BY <2>2, <3>1
  <2> QED
    BY <1>10, <2>1, <2>2
<1>3. \A c \in DOMAIN made : c = c0 /\ c.kind = "no runtime" /\ made[c] = 1
  BY <1>2, <1>9
<1>4. IsFiniteSet(Copies(DOMAIN made))
  <2> DEFINE y == <<c0, 1>>
  <2>1. \A z \in Copies(DOMAIN made) : z = y
    <3> SUFFICES ASSUME NEW c \in DOMAIN made, NEW n \in 1 .. made[c] PROVE <<c, n>> = y
      BY DEF Copies
    <3>1. n \in 1 .. 1 /\ c = c0
      BY <1>3
    <3> QED
      BY <3>1
  <2>2. IsFiniteSet({y})
    BY FS_Singleton
  <2> HIDE DEF y
  <2>3. Copies(DOMAIN made) \subseteq {y}
    BY <2>1
  <2> QED
    BY <2>2, <2>3, FS_Subset
<1>5. Recorded
  BY <1>2, <1>3, <1>4 DEF Recorded, RecordKinds, StageKinds
<1>6. DOMAIN rec = {}
  <2>1. DOMAIN <<>> = {}
    OBVIOUS
  <2> QED
    BY <1>1, <2>1
<1> QED
  BY <1>1, <1>5, <1>6 DEF Accounted

LEMMA RecordedKept ==
  ASSUME Recorded, made' = made, DOMAIN rec \subseteq DOMAIN rec'
  PROVE  Recorded'
<1>1. Copies(DOMAIN made)' = Copies(DOMAIN made)
  BY DEF Copies
<1> QED
  BY <1>1 DEF Recorded

\* Registrations that are about no record.
LEMMA AccountedQuiet ==
  ASSUME Accounted, UNCHANGED <<phase, rec, errors>>,
         made' = made \/ \E x : made' = made (+) SetToBag({x}) /\ x.kind \notin RecordKinds
  PROVE  Accounted'
<1>1. Recorded'
  <2>1. ASSUME NEW x, made' = made (+) SetToBag({x}), x.kind \notin RecordKinds PROVE Recorded'
    <3>1. x.kind \notin StageKinds
      BY <2>1 DEF RecordKinds
    <3> QED
      BY <2>1, <3>1, RecordedGrows DEF Accounted
  <2> QED
    BY <2>1, RecordedKept DEF Accounted
<1>2. ASSUME NEW k \in DOMAIN rec, Noted(k) PROVE Noted(k)'
  <2>1. \A what : Blamed(k, what)' <=> Blamed(k, what)
    BY DEF Blamed
  <2> QED
    BY <1>2, <2>1, NotedElsewhere DEF Accounted
<1> QED
  BY <1>1, <1>2 DEF Accounted

LEMMA AccountedConfigure ==
  ASSUME Shapes, Accounted, Configure
  PROVE  Accounted'
<1>0. phase = "configuring" /\ phase' = "configuring"
  BY
     DEF Configure, WithConnector, StartOrderSeed, ConfigureNew, ConfigureRetyped,
         Register
<1>1. /\ Recorded /\ errors \subseteq [key : DOMAIN rec, what : MistakeKinds]
      /\ \A k \in DOMAIN rec : Noted(k)
  BY <1>0 DEF Accounted
<1>2. /\ Registered = DOMAIN rec /\ Len(rec) \in Nat /\ DOMAIN rec = 1 .. Len(rec)
      /\ rec \in Seq(TypedRecord) /\ Len(records) = Len(rec)
  BY ShapesGive DEF Shapes
<1>3. made \in [DOMAIN made -> Nat \ {0}]
  BY <1>1 DEF Recorded
<1>4. ASSUME NEW owns \in BOOLEAN, WithConnector(owns) PROVE Accounted'
  <2> DEFINE x == [kind |-> "connector"]
  <2>1. x.kind \notin RecordKinds
    BY DEF RecordKinds, StageKinds
  <2>2. made' = made (+) EmptyBag \/ made' = made (+) SetToBag({x})
    BY <1>4 DEF WithConnector
  <2>3. made' = made \/ made' = made (+) SetToBag({x})
    BY <1>3, <2>2, NoteNothing
  <2>4. UNCHANGED <<phase, rec, errors>>
    BY <1>4 DEF WithConnector
  <2> HIDE DEF x
  <2> QED
    BY <2>1, <2>3, <2>4, AccountedQuiet
<1>5. CASE StartOrderSeed
  <2> DEFINE x == [kind |-> "seed"]
  <2>1. x.kind \notin RecordKinds
    BY DEF RecordKinds, StageKinds
  <2>2. made' = made (+) SetToBag({x}) /\ UNCHANGED <<phase, rec, errors>>
    BY <1>5 DEF StartOrderSeed, Note
  <2> HIDE DEF x
  <2> QED
    BY <2>1, <2>2, AccountedQuiet
<1>6. ASSUME NEW t \in Types, NEW b \in BOOLEAN, ConfigureNew(t, b) PROVE Accounted'
  <2> SUFFICES ASSUME NEW k, k = Len(records) + 1 PROVE Accounted'
    OBVIOUS
  <2> DEFINE x == [key |-> k, kind |-> "new", type |-> t, buffer |-> b]
             r == [NewRecord(t) EXCEPT !.buffer = b]
  <2>1. /\ rec' = Append(rec, r) /\ errors' = errors
        /\ \/ made' = made (+) EmptyBag /\ b
           \/ made' = made (+) SetToBag({x})
    BY <1>6 DEF ConfigureNew
  <2>2. (made' = made /\ b) \/ made' = made (+) SetToBag({x})
    BY <1>3, <2>1, NoteNothing
  <2>3. x.key = k /\ x.kind = "new" /\ x.buffer = b /\ k \notin DOMAIN rec /\ "new" \in RecordKinds
        /\ "new" \notin StageKinds
    BY <1>2 DEF RecordKinds, StageKinds
  <2>4. r \in TypedRecord
    <3>1. <<>> \in Seq(0 .. 2)
      OBVIOUS
    <3>2. NewRecord(t) \in TypedRecord
      BY <3>1 DEF NewRecord, TypedRecord
    <3> QED
      BY <3>1, <3>2 DEF NewRecord, TypedRecord
  <2> HIDE DEF x, r
  <2>5. /\ DOMAIN rec' = DOMAIN rec \cup {k} /\ rec'[k] = r
        /\ \A j \in DOMAIN rec : rec'[j] = rec[j]
    BY <1>2, <2>1, <2>4
  <2>6. Recorded'
    BY <1>1, <2>2, <2>3, <2>5, RecordedGrows, RecordedKept
  <2>7. \A j, what : Blamed(j, what)' <=> Blamed(j, what)
    BY <2>1 DEF Blamed
  <2>8. ASSUME NEW j \in DOMAIN rec PROVE Noted(j)'
    <3>1. j # k
      BY <2>3
    <3> QED
      BY <1>1, <2>2, <2>3, <2>5, <2>7, <3>1, NotedElsewhere
  <2>9. \A kinds \in SUBSET RecordKinds : Calls(k, kinds) = {}
    BY <1>1, <2>3 DEF Calls, Recorded
  <2>10. \A kinds \in SUBSET (RecordKinds \ {"new"}) : Calls(k, kinds)' = {}
    <3> SUFFICES ASSUME NEW kinds \in SUBSET (RecordKinds \ {"new"})
                 PROVE Calls(k, kinds)' = {}
      OBVIOUS
    <3>1. Calls(k, kinds) = {}
      BY <2>9
    <3>2. CASE made' = made
      BY <3>1, <3>2 DEF Calls
    <3>3. CASE made' = made (+) SetToBag({x})
      BY <1>1, <2>3, <3>1, <3>3, Elsewhere
    <3> QED
      BY <2>2, <3>2, <3>3
  <2>11. \A kind \in RecordKinds \ {"new"} : Times(k, kind)' = 0
    <3> SUFFICES ASSUME NEW kind \in RecordKinds \ {"new"} PROVE Times(k, kind)' = 0
      OBVIOUS
    <3>1. Calls(k, {kind})' = {}
      BY <2>10
    <3>2. Copies({}) = {} /\ Cardinality({}) = 0
      BY FS_EmptySet DEF Copies
    <3>3. Copies(Calls(k, {kind}))' = {}
      BY <3>1 DEF Copies
    <3>4. Times(k, kind)' = Cardinality({})
      BY <3>3 DEF Times
    <3> QED
      BY <3>2, <3>4
  <2>12. \A what : ~Blamed(k, what)'
    <3>1. \A what : ~Blamed(k, what)
      BY <1>1, <2>3 DEF Blamed
    <3> QED
      BY <2>7, <3>1
  <2>13. b <=> \A c \in Calls(k, {"new"})' : c.buffer
    <3>1. Calls(k, {"new"}) = {}
      BY <2>3, <2>9
    <3>2. CASE made' = made /\ b
      BY <3>1, <3>2 DEF Calls
    <3>3. CASE made' = made (+) SetToBag({x})
      <4>1. Calls(k, {"new"})' = {x}
        <5>1. x.kind \in {"new"} /\ x.key = k
          BY <2>3
        <5> QED
          BY <1>1, <3>1, <3>3, <5>1, CallsGrow
      <4> QED
        BY <2>3, <4>1
    <3> QED
      BY <2>2, <3>2, <3>3
  <2>14. Noted(k)'
    BY <2>5, <2>10, <2>11, <2>12, <2>13, NotedNew DEF r
  <2>15. errors' \subseteq [key : DOMAIN rec', what : MistakeKinds]
    BY <1>1, <2>1, <2>5
  <2> QED
    BY <2>5, <2>6, <2>8, <2>14, <2>15 DEF Accounted
<1>7. ASSUME NEW k \in Registered, ConfigureRetyped(k) PROVE Accounted'
  <2> DEFINE x == [key |-> k, kind |-> "retyped"]
  <2>1. /\ made' = made (+) SetToBag({x}) /\ rec' = rec
        /\ errors' = errors \cup {[key |-> k, what |-> "type"]}
    BY <1>7 DEF ConfigureRetyped, Note
  <2>2. x.key = k /\ x.kind = "retyped" /\ k \in DOMAIN rec
    BY <1>2
  <2> HIDE DEF x
  <2>3. Recorded'
    <3>1. "retyped" \notin StageKinds
      BY DEF StageKinds
    <3> QED
      BY <1>1, <2>1, <2>2, <3>1, RecordedGrows
  <2>4. errors' \subseteq [key : DOMAIN rec', what : MistakeKinds]
    <3>1. [key |-> k, what |-> "type"] \in [key : DOMAIN rec, what : MistakeKinds]
      BY <2>2 DEF MistakeKinds
    <3> QED
      BY <1>1, <2>1, <3>1
  <2>5. \A j, what : Blamed(j, what)' <=> Blamed(j, what) \/ (j = k /\ what = "type")
    BY <2>1 DEF Blamed
  <2>6. ASSUME NEW j \in DOMAIN rec, j # k PROVE Noted(j)'
    BY <1>1, <2>1, <2>2, <2>5, <2>6, NotedElsewhere
  <2>7. Noted(k)'
    <3>1. /\ NotedSource(k) /\ NotedTransform(k) /\ NotedTaps(k) /\ NotedType(k) /\ NotedSchema(k)
          /\ NotedRemote(k) /\ NotedBuffer(k) /\ NotedOutbound(k) /\ NotedInbound(k)
      BY <1>1, <2>2 DEF Noted
    <3>2. /\ Calls(k, {"transform"})' = Calls(k, {"transform"}) /\ Calls(k, {"schema"})' = Calls(k, {"schema"})
          /\ Calls(k, {"remote"})' = Calls(k, {"remote"}) /\ Calls(k, {"buffer"})' = Calls(k, {"buffer"})
          /\ Calls(k, {"new"})' = Calls(k, {"new"}) /\ Calls(k, {"outbound"})' = Calls(k, {"outbound"})
          /\ Calls(k, {"inbound"})' = Calls(k, {"inbound"})
          /\ Times(k, "source")' = Times(k, "source") /\ Times(k, "transform")' = Times(k, "transform")
          /\ Times(k, "tap")' = Times(k, "tap")
      BY <1>1, <2>1, <2>2, Elsewhere
    <3>3. Calls(k, {"retyped"})' = Calls(k, {"retyped"}) \cup {x}
      BY <1>1, <2>1, <2>2, CallsGrow
    <3>4. \A what : what # "type" => (Blamed(k, what)' <=> Blamed(k, what))
      BY <2>5
    <3>5. NotedSource(k)' /\ NotedTaps(k)'
      BY <2>1, <3>1, <3>2, <3>4 DEF NotedSource, NotedTaps
    <3>6. NotedTransform(k)'
      BY <2>1, <3>1, <3>2, <3>4 DEF NotedTransform
    <3>7. NotedSchema(k)'
      BY <2>1, <3>1, <3>2, <3>4 DEF NotedSchema
    <3>8. NotedRemote(k)' /\ NotedBuffer(k)'
      BY <2>1, <3>1, <3>2 DEF NotedRemote, NotedBuffer, Buffered
    <3>9. NotedOutbound(k)'
      BY <2>1, <3>1, <3>2, <3>4 DEF NotedOutbound, Unserved
    <3>10. NotedInbound(k)'
      <4>1. (Blamed(k, "inbound")' <=> Blamed(k, "inbound")) /\ Calls(k, {"inbound"})' = Calls(k, {"inbound"})
        BY <3>2, <3>4
      <4> QED
        BY <2>1, <3>1, <4>1 DEF NotedInbound, Unserved, Apart
    <3>11. NotedType(k)'
      BY <2>5, <3>3 DEF NotedType
    <3> QED
      BY <3>5, <3>6, <3>7, <3>8, <3>9, <3>10, <3>11 DEF Noted
  <2> QED
    BY <2>1, <2>3, <2>4, <2>6, <2>7 DEF Accounted
<1>8. ASSUME NEW k \in Registered, NEW st \in Stages, Register(k, st) PROVE Accounted'
  <2>1. k \in DOMAIN rec
    BY <1>2
  <2>2. /\ DOMAIN rec' = DOMAIN rec /\ Recorded'
        /\ \A j \in DOMAIN rec : j # k =>
             /\ rec'[j] = rec[j]
             /\ \A kinds : Calls(j, kinds)' = Calls(j, kinds)
             /\ \A kind : Times(j, kind)' = Times(j, kind)
             /\ \A what : Blamed(j, what)' <=> Blamed(j, what)
    BY <1>1, <1>8, <2>1, RegisterIs
  <2>3. ASSUME NEW j \in DOMAIN rec PROVE Noted(j)'
    <3>1. CASE j = k
      BY <1>1, <1>8, <2>1, <3>1, NotedRegister
    <3>2. CASE j # k
      BY <1>1, <2>2, <3>2, NotedRest
    <3> QED
      BY <3>1, <3>2
  <2>4. errors' \subseteq [key : DOMAIN rec', what : MistakeKinds]
    <3>1. errors' = errors \cup {e \in {[key |-> k, what |-> st.kind]} : Mistake(k, st)}
      BY <1>8, <2>1, RegistrarDoes DEF Register
    <3>2. Mistake(k, st) => [key |-> k, what |-> st.kind] \in [key : DOMAIN rec, what : MistakeKinds]
      BY <2>1 DEF Mistake, MistakeKinds
    <3> QED
      BY <1>1, <2>2, <3>1, <3>2
  <2> QED
    BY <2>2, <2>3, <2>4 DEF Accounted
<1> QED
  BY <1>4, <1>5, <1>6, <1>7, <1>8 DEF Configure

\* build() only takes from the records.
LEMMA BuildKeeps ==
  ASSUME Shapes, Graphed, Build
  PROVE  /\ phase # "configuring" \/ phase' # "configuring"
         /\ made' = made /\ records' = records /\ phase' # "configuring"
         /\ DOMAIN rec' = DOMAIN rec /\ \A k \in DOMAIN rec : rec'[k].type = rec[k].type
<1>1. CASE Collect
  <2> SUFFICES ASSUME NEW k, k = NextToSpawn
               PROVE  /\ made' = made /\ records' = records /\ phase' # "configuring"
                      /\ DOMAIN rec' = DOMAIN rec /\ \A j \in DOMAIN rec : rec'[j].type = rec[j].type
    OBVIOUS
  <2>1. /\ k \in DOMAIN rec
        /\ \/ UNCHANGED rec
           \/ /\ DOMAIN rec' = DOMAIN rec /\ rec'[k] = Taken(rec[k])
              /\ \A j \in DOMAIN rec : j # k => rec'[j] = rec[j]
    BY <1>1, CollectIs
  <2>2. Taken(rec[k]).type = rec[k].type
    <3>1. rec[k] \in TypedRecord
      BY <2>1, ShapesGive
    <3> QED
      BY <3>1 DEF Taken, TypedRecord
  <2>3. made' = made /\ records' = records /\ phase' # "configuring"
    BY <1>1 DEF Collect, Fail
  <2> QED
    BY <2>1, <2>2, <2>3
<1>2. CASE Validate \/ Sort \/ Conclude \/ CheckSchemes \/ BuildConnector \/ Built
  BY <1>2
     DEF Validate, Sort, Conclude, CheckSchemes, BuildConnector, Built, Fail,
         builderVars
<1> QED
  BY <1>1, <1>2 DEF Build

LEMMA AccountedStep ==
  ASSUME Shapes, Graphed, Accounted, [DbNext]_databaseVars
  PROVE  Accounted'
<1>1. CASE Configure
  BY <1>1, AccountedConfigure
<1>2. CASE Build
  BY <1>2, BuildKeeps, RecordedKept DEF Accounted
<1>3. CASE UNCHANGED builderVars
  <2>1. UNCHANGED <<phase, rec, errors, made>>
    BY <1>3 DEF builderVars
  <2> QED
    BY <2>1, AccountedQuiet
<1> QED
  BY <1>1, <1>2, <1>3 DEF DbNext, BuildStep, WorkStep, databaseVars

(***************************************************************************)
(* The tasks of a record, told from the registrations made.                *)
(***************************************************************************)
\* What a record holds that has not been spawned.
Waits(k) ==
  /\ Times(k, "source") = IF rec[k].source THEN 1 ELSE 0
  /\ Times(k, "transform") = IF rec[k].transform = {} THEN 0 ELSE 1
  /\ Times(k, "tap") = rec[k].taps
  /\ \A c \in Calls(k, {"transform"}) : rec[k].transform = {c.stage.of}

\* What the runner has of one that was.
Spawned(k) ==
  /\ HowMany(tasks, Doing(k, "source")) = Times(k, "source")
  /\ HowMany(tasks, Doing(k, "transform")) = Times(k, "transform")
  /\ HowMany(tasks, Doing(k, "tap")) = Times(k, "tap")
  /\ \A c \in Calls(k, {"transform"}) :
       HowMany(tasks, Doing(k, "forward")) = IF c.stage.of.join THEN Len(c.stage.of.inputs) ELSE 0

Complete ==
  /\ phase \in {"connecting", "running"} => spawn = {}
  /\ phase = "sorting" /\ errors = {} => \A k \in DOMAIN rec : Waits(k)
  /\ phase \in Accepted => /\ \A k \in spawn : Waits(k)
                           /\ \A k \in DOMAIN rec \ spawn : Spawned(k)

LEMMA NotedWaits ==
  ASSUME Recorded, NEW k, Noted(k), errors = {}, rec[k].source \in BOOLEAN
  PROVE  Waits(k)
<1>1. \A what : ~Blamed(k, what)
  BY DEF Blamed
<1>2. NotedSource(k) /\ NotedTransform(k) /\ NotedTaps(k)
  BY DEF Noted
<1>3. Times(k, "source") \in Nat /\ Times(k, "transform") \in Nat
  BY TimesTyped
<1>4. Times(k, "source") = IF rec[k].source THEN 1 ELSE 0
  BY <1>1, <1>2, <1>3 DEF NotedSource
<1>5. Times(k, "transform") = IF rec[k].transform = {} THEN 0 ELSE 1
  BY <1>1, <1>2, <1>3 DEF NotedTransform
<1>6. Times(k, "tap") = rec[k].taps /\ \A c \in Calls(k, {"transform"}) : rec[k].transform = {c.stage.of}
  BY <1>1, <1>2 DEF NotedTaps, NotedTransform
<1> QED
  BY <1>4, <1>5, <1>6 DEF Waits

LEMMA CallsKept ==
  ASSUME made' = made
  PROVE  /\ \A k, kinds : Calls(k, kinds)' = Calls(k, kinds)
         /\ \A k, kind : Times(k, kind)' = Times(k, kind)
BY DEF Calls, Times, Copies

LEMMA CompleteCollect ==
  ASSUME Shapes, Graphed, Collected, Complete, Collect, UNCHANGED <<phase, errors>>,
         NEW k, k = NextToSpawn, k \in spawn, k \in DOMAIN rec,
         tasks' = tasks \o Futures(k), spawn' = spawn \ {k}, DOMAIN rec' = DOMAIN rec,
         \A j \in DOMAIN rec : j # k => rec'[j] = rec[j]
  PROVE  Complete'
<1>1. phase = "collecting" /\ made' = made
  BY DEF Collect
<1>2. /\ \A j \in spawn : Waits(j)
      /\ \A j \in DOMAIN rec \ spawn : Spawned(j)
  BY <1>1 DEF Complete, Accepted
<1>3. tasks \in Seq(Task) /\ Futures(k) \in Seq(Task) /\ spawn \subseteq DOMAIN rec
  BY FuturesAre DEF Collected, Shapes
<1>4. ASSUME NEW j, NEW what
      PROVE  /\ HowMany(tasks', Doing(j, what)) = HowMany(tasks, Doing(j, what)) + HowMany(Futures(k), Doing(j, what))
             /\ HowMany(tasks, Doing(j, what)) \in Nat /\ HowMany(Futures(k), Doing(j, what)) \in Nat
             /\ j # k => HowMany(Futures(k), Doing(j, what)) = 0
  BY <1>3, HitsConcat, HitsCounted, FuturesAre
<1>5. ASSUME NEW what PROVE HowMany(tasks, Doing(k, what)) = 0
  <2>1. ASSUME NEW i \in DOMAIN tasks PROVE tasks[i] \notin Doing(k, what)
    <3>1. tasks[i] \in Elems(tasks)
      BY DEF Elems
    <3>2. tasks[i].record \in DOMAIN rec \ spawn \/ tasks[i].record = NoKey
      BY <3>1 DEF Collected
    <3>3. k # NoKey
      BY ShapesGive DEF NoKey
    <3> QED
      BY <3>2, <3>3 DEF Doing
  <2> QED
    BY <1>3, <2>1, HitsCounted
<1>6. ASSUME NEW j \in spawn' PROVE Waits(j)'
  <2>1. Waits(j) /\ rec'[j] = rec[j]
    BY <1>2, <1>3, <1>6
  <2> QED
    BY <1>1, <2>1, CallsKept DEF Waits
<1>7. ASSUME NEW j \in DOMAIN rec \ spawn PROVE Spawned(j)'
  <2>1. Spawned(j) /\ j # k
    BY <1>2
  <2>2. \A what : HowMany(tasks', Doing(j, what)) = HowMany(tasks, Doing(j, what))
    BY <1>4, <2>1
  <2> QED
    BY <1>1, <2>1, <2>2, CallsKept DEF Spawned
<1>8. Spawned(k)'
  <2>1. \A what : HowMany(tasks', Doing(k, what)) = HowMany(Futures(k), Doing(k, what))
    BY <1>4, <1>5
  <2>2. Waits(k)
    BY <1>2
  <2>3. /\ HowMany(tasks', Doing(k, "source")) = Times(k, "source")
        /\ HowMany(tasks', Doing(k, "transform")) = Times(k, "transform")
        /\ HowMany(tasks', Doing(k, "tap")) = Times(k, "tap")
    BY <2>1, <2>2, FuturesAre DEF Waits
  <2>4. ASSUME NEW c \in Calls(k, {"transform"})
        PROVE  HowMany(tasks', Doing(k, "forward")) = IF c.stage.of.join THEN Len(c.stage.of.inputs) ELSE 0
    <3>1. rec[k].transform = {c.stage.of}
      BY <2>2 DEF Waits
    <3>2. OriginOf(k) = c.stage.of
      BY <3>1 DEF OriginOf
    <3>3. HowMany(Futures(k), Doing(k, "forward")) = Forwarding(k)
      BY FuturesAre
    <3>4. rec[k].transform # {}
      BY <3>1
    <3>5. Forwarding(k) = IF c.stage.of.join THEN Len(c.stage.of.inputs) ELSE 0
      BY <3>2, <3>4 DEF Forwarding
    <3> QED
      BY <2>1, <3>3, <3>5
  <2> QED
    BY <1>1, <2>3, <2>4, CallsKept DEF Spawned
<1> QED
  BY <1>1, <1>6, <1>7, <1>8 DEF Complete, Accepted

LEMMA CompleteConnect ==
  ASSUME Shapes, Graphed, Collected, Complete, BuildConnector, UNCHANGED phase
  PROVE  Complete'
<1> DEFINE u == [record |-> NoKey, does |-> "connect", nr |-> Connected + 1]
<1>1. /\ phase = "connecting" /\ UNCHANGED <<rec, spawn, made>>
      /\ tasks' = Append(tasks, u)
  BY DEF BuildConnector, Fail
<1>2. tasks \in Seq(Task)
  BY DEF Collected
<1>3. u \in Task /\ u.record = NoKey
  <2> DEFINE S == {t \in Task : t.does = "connect"}
  <2>1. Hits(tasks, S) = {i \in DOMAIN tasks : tasks[i].does = "connect"}
    BY <1>2 DEF Hits
  <2>2. HowMany(tasks, S) \in Nat
    BY <1>2, HitsCounted
  <2>3. Connected \in Nat
    BY <2>1, <2>2 DEF HowMany, Connected
  <2> QED
    BY <2>3 DEF Task, NoKey
<1> HIDE DEF u
<1>4. ASSUME NEW j \in DOMAIN rec, NEW what
      PROVE  HowMany(tasks', Doing(j, what)) = HowMany(tasks, Doing(j, what))
  <2>1. j # NoKey
    BY ShapesGive DEF NoKey
  <2>2. u \notin Doing(j, what)
    BY <1>3, <2>1 DEF Doing
  <2>3. HowMany(tasks, Doing(j, what)) \in Nat
    BY <1>2, HitsCounted
  <2>4. HowMany(Append(tasks, u), Doing(j, what)) = HowMany(tasks, Doing(j, what)) + 0
    BY <1>2, <1>3, <2>2, HitsAppend
  <2> QED
    BY <1>1, <2>3, <2>4
<1>5. spawn = {} /\ \A j \in DOMAIN rec \ spawn : Spawned(j)
  BY <1>1 DEF Complete, Accepted
<1>6. ASSUME NEW j \in DOMAIN rec PROVE Spawned(j)'
  <2>1. Spawned(j)
    BY <1>5
  <2> QED
    BY <1>1, <1>4, <2>1, CallsKept DEF Spawned
<1> QED
  BY <1>1, <1>5, <1>6 DEF Complete, Accepted

LEMMA CompleteSame ==
  ASSUME Complete, UNCHANGED <<rec, spawn, made, tasks, errors>>,
         \/ UNCHANGED phase
         \/ phase = "sorting" /\ phase' = "collecting" /\ errors = {} /\ spawn = DOMAIN rec
         \/ phase = "collecting" /\ phase' = "connecting" /\ spawn = {}
         \/ phase = "connecting" /\ phase' = "running"
  PROVE  Complete'
<1>1. \A j : Waits(j) => Waits(j)'
  BY CallsKept DEF Waits
<1>2. \A j : Spawned(j) => Spawned(j)'
  BY CallsKept DEF Spawned
<1> QED
  BY <1>1, <1>2 DEF Complete, Accepted

LEMMA CompleteStep ==
  ASSUME Shapes, Graphed, Collected, Accounted, Complete, [DbNext]_databaseVars
  PROVE  Complete'
<1>0. ASSUME phase' \in {"configuring", "failed"} PROVE Complete'
  BY <1>0 DEF Complete, Accepted
<1>1. CASE Configure
  BY <1>0, <1>1
     DEF Configure, WithConnector, StartOrderSeed, ConfigureNew, ConfigureRetyped,
         Register
<1>2. CASE Validate
  <2>1. CASE phase' = "failed"
    BY <1>0, <2>1
  <2>2. CASE phase' # "failed"
    <3>1. /\ phase = "configuring" /\ phase' = "sorting" /\ errors' = Validated
          /\ UNCHANGED <<rec, spawn, made>>
      BY <1>2, <2>2 DEF Validate, Fail
    <3>2. ASSUME errors' = {}, NEW k \in DOMAIN rec PROVE Waits(k)'
      <4>1. errors = {}
        BY <3>1, <3>2 DEF Validated
      <4>2. rec[k].source \in BOOLEAN
        BY ShapesGive DEF TypedRecord
      <4>3. Waits(k)
        BY <3>1, <4>1, <4>2, NotedWaits DEF Accounted
      <4> QED
        BY <3>1, <4>3, CallsKept DEF Waits
    <3> QED
      BY <3>1, <3>2 DEF Complete, Accepted
  <2> QED
    BY <2>1, <2>2
<1>3. CASE Sort
  BY <1>3, CompleteSame DEF Sort, builderVars
<1>4. CASE Conclude
  <2>1. CASE phase' = "failed"
    BY <1>0, <2>1
  <2>2. CASE phase' # "failed"
    <3>1. /\ phase = "sorting" /\ phase' = "collecting" /\ errors = {}
          /\ UNCHANGED <<rec, spawn, made, tasks, errors>>
      BY <1>4, <2>2 DEF Conclude, Fail
    <3>2. spawn = DOMAIN rec
      BY <3>1 DEF Shapes
    <3> QED
      BY <3>1, <3>2, CompleteSame
  <2> QED
    BY <2>1, <2>2
<1>5. CASE Collect
  <2> SUFFICES ASSUME NEW k, k = NextToSpawn PROVE Complete'
    OBVIOUS
  <2>1. /\ k \in spawn /\ k \in DOMAIN rec
        /\ \/ phase' = "failed"
           \/ /\ tasks' = tasks \o Futures(k) /\ spawn' = spawn \ {k} /\ DOMAIN rec' = DOMAIN rec
              /\ \A j \in DOMAIN rec : j # k => rec'[j] = rec[j]
              /\ UNCHANGED <<phase, errors>>
    BY <1>5, CollectIs DEF Fail
  <2> QED
    BY <1>0, <1>5, <2>1, CompleteCollect
<1>6. CASE CheckSchemes
  BY <1>0, <1>6, CompleteSame DEF CheckSchemes, Fail
<1>7. CASE BuildConnector
  <2>1. phase' = "failed" \/ UNCHANGED phase
    BY <1>7 DEF BuildConnector, Fail
  <2> QED
    BY <1>0, <1>7, <2>1, CompleteConnect
<1>8. CASE Built
  BY <1>8, CompleteSame DEF Built
<1>9. CASE UNCHANGED builderVars
  BY <1>9, CompleteSame DEF builderVars
<1> QED
  BY <1>1, <1>2, <1>3, <1>4, <1>5, <1>6, <1>7, <1>8, <1>9
     DEF DbNext, BuildStep, Build, WorkStep, databaseVars

\* For any number of records and any registrations: the tasks of a record come
\* behind those of every record its transform reads, and a running database has
\* one task per registered source, transform, join input and tap.
THEOREM TasksFollowInputs == DbSpec => []TasksInOrder
<1> DEFINE I == Shapes /\ Graphed /\ Collected /\ Accounted /\ Complete
<1>1. DbInit => I
  <2>1. DbInit => tasks = <<>> /\ phase = "configuring"
    BY DEF DbInit, BuilderInit
  <2>2. <<>> \in Seq(Task) /\ DOMAIN <<>> = {}
    OBVIOUS
  <2>3. DbInit => Collected /\ Complete
    BY <2>1, <2>2 DEF Collected, InTurn, Elems, Complete, Accepted
  <2> QED
    BY <2>3, ShapesInit, AccountedInit
<1>2. I /\ [DbNext]_databaseVars => I'
  BY ShapesStep, CollectedStep, AccountedStep, CompleteStep
<1>3. I => TasksInOrder
  <2> SUFFICES ASSUME Shapes, Collected, Complete PROVE TasksInOrder
    OBVIOUS
  <2>1. \A i, j \in DOMAIN tasks : tasks[i].record \in Inputs(tasks[j].record) => i < j
    BY DEF Collected, InTurn
  <2>2. ASSUME phase = "running", NEW k \in Registered
        PROVE  LET Does(what) == Cardinality({i \in DOMAIN tasks :
                                          tasks[i].record = k /\ tasks[i].does = what})
               IN  /\ Does("source") = Times(k, "source")
                   /\ Does("transform") = Times(k, "transform")
                   /\ Does("tap") = Times(k, "tap")
                   /\ \A c \in Calls(k, {"transform"}) :
                        Does("forward") = IF c.stage.of.join THEN Len(c.stage.of.inputs) ELSE 0
    <3> DEFINE Does(what) == Cardinality({i \in DOMAIN tasks :
                                          tasks[i].record = k /\ tasks[i].does = what})
    <3>1. Spawned(k)
      BY <2>2, ShapesGive DEF Complete, Accepted
    <3>2. ASSUME NEW what PROVE Does(what) = HowMany(tasks, Doing(k, what))
      <4>1. \A i \in DOMAIN tasks : tasks[i] \in Task
        BY DEF Collected
      <4>2. {i \in DOMAIN tasks : tasks[i].record = k /\ tasks[i].does = what} = Hits(tasks, Doing(k, what))
        BY <4>1 DEF Hits, Doing
      <4> QED
        BY <4>2 DEF HowMany
    <3> HIDE DEF Does
    <3>3. /\ Does("source") = Times(k, "source")
          /\ Does("transform") = Times(k, "transform")
          /\ Does("tap") = Times(k, "tap")
          /\ \A c \in Calls(k, {"transform"}) :
               Does("forward") = IF c.stage.of.join THEN Len(c.stage.of.inputs) ELSE 0
      BY <3>1, <3>2 DEF Spawned
    <3> QED
      BY <3>3 DEF Does
  <2> QED
    BY <2>1, <2>2 DEF TasksInOrder
<1> HIDE DEF I
<1> QED
  BY <1>1, <1>2, <1>3, PTL DEF DbSpec

(***************************************************************************)
(* The records that can never start.                                       *)
(***************************************************************************)
LEMMA StuckIs ==
  ASSUME Kahn, Sorted
  PROVE  Stuck = Unplaced /\ (AllPlaced <=> Unplaced = {})
<1> DEFINE N == Len(nodes)
<1>1. /\ N \in Nat /\ DOMAIN nodes = 1 .. N /\ AllKeys = 1 .. N
      /\ order \in Seq(1 .. N) /\ NoTwice(order) /\ DOMAIN degree = 1 .. N
      /\ Len(order) \in Nat /\ DOMAIN order = 1 .. Len(order)
  BY KeysAre DEF Kahn, AllKeys
<1>2. ASSUME NEW k \in 1 .. N
      PROVE  degree[k] \in Nat /\ degree[k] = Cardinality(Missing(k)) /\ IsFiniteSet(Missing(k))
  <2>1. nodes[k].inputs \in Seq(Nat)
    BY <1>1, KeysAre DEF Kahn
  <2>2. Len(nodes[k].inputs) \in Nat /\ DOMAIN nodes[k].inputs = 1 .. Len(nodes[k].inputs)
    BY <2>1
  <2>3. IsFiniteSet(1 .. Len(nodes[k].inputs))
    BY <2>2, UpTo
  <2>4. IsFiniteSet(Missing(k))
    BY <2>2, <2>3, FS_Subset DEF Missing
  <2> QED
    BY <2>4, FS_CardinalityType DEF Kahn
<1>3. Elems(queue) = {}
  BY DEF Sorted, Elems
<1>4. Unplaced = {k \in 1 .. N : k \notin Elems(order)}
  <2>1. \A k \in 1 .. N : degree[k] = 0 <=> k \in Elems(order)
    BY <1>3 DEF Kahn
  <2> HIDE DEF N
  <2>2. \A k \in 1 .. N : degree[k] > 0 <=> k \notin Elems(order)
    BY <1>2, <2>1
  <2> QED
    BY <1>1, <2>2 DEF Unplaced
<1> HIDE DEF N
<1>5. ASSUME NEW k \in Unplaced PROVE Inputs(k) \cap Unplaced # {}
  <2>1. k \in 1 .. N /\ degree[k] > 0
    BY <1>1 DEF Unplaced
  <2>2. Missing(k) # {}
    BY <1>2, <2>1, FS_EmptySet
  <2>3. PICK i \in DOMAIN nodes[k].inputs : nodes[k].inputs[i] \notin Elems(order)
    BY <2>2 DEF Missing
  <2>4. nodes[k].inputs[i] \in 1 .. N /\ nodes[k].inputs[i] \in Inputs(k)
    <3>1. k \in DOMAIN nodes
      BY <1>1, <2>1
    <3>2. Inputs(k) = Elems(nodes[k].inputs)
      BY <3>1, InputsAre
    <3>3. nodes[k].inputs[i] \in DOMAIN nodes
      BY <3>1 DEF Kahn, Closed
    <3> QED
      BY <1>1, <3>2, <3>3 DEF Elems
  <2> QED
    BY <1>4, <2>3, <2>4
<1>6. Unplaced \subseteq Stuck
  <2>1. Unplaced \in SUBSET AllKeys
    BY <1>1, <1>4
  <2> QED
    BY <1>5, <2>1 DEF Stuck
<1>7. Stuck \subseteq Unplaced
  <2> SUFFICES ASSUME NEW S \in SUBSET AllKeys, \A k \in S : Inputs(k) \cap S # {}
               PROVE  S \subseteq Unplaced
    BY DEF Stuck
  <2>1. Elems(order) \cap S = {}
    <3> SUFFICES ASSUME Elems(order) \cap S # {} PROVE FALSE
      OBVIOUS
    <3>1. PICK i \in DOMAIN order : order[i] \in S /\ \A j \in 1 .. i - 1 : order[j] \notin S
      BY <1>1, FirstIndex
    <3>2. PICK y \in Inputs(order[i]) : y \in S
      BY <3>1
    <3>3. \E m \in 1 .. i - 1 : m \in DOMAIN order /\ order[m] = y
      BY InputsFirst
    <3> QED
      BY <3>1, <3>2, <3>3
  <2> QED
    BY <1>1, <1>4, <2>1
<1>8. AllPlaced <=> Elems(order) = 1 .. N
  BY <1>1, AllOrNot DEF AllPlaced, N
<1>9. Elems(order) \subseteq 1 .. N
  BY <1>1 DEF Elems
<1>10. AllPlaced <=> Unplaced = {}
  BY <1>4, <1>8, <1>9
<1> QED
  BY <1>6, <1>7, <1>10

LEMMA StuckKept ==
  ASSUME nodes' = nodes
  PROVE  Stuck' = Stuck
<1>1. AllKeys' = AllKeys /\ \A k : Inputs(k)' = Inputs(k)
  BY DEF AllKeys, Inputs
<1> QED
  BY <1>1 DEF Stuck

\* An accepted database has no record that can never start.
LEMMA NoneStuck ==
  ASSUME Graphed, Shapes, phase \in Accepted
  PROVE  Stuck = {}
<1>1. Kahn /\ Len(nodes) = Len(rec) /\ Elems(order) = DOMAIN rec
  BY DEF Graphed
<1>2. Elems(order) = 1 .. Len(nodes)
  BY <1>1, ShapesGive
<1>3. Sorted
  <2>1. queue \in Seq(1 .. Len(nodes)) /\ Elems(order) \cap Elems(queue) = {}
    BY <1>1 DEF Kahn
  <2>2. Elems(queue) \subseteq 1 .. Len(nodes)
    BY <2>1 DEF Elems
  <2>3. Elems(queue) = {}
    BY <1>2, <2>1, <2>2
  <2>4. Len(queue) \in Nat /\ DOMAIN queue = 1 .. Len(queue)
    BY <2>1
  <2>5. ~(Len(queue) >= 1)
    <3> SUFFICES ASSUME Len(queue) >= 1 PROVE FALSE
      OBVIOUS
    <3>1. 1 \in DOMAIN queue
      BY <2>4
    <3> QED
      BY <2>3, <3>1 DEF Elems
  <2>6. Len(queue) = 0
    BY <2>4, <2>5
  <2> QED
    BY <2>1, <2>6 DEF Sorted
<1>4. AllPlaced
  <2>1. Len(nodes) \in Nat /\ order \in Seq(1 .. Len(nodes)) /\ NoTwice(order)
    BY <1>1, KeysAre DEF Kahn
  <2> QED
    BY <1>2, <2>1, AllOrNot DEF AllPlaced
<1> QED
  BY <1>1, <1>3, <1>4, StuckIs

(***************************************************************************)
(* What is wrong with a record.                                            *)
(***************************************************************************)
LEMMA MoreThanOne ==
  ASSUME NEW S, IsFiniteSet(S)
  PROVE  Cardinality(S) > 1 <=> \E a, b \in S : a # b
<1>1. CASE S = {}
  BY <1>1, FS_EmptySet
<1>2. ASSUME NEW a \in S PROVE Cardinality(S) > 1 <=> \E x, y \in S : x # y
  <2>1. IsFiniteSet(S \ {a}) /\ Cardinality(S \ {a}) = Cardinality(S) - 1
    BY FS_RemoveElement
  <2>2. Cardinality(S) \in Nat /\ Cardinality(S \ {a}) \in Nat
    BY <2>1, FS_CardinalityType
  <2>3. Cardinality(S \ {a}) = 0 <=> S \ {a} = {}
    BY <2>1, FS_EmptySet
  <2>4. Cardinality(S) > 1 <=> S \ {a} # {}
    BY <2>1, <2>2, <2>3
  <2>5. S \ {a} # {} <=> \E x, y \in S : x # y
    OBVIOUS
  <2> QED
    BY <2>4, <2>5
<1> QED
  BY <1>1, <1>2

Schemas(k) == {c.stage.version : c \in Calls(k, {"schema"})}
Capacities(k) == {c.stage.link.capacity : c \in Calls(k, {"inbound"})} \ {0}
WriterKinds(k) == {c.kind : c \in Calls(k, {"source", "transform", "inbound"})}
Mistyped(k) ==
  \E c \in Calls(k, {"transform"}) : \E i \in DOMAIN c.stage.of.inputs :
    c.stage.of.inputs[i] \in Registered /\ rec[c.stage.of.inputs[i]].type # c.stage.of.reads

LEMMA MistakenParts ==
  ASSUME NEW k
  PROVE  Mistaken(k) <=>
           \/ Calls(k, {"retyped"}) # {}
           \/ Times(k, "source") > 1 \/ Times(k, "transform") > 1
           \/ Cardinality(Schemas(k)) > 1 \/ Cardinality(Capacities(k)) > 1
           \/ Cardinality(WriterKinds(k)) > 1
           \/ \E c \in Calls(k, {"inbound", "outbound"}) : Unserved(c)
           \/ (Calls(k, {"inbound", "outbound"}) # {} \/ Calls(k, {"remote"}) # {}) /\ ~Buffered(k)
           \/ Mistyped(k)
BY DEF Mistaken, Schemas, Capacities, WriterKinds, Unserved, Mistyped

LEMMA MistakenKept ==
  ASSUME made' = made, Registered' = Registered,
         \A j \in Registered : rec'[j].type = rec[j].type, NEW k
  PROVE  Mistaken(k)' <=> Mistaken(k)
<1>1. \A kinds : Calls(k, kinds)' = Calls(k, kinds)
  BY CallsKept
<1>2. \A kind : Times(k, kind)' = Times(k, kind)
  BY CallsKept
<1>3. Buffered(k)' <=> Buffered(k)
  BY <1>1 DEF Buffered
<1>4. Schemas(k)' = Schemas(k) /\ Capacities(k)' = Capacities(k) /\ WriterKinds(k)' = WriterKinds(k)
  BY <1>1 DEF Schemas, Capacities, WriterKinds
<1>5. Mistyped(k)' <=> Mistyped(k)
  BY <1>1 DEF Mistyped
<1>6. (\E c \in Calls(k, {"inbound", "outbound"}) : Unserved(c))'
        <=> \E c \in Calls(k, {"inbound", "outbound"}) : Unserved(c)
  BY <1>1 DEF Unserved
<1>7. Mistaken(k) <=>
           \/ Calls(k, {"retyped"}) # {}
           \/ Times(k, "source") > 1 \/ Times(k, "transform") > 1
           \/ Cardinality(Schemas(k)) > 1 \/ Cardinality(Capacities(k)) > 1
           \/ Cardinality(WriterKinds(k)) > 1
           \/ \E c \in Calls(k, {"inbound", "outbound"}) : Unserved(c)
           \/ (Calls(k, {"inbound", "outbound"}) # {} \/ Calls(k, {"remote"}) # {}) /\ ~Buffered(k)
           \/ Mistyped(k)
  BY MistakenParts
<1>8. (Mistaken(k) <=>
           \/ Calls(k, {"retyped"}) # {}
           \/ Times(k, "source") > 1 \/ Times(k, "transform") > 1
           \/ Cardinality(Schemas(k)) > 1 \/ Cardinality(Capacities(k)) > 1
           \/ Cardinality(WriterKinds(k)) > 1
           \/ \E c \in Calls(k, {"inbound", "outbound"}) : Unserved(c)
           \/ (Calls(k, {"inbound", "outbound"}) # {} \/ Calls(k, {"remote"}) # {}) /\ ~Buffered(k)
           \/ Mistyped(k))'
  BY DEF Mistaken, Schemas, Capacities, WriterKinds, Unserved, Mistyped
<1> QED
  BY <1>1, <1>2, <1>3, <1>4, <1>5, <1>6, <1>7, <1>8

LEMMA SchemasBlamed ==
  ASSUME Recorded, NEW k, NotedSchema(k)
  PROVE  Blamed(k, "schema") <=> Cardinality(Schemas(k)) > 1
<1> DEFINE C == Calls(k, {"schema"})
<1>1. \A c \in C : c.stage.version \in 1 .. 2
  <2> SUFFICES ASSUME NEW c \in C PROVE c.stage.version \in 1 .. 2
    OBVIOUS
  <2>1. c \in DOMAIN made /\ c.kind = "schema"
    BY DEF Calls
  <2>2. c.stage \in Stages /\ c.stage.kind = "schema"
    BY <2>1 DEF Recorded, StageKinds
  <2> QED
    BY <2>2, StageParts
<1>2. /\ rec[k].schema = 0 <=> C = {}
      /\ rec[k].schema # 0 => \E c \in C : c.stage.version = rec[k].schema
      /\ Blamed(k, "schema") <=> \E c \in C : c.stage.version # rec[k].schema
  BY DEF NotedSchema
<1>3. IsFiniteSet(Schemas(k))
  <2>1. Schemas(k) \subseteq 1 .. 2
    BY <1>1 DEF Schemas
  <2>2. IsFiniteSet(1 .. 2)
    <3>1. 2 \in Nat
      OBVIOUS
    <3> QED
      BY <3>1, UpTo
  <2> QED
    BY <2>1, <2>2, FS_Subset
<1>4. Cardinality(Schemas(k)) > 1 <=> \E c, d \in C : c.stage.version # d.stage.version
  <2>1. (\E a, b \in Schemas(k) : a # b) <=> \E c, d \in C : c.stage.version # d.stage.version
    BY DEF Schemas
  <2> QED
    BY <1>3, <2>1, MoreThanOne
<1> HIDE DEF C
<1> QED
  BY <1>2, <1>4

LEMMA InboundBlamed ==
  ASSUME Recorded, NEW k, NotedInbound(k), OneCapacity(rec[k])
  PROVE  Blamed(k, "inbound") <=>
           (\E c \in Calls(k, {"inbound"}) : Unserved(c)) \/ Cardinality(Capacities(k)) > 1
<1> DEFINE C == Calls(k, {"inbound"})
           cap(c) == c.stage.link.capacity
<1>1. \A c \in C : cap(c) \in 0 .. 2
  <2> SUFFICES ASSUME NEW c \in C PROVE cap(c) \in 0 .. 2
    OBVIOUS
  <2>1. c \in DOMAIN made /\ c.kind = "inbound"
    BY DEF Calls
  <2>2. c.stage \in Stages /\ c.stage.kind = "inbound"
    BY <2>1 DEF Recorded, StageKinds
  <2>3. c.stage.link \in Links
    BY <2>2, StageParts
  <2> QED
    BY <2>3 DEF Links
<1>2. /\ \A c \in C : Unserved(c) => Blamed(k, "inbound")
      /\ \A c \in C : Blamed(k, "inbound") \/ cap(c) = 0 \/ cap(c) \in Elems(rec[k].inbound)
      /\ Blamed(k, "inbound") => (\E c \in C : Unserved(c)) \/ (\E c, d \in C : Apart(c, d))
  BY DEF NotedInbound
<1>3. IsFiniteSet(Capacities(k))
  <2>1. Capacities(k) \subseteq 1 .. 2
    BY <1>1 DEF Capacities
  <2>2. IsFiniteSet(1 .. 2)
    <3>1. 2 \in Nat
      OBVIOUS
    <3> QED
      BY <3>1, UpTo
  <2> QED
    BY <2>1, <2>2, FS_Subset
<1>4. Cardinality(Capacities(k)) > 1 <=> \E c, d \in C : Apart(c, d)
  <2>1. (\E a, b \in Capacities(k) : a # b) <=> \E c, d \in C : Apart(c, d)
    BY DEF Capacities, Apart
  <2> QED
    BY <1>3, <2>1, MoreThanOne
<1>5. \A c, d \in C : Apart(c, d) => Blamed(k, "inbound")
  <2> SUFFICES ASSUME NEW c \in C, NEW d \in C, Apart(c, d), ~Blamed(k, "inbound")
               PROVE FALSE
    OBVIOUS
  <2>1. cap(c) # 0 /\ cap(d) # 0 /\ cap(c) # cap(d)
    BY DEF Apart
  <2>2. cap(c) \in Elems(rec[k].inbound) /\ cap(d) \in Elems(rec[k].inbound)
    BY <1>2, <2>1
  <2> QED
    BY <2>1, <2>2 DEF OneCapacity, Elems
<1> HIDE DEF C, cap
<1> QED
  BY <1>2, <1>4, <1>5 DEF C

\* Each kind of writer, unless an inbound link was refused.
LEMMA WritersBlamed ==
  ASSUME Recorded, NEW k \in DOMAIN rec, NotedSource(k), NotedTransform(k), NotedInbound(k),
         ~Blamed(k, "inbound")
  PROVE  WriterKinds(k) = Writers(rec[k])
<1>1. /\ rec[k].source <=> Calls(k, {"source"}) # {}
      /\ rec[k].transform # {} <=> Calls(k, {"transform"}) # {}
      /\ rec[k].inbound # <<>> <=> Calls(k, {"inbound"}) # {}
  BY TimesTyped DEF NotedSource, NotedTransform, NotedInbound
<1>2. /\ "source" \in Writers(rec[k]) <=> rec[k].source
      /\ "transform" \in Writers(rec[k]) <=> rec[k].transform # {}
      /\ "inbound" \in Writers(rec[k]) <=> rec[k].inbound # <<>>
      /\ \A w \in Writers(rec[k]) : w = "source" \/ w = "transform" \/ w = "inbound"
  BY DEF Writers
<1>3. /\ "source" \in WriterKinds(k) <=> Calls(k, {"source"}) # {}
      /\ "transform" \in WriterKinds(k) <=> Calls(k, {"transform"}) # {}
      /\ "inbound" \in WriterKinds(k) <=> Calls(k, {"inbound"}) # {}
      /\ \A w \in WriterKinds(k) : w = "source" \/ w = "transform" \/ w = "inbound"
  <2>1. \A c : c \in Calls(k, {"source", "transform", "inbound"}) <=>
                 c \in DOMAIN made /\ (c.kind = "source" \/ c.kind = "transform" \/ c.kind = "inbound") /\ c.key = k
    BY DEF Calls
  <2>2. \A w, c : c \in Calls(k, {w}) <=> c \in DOMAIN made /\ c.kind = w /\ c.key = k
    BY DEF Calls
  <2> QED
    BY <2>1, <2>2 DEF WriterKinds
<1> DEFINE A == WriterKinds(k)
           B == Writers(rec[k])
<1> HIDE DEF A, B
<1>4. ("source" \in A <=> "source" \in B) /\ ("transform" \in A <=> "transform" \in B)
      /\ ("inbound" \in A <=> "inbound" \in B)
  BY <1>1, <1>2, <1>3 DEF A, B
<1>5. \A w \in A \cup B : w = "source" \/ w = "transform" \/ w = "inbound"
  BY <1>2, <1>3 DEF A, B
<1>6. A = B
  BY <1>4, <1>5
<1> QED
  BY <1>6 DEF A, B

LEMMA LinksAre ==
  ASSUME NEW k
  PROVE  Calls(k, {"inbound", "outbound"}) = Calls(k, {"inbound"}) \cup Calls(k, {"outbound"})
BY DEF Calls

\* What the records and the noted mistakes say is what the registrations say.
LEMMA MistakenIs ==
  ASSUME Shapes, Recorded, NEW k \in DOMAIN rec, Noted(k)
  PROVE  Mistaken(k) <=> \/ \E what \in MistakeKinds : Blamed(k, what)
                         \/ RemoteUnbuffered(rec[k]) \/ LinkUnbuffered(rec[k])
                         \/ WritersConflict(rec[k]) \/ InputMistyped(rec[k])
<1>1. /\ NotedSource(k) /\ NotedTransform(k) /\ NotedTaps(k) /\ NotedType(k) /\ NotedSchema(k)
      /\ NotedRemote(k) /\ NotedBuffer(k) /\ NotedOutbound(k) /\ NotedInbound(k)
  BY DEF Noted
<1>2. OneCapacity(rec[k]) /\ rec[k] \in TypedRecord
  BY ShapesGive DEF Shapes
<1>3. /\ Blamed(k, "type") <=> Calls(k, {"retyped"}) # {}
      /\ Blamed(k, "source") <=> Times(k, "source") > 1
      /\ Blamed(k, "transform") <=> Times(k, "transform") > 1
  BY <1>1 DEF NotedType, NotedSource, NotedTransform
<1>4. Blamed(k, "schema") <=> Cardinality(Schemas(k)) > 1
  BY <1>1, SchemasBlamed
<1>5. Blamed(k, "inbound") \/ Blamed(k, "outbound") <=>
        (\E c \in Calls(k, {"inbound", "outbound"}) : Unserved(c)) \/ Cardinality(Capacities(k)) > 1
  <2>1. Blamed(k, "outbound") <=> \E c \in Calls(k, {"outbound"}) : Unserved(c)
    BY <1>1 DEF NotedOutbound
  <2>2. Blamed(k, "inbound") <=>
           (\E c \in Calls(k, {"inbound"}) : Unserved(c)) \/ Cardinality(Capacities(k)) > 1
    BY <1>1, <1>2, InboundBlamed
  <2> QED
    BY <2>1, <2>2, LinksAre
<1>6. ~Blamed(k, "inbound") => (Cardinality(WriterKinds(k)) > 1 <=> WritersConflict(rec[k]))
  BY <1>1, WritersBlamed DEF WritersConflict
<1>7. ~Blamed(k, "inbound") /\ ~Blamed(k, "outbound") =>
        ((Calls(k, {"inbound", "outbound"}) # {} \/ Calls(k, {"remote"}) # {}) /\ ~Buffered(k)
           <=> RemoteUnbuffered(rec[k]) \/ LinkUnbuffered(rec[k]))
  <2> SUFFICES ASSUME ~Blamed(k, "inbound"), ~Blamed(k, "outbound")
               PROVE  (Calls(k, {"inbound", "outbound"}) # {} \/ Calls(k, {"remote"}) # {}) /\ ~Buffered(k)
                         <=> RemoteUnbuffered(rec[k]) \/ LinkUnbuffered(rec[k])
    OBVIOUS
  <2>1. Calls(k, {"inbound"}) # {} <=> rec[k].inbound # <<>>
    BY <1>1 DEF NotedInbound
  <2>2. Calls(k, {"outbound"}) # {} <=> rec[k].outbound > 0
    BY <1>1 DEF NotedOutbound
  <2>3. Calls(k, {"inbound", "outbound"}) # {} <=> HasLinks(rec[k])
    BY <2>1, <2>2, LinksAre DEF HasLinks
  <2>4. (Calls(k, {"remote"}) # {} <=> rec[k].remote) /\ (Buffered(k) <=> rec[k].buffer)
    BY <1>1 DEF NotedRemote, NotedBuffer
  <2> QED
    BY <2>3, <2>4 DEF RemoteUnbuffered, LinkUnbuffered
<1>8. ~Blamed(k, "transform") => (Mistyped(k) <=> InputMistyped(rec[k]))
  <2> SUFFICES ASSUME ~Blamed(k, "transform")
               PROVE Mistyped(k) <=> InputMistyped(rec[k])
    OBVIOUS
  <2>1. /\ \A c \in Calls(k, {"transform"}) : rec[k].transform = {c.stage.of}
        /\ rec[k].transform # {} => Calls(k, {"transform"}) # {}
    BY <1>1, TimesTyped DEF NotedTransform
  <2>2. CASE Calls(k, {"transform"}) = {}
    BY <2>1, <2>2 DEF Mistyped, InputMistyped
  <2>3. ASSUME NEW c \in Calls(k, {"transform"}) PROVE Mistyped(k) <=> InputMistyped(rec[k])
    <3> DEFINE Odd(d) == \E i \in DOMAIN d.inputs :
                           d.inputs[i] \in Registered /\ rec[d.inputs[i]].type # d.reads
    <3>1. Mistyped(k) <=> \E b \in Calls(k, {"transform"}) : Odd(b.stage.of)
      BY DEF Mistyped
    <3>2. InputMistyped(rec[k]) <=> \E d \in rec[k].transform : Odd(d)
      BY DEF InputMistyped
    <3> HIDE DEF Odd
    <3>3. \A b \in Calls(k, {"transform"}) : b.stage.of = c.stage.of
      BY <2>1
    <3>4. rec[k].transform = {c.stage.of}
      BY <2>1
    <3> QED
      BY <3>1, <3>2, <3>3, <3>4
  <2> QED
    BY <2>2, <2>3
<1>9. (\E what \in MistakeKinds : Blamed(k, what)) <=>
         \/ Blamed(k, "type") \/ Blamed(k, "source") \/ Blamed(k, "transform")
         \/ Blamed(k, "schema") \/ Blamed(k, "inbound") \/ Blamed(k, "outbound")
  BY DEF MistakeKinds
<1> DEFINE links == Calls(k, {"inbound", "outbound"})
           bare == (links # {} \/ Calls(k, {"remote"}) # {}) /\ ~Buffered(k)
           unserved == \E c \in links : Unserved(c)
<1>10. Mistaken(k) <=>
         \/ Calls(k, {"retyped"}) # {}
         \/ Times(k, "source") > 1 \/ Times(k, "transform") > 1
         \/ Cardinality(Schemas(k)) > 1 \/ Cardinality(Capacities(k)) > 1
         \/ Cardinality(WriterKinds(k)) > 1
         \/ unserved \/ bare \/ Mistyped(k)
  BY MistakenParts
<1>11. /\ Blamed(k, "inbound") \/ Blamed(k, "outbound") <=> unserved \/ Cardinality(Capacities(k)) > 1
       /\ ~Blamed(k, "inbound") /\ ~Blamed(k, "outbound") =>
            (bare <=> RemoteUnbuffered(rec[k]) \/ LinkUnbuffered(rec[k]))
  BY <1>5, <1>7
<1> HIDE DEF bare, unserved, links
<1> QED
  BY <1>3, <1>4, <1>6, <1>8, <1>9, <1>10, <1>11

(***************************************************************************)
(* The report of build().                                                  *)
(***************************************************************************)
LEMMA ValidatedIs ==
  ASSUME NEW e
  PROVE  e \in Validated <=>
           \/ e \in errors
           \/ \E k \in Registered : RemoteUnbuffered(rec[k]) /\ e = [key |-> k, what |-> "remote buffer"]
           \/ \E k \in Registered : LinkUnbuffered(rec[k]) /\ e = [key |-> k, what |-> "link buffer"]
           \/ \E k \in Registered : WritersConflict(rec[k]) /\ e = [key |-> k, what |-> "writers"]
           \/ \E k \in Registered : InputMistyped(rec[k]) /\ e = [key |-> k, what |-> "input type"]
           \/ ~runtime /\ e = [key |-> NoKey, what |-> "runtime"]
BY DEF Validated, Found

LEMMA ValidatedSays ==
  ASSUME NEW e \in Validated
  PROVE  \/ e \in errors
         \/ \E k \in Registered :
              /\ e.key = k /\ e.what \in {"remote buffer", "link buffer", "writers", "input type"}
              /\ \/ RemoteUnbuffered(rec[k]) \/ LinkUnbuffered(rec[k])
                 \/ WritersConflict(rec[k]) \/ InputMistyped(rec[k])
         \/ e.key = NoKey /\ e.what = "runtime"
<1>1. CASE \E k \in Registered : RemoteUnbuffered(rec[k]) /\ e = [key |-> k, what |-> "remote buffer"]
  <2>1. PICK k \in Registered : RemoteUnbuffered(rec[k]) /\ e = [key |-> k, what |-> "remote buffer"]
    BY <1>1
  <2>2. e.key = k /\ e.what = "remote buffer"
    BY <2>1
  <2> QED
    BY <2>1, <2>2
<1>2. CASE \E k \in Registered : LinkUnbuffered(rec[k]) /\ e = [key |-> k, what |-> "link buffer"]
  <2>1. PICK k \in Registered : LinkUnbuffered(rec[k]) /\ e = [key |-> k, what |-> "link buffer"]
    BY <1>2
  <2>2. e.key = k /\ e.what = "link buffer"
    BY <2>1
  <2> QED
    BY <2>1, <2>2
<1>3. CASE \E k \in Registered : WritersConflict(rec[k]) /\ e = [key |-> k, what |-> "writers"]
  <2>1. PICK k \in Registered : WritersConflict(rec[k]) /\ e = [key |-> k, what |-> "writers"]
    BY <1>3
  <2>2. e.key = k /\ e.what = "writers"
    BY <2>1
  <2> QED
    BY <2>1, <2>2
<1>4. CASE \E k \in Registered : InputMistyped(rec[k]) /\ e = [key |-> k, what |-> "input type"]
  <2>1. PICK k \in Registered : InputMistyped(rec[k]) /\ e = [key |-> k, what |-> "input type"]
    BY <1>4
  <2>2. e.key = k /\ e.what = "input type"
    BY <2>1
  <2> QED
    BY <2>1, <2>2
<1>5. CASE e = [key |-> NoKey, what |-> "runtime"]
  BY <1>5
<1> QED
  BY <1>1, <1>2, <1>3, <1>4, <1>5, ValidatedIs

LEMMA ValidatedNames ==
  ASSUME Shapes, Accounted, phase = "configuring"
  PROVE  /\ {e.key : e \in Validated} \ {NoKey} = {k \in Registered : Mistaken(k)}
         /\ \A e \in Validated : e.what \notin Late \cup {"cycle", "missing input"}
         /\ Validated = {} => \A k \in Registered : ~LinkUnbuffered(rec[k])
<1>1. /\ Recorded /\ errors \subseteq [key : DOMAIN rec, what : MistakeKinds]
      /\ \A k \in DOMAIN rec : Noted(k)
  BY DEF Accounted
<1>2. Registered = DOMAIN rec /\ \A k \in Registered : k # NoKey
  BY ShapesGive DEF NoKey
<1>3. ASSUME NEW e \in errors
      PROVE  e.key \in Registered /\ e.what \in MistakeKinds /\ Blamed(e.key, e.what)
  <2>1. e \in [key : DOMAIN rec, what : MistakeKinds]
    BY <1>1
  <2>2. e = [key |-> e.key, what |-> e.what]
    BY <2>1
  <2> QED
    BY <1>2, <2>1, <2>2 DEF Blamed
<1>4. \A k \in Registered :
        Mistaken(k) <=> \/ \E what \in MistakeKinds : Blamed(k, what)
                        \/ RemoteUnbuffered(rec[k]) \/ LinkUnbuffered(rec[k])
                        \/ WritersConflict(rec[k]) \/ InputMistyped(rec[k])
  BY <1>1, <1>2, MistakenIs
<1>5. ASSUME NEW e \in Validated, e.key # NoKey PROVE e.key \in Registered /\ Mistaken(e.key)
  <2>1. CASE e \in errors
    BY <1>3, <1>4, <2>1
  <2>2. CASE \E k \in Registered :
               /\ e.key = k
               /\ \/ RemoteUnbuffered(rec[k]) \/ LinkUnbuffered(rec[k])
                  \/ WritersConflict(rec[k]) \/ InputMistyped(rec[k])
    BY <1>4, <2>2
  <2> QED
    BY <1>5, <2>1, <2>2, ValidatedSays
<1>6. ASSUME NEW k \in Registered, Mistaken(k) PROVE \E e \in Validated : e.key = k
  <2>1. ASSUME NEW what \in MistakeKinds, Blamed(k, what) PROVE \E e \in Validated : e.key = k
    <3>1. [key |-> k, what |-> what] \in Validated
      BY <2>1, ValidatedIs DEF Blamed
    <3> QED
      BY <3>1
  <2>2. CASE RemoteUnbuffered(rec[k])
    <3>1. [key |-> k, what |-> "remote buffer"] \in Validated
      BY <2>2, ValidatedIs
    <3> QED
      BY <3>1
  <2>3. CASE LinkUnbuffered(rec[k])
    <3>1. [key |-> k, what |-> "link buffer"] \in Validated
      BY <2>3, ValidatedIs
    <3> QED
      BY <3>1
  <2>4. CASE WritersConflict(rec[k])
    <3>1. [key |-> k, what |-> "writers"] \in Validated
      BY <2>4, ValidatedIs
    <3> QED
      BY <3>1
  <2>5. CASE InputMistyped(rec[k])
    <3>1. [key |-> k, what |-> "input type"] \in Validated
      BY <2>5, ValidatedIs
    <3> QED
      BY <3>1
  <2> QED
    BY <1>4, <1>6, <2>1, <2>2, <2>3, <2>4, <2>5
<1>7. {e.key : e \in Validated} \ {NoKey} = {k \in Registered : Mistaken(k)}
  <2>1. ASSUME NEW k \in {e.key : e \in Validated} \ {NoKey} PROVE k \in Registered /\ Mistaken(k)
    BY <1>5
  <2>2. ASSUME NEW k \in Registered, Mistaken(k) PROVE k \in {e.key : e \in Validated} \ {NoKey}
    BY <1>2, <1>6, <2>2
  <2> QED
    BY <2>1, <2>2
<1>8. ASSUME NEW e \in Validated PROVE e.what \notin Late \cup {"cycle", "missing input"}
  <2>1. \/ e \in errors \/ e.what = "remote buffer" \/ e.what = "link buffer" \/ e.what = "writers"
        \/ e.what = "input type" \/ e.what = "runtime"
    BY ValidatedSays
  <2>2. e \in errors => e.what \in MistakeKinds
    BY <1>3
  <2> QED
    BY <2>1, <2>2 DEF MistakeKinds, Late
<1>9. ASSUME Validated = {}, NEW k \in Registered, LinkUnbuffered(rec[k]) PROVE FALSE
  <2>1. [key |-> k, what |-> "link buffer"] \in Validated
    BY <1>9, ValidatedIs
  <2> QED
    BY <1>9, <2>1
<1> QED
  BY <1>7, <1>8, <1>9

NamesThem ==
  IF \E e \in errors : e.what \in Late
    THEN \A k \in Registered : ~Mistaken(k)
    ELSE {e.key : e \in errors} \ {NoKey} = {k \in Registered : Mistaken(k)}

Reports ==
  /\ ~tripped
  /\ phase # "configuring" => NamesThem
  /\ phase \in {"configuring", "sorting"} => \A e \in errors : e.what \notin Late \cup {"cycle"}
  /\ \A e \in errors : e.what = "cycle" => e.records = Stuck /\ Stuck # {}
  /\ phase = "failed" /\ Stuck # {} => \E e \in errors : e.what = "cycle"
  /\ phase \in {"sorting"} \cup Accepted /\ errors = {} =>
       \A k \in DOMAIN rec : ~LinkUnbuffered(rec[k])

LEMMA RegisteredKept ==
  ASSUME Shapes, Graphed, Build
  PROVE  /\ Registered' = Registered /\ Registered = DOMAIN rec
         /\ \A k : Mistaken(k)' <=> Mistaken(k)
<1>1. Registered = DOMAIN rec
  BY ShapesGive
<1>2. Registered' = Registered /\ made' = made /\ \A j \in Registered : rec'[j].type = rec[j].type
  BY <1>1, BuildKeeps DEF Registered
<1> QED
  BY <1>1, <1>2, MistakenKept

\* build() failed behind the validation pass.
LEMMA FailsLate ==
  ASSUME Shapes, Graphed, Reports, Build, phase \in Accepted, ~tripped', nodes' = nodes,
         NEW k, NEW what \in Late, Fail({[key |-> k, what |-> what]})
  PROVE  Reports'
<1> DEFINE e == [key |-> k, what |-> what]
<1>1. errors = {}
  BY DEF Graphed
<1>2. \A j \in Registered : ~Mistaken(j)
  <2>1. {d.key : d \in errors} \ {NoKey} = {}
    BY <1>1
  <2>2. NamesThem /\ ~\E d \in errors : d.what \in Late
    BY <1>1 DEF Reports, Accepted
  <2>3. {j \in Registered : Mistaken(j)} = {}
    BY <2>1, <2>2 DEF NamesThem
  <2> QED
    BY <2>3
<1>3. \A j \in Registered' : ~Mistaken(j)'
  BY <1>2, RegisteredKept
<1>4. errors' = {e} /\ phase' = "failed" /\ e.what \in Late /\ e.what # "cycle"
  BY DEF Fail, Late
<1> HIDE DEF e
<1>5. NamesThem'
  BY <1>3, <1>4 DEF NamesThem
<1>6. \A d \in errors' : d.what # "cycle"
  BY <1>4
<1>7. Stuck' = {}
  BY NoneStuck, StuckKept
<1> QED
  BY <1>4, <1>5, <1>6, <1>7 DEF Reports, Accepted

\* The errors and the links of the records stay.
LEMMA ReportsKept ==
  ASSUME Shapes, Graphed, Reports, Build, phase # "configuring", UNCHANGED <<errors, nodes>>, ~tripped',
         phase' = "sorting" => phase = "sorting", phase' # "failed",
         phase' \in Accepted => phase \in {"sorting"} \cup Accepted,
         \A k \in DOMAIN rec : LinkUnbuffered(rec'[k]) => LinkUnbuffered(rec[k])
  PROVE  Reports'
<1>1. NamesThem'
  BY RegisteredKept DEF Reports, NamesThem
<1>2. Stuck' = Stuck
  BY StuckKept
<1>3. phase' # "configuring" /\ DOMAIN rec' = DOMAIN rec
  BY BuildKeeps
<1> QED
  BY <1>1, <1>2, <1>3 DEF Reports

LEMMA ReportsConfigure ==
  ASSUME Reports, Accounted', phase' = "configuring", tripped' = tripped
  PROVE  Reports'
<1>1. errors' \subseteq [key : DOMAIN rec', what : MistakeKinds]
  BY DEF Accounted
<1>2. \A e \in errors' : e.what \notin Late \cup {"cycle"}
  BY <1>1 DEF MistakeKinds, Late
<1> QED
  BY <1>2 DEF Reports, Accepted

LEMMA ReportsValidate ==
  ASSUME Shapes, Graphed, Accounted, Reports, Validate
  PROVE  Reports'
<1>0. Build /\ phase = "configuring" /\ UNCHANGED <<rec, tripped>>
  BY DEF Build, Validate
<1>1. /\ {e.key : e \in Validated} \ {NoKey} = {k \in Registered : Mistaken(k)}
      /\ \A e \in Validated : e.what \notin Late \cup {"cycle", "missing input"}
      /\ Validated = {} => \A k \in Registered : ~LinkUnbuffered(rec[k])
  BY <1>0, ValidatedNames
<1>2. {k \in Registered' : Mistaken(k)'} = {k \in Registered : Mistaken(k)}
  BY <1>0, RegisteredKept
<1> DEFINE lost == [key |-> NoKey, what |-> "missing input"]
<1>3. /\ \/ phase' = "failed" /\ errors' = Validated \cup {lost}
         \/ phase' = "sorting" /\ errors' = Validated
  BY DEF Validate, Fail
<1>4. lost.key = NoKey /\ lost.what = "missing input"
  OBVIOUS
<1> HIDE DEF lost
<1>5. \A e \in errors' : e.what \notin Late \cup {"cycle"}
  BY <1>1, <1>3, <1>4 DEF Late
<1>6. {e.key : e \in errors'} \ {NoKey} = {e.key : e \in Validated} \ {NoKey}
  <2>1. \A n : n \in {e.key : e \in errors'} \ {NoKey} <=> n \in {e.key : e \in Validated} \ {NoKey}
    BY <1>3, <1>4
  <2> QED
    BY <2>1
<1>7. NamesThem'
  BY <1>1, <1>2, <1>5, <1>6 DEF NamesThem
<1>8. phase' = "sorting" /\ errors' = {} => \A k \in DOMAIN rec' : ~LinkUnbuffered(rec'[k])
  BY <1>0, <1>1, <1>3, <1>4, RegisteredKept
<1>9. ~tripped'
  BY <1>0 DEF Reports
<1>10. phase' = "failed" => Stuck' = {}
  <2> SUFFICES ASSUME phase' = "failed" PROVE Stuck' = {}
    OBVIOUS
  <2>1. nodes = <<>> /\ nodes' = nodes
    BY <1>0 DEF Graphed, Validate, graphVars
  <2>2. AllKeys = {}
    BY <2>1 DEF AllKeys
  <2>3. Stuck = {}
    BY <2>2 DEF Stuck
  <2> QED
    BY <2>1, <2>3, StuckKept
<1> QED
  BY <1>3, <1>5, <1>7, <1>8, <1>9, <1>10 DEF Reports, Accepted

LEMMA ReportsConclude ==
  ASSUME Shapes, Graphed, Reports, Conclude
  PROVE  Reports'
<1>0. /\ Build /\ phase = "sorting" /\ Sorted /\ UNCHANGED <<rec, tripped, nodes>> /\ Kahn
  BY DEF Build, Conclude, graphVars, Graphed
<1>1. CASE phase' = "collecting"
  <2>1. errors' = errors
    BY <1>1 DEF Conclude, Fail
  <2> QED
    BY <1>0, <1>1, <2>1, ReportsKept DEF Accepted, Reports
<1>2. CASE phase' # "collecting"
  <2> DEFINE e == [key |-> NoKey, what |-> "cycle", records |-> Unplaced]
  <2>1. /\ phase' = "failed"
        /\ errors' = errors \cup (IF AllPlaced THEN {} ELSE {e})
    BY <1>2 DEF Conclude, Fail
  <2>2. e.key = NoKey /\ e.what = "cycle" /\ e.records = Unplaced
    OBVIOUS
  <2> HIDE DEF e
  <2>3. Stuck' = Stuck /\ Stuck = Unplaced /\ (AllPlaced <=> Unplaced = {})
    BY <1>0, StuckIs, StuckKept
  <2>4. \A d \in errors : d.what \notin Late \cup {"cycle"}
    BY <1>0 DEF Reports
  <2>5. \A d \in errors' : d.what \notin Late
    BY <2>1, <2>2, <2>4 DEF Late
  <2>6. \A d \in errors' : d.what = "cycle" => d.records = Stuck' /\ Stuck' # {}
    BY <2>1, <2>2, <2>3, <2>4
  <2>7. {d.key : d \in errors'} \ {NoKey} = {d.key : d \in errors} \ {NoKey}
    <3>1. \A n : n \in {d.key : d \in errors'} \ {NoKey} <=> n \in {d.key : d \in errors} \ {NoKey}
      BY <2>1, <2>2
    <3> QED
      BY <3>1
  <2>8. {d.key : d \in errors} \ {NoKey} = {k \in Registered : Mistaken(k)}
    BY <1>0, <2>4 DEF Reports, NamesThem
  <2>9. {k \in Registered' : Mistaken(k)'} = {k \in Registered : Mistaken(k)}
    BY <1>0, RegisteredKept
  <2>10. NamesThem'
    BY <2>5, <2>7, <2>8, <2>9 DEF NamesThem
  <2>11. ~tripped'
    BY <1>0 DEF Reports
  <2>12. Stuck' # {} => \E d \in errors' : d.what = "cycle"
    BY <2>1, <2>2, <2>3
  <2> QED
    BY <2>1, <2>6, <2>10, <2>11, <2>12 DEF Reports, Accepted
<1> QED
  BY <1>1, <1>2

LEMMA ReportsStep ==
  ASSUME Shapes, Graphed, Accounted, Accounted', Reports, [DbNext]_databaseVars
  PROVE  Reports'
<1>1. CASE Configure
  <2>1. phase' = "configuring" /\ tripped' = tripped
    BY <1>1
       DEF Configure, WithConnector, StartOrderSeed, ConfigureNew, ConfigureRetyped,
           Register
  <2> QED
    BY <2>1, ReportsConfigure
<1>2. CASE Validate
  BY <1>2, ReportsValidate
<1>3. CASE Sort
  <2>1. phase = "sorting" /\ UNCHANGED <<errors, tripped, phase, rec>>
    BY <1>3 DEF Sort, builderVars
  <2>2. nodes' = nodes
    BY <1>3 DEF Sort, TakeDrawn, TakeOldest, Place
  <2>3. Build
    BY <1>3 DEF Build
  <2> QED
    BY <2>1, <2>2, <2>3, ReportsKept DEF Accepted, Reports
<1>4. CASE Conclude
  BY <1>4, ReportsConclude
<1>5. CASE Collect
  <2> SUFFICES ASSUME NEW k, k = NextToSpawn PROVE Reports'
    OBVIOUS
  <2>0. Build /\ phase = "collecting" /\ tripped' = tripped /\ nodes' = nodes
    BY <1>5 DEF Build, Collect, graphVars
  <2>1. CASE Fail({[key |-> k, what |-> "tap"]})
    <3>1. ~tripped' /\ "tap" \in Late /\ phase \in Accepted
      BY <2>0 DEF Reports, Late, Accepted
    <3> QED
      BY <2>0, <2>1, <3>1, FailsLate
  <2>2. CASE /\ UNCHANGED <<phase, errors>> /\ k \in DOMAIN rec /\ rec'[k] = Taken(rec[k])
             /\ \A j \in DOMAIN rec : j # k => rec'[j] = rec[j]
    <3>1. Taken(rec[k]).inbound = rec[k].inbound /\ Taken(rec[k]).outbound = rec[k].outbound
          /\ Taken(rec[k]).buffer = rec[k].buffer
      <4>1. rec[k] \in TypedRecord
        BY <2>2, ShapesGive
      <4> QED
        BY <4>1 DEF Taken, TypedRecord
    <3>2. \A j \in DOMAIN rec : LinkUnbuffered(rec'[j]) => LinkUnbuffered(rec[j])
      BY <2>2, <3>1 DEF LinkUnbuffered, HasLinks
    <3> QED
      BY <2>0, <2>2, <3>2, ReportsKept DEF Accepted, Reports
  <2> QED
    BY <1>5, <2>1, <2>2, CollectIs
<1>6. CASE CheckSchemes
  <2>0. Build /\ phase = "collecting" /\ UNCHANGED <<tripped, nodes, rec>>
    BY <1>6 DEF Build, CheckSchemes, graphVars
  <2>1. CASE Fail({[key |-> NoKey, what |-> "scheme"]})
    <3>1. ~tripped' /\ "scheme" \in Late /\ phase \in Accepted
      BY <2>0 DEF Reports, Late, Accepted
    <3> QED
      BY <2>0, <2>1, <3>1, FailsLate
  <2>2. CASE phase' = "connecting" /\ UNCHANGED errors
    BY <2>0, <2>2, ReportsKept DEF Accepted, Reports
  <2> QED
    BY <1>6, <2>1, <2>2 DEF CheckSchemes
<1>7. CASE BuildConnector
  <2>0. Build /\ phase = "connecting" /\ UNCHANGED <<nodes, rec>> /\ phase \in Accepted
    BY <1>7 DEF Build, BuildConnector, graphVars, Accepted
  <2>1. ~tripped'
    <3>1. errors = {}
      BY <2>0 DEF Graphed
    <3>2. \A k \in DOMAIN rec : ~LinkUnbuffered(rec[k])
      BY <2>0, <3>1 DEF Reports
    <3>3. \A k \in Registered : ~(rec[k].outbound > 0 /\ ~rec[k].buffer)
      BY <3>2, ShapesGive DEF LinkUnbuffered, HasLinks
    <3> QED
      BY <1>7, <3>3 DEF BuildConnector
  <2>2. CASE Fail({[key |-> NoKey, what |-> "connector"]})
    <3>1. "connector" \in Late
      BY DEF Late
    <3> QED
      BY <2>0, <2>1, <2>2, <3>1, FailsLate
  <2>3. CASE UNCHANGED <<phase, errors>>
    BY <2>0, <2>1, <2>3, ReportsKept DEF Accepted
  <2> QED
    BY <1>7, <2>2, <2>3 DEF BuildConnector
<1>8. CASE Built
  <2>0. Build /\ phase = "connecting" /\ phase' = "running" /\ UNCHANGED <<tripped, nodes, rec, errors>>
    BY <1>8 DEF Build, Built, graphVars
  <2> QED
    BY <2>0, ReportsKept DEF Accepted, Reports
<1>9. CASE UNCHANGED <<builderVars, graphVars>>
  <2>1. UNCHANGED <<phase, errors, tripped, rec, made, records, nodes>>
    BY <1>9 DEF builderVars, graphVars
  <2>2. Registered' = Registered /\ \A k : Mistaken(k)' <=> Mistaken(k)
    BY <2>1, MistakenKept DEF Registered
  <2>3. Stuck' = Stuck
    BY <2>1, StuckKept
  <2>4. NamesThem' <=> NamesThem
    BY <2>1, <2>2 DEF NamesThem
  <2> QED
    BY <2>1, <2>3, <2>4 DEF Reports
<1> QED
  BY <1>1, <1>2, <1>3, <1>4, <1>5, <1>6, <1>7, <1>8, <1>9
     DEF DbNext, BuildStep, Build, WorkStep, databaseVars

(***************************************************************************)
(* The mistakes that build() does not report with the rest.                *)
(***************************************************************************)
LEMMA MissingIs ==
  ASSUME Shapes
  PROVE  MissingInput(GraphNodes) <=>
           \E k \in Registered : \E j \in DOMAIN OriginInputs(rec[k]) :
             OriginInputs(rec[k])[j] \notin Registered
<1> DEFINE N == GraphNodes
<1>1. /\ DOMAIN N = DOMAIN rec /\ Registered = DOMAIN rec
      /\ \A k \in DOMAIN rec : N[k].key = k /\ N[k].inputs = OriginInputs(rec[k])
  BY ShapesGive DEF GraphNodes
<1> HIDE DEF N
<1>2. {N[n].key : n \in DOMAIN N} = Registered
  BY <1>1
<1>3. MissingInput(N) <=> \E i \in DOMAIN N : \E j \in DOMAIN N[i].inputs : N[i].inputs[j] \notin Registered
  BY <1>2 DEF MissingInput
<1> QED
  BY <1>1, <1>3 DEF N

LEMMA UnfedKept ==
  ASSUME made' = made, Registered' = Registered
  PROVE  \A k : (Unfed(k)' <=> Unfed(k)) /\ (Unheard(k)' <=> Unheard(k)) /\ (Buffered(k)' <=> Buffered(k))
<1>1. \A k, kinds : Calls(k, kinds)' = Calls(k, kinds)
  BY CallsKept
<1>2. \A k : Buffered(k)' <=> Buffered(k)
  BY <1>1 DEF Buffered
<1> QED
  BY <1>1, <1>2 DEF Unfed, Unheard

\* A record that waits to be spawned has the taps and the buffer it was given.
Equipped(k) ==
  /\ rec[k].taps > 0 <=> Calls(k, {"tap"}) # {}
  /\ rec[k].buffer <=> Buffered(k)

Checked ==
  /\ \A e \in errors : e.what = "missing input" => \E k \in Registered : Unfed(k)
  /\ \A e \in errors : e.what = "tap" => e.key \in Registered /\ Unheard(e.key)
  /\ phase \in {"sorting"} \cup Accepted /\ errors = {} => \A k \in DOMAIN rec : ~Unfed(k)
  /\ phase \in {"sorting"} \cup Accepted =>
       \A k \in DOMAIN rec : IF k \in spawn THEN Equipped(k) ELSE ~Unheard(k)
  /\ phase \in {"connecting", "running"} => spawn = {} /\ ~DuplicateScheme

\* A failure that reports no missing input and no tap.
LEMMA CheckedFails ==
  ASSUME Checked, made' = made, Registered' = Registered, phase' = "failed",
         \A e \in errors' : e \in errors \/ e.what \notin {"missing input", "tap"}
  PROVE  Checked'
BY UnfedKept DEF Checked, Accepted

LEMMA CheckedSame ==
  ASSUME Checked, UNCHANGED <<rec, spawn, made, errors, connectors>>, Registered' = Registered,
         \/ UNCHANGED phase
         \/ phase = "sorting" /\ phase' = "collecting"
         \/ phase = "collecting" /\ phase' = "connecting" /\ spawn = {} /\ ~DuplicateScheme
         \/ phase = "connecting" /\ phase' = "running"
  PROVE  Checked'
<1>1. \A k : (Unfed(k)' <=> Unfed(k)) /\ (Unheard(k)' <=> Unheard(k)) /\ (Buffered(k)' <=> Buffered(k))
  BY UnfedKept
<1>2. \A k : Equipped(k)' <=> Equipped(k)
  BY <1>1, CallsKept DEF Equipped
<1>3. DuplicateScheme' <=> DuplicateScheme
  BY DEF DuplicateScheme
<1> QED
  BY <1>1, <1>2, <1>3 DEF Checked, Accepted

LEMMA CheckedValidate ==
  ASSUME Shapes, Graphed, Accounted, Validate
  PROVE  Checked'
<1>0. /\ phase = "configuring" /\ UNCHANGED <<rec, spawn, made, records>> /\ spawn = DOMAIN rec
      /\ Registered' = Registered /\ Registered = DOMAIN rec
  BY ShapesGive, ZenonT(30) DEF Validate, Shapes, Registered
<1>1. Recorded /\ \A k \in DOMAIN rec : Noted(k)
  BY <1>0 DEF Accounted
<1>2. \A e \in Validated : e.what \notin {"tap", "missing input"}
  BY <1>0, ValidatedNames DEF Late
<1>3. \A k : (Unfed(k)' <=> Unfed(k)) /\ (Unheard(k)' <=> Unheard(k)) /\ (Buffered(k)' <=> Buffered(k))
  BY <1>0, UnfedKept
<1>4. CASE MissingInput(GraphNodes)
  <2> DEFINE lost == [key |-> NoKey, what |-> "missing input"]
  <2>1. phase' = "failed" /\ errors' = Validated \cup {lost}
    BY <1>4 DEF Validate, Fail
  <2>2. lost.what = "missing input"
    OBVIOUS
  <2> HIDE DEF lost
  <2>3. PICK k \in Registered : \E j \in DOMAIN OriginInputs(rec[k]) : OriginInputs(rec[k])[j] \notin Registered
    BY <1>4, MissingIs
  <2>4. rec[k].transform # {}
    BY <2>3 DEF OriginInputs
  <2>5. PICK d \in rec[k].transform : OriginInputs(rec[k]) = d.inputs
    BY <2>4 DEF OriginInputs
  <2>6. PICK c \in Calls(k, {"transform"}) : c.stage.of = d
    BY <1>0, <1>1 DEF Noted, NotedTransform
  <2>7. Unfed(k)
    BY <2>3, <2>5, <2>6 DEF Unfed
  <2> QED
    BY <1>0, <1>2, <1>3, <2>1, <2>2, <2>7 DEF Checked, Accepted
<1>5. CASE ~MissingInput(GraphNodes)
  <2>1. phase' = "sorting" /\ errors' = Validated
    BY <1>5 DEF Validate
  <2>2. ASSUME Validated = {}, NEW k \in DOMAIN rec PROVE ~Unfed(k)
    <3> SUFFICES ASSUME NEW c \in Calls(k, {"transform"}), NEW i \in DOMAIN c.stage.of.inputs
                 PROVE  c.stage.of.inputs[i] \in Registered
      BY DEF Unfed
    <3>1. ~Blamed(k, "transform")
      BY <2>2 DEF Blamed, Validated
    <3>2. rec[k].transform = {c.stage.of}
      BY <1>1, <3>1 DEF Noted, NotedTransform
    <3>3. OriginInputs(rec[k]) = c.stage.of.inputs
      BY <3>2 DEF OriginInputs
    <3> QED
      BY <1>0, <1>5, <3>3, MissingIs
  <2>3. ASSUME NEW k \in DOMAIN rec PROVE Equipped(k)'
    <3>1. NotedTaps(k) /\ NotedBuffer(k)
      BY <1>1 DEF Noted
    <3>2. rec[k].taps > 0 <=> Calls(k, {"tap"}) # {}
      BY <1>1, <3>1, TimesTyped DEF NotedTaps
    <3>3. rec[k].buffer <=> Buffered(k)
      BY <3>1 DEF NotedBuffer
    <3> QED
      BY <1>0, <1>3, <3>2, <3>3, CallsKept DEF Equipped
  <2> QED
    BY <1>0, <1>2, <1>3, <2>1, <2>2, <2>3 DEF Checked, Accepted
<1> QED
  BY <1>4, <1>5

LEMMA CheckedCollect ==
  ASSUME Shapes, Graphed, Checked, Collect
  PROVE  Checked'
<1> SUFFICES ASSUME NEW k, k = NextToSpawn PROVE Checked'
  OBVIOUS
<1>0. /\ phase = "collecting" /\ UNCHANGED <<made, records, connectors>>
      /\ Registered' = Registered /\ Registered = DOMAIN rec
  BY ShapesGive DEF Collect, Registered
<1>1. \A j : (Unfed(j)' <=> Unfed(j)) /\ (Unheard(j)' <=> Unheard(j)) /\ (Buffered(j)' <=> Buffered(j))
  BY <1>0, UnfedKept
<1>2. k \in spawn /\ k \in DOMAIN rec /\ Equipped(k)
  BY <1>0, CollectIs DEF Checked, Accepted
<1>3. CASE rec[k].taps > 0 /\ ~rec[k].buffer
  <2> DEFINE e == [key |-> k, what |-> "tap"]
  <2>1. phase' = "failed" /\ errors' = {e}
    BY <1>3 DEF Collect, Fail
  <2>2. e.key = k /\ e.what = "tap"
    OBVIOUS
  <2> HIDE DEF e
  <2>3. Unheard(k)
    BY <1>2, <1>3 DEF Equipped, Unheard
  <2> QED
    BY <1>0, <1>1, <1>2, <2>1, <2>2, <2>3 DEF Checked, Accepted
<1>4. CASE ~(rec[k].taps > 0 /\ ~rec[k].buffer)
  <2>1. phase' = phase /\ errors' = errors /\ spawn' = spawn \ {k}
    BY <1>4 DEF Collect
  <2>2. DOMAIN rec' = DOMAIN rec /\ \A j \in DOMAIN rec : j # k => rec'[j] = rec[j]
    BY <1>0, <2>1, CollectIs DEF Fail
  <2>3. ~Unheard(k)
    BY <1>2, <1>4 DEF Equipped, Unheard
  <2>4. ASSUME NEW j \in DOMAIN rec, j # k PROVE IF j \in spawn THEN Equipped(j)' ELSE ~Unheard(j)
    <3>1. IF j \in spawn THEN Equipped(j) ELSE ~Unheard(j)
      BY <1>0 DEF Checked, Accepted
    <3>2. Equipped(j)' <=> Equipped(j)
      BY <1>0, <1>1, <2>2, <2>4, CallsKept DEF Equipped
    <3> QED
      BY <3>1, <3>2
  <2> QED
    BY <1>0, <1>1, <2>1, <2>2, <2>3, <2>4 DEF Checked, Accepted
<1> QED
  BY <1>3, <1>4

LEMMA CheckedStep ==
  ASSUME Shapes, Graphed, Accounted, Accounted', Checked, [DbNext]_databaseVars
  PROVE  Checked'
<1>1. CASE Configure
  <2>1. phase' = "configuring"
    BY <1>1
       DEF Configure, WithConnector, StartOrderSeed, ConfigureNew, ConfigureRetyped,
           Register
  <2>2. \A e \in errors' : e.what \notin {"missing input", "tap"}
    BY <2>1 DEF Accounted, MistakeKinds
  <2> QED
    BY <2>1, <2>2 DEF Checked, Accepted
<1>2. CASE Validate
  BY <1>2, CheckedValidate
<1>3. CASE Sort \/ UNCHANGED builderVars
  <2>1. UNCHANGED <<phase, rec, spawn, made, errors, connectors, records>>
    BY <1>3 DEF Sort, builderVars
  <2> QED
    BY <2>1, CheckedSame DEF Registered
<1>4. CASE Conclude
  <2>1. UNCHANGED <<rec, spawn, made, connectors, records>> /\ phase = "sorting"
    BY <1>4 DEF Conclude
  <2>2. CASE phase' = "collecting" /\ UNCHANGED errors
    BY <2>1, <2>2, CheckedSame DEF Registered
  <2>3. CASE ~(phase' = "collecting" /\ UNCHANGED errors)
    <3> DEFINE e == [key |-> NoKey, what |-> "cycle", records |-> Unplaced]
    <3>1. phase' = "failed" /\ \A d \in errors' : d \in errors \/ d = e
      BY <1>4, <2>3 DEF Conclude, Fail
    <3>2. e.what = "cycle"
      OBVIOUS
    <3> HIDE DEF e
    <3> QED
      BY <2>1, <3>1, <3>2, CheckedFails DEF Registered
  <2> QED
    BY <2>2, <2>3
<1>5. CASE Collect
  BY <1>5, CheckedCollect
<1>6. CASE CheckSchemes
  <2>1. UNCHANGED <<rec, spawn, made, connectors, records>> /\ phase = "collecting" /\ spawn = {}
    BY <1>6 DEF CheckSchemes
  <2>2. CASE DuplicateScheme
    <3>1. phase' = "failed" /\ \A d \in errors' : d.what = "scheme"
      BY <1>6, <2>2 DEF CheckSchemes, Fail
    <3> QED
      BY <2>1, <3>1, CheckedFails DEF Registered
  <2>3. CASE ~DuplicateScheme
    <3>1. phase' = "connecting" /\ errors' = errors
      BY <1>6, <2>3 DEF CheckSchemes
    <3> QED
      BY <2>1, <2>3, <3>1, CheckedSame DEF Registered
  <2> QED
    BY <2>2, <2>3
<1>7. CASE BuildConnector
  <2>1. UNCHANGED <<rec, spawn, made, connectors, records>>
    BY <1>7 DEF BuildConnector
  <2>2. CASE Fail({[key |-> NoKey, what |-> "connector"]})
    <3>1. phase' = "failed" /\ \A d \in errors' : d.what = "connector"
      BY <2>2 DEF Fail
    <3> QED
      BY <2>1, <3>1, CheckedFails DEF Registered
  <2>3. CASE UNCHANGED <<phase, errors>>
    BY <2>1, <2>3, CheckedSame DEF Registered
  <2> QED
    BY <1>7, <2>2, <2>3 DEF BuildConnector
<1>8. CASE Built
  BY <1>8, CheckedSame DEF Built, Registered
<1> QED
  BY <1>1, <1>2, <1>3, <1>4, <1>5, <1>6, <1>7, <1>8
     DEF DbNext, BuildStep, Build, WorkStep, databaseVars

\* For any number of records and any registrations in any order: the validation
\* pass of build() names the records it finds mistaken and no other, also beside
\* a missing input or a cycle, and no later failure hides one of them; a cycle
\* is reported with exactly the records that it keeps from starting.  A missing
\* input may hide a cycle, and a tap without a buffer or a second owner of a
\* scheme is reported alone, but a missing input or a tap that is reported was
\* registered, and no database is built with any of the four.
THEOREM EveryMistakeNamed == DbSpec => []MistakesReported
<1> DEFINE I == Shapes /\ Graphed /\ Accounted /\ Reports /\ Checked
<1>1. DbInit => I
  <2>1. DbInit => errors = {} /\ phase = "configuring" /\ tripped = FALSE
    BY DEF DbInit, BuilderInit
  <2>2. DbInit => Reports /\ Checked
    BY <2>1 DEF Reports, Checked, Accepted
  <2> QED
    BY <2>2, ShapesInit, AccountedInit
<1>2. I /\ [DbNext]_databaseVars => I'
  BY ShapesStep, AccountedStep, ReportsStep, CheckedStep
<1>3. I => MistakesReported
  <2> SUFFICES ASSUME Shapes, Graphed, Reports, Checked PROVE MistakesReported
    OBVIOUS
  <2>1. BuilderTypeOK
    <3>1. /\ DOMAIN rec = Registered /\ \A k \in Registered : rec[k] \in TypedRecord
          /\ phase \in Phases /\ spawn \subseteq Registered
      BY ShapesGive DEF Shapes
    <3>2. ASSUME NEW k \in DOMAIN degree PROVE degree[k] \in Nat
      <4>1. Kahn
        BY DEF Graphed
      <4>2. Len(nodes) \in Nat /\ DOMAIN nodes = 1 .. Len(nodes) /\ k \in 1 .. Len(nodes)
            /\ nodes[k].inputs \in Seq(Nat)
        BY <3>2, <4>1, KeysAre DEF Kahn
      <4>3. Len(nodes[k].inputs) \in Nat /\ DOMAIN nodes[k].inputs = 1 .. Len(nodes[k].inputs)
        BY <4>2
      <4>4. IsFiniteSet(Missing(k))
        <5>1. IsFiniteSet(1 .. Len(nodes[k].inputs))
          BY <4>3, UpTo
        <5> QED
          BY <4>3, <5>1, FS_Subset DEF Missing
      <4> QED
        BY <4>1, <4>2, <4>4, FS_CardinalityType DEF Kahn
    <3> QED
      BY <3>1, <3>2 DEF BuilderTypeOK, Phases
  <2>2. phase \in {"collecting", "connecting", "running"} => Stuck = {}
    BY NoneStuck DEF Accepted
  <2>3. phase \in {"collecting", "connecting", "running"} => \A k \in Registered : ~Unfed(k)
    BY ShapesGive DEF Checked, Graphed, Accepted
  <2>4. phase \in {"connecting", "running"} => ~DuplicateScheme /\ \A k \in Registered : ~Unheard(k)
    BY ShapesGive DEF Checked, Accepted
  <2>5. /\ ~tripped /\ (phase # "configuring" => NamesThem)
        /\ phase = "failed" /\ Stuck # {} => \E e \in errors : e.what = "cycle"
        /\ \A e \in errors : e.what = "cycle" => e.records = Stuck /\ Stuck # {}
    BY DEF Reports
  <2>6. \A e \in errors : /\ e.what = "missing input" => \E k \in Registered : Unfed(k)
                          /\ e.what = "tap" => e.key \in Registered /\ Unheard(e.key)
    BY DEF Checked
  <2> QED
    BY <2>1, <2>2, <2>3, <2>4, <2>5, <2>6 DEF MistakesReported, NamesThem
<1> HIDE DEF I
<1> QED
  BY <1>1, <1>2, <1>3, PTL DEF DbSpec
=============================================================================
