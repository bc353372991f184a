---------------------------- MODULE SyncHandle -----------------------------
(***************************************************************************)
(* The synchronous API: a thread that owns a Tokio runtime and a database, *)
(* the handle that started it, and the producers and consumers made from   *)
(* the handle, each on a thread of its own.                                *)
(*                                                                         *)
(* The handle and its kin share one Arc<AimDb>: holders are those who hold *)
(* it strongly.  Producers hold weak references to it: an upgrade that     *)
(* fails is their liveness check.  The AimDb inside is itself a shared     *)
(* reference, so the application may hold the same buffers through a clone *)
(* of the database, its runner or a producer (outside).  Only when all of  *)
(* them are gone do the buffers close, and nothing else wakes a consumer   *)
(* parked in get().                                                        *)
(* fork() leaves a copy of the handle in a child that has none of the      *)
(* other threads; after Fork the state is the child's.                     *)
(*                                                                         *)
(* Sources: aimdb-sync/src/handle.rs, runtime.rs, producer.rs,             *)
(* consumer.rs, fork.rs.                                                   *)
(***************************************************************************)
EXTENDS Integers, FiniteSets

CONSTANTS
  Closers,   \* threads that call shutdown or shutdown_timeout
  Producers, \* threads that call set
  Cap,       \* capacity of the record's ring
  MaxSet     \* bound: values published

ASSUME SyncAssumption ==
  /\ IsFiniteSet(Closers) /\ IsFiniteSet(Producers)
  /\ Closers \cap Producers = {}
  /\ {"thread", "channel", "owned"} \cap (Closers \cup Producers) = {}
  /\ Cap \in Nat \ {0} /\ MaxSet \in Nat

VARIABLES
  built,    \* attached to a database built before (AimDb::attach)
  outside,  \* the application holds the record's buffer by other means
  rt,       \* the runtime thread
  att,      \* the attaching thread
  handleCh, \* the channel the runtime handle is handed over through
  dbCh,     \* the channel the database is handed over through
  holders,  \* who holds a strong reference to the Arc<AimDb>
  signal,   \* a ShutdownSignal is in the channel, or its senders are gone
  panicked, \* the runtime thread has panicked
  handle,   \* the AimDbHandle exists, and with it the Arc<Runtime>
  owned,    \* the handle still holds its OwnedThread
  closed,   \* the handle's closed flag
  closer,   \* closer[c]: how far the shutdown of c has come
  pub,      \* pub[p]: how far the set of p has come
  pushed,   \* values published
  read,     \* last value the consumer has read or skipped
  con,      \* the consumer
  cur,      \* the value get_latest has in hand
  forked    \* the state is that of a forked child

vars == <<built, outside, rt, att, handleCh, dbCh, holders, signal, panicked, handle,
          owned, closed, closer, pub, pushed, read, con, cur, forked>>
startVars == <<built, outside, att, handleCh, dbCh>>
callVars == <<pub, pushed, read, con, cur>>
endVars == <<handle, owned, closed, closer>>

Holders == {"thread", "channel", "owned"} \cup Closers \cup Producers
Shutting == {"took", "alive", "join"}
Finished == {"joined", "already", "timeout", "panic", "forked"}

TypeOK ==
  /\ built \in BOOLEAN /\ outside \in BOOLEAN
  /\ rt \in {"spawned", "handed", "run", "idle", "stopping", "ended", "absent"}
  /\ att \in {"handle", "db", "done", "failed"}
  /\ handleCh \in {"empty", "ok", "err"} /\ dbCh \in {"empty", "ok", "err"}
  /\ holders \subseteq Holders /\ signal \in BOOLEAN /\ panicked \in BOOLEAN
  /\ handle \in BOOLEAN /\ owned \in BOOLEAN /\ closed \in BOOLEAN
  /\ closer \in [Closers -> {"idle", "gone"} \cup Shutting \cup Finished]
  /\ pub \in [Producers -> {"idle", "db", "shutdown", "forked", "gone"}]
  /\ pushed \in 0 .. MaxSet /\ read \in 0 .. pushed /\ cur \in 0 .. pushed
  /\ con \in {"none", "idle", "get", "timed", "catch", "drain", "shutdown",
              "timeout", "forked", "gone"}
  /\ forked \in BOOLEAN

Init ==
  /\ built \in BOOLEAN /\ outside \in (IF built THEN BOOLEAN ELSE {FALSE})
  /\ rt = "spawned" /\ att = "handle" /\ handleCh = "empty" /\ dbCh = "empty"
  /\ holders = IF built THEN {"owned"} ELSE {}
  /\ signal = FALSE /\ panicked = FALSE
  /\ handle = FALSE /\ owned = FALSE /\ closed = FALSE
  /\ closer = [c \in Closers |-> "idle"] /\ pub = [p \in Producers |-> "idle"]
  /\ pushed = 0 /\ read = 0 /\ con = "none" /\ cur = 0 /\ forked = FALSE

dbAlive == holders # {}

\* The buffers close with the last reference of any kind.
buffersOpen == dbAlive \/ outside

(***************************************************************************)
(* Attaching: new_from_builder and new, with the thread they spawn.        *)
(***************************************************************************)
\* The Tokio runtime is created and its handle sent, or the reason why not.
RtStart ==
  /\ rt = "spawned"
  /\ \/ rt' = (IF built THEN "run" ELSE "handed") /\ handleCh' = "ok"
     \/ rt' = "ended" /\ handleCh' = "err"
  /\ UNCHANGED <<built, outside, att, dbCh, holders, signal, panicked, endVars, callVars, forked>>

\* setup_background: the database is built on the thread and a reference sent;
\* what the application registered may have handed a producer on.
RtBuild ==
  /\ rt = "handed"
  /\ \/ /\ rt' = "run" /\ dbCh' = "ok"
        /\ holders' = holders \cup {"thread", "channel"} /\ outside' \in BOOLEAN
     \/ /\ rt' = "stopping" /\ dbCh' = "err"
        /\ UNCHANGED <<holders, outside>>
  /\ UNCHANGED <<built, att, handleCh, signal, panicked, endVars, callVars, forked>>

Assembled ==
  /\ att' = "done" /\ handle' = TRUE /\ owned' = TRUE /\ con' = "idle"
  /\ UNCHANGED <<closed, closer>>

\* A failed attach drops the shutdown sender with everything else it made.
Failed ==
  /\ att' = "failed" /\ signal' = TRUE
  /\ holders' = holders \ {"owned", "channel"}
  /\ UNCHANGED <<endVars, con>>

\* recv_startup: the handle, then (new_from_builder) the database.
RecvHandle ==
  /\ att = "handle"
  /\ \/ /\ handleCh = "ok" /\ built /\ Assembled
        /\ UNCHANGED <<signal, holders>>
     \/ /\ handleCh = "ok" /\ ~built
        /\ att' = "db" /\ UNCHANGED <<signal, holders, endVars, con>>
     \/ /\ handleCh = "err" \/ (handleCh = "empty" /\ rt = "ended")
        /\ Failed
  /\ UNCHANGED <<built, outside, rt, handleCh, dbCh, panicked, pub, pushed, read, cur, forked>>

\* Variant: a channel whose sender is gone is waited on.
RecvDbForEver ==
  /\ att = "db"
  /\ \/ /\ dbCh = "ok" /\ Assembled
        /\ holders' = (holders \ {"channel"}) \cup {"owned"}
        /\ UNCHANGED signal
     \/ dbCh = "err" /\ Failed
  /\ UNCHANGED <<built, outside, rt, handleCh, dbCh, panicked, pub, pushed, read, cur, forked>>

RecvDb ==
  /\ att = "db"
  /\ \/ /\ dbCh = "ok" /\ Assembled
        /\ holders' = (holders \ {"channel"}) \cup {"owned"}
        /\ UNCHANGED signal
     \/ /\ dbCh = "err" \/ (dbCh = "empty" /\ rt = "ended")
        /\ Failed
  /\ UNCHANGED <<built, outside, rt, handleCh, dbCh, panicked, pub, pushed, read, cur, forked>>

(***************************************************************************)
(* The runtime thread while it runs.                                       *)
(***************************************************************************)
\* The runner may end early; the thread goes on waiting for the signal.
RunnerDone ==
  /\ rt = "run" /\ ~built
  /\ rt' = "idle"
  /\ UNCHANGED <<startVars, holders, signal, panicked, endVars, callVars, forked>>

\* The thread leaves block_on and lets go of the database.
RtStop ==
  /\ rt \in {"run", "idle"} /\ signal
  /\ rt' = "stopping" /\ holders' = holders \ {"thread"}
  /\ UNCHANGED <<startVars, signal, panicked, endVars, callVars, forked>>

\* A task of the database, or its build, panics on the thread.
RtPanic ==
  /\ rt = "handed" \/ (rt = "run" /\ att = "done" /\ ~built)
  /\ rt' = "stopping" /\ holders' = holders \ {"thread"} /\ panicked' = TRUE
  /\ UNCHANGED <<startVars, signal, endVars, callVars, forked>>

RtEnd ==
  /\ rt = "stopping"
  /\ rt' = "ended"
  /\ UNCHANGED <<startVars, holders, signal, panicked, endVars, callVars, forked>>

(***************************************************************************)
(* The application beside the handle.                                      *)
(***************************************************************************)
\* The bound counts the publishes on their way.
Allowed == pushed + Cardinality({p \in Producers : pub[p] = "db"}) < MaxSet

\* A task of the database, or the holder of a clone, publishes.
PublishBeside ==
  /\ outside \/ (rt = "run" /\ ~built)
  /\ Allowed
  /\ pushed' = pushed + 1
  /\ UNCHANGED <<startVars, rt, holders, signal, panicked, endVars, pub, read, con, cur, forked>>

\* The last of these references is dropped; nobody has to.
LetGo ==
  /\ outside
  /\ outside' = FALSE
  /\ UNCHANGED <<built, att, handleCh, dbCh, rt, holders, signal, panicked, endVars, callVars,
                 forked>>

(***************************************************************************)
(* Shutting down: shutdown_internal, and Drop for AimDbHandle.             *)
(***************************************************************************)
\* Variant: the fork check is left out.
TakeUnchecked(c) ==
  /\ closer[c] = "idle" /\ handle
  /\ closed' = TRUE /\ owned' = FALSE
  /\ closer' = [closer EXCEPT ![c] = IF owned THEN "took" ELSE "already"]
  /\ holders' = IF owned THEN (holders \ {"owned"}) \cup {c} ELSE holders
  /\ UNCHANGED <<startVars, rt, signal, panicked, handle, callVars, forked>>

\* The fork check, then take_owned: one caller gets the thread, and with it
\* the reference to the database.
Take(c) ==
  /\ closer[c] = "idle" /\ handle
  /\ closed' = TRUE /\ owned' = FALSE
  /\ \/ /\ forked
        /\ closer' = [closer EXCEPT ![c] = "forked"]
        /\ holders' = holders \ {"owned"}
     \/ /\ ~forked /\ owned
        /\ closer' = [closer EXCEPT ![c] = "took"]
        /\ holders' = (holders \ {"owned"}) \cup {c}
     \/ /\ ~forked /\ ~owned
        /\ closer' = [closer EXCEPT ![c] = "already"]
        /\ UNCHANGED holders
  /\ UNCHANGED <<startVars, rt, signal, panicked, handle, callVars, forked>>

\* try_send, then the wait: bounded by the liveness channel or a plain join.
Signal(c) ==
  /\ closer[c] = "took"
  /\ signal' = TRUE
  /\ \E next \in {"alive", "join"} : closer' = [closer EXCEPT ![c] = next]
  /\ UNCHANGED <<startVars, rt, holders, panicked, handle, owned, closed, callVars, forked>>

\* Variant: a shutdown that timed out keeps its reference.
AwaitKeeping(c) ==
  /\ closer[c] = "alive"
  /\ closer' = [closer EXCEPT ![c] = IF rt = "ended" THEN "join" ELSE "timeout"]
  /\ UNCHANGED <<startVars, rt, holders, signal, panicked, handle, owned, closed, callVars, forked>>

\* recv_timeout: the thread is on its way out, or the time is up and thread
\* and database are released.
Await(c) ==
  /\ closer[c] = "alive"
  /\ \/ /\ rt = "ended"
        /\ closer' = [closer EXCEPT ![c] = "join"] /\ UNCHANGED holders
     \/ /\ rt # "ended"
        /\ closer' = [closer EXCEPT ![c] = "timeout"] /\ holders' = holders \ {c}
  /\ UNCHANGED <<startVars, rt, signal, panicked, handle, owned, closed, callVars, forked>>

\* Variant: the caller does not wait for the thread.
JoinAtOnce(c) ==
  /\ closer[c] = "join"
  /\ closer' = [closer EXCEPT ![c] = IF panicked THEN "panic" ELSE "joined"]
  /\ holders' = holders \ {c}
  /\ UNCHANGED <<startVars, rt, signal, panicked, handle, owned, closed, callVars, forked>>

Join(c) ==
  /\ closer[c] = "join" /\ rt = "ended"
  /\ closer' = [closer EXCEPT ![c] = IF panicked THEN "panic" ELSE "joined"]
  /\ holders' = holders \ {c}
  /\ UNCHANGED <<startVars, rt, signal, panicked, handle, owned, closed, callVars, forked>>

\* Variant: Drop lets go without signalling.
DropHandleQuietly ==
  /\ handle /\ \A c \in Closers : closer[c] \in {"idle"} \cup Finished
  /\ handle' = FALSE /\ closed' = TRUE /\ owned' = FALSE
  /\ holders' = holders \ {"owned"}
  /\ UNCHANGED <<startVars, rt, signal, panicked, closer, callVars, forked>>

\* Exclusive access: no call on the handle is in progress.
DropHandle ==
  /\ handle /\ \A c \in Closers : closer[c] \in {"idle"} \cup Finished
  /\ handle' = FALSE /\ closed' = TRUE /\ owned' = FALSE
  /\ holders' = holders \ {"owned"}
  /\ signal' = (signal \/ (owned /\ ~forked))
  /\ UNCHANGED <<startVars, rt, panicked, closer, callVars, forked>>

(***************************************************************************)
(* Producers: set.                                                         *)
(***************************************************************************)
\* Variant: the fork check is left out.
UpgradeUnchecked(p) ==
  /\ pub[p] = "idle" /\ att = "done" /\ Allowed
  /\ \/ /\ handle /\ dbAlive
        /\ pub' = [pub EXCEPT ![p] = "db"] /\ holders' = holders \cup {p}
     \/ /\ ~handle \/ ~dbAlive
        /\ pub' = [pub EXCEPT ![p] = "shutdown"] /\ UNCHANGED holders
  /\ UNCHANGED <<startVars, rt, signal, panicked, endVars, pushed, read, con, cur, forked>>

\* The weak Runtime, the fork check, the weak database.
Upgrade(p) ==
  /\ pub[p] = "idle" /\ att = "done" /\ Allowed
  /\ \/ /\ handle /\ ~forked /\ dbAlive
        /\ pub' = [pub EXCEPT ![p] = "db"] /\ holders' = holders \cup {p}
     \/ /\ handle /\ forked
        /\ pub' = [pub EXCEPT ![p] = "forked"] /\ UNCHANGED holders
     \/ /\ ~handle \/ (~forked /\ ~dbAlive)
        /\ pub' = [pub EXCEPT ![p] = "shutdown"] /\ UNCHANGED holders
  /\ UNCHANGED <<startVars, rt, signal, panicked, endVars, pushed, read, con, cur, forked>>

Produce(p) ==
  /\ pub[p] = "db"
  /\ pub' = [pub EXCEPT ![p] = "idle"] /\ holders' = holders \ {p}
  /\ pushed' = pushed + 1
  /\ UNCHANGED <<startVars, rt, signal, panicked, endVars, read, con, cur, forked>>

(***************************************************************************)
(* The consumer: get, get_with_timeout, try_get, get_latest.               *)
(***************************************************************************)
Oldest == IF pushed > Cap THEN pushed - Cap ELSE 0

consumerOnly == <<startVars, rt, holders, signal, panicked, endVars, pub, pushed, forked>>

\* Every read passes the fork check first.
Call ==
  /\ con \in {"idle", "timeout"}
  /\ \/ forked /\ con' = "forked"
     \/ ~forked /\ con' \in {"get", "timed", "catch"}
  /\ UNCHANGED <<read, cur>> /\ UNCHANGED consumerOnly

\* A lag is an error of get; get_catch_up goes on past it.
Lagged ==
  /\ con \in {"get", "timed", "catch", "drain"} /\ read < Oldest
  /\ read' = Oldest
  /\ con' = IF con \in {"get", "timed"} THEN "idle" ELSE con
  /\ UNCHANGED cur /\ UNCHANGED consumerOnly

Got ==
  /\ con \in {"get", "timed", "catch", "drain"} /\ read >= Oldest /\ read < pushed
  /\ read' = read + 1
  /\ \/ con \in {"get", "timed"} /\ con' = "idle" /\ UNCHANGED cur
     \/ con \in {"catch", "drain"} /\ con' = "drain" /\ cur' = read + 1
  /\ UNCHANGED consumerOnly

\* The buffers are closed and read out.
GotClosed ==
  /\ con \in {"get", "timed", "catch"} /\ ~buffersOpen /\ read = pushed
  /\ con' = "shutdown"
  /\ UNCHANGED <<read, cur>> /\ UNCHANGED consumerOnly

\* A deadline passes, before or after a poll.
TimedOut ==
  /\ con \in {"timed", "catch"}
  /\ con' = "timeout"
  /\ UNCHANGED <<read, cur>> /\ UNCHANGED consumerOnly

\* Variant: a lag ends the drain.
DrainedAtLag ==
  /\ con = "drain" /\ (read = pushed \/ read < Oldest)
  /\ con' = "idle" /\ cur' = 0
  /\ UNCHANGED read /\ UNCHANGED consumerOnly

\* drain_remaining: nothing more, get_latest returns what it has.
Drained ==
  /\ con = "drain" /\ read = pushed
  /\ con' = "idle" /\ cur' = 0
  /\ UNCHANGED read /\ UNCHANGED consumerOnly

(***************************************************************************)
(* fork() on a thread that is in no call: the child has that thread only.  *)
(* A call another thread was in never goes on there, and what it held is   *)
(* held for ever.                                                          *)
(***************************************************************************)
Fork ==
  /\ att = "done" /\ ~forked
  /\ forked' = TRUE /\ rt' = "absent"
  /\ closer' = [c \in Closers |-> IF closer[c] \in Shutting THEN "gone" ELSE closer[c]]
  /\ pub' = [p \in Producers |-> IF pub[p] = "db" THEN "gone" ELSE pub[p]]
  /\ con' = IF con \in {"get", "timed", "catch", "drain"} THEN "gone" ELSE con
  /\ UNCHANGED <<startVars, holders, signal, panicked, handle, owned, closed, pushed, read, cur>>

Next ==
  \/ RtStart \/ RtBuild \/ RecvHandle \/ RecvDb
  \/ PublishBeside \/ LetGo \/ RunnerDone \/ RtStop \/ RtPanic \/ RtEnd \/ DropHandle \/ Fork
  \/ \E c \in Closers : Take(c) \/ Signal(c) \/ Await(c) \/ Join(c)
  \/ \E p \in Producers : Upgrade(p) \/ Produce(p)
  \/ Call \/ Lagged \/ Got \/ GotClosed \/ TimedOut \/ Drained

Spec == Init /\ [][Next]_vars

\* The operating system runs every thread that can go on; a thread inside a
\* call goes on with it.
FairSpec ==
  /\ Spec
  /\ WF_vars(RtStart) /\ WF_vars(RtBuild) /\ WF_vars(RecvHandle) /\ WF_vars(RecvDb)
  /\ WF_vars(RtStop) /\ WF_vars(RtEnd)
  /\ \A c \in Closers : WF_vars(Signal(c)) /\ WF_vars(Await(c)) /\ WF_vars(Join(c))
  /\ \A p \in Producers : WF_vars(Produce(p))
  /\ WF_vars(Lagged \/ Got \/ GotClosed)

(***************************************************************************)
(* Properties.                                                             *)
(***************************************************************************)
\* Nobody waits for ever.  attach returns: the thread sends the handle and the
\* database, or the reason why not, or drops the channel.  A consumer parked in
\* get() returns once a shutdown, a timed-out shutdown or the drop of the handle
\* has begun and the application has let go of what else it held of the
\* database: the last reference goes.  The thread is not stranded: it ends after
\* a failed attach and after the handle was shut down or dropped (in the process
\* that has the thread).
NobodyHangs ==
  /\ <>(att \in {"done", "failed"})
  /\ (con = "get" /\ closed /\ ~outside) ~> con # "get"
  /\ (closed \/ att = "failed") ~> (rt = "ended" \/ forked)

\* A forked child never publishes through a producer of the handle into buffers
\* nobody drains, and never joins a thread it does not have, wherever the other
\* threads were when it was forked.
ChildTouchesNothing ==
  /\ TypeOK
  /\ forked => /\ \A p \in Producers : pub[p] # "db"
               /\ \A c \in Closers : closer[c] \notin Shutting

\* The caller that joined the thread is told Ok only when the thread is down, and
\* from then on no set of a producer begins, but beside one that was already on
\* its way.  (Any other caller is told Ok at once, whether it is down or not.)
DownMeansDown ==
  [][\A c \in Closers : closer[c] = "joined" =>
       /\ rt \in {"ended", "absent"}
       /\ (\A p \in Producers : pub[p] # "db") => \A p \in Producers : pub'[p] # "db"]_vars

\* get_latest returns the newest value there is.
LatestIsNewest ==
  [][con = "drain" /\ con' \notin {"drain", "gone"} => cur = pushed]_vars
============================================================================
