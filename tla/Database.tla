------------------------------ MODULE Database ------------------------------
(***************************************************************************)
(* A database from its first configure() to its running tasks: the builder *)
(* (Builder, RecordGraph), the connector's messages (InboundDispatch), the *)
(* derived records (Transforms) and the writes from outside: sources, the  *)
(* application, and remote clients through set_record_from_json            *)
(* (aimdb-core/src/builder.rs, typed_record.rs).                           *)
(***************************************************************************)
EXTENDS Transforms

CONSTANTS
  RunBudget,  \* bound: databases with more registrations are built, not run
  MaxWrites   \* bound: writes from outside

VARIABLES
  writes,        \* writes from outside so far
  remotelySet    \* records a remote client has written (history)

dbVars == <<writes, remotelySet>>
databaseVars == <<builderVars, graphVars, inboundVars, transformVars, dbVars>>

DbInit ==
  /\ BuilderInit /\ GraphInit /\ InboundInit /\ TransformsInit
  /\ writes = 0
  /\ remotelySet = {}

\* Runs(k, d): the runner drives task d of record k.
Runs(k, d) == \E i \in DOMAIN tasks : tasks[i].record = k /\ tasks[i].does = d

Write(k) ==
  /\ writes < MaxWrites
  /\ writes' = writes + 1
  /\ written' = Written(written, k)
  /\ UNCHANGED <<reader, fanin, handler, inboundVars>>

SourceWrite(k) ==
  /\ Runs(k, "source")
  /\ Write(k)
  /\ UNCHANGED remotelySet

\* AimDb::produce and the producers handed out by AimDb::producer
AppWrite(k) ==
  /\ Write(k)
  /\ UNCHANGED remotelySet

\* remote_write_codec: has_producer and has_transform ask for the service and
\* the descriptor that build() has taken.
RemoteWriteAllowed(r) ==
  /\ ~r.source /\ r.transform = {}
  /\ r.remote
  /\ r.buffer

\* set_from_json and commit_remote_write
RemoteWrite(k) ==
  /\ RemoteWriteAllowed(rec[k])
  /\ Write(k)
  /\ remotelySet' = remotelySet \cup {k}

\* A connector task receives a message.
Message(d, name) ==
  /\ writes < MaxWrites
  /\ writes' = writes + 1
  /\ Receive(d, name)
  /\ UNCHANGED <<transformVars, remotelySet>>

\* One route: deserialize and produce, or fail to deserialize.
Ingest(d) ==
  /\ routing[d] # Idle
  /\ \E ok \in BOOLEAN :
       /\ RouteOne(d, ok)
       /\ written' = IF ok THEN Written(written, Routes[routing[d].route].record) ELSE written
  /\ UNCHANGED <<reader, fanin, handler, dbVars>>

Outside ==
  \/ \E k \in Registered : SourceWrite(k) \/ AppWrite(k) \/ RemoteWrite(k)
  \/ \E d \in Dispatchers, name \in Names : Message(d, name)

\* What the database's own tasks do.
Work ==
  \/ \E d \in Dispatchers : Ingest(d)
  \/ RunTransforms /\ UNCHANGED <<inboundVars, dbVars>>

\* Bound: see RunBudget; a record without a buffer is free.
Worthwhile ==
  LET counted == {c \in DOMAIN made : c.kind = "new" => c.type # Plain}
  IN  BagCardinality([c \in counted |-> made[c]]) <= RunBudget

\* The runner drives the database.
Running == phase = "running" /\ Worthwhile

BuildStep ==
  /\ Build
  /\ IF phase' = "running" /\ Worthwhile THEN StartRunner ELSE UNCHANGED transformVars
  /\ UNCHANGED <<inboundVars, dbVars>>

WorkStep ==
  /\ Running
  /\ Work
  /\ UNCHANGED <<builderVars, graphVars>>

DbNext ==
  \/ Configure /\ UNCHANGED <<inboundVars, transformVars, dbVars>>
  \/ BuildStep
  \/ WorkStep
  \/ Running /\ Outside /\ UNCHANGED <<builderVars, graphVars>>

DbSpec == DbInit /\ [][DbNext]_databaseVars

(***************************************************************************)
(* build() is awaited to its end, and the runner polls every future that   *)
(* was woken.  Nobody has to configure, build or write anything.           *)
(***************************************************************************)
FairDbSpec ==
  DbSpec /\ WF_databaseVars(phase # "configuring" /\ BuildStep) /\ WF_databaseVars(WorkStep)

-----------------------------------------------------------------------------
\* Every task waits for an input that has nothing new, or has ended.
Settled ==
  /\ \A d \in Dispatchers : routing[d] = Idle
  /\ \A x \in DOMAIN reader :
       reader[x].at = "ended" \/ (reader[x].at = "reading" /\ Behind(x) = 0)
  /\ \A k \in DOMAIN handler : handler[k] = "running" => fanin[k] = <<>>

(***************************************************************************)
(* A build that has begun ends, and the tasks of the database it returns   *)
(* work off whatever is written: a full channel, a lag or a handler that   *)
(* returns early never leaves a value that nobody will take.               *)
(***************************************************************************)
WorkedOff ==
  (phase # "configuring") ~> (phase = "failed" \/ (phase = "running" /\ Settled))

(***************************************************************************)
(* A remote write never lands in a record that a source or a transform of  *)
(* the application writes.                                                 *)
(***************************************************************************)
NoProducerOverride ==
  \A k \in remotelySet : ~Runs(k, "source") /\ ~Runs(k, "transform")
=============================================================================
