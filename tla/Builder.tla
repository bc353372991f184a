------------------------------ MODULE Builder ------------------------------
(***************************************************************************)
(* AimDbBuilder: connectors and records are registered in any order, then  *)
(* build() reports every configuration mistake or collects the tasks the   *)
(* runner drives.  Sources, all in aimdb-core/src: builder.rs,             *)
(* typed_record.rs, the registrar and link builders of typed_api.rs,       *)
(* connector.rs.                                                           *)
(*                                                                         *)
(* A configure() whose closure makes several registrations is several      *)
(* Register steps: a second configure() of a key with the same type        *)
(* continues where the first one stopped.  Record keys only differ in      *)
(* their names, so a new record takes the next one.                        *)
(***************************************************************************)
EXTENDS RecordGraph, Bags

CONSTANTS
  MaxKeys,   \* bound: record keys
  Types,     \* record types
  Plain,     \* the type of an unremarkable record
  Budget     \* bound: registrations that are not a plain buffered record

ASSUME BuilderAssumption ==
  /\ MaxKeys \in Nat
  /\ Plain \in Types
  /\ Budget \in Nat

VARIABLES
  phase,       \* how far the builder is
  runtime,     \* .runtime() was called
  connectors,  \* ConnectorBuilders: TRUE for one that owns its scheme
  records,     \* the keys in registration order
  rec,         \* the TypedRecord of every registered key
  errors,      \* ConfigErrors of the builder and of its records
  spawn,       \* keys whose spawn_fn has not run
  seeded,      \* a start-order seed was given
  tasks,       \* the futures collected for the runner
  tripped,     \* an assertion about a validated database has failed
  made         \* the registrations made (history)

builderVars == <<phase, runtime, connectors, records, rec, errors, spawn,
                 seeded, tasks, tripped, made>>

NoKey == 0

Keys == 1 .. MaxKeys

Registered == {records[i] : i \in DOMAIN records}

(***************************************************************************)
(* What a closure may register.  An inbound link is the capacity of its    *)
(* key table, 0 without a key.  A flawed link has a malformed address, a   *)
(* topic that does not parse, no (or two) wire formats, or a connector     *)
(* handle that belongs to another builder or another scheme.               *)
(***************************************************************************)
JoinInputs == {<<>>} \cup {in \in Keys \X Keys : in[1] <= in[2]}

Descriptors ==
  [join : {FALSE}, inputs : {<<k>> : k \in Keys}, reads : Types] \cup
  [join : {TRUE}, inputs : JoinInputs, reads : {Plain}]

Links == [flawed : BOOLEAN, capacity : 0 .. 2]

Stages ==
  [kind : {"source", "tap", "remote", "buffer"}] \cup
  [kind : {"schema"}, version : 1 .. 2] \cup
  [kind : {"transform"}, of : Descriptors] \cup
  {[kind |-> "inbound", link |-> l] : l \in {l \in Links : l.flawed => l.capacity = 0}} \cup
  {[kind |-> "outbound", link |-> l] : l \in {l \in Links : l.capacity = 0}}

TypedRecord ==
  [type : Types, buffer : BOOLEAN, source : BOOLEAN, transform : SUBSET Descriptors,
   taps : Nat, inbound : Seq(0 .. 2), outbound : Nat, remote : BOOLEAN, schema : 0 .. 2]

NewRecord(t) ==
  [type |-> t, buffer |-> FALSE, source |-> FALSE, transform |-> {}, taps |-> 0,
   inbound |-> <<>>, outbound |-> 0, remote |-> FALSE, schema |-> 0]

\* Bound: the registrations so far leave room for n more.  A connector that
\* owns its scheme, if it is the first, and a buffer for a record that lacks
\* one are free.
Afford(n) ==
  LET counted == {c \in DOMAIN made : c.kind # "buffer"}
  IN  BagCardinality([c \in counted |-> made[c]]) + n <= Budget

Price(st) == IF st.kind = "buffer" THEN 0 ELSE 1

Note(call) == made' = made (+) SetToBag({call})

-----------------------------------------------------------------------------
(* Configuration.                                                          *)

BuilderInit ==
  /\ phase = "configuring"
  /\ runtime \in BOOLEAN
  /\ connectors = <<>>
  /\ records = <<>>
  /\ rec = <<>>
  /\ errors = {}
  /\ spawn = {}
  /\ seeded = FALSE
  /\ tasks = <<>>
  /\ tripped = FALSE
  /\ made = IF runtime THEN EmptyBag ELSE SetToBag({[kind |-> "no runtime"]})

WithConnector(owns) ==
  LET again == IF connectors = <<>> /\ owns THEN EmptyBag ELSE SetToBag({[kind |-> "connector"]})
  IN  /\ phase = "configuring" /\ Afford(BagCardinality(again))
      /\ connectors' = Append(connectors, owns)
      /\ made' = made (+) again
      /\ UNCHANGED <<phase, runtime, records, rec, errors, spawn, seeded, tasks, tripped>>

StartOrderSeed ==
  /\ phase = "configuring" /\ Afford(1)
  /\ ~seeded
  /\ seeded' = TRUE
  /\ Note([kind |-> "seed"])
  /\ UNCHANGED <<phase, runtime, connectors, records, rec, errors, spawn, tasks, tripped>>

\* configure() of a new key; the closure sets the buffer or not.
ConfigureNew(t, buffered) ==
  LET k == Len(records) + 1
      odd == IF t = Plain /\ buffered THEN EmptyBag
             ELSE SetToBag({[key |-> k, kind |-> "new", type |-> t, buffer |-> buffered]})
  IN  /\ phase = "configuring" /\ k \in Keys
      /\ Afford(BagCardinality(odd))
      /\ records' = Append(records, k)
      /\ rec' = Append(rec, [NewRecord(t) EXCEPT !.buffer = buffered])
      /\ spawn' = spawn \cup {k}
      /\ made' = made (+) odd
      /\ UNCHANGED <<phase, runtime, connectors, errors, seeded, tasks, tripped>>

\* configure() of a known key with another type: the closure does not run.
ConfigureRetyped(k) ==
  /\ phase = "configuring" /\ Afford(1)
  /\ Types # {rec[k].type}
  /\ errors' = errors \cup {[key |-> k, what |-> "type"]}
  /\ Note([key |-> k, kind |-> "retyped"])
  /\ UNCHANGED <<phase, runtime, connectors, records, rec, spawn, seeded, tasks, tripped>>

PushConfigError(k, what) ==
  /\ errors' = errors \cup {[key |-> k, what |-> what]}
  /\ UNCHANGED rec

Keep(k, r) ==
  /\ rec' = [rec EXCEPT ![k] = r]
  /\ UNCHANGED errors

(***************************************************************************)
(* The registrations of a closure.  A mistake that is known at once is     *)
(* recorded, and the registration is otherwise ignored.                    *)
(***************************************************************************)
SetProducer(k) ==
  IF rec[k].source THEN PushConfigError(k, "source")
  ELSE Keep(k, [rec[k] EXCEPT !.source = TRUE])

SetTransform(k, descriptor) ==
  IF rec[k].transform # {} THEN PushConfigError(k, "transform")
  ELSE Keep(k, [rec[k] EXCEPT !.transform = {descriptor}])

SetSchema(k, version) ==
  IF rec[k].schema \notin {0, version} THEN PushConfigError(k, "schema")
  ELSE Keep(k, [rec[k] EXCEPT !.schema = version])

AddConsumer(k) == Keep(k, [rec[k] EXCEPT !.taps = @ + 1])

WithRemoteAccess(k) == Keep(k, [rec[k] EXCEPT !.remote = TRUE])

SetBuffer(k) == Keep(k, [rec[k] EXCEPT !.buffer = TRUE])

\* A link is good for nothing without a connector registered before it.
LinkUsable(link) == ~link.flawed /\ connectors # <<>>

PushOutbound(k, link) ==
  IF LinkUsable(link) THEN Keep(k, [rec[k] EXCEPT !.outbound = @ + 1])
  ELSE PushConfigError(k, "outbound")

\* A keyed link agrees with the keyed links the record already has.
SameCapacity(r, link) ==
  link.capacity = 0 \/ \A i \in DOMAIN r.inbound : r.inbound[i] \in {0, link.capacity}

PushInbound(k, link) ==
  IF LinkUsable(link) /\ SameCapacity(rec[k], link)
    THEN Keep(k, [rec[k] EXCEPT !.inbound = Append(@, link.capacity)])
    ELSE PushConfigError(k, "inbound")

Registrar(k, st) ==
  \/ st.kind = "source" /\ SetProducer(k)
  \/ st.kind = "transform" /\ SetTransform(k, st.of)
  \/ st.kind = "schema" /\ SetSchema(k, st.version)
  \/ st.kind = "tap" /\ AddConsumer(k)
  \/ st.kind = "remote" /\ WithRemoteAccess(k)
  \/ st.kind = "buffer" /\ ~rec[k].buffer /\ SetBuffer(k)
  \/ st.kind = "outbound" /\ PushOutbound(k, st.link)
  \/ st.kind = "inbound" /\ PushInbound(k, st.link)

Register(k, st) ==
  /\ phase = "configuring" /\ Afford(Price(st))
  /\ Registrar(k, st)
  /\ Note([key |-> k, kind |-> st.kind, stage |-> st, served |-> connectors # <<>>])
  /\ UNCHANGED <<phase, runtime, connectors, records, spawn, seeded, tasks, tripped>>

Configure ==
  /\ \/ \E owns \in BOOLEAN : WithConnector(owns)
     \/ StartOrderSeed
     \/ \E t \in Types, b \in BOOLEAN : ConfigureNew(t, b)
     \/ \E k \in Registered : ConfigureRetyped(k)
     \/ \E k \in Registered, st \in Stages : Register(k, st)
  /\ UNCHANGED graphVars

-----------------------------------------------------------------------------
(* build(): the validation pass.                                           *)

\* The kinds of writers a record has: has_producer, has_transform and
\* inbound_connectors.
Writers(r) ==
  {w \in {"source", "transform", "inbound"} :
     CASE w = "source"    -> r.source
       [] w = "transform" -> r.transform # {}
       [] w = "inbound"   -> r.inbound # <<>>}

HasLinks(r) == r.inbound # <<>> \/ r.outbound > 0

\* drain_config_errors
RemoteUnbuffered(r) == r.remote /\ ~r.buffer

LinkUnbuffered(r) == HasLinks(r) /\ ~r.buffer

\* Variant: a source beside a transform is let through.
LinkedWriters(r) == r.inbound # <<>> /\ Cardinality(Writers(r)) > 1

WritersConflict(r) == Cardinality(Writers(r)) > 1

\* A registered input of the record's transform holds another type than the
\* transform reads; the other inputs are left to the graph.
InputMistyped(r) ==
  \E d \in r.transform : \E i \in DOMAIN d.inputs :
    d.inputs[i] \in Registered /\ rec[d.inputs[i]].type # d.reads

Found(what, Bad(_)) == {[key |-> k, what |-> what] : k \in {k \in Registered : Bad(rec[k])}}

Validated ==
  errors \cup Found("remote buffer", RemoteUnbuffered)
         \cup Found("link buffer", LinkUnbuffered)
         \cup Found("writers", WritersConflict)
         \cup Found("input type", InputMistyped)
         \cup (IF runtime THEN {} ELSE {[key |-> NoKey, what |-> "runtime"]})

\* record_origin decides on the transform before anything else.
OriginInputs(r) ==
  IF r.transform = {} THEN <<>> ELSE (CHOOSE d \in r.transform : TRUE).inputs

GraphNodes ==
  [i \in DOMAIN records |-> [key |-> records[i], inputs |-> OriginInputs(rec[records[i]])]]

Fail(found) ==
  /\ phase' = "failed"
  /\ errors' = found
  /\ tasks' = <<>>

\* The validation pass, up to the sort.  A missing input ends it at once.
Validate ==
  /\ phase = "configuring"
  /\ IF MissingInput(GraphNodes)
       THEN /\ Fail(Validated \cup {[key |-> NoKey, what |-> "missing input"]})
            /\ UNCHANGED graphVars
       ELSE /\ phase' = "sorting"
            /\ errors' = Validated
            /\ StartSort(GraphNodes)
            /\ UNCHANGED tasks
  /\ UNCHANGED <<runtime, connectors, records, rec, spawn, seeded, tripped, made>>

Sort ==
  /\ phase = "sorting"
  /\ IF seeded THEN TakeDrawn ELSE TakeOldest
  /\ UNCHANGED builderVars

\* The last two exits of the validation pass: a cycle, then any mistake.
Conclude ==
  /\ phase = "sorting" /\ Sorted
  /\ IF ~AllPlaced \/ errors # {}
       THEN Fail(errors \cup (IF AllPlaced THEN {}
                             ELSE {[key |-> NoKey, what |-> "cycle", records |-> Unplaced]}))
       ELSE phase' = "collecting" /\ UNCHANGED <<errors, tasks>>
  /\ UNCHANGED <<runtime, connectors, records, rec, spawn, seeded, tripped, made, graphVars>>

-----------------------------------------------------------------------------
(* build(): collecting what the runner drives.                             *)

\* The futures of one record, as the collect_* functions return them.
ProducerFuture(k) ==
  IF rec[k].source THEN <<[record |-> k, does |-> "source"]>> ELSE <<>>

\* A join has a forwarder per input beside its task.
FaninFutures(k, d) ==
  IF d.join THEN [i \in DOMAIN d.inputs |-> [record |-> k, does |-> "forward", input |-> i]]
  ELSE <<>>

TransformFutures(k) ==
  IF rec[k].transform = {} THEN <<>>
  ELSE LET d == CHOOSE d \in rec[k].transform : TRUE
       IN  <<[record |-> k, does |-> "transform", of |-> d]>> \o FaninFutures(k, d)

ConsumerFutures(k) ==
  [i \in 1 .. rec[k].taps |-> [record |-> k, does |-> "tap", nr |-> i]]

\* Variant: the taps of a derived record are forgotten.
FuturesOrTaps(k) ==
  IF rec[k].transform = {} THEN ProducerFuture(k) \o ConsumerFutures(k) ELSE TransformFutures(k)

\* collect_all_futures
Futures(k) == ProducerFuture(k) \o TransformFutures(k) \o ConsumerFutures(k)

\* What is left of a record whose producer, transform and taps were taken.
Taken(r) == [r EXCEPT !.source = FALSE, !.transform = {}, !.taps = 0]

\* The first record of a sequence that has not been spawned.
FirstWaiting(s) ==
  s[CHOOSE i \in DOMAIN s : s[i] \in spawn /\ \A j \in 1 .. i - 1 : s[j] \notin spawn]

\* Variant: the records are visited as they were registered.
NextRegistered == FirstWaiting(records)

\* The next record in topological order.
NextToSpawn == FirstWaiting(order)

\* One spawn_fn.  A tap without a buffer ends build().
Collect ==
  /\ phase = "collecting" /\ spawn # {}
  /\ LET k == NextToSpawn
     IN  IF rec[k].taps > 0 /\ ~rec[k].buffer
           THEN /\ Fail({[key |-> k, what |-> "tap"]})
                /\ UNCHANGED <<rec, spawn>>
           ELSE /\ tasks' = tasks \o Futures(k)
                /\ rec' = [rec EXCEPT ![k] = Taken(@)]
                /\ spawn' = spawn \ {k}
                /\ UNCHANGED <<phase, errors>>
  /\ UNCHANGED <<runtime, connectors, records, seeded, tripped, made, graphVars>>

\* A connector that owns the scheme is not the first one registered for it.
DuplicateScheme == \E i \in DOMAIN connectors : i > 1 /\ connectors[i]

CheckSchemes ==
  /\ phase = "collecting" /\ spawn = {}
  /\ IF DuplicateScheme
       THEN Fail({[key |-> NoKey, what |-> "scheme"]})
       ELSE phase' = "connecting" /\ UNCHANGED <<errors, tasks>>
  /\ UNCHANGED <<runtime, connectors, records, rec, spawn, seeded, tripped, made, graphVars>>

Connected == Cardinality({i \in DOMAIN tasks : tasks[i].does = "connect"})

\* builder.build(&db): it may fail; one that owns the scheme makes the routes
\* of every link, which panics for a link whose record has no buffer.
BuildConnector ==
  /\ phase = "connecting" /\ Connected < Len(connectors)
  /\ tripped' = (connectors[Connected + 1] /\ \E k \in Registered :
                    rec[k].outbound > 0 /\ ~rec[k].buffer)
  /\ \/ Fail({[key |-> NoKey, what |-> "connector"]})
     \/ /\ ~tripped'
        /\ tasks' = Append(tasks, [record |-> NoKey, does |-> "connect", nr |-> Connected + 1])
        /\ UNCHANGED <<phase, errors>>
  /\ UNCHANGED <<runtime, connectors, records, rec, spawn, seeded, made, graphVars>>

\* build() returns the database and the runner.
Built ==
  /\ phase = "connecting" /\ Connected = Len(connectors)
  /\ phase' = "running"
  /\ UNCHANGED <<runtime, connectors, records, rec, errors, spawn, seeded, tasks,
                 tripped, made, graphVars>>

Build == Validate \/ Sort \/ Conclude \/ Collect \/ CheckSchemes \/ BuildConnector \/ Built

-----------------------------------------------------------------------------
(* Properties of the configuration and of build().                         *)

BuilderTypeOK ==
  /\ phase \in {"configuring", "sorting", "collecting", "connecting", "running", "failed"}
  /\ DOMAIN rec = Registered
  /\ \A k \in Registered : rec[k] \in TypedRecord
  /\ spawn \subseteq Registered
  /\ \A k \in DOMAIN degree : degree[k] \in Nat

(* What is wrong with a record, told from the registrations made and not   *)
(* from what the builder kept of them.                                     *)
Calls(k, kinds) == {c \in DOMAIN made : c.kind \in kinds /\ c.key = k}

Copies(calls) == UNION {{<<c, n>> : n \in 1 .. made[c]} : c \in calls}

Times(k, kind) == Cardinality(Copies(Calls(k, {kind})))

Buffered(k) ==
  Calls(k, {"buffer"}) # {} \/ \A c \in Calls(k, {"new"}) : c.buffer

Mistaken(k) ==
  LET links   == Calls(k, {"inbound", "outbound"})
      schemas == {c.stage.version : c \in Calls(k, {"schema"})}
      caps    == {c.stage.link.capacity : c \in Calls(k, {"inbound"})} \ {0}
      writers == {c.kind : c \in Calls(k, {"source", "transform", "inbound"})}
  IN  \/ Calls(k, {"retyped"}) # {}
      \/ Times(k, "source") > 1 \/ Times(k, "transform") > 1
      \/ Cardinality(schemas) > 1 \/ Cardinality(caps) > 1 \/ Cardinality(writers) > 1
      \/ \E c \in links : c.stage.link.flawed \/ ~c.served
      \/ (links # {} \/ Calls(k, {"remote"}) # {}) /\ ~Buffered(k)
      \/ \E c \in Calls(k, {"transform"}) :
           \E i \in DOMAIN c.stage.of.inputs :
             LET input == c.stage.of.inputs[i]
             IN  input \in Registered /\ rec[input].type # c.stage.of.reads

\* A transform that reads a record nobody configured, and a tap on a record
\* without a buffer.
Unfed(k) ==
  \E c \in Calls(k, {"transform"}) : \E i \in DOMAIN c.stage.of.inputs :
    c.stage.of.inputs[i] \notin Registered

Unheard(k) == Calls(k, {"tap"}) # {} /\ ~Buffered(k)

Late == {"tap", "scheme", "connector"}

(***************************************************************************)
(* What build() reports of the mistakes that were made.  The validation    *)
(* pass names exactly the records it finds mistaken, in whatever order the *)
(* calls were made, also when an input is missing or there is a cycle, and *)
(* no later failure hides one of them.  A cycle is reported with exactly   *)
(* the records it keeps from starting.  The other three kinds do not come  *)
(* with the rest: a missing input ends the pass before the sort, with the  *)
(* cycles unsought, and a tap without a buffer or a second owner of a      *)
(* scheme is met behind the pass, alone.  But build() returns no database  *)
(* with any of them, and reports none that was not made.                   *)
(***************************************************************************)
MistakesReported ==
  /\ BuilderTypeOK
  /\ ~tripped
  /\ phase # "configuring" =>
       IF \E e \in errors : e.what \in Late
         THEN \A k \in Registered : ~Mistaken(k)
         ELSE {e.key : e \in errors} \ {NoKey} = {k \in Registered : Mistaken(k)}
  /\ \A e \in errors :
       /\ e.what = "cycle" => e.records = Stuck /\ Stuck # {}
       /\ e.what = "missing input" => \E k \in Registered : Unfed(k)
       /\ e.what = "tap" => e.key \in Registered /\ Unheard(e.key)
  /\ phase = "failed" /\ Stuck # {} => \E e \in errors : e.what = "cycle"
  /\ phase \in {"collecting", "connecting", "running"} =>
       Stuck = {} /\ \A k \in Registered : ~Unfed(k)
  /\ phase \in {"connecting", "running"} =>
       ~DuplicateScheme /\ \A k \in Registered : ~Unheard(k)

(***************************************************************************)
(* The tasks of a record are collected after those of every record its     *)
(* transform reads, and a running database has one per registered source,  *)
(* transform, join input, tap and connector, however many configure()      *)
(* calls made them.                                                        *)
(***************************************************************************)
TasksInOrder ==
  /\ \A i, j \in DOMAIN tasks :
       tasks[i].record \in Inputs(tasks[j].record) => i < j
  /\ phase = "running" =>
       \A k \in Registered :
         LET Does(what) == Cardinality({i \in DOMAIN tasks :
                                          tasks[i].record = k /\ tasks[i].does = what})
         IN  /\ Does("source") = Times(k, "source")
             /\ Does("transform") = Times(k, "transform")
             /\ Does("tap") = Times(k, "tap")
             /\ \A c \in Calls(k, {"transform"}) :
                  Does("forward") = IF c.stage.of.join THEN Len(c.stage.of.inputs) ELSE 0
=============================================================================
