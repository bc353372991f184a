-------------------------- MODULE InboundDispatch --------------------------
(***************************************************************************)
(* Messages from a connector to the records: InboundDispatch and Router in *)
(* aimdb-core/src/inbound_dispatch.rs and router.rs, and the tables that   *)
(* give the values of a topic capture small numbers, inbound_key.rs.       *)
(*                                                                         *)
(* Clones of a dispatch share its routes, so tasks of a connector route    *)
(* their messages at the same time; a key table has a lock of its own.     *)
(* Every link matches every message: what the messages differ in is the    *)
(* name captured from their topic.                                         *)
(***************************************************************************)
EXTENDS Builder

CONSTANTS
  Names,       \* values of the captured part of a topic
  Dispatchers  \* tasks of the connector that dispatch messages

VARIABLES
  names,       \* names[k]: the key table of record k; a name's key is its index
  dropped,     \* dropped[k]: messages the full table turned away
  routing,     \* routing[d]: the message d routes and the route it is at, or Idle
  delivered    \* keys passed to the deserializers (history)

inboundVars == <<names, dropped, routing, delivered>>

Idle == [name |-> "", route |-> 0]

InboundInit ==
  /\ names = [k \in Keys |-> <<>>]
  /\ dropped = [k \in Keys |-> 0]
  /\ routing = [d \in Dispatchers |-> Idle]
  /\ delivered = {}

\* inbound_router: the routes, by record in registration order, then by link.
LinksInOrder(ks, rs) ==
  LET Of[i \in 0 .. Len(ks)] ==
        IF i = 0 THEN <<>>
        ELSE Of[i - 1] \o [j \in DOMAIN rs[ks[i]].inbound |->
                             [record |-> ks[i], capacity |-> rs[ks[i]].inbound[j]]]
  IN  Of[Len(ks)]

Routes ==
  IF \E i \in DOMAIN connectors : connectors[i] THEN LinksInOrder(records, rec) ELSE <<>>

Known(k, name) == \E i \in DOMAIN names[k] : names[k][i] = name

\* Variant: a name is looked up only when the table is full.
KeyOfNew(r, name) ==
  IF Len(names[r.record]) < r.capacity THEN {Len(names[r.record]) + 1}
  ELSE {i \in DOMAIN names[r.record] : names[r.record][i] = name}

\* KeyTable::key: the key of a name, none when the table is full.
KeyOf(r, name) ==
  IF Known(r.record, name)
    THEN {i \in DOMAIN names[r.record] : names[r.record][i] = name}
    ELSE {i \in {Len(names[r.record]) + 1} : i <= r.capacity}

\* InboundDispatch::dispatch
Receive(d, name) ==
  /\ routing[d] = Idle /\ Routes # <<>>
  /\ routing' = [routing EXCEPT ![d] = [name |-> name, route |-> 1]]
  /\ UNCHANGED <<names, dropped, delivered>>

\* The next route of the message, if there is one.
Advance(d) ==
  routing' = [routing EXCEPT ![d] =
                IF @.route = Len(Routes) THEN Idle ELSE [name |-> @.name, route |-> @.route + 1]]

(***************************************************************************)
(* One route of Router::route.  A full table or a failing deserializer     *)
(* skips this route only.  written: a value was produced.                  *)
(***************************************************************************)
RouteOne(d, written) ==
  LET r    == Routes[routing[d].route]
      name == routing[d].name
  IN  /\ routing[d] # Idle
      /\ Advance(d)
      /\ \/ /\ r.capacity = 0
            /\ UNCHANGED <<names, dropped, delivered>>
         \/ /\ r.capacity > 0 /\ KeyOf(r, name) = {}
            /\ ~written
            /\ dropped' = [dropped EXCEPT ![r.record] = @ + 1]
            /\ UNCHANGED <<names, delivered>>
         \/ \E key \in KeyOf(r, name) :
              /\ r.capacity > 0
              /\ names' = [names EXCEPT ![r.record] = IF key > Len(@) THEN Append(@, name) ELSE @]
              /\ delivered' = delivered \cup {[record |-> r.record, name |-> name, key |-> key]}
              /\ UNCHANGED dropped

-----------------------------------------------------------------------------
(***************************************************************************)
(* Deserializers of a record always see the same key for a name, different *)
(* keys for different names and no key beyond the declared capacity; the   *)
(* table can tell the name of every key that was handed out.               *)
(***************************************************************************)
OneKeyPerName ==
  \A x, y \in delivered :
    x.record = y.record =>
      /\ (x.name = y.name) <=> (x.key = y.key)
      /\ names[x.record][x.key] = x.name
      /\ \A i \in DOMAIN rec[x.record].inbound :
           rec[x.record].inbound[i] > 0 => x.key <= rec[x.record].inbound[i]
=============================================================================
