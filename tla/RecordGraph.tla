---------------------------- MODULE RecordGraph -----------------------------
(***************************************************************************)
(* The dependency graph of a database: DependencyGraph in                  *)
(* aimdb-core/src/graph.rs.  build() hands it one node per record, in      *)
(* registration order; a sort (Kahn's algorithm) yields the order in which *)
(* the records' tasks start, or the records it could not place.            *)
(*                                                                         *)
(* With a start-order seed the next record is drawn from all the ready     *)
(* ones, otherwise it is the one that has been ready longest.              *)
(***************************************************************************)
EXTENDS Integers, Sequences, FiniteSets

VARIABLES
  nodes,    \* GraphNodes in registration order: a key and its transform's inputs
  degree,   \* degree[k]: edges into k whose source has not been taken
  queue,    \* the ready records
  order     \* the topological order so far

graphVars == <<nodes, degree, queue, order>>

AllKeys == {nodes[i].key : i \in DOMAIN nodes}

\* The sources of the edges into a node.  A join that names an input twice
\* has two edges from it.
EdgesInto(n) == n.inputs

\* The number of edges from key to node n.
EdgesFrom(key, n) ==
  Cardinality({i \in DOMAIN EdgesInto(n) : EdgesInto(n)[i] = key})

MissingInput(ns) ==
  \E i \in DOMAIN ns : \E j \in DOMAIN ns[i].inputs :
    ns[i].inputs[j] \notin {ns[n].key : n \in DOMAIN ns}

\* The keys of a set, in registration order.
InOrder(ns, S) ==
  LET of[i \in 0 .. Len(ns)] ==
        IF i = 0 THEN <<>>
        ELSE IF ns[i].key \in S THEN Append(of[i - 1], ns[i].key) ELSE of[i - 1]
  IN  of[Len(ns)]

GraphInit ==
  /\ nodes = <<>>
  /\ degree = <<>>
  /\ queue = <<>>
  /\ order = <<>>

(***************************************************************************)
(* build_and_validate_seeded up to its loop, when every input exists.      *)
(***************************************************************************)
StartSort(ns) ==
  LET deg == [k \in {ns[i].key : i \in DOMAIN ns} |->
                Len(EdgesInto(ns[CHOOSE i \in DOMAIN ns : ns[i].key = k]))]
  IN  /\ nodes' = ns
      /\ degree' = deg
      /\ queue' = InOrder(ns, {k \in DOMAIN deg : deg[k] = 0})
      /\ order' = <<>>

\* VecDeque::swap_remove_back: the last element takes the place of the i-th.
SwapRemoveBack(q, i) ==
  SubSeq([q EXCEPT ![i] = q[Len(q)]], 1, Len(q) - 1)

(***************************************************************************)
(* One iteration of the loop: a ready record is placed, and the records it *)
(* was the last missing input of become ready, in registration order.      *)
(***************************************************************************)
Place(key, rest) ==
  LET left == [k \in DOMAIN degree |->
                 LET n == nodes[CHOOSE i \in DOMAIN nodes : nodes[i].key = k]
                 IN  degree[k] - EdgesFrom(key, n)]
  IN  /\ order' = Append(order, key)
      /\ degree' = left
      /\ queue' = rest \o InOrder(nodes, {k \in DOMAIN degree : degree[k] > 0 /\ left[k] = 0})
      /\ UNCHANGED nodes

TakeOldest == queue # <<>> /\ Place(Head(queue), Tail(queue))

TakeDrawn ==
  \E i \in DOMAIN queue : Place(queue[i], SwapRemoveBack(queue, i))

\* Variant: a record that waits for one input only is not reported.
OnlyDeeplyStuck == {k \in DOMAIN degree : degree[k] > 1}

\* The loop has ended: the records named by CyclicDependency, if any.
Unplaced == {k \in DOMAIN degree : degree[k] > 0}

Sorted == queue = <<>>

AllPlaced == Len(order) = Len(nodes)

-----------------------------------------------------------------------------
(* What the sort is for, without an algorithm.                             *)

Inputs(k) ==
  UNION {{nodes[i].inputs[j] : j \in DOMAIN nodes[i].inputs} :
           i \in {n \in DOMAIN nodes : nodes[n].key = k}}

\* The records that can never start: the largest set of records each of which
\* waits for another of the set.
Stuck == UNION {S \in SUBSET AllKeys : \A k \in S : Inputs(k) \cap S # {}}
=============================================================================
