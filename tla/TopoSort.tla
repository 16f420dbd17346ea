------------------------------ MODULE TopoSort ------------------------------
(***************************************************************************)
(* lexicographical_topological_sort: the order in which events are         *)
(* applied, used by state resolution, by fetch_prev and by the handler of  *)
(* inbound transactions.  A node is an event, its edges are the events it  *)
(* refers to; an event is taken once every event it refers to has been,    *)
(* and among the events that can be taken the smallest key goes first.     *)
(***************************************************************************)
EXTENDS Integers, Sequences, Functions

CONSTANTS
  Nodes,     \* the keys of the graph
  Outside,   \* events that may be referred to and are not keys of the graph
  Powers,    \* power levels
  Stamps,    \* values of origin_server_ts
  KeyFails   \* key_fn fails: the event cannot be fetched

(* Event ids are compared as strings: integers stand for them.             *)
Ids == Nodes \cup Outside
Keys == [power : Powers, ts : Stamps]

VARIABLES
  graph,    \* the parameter: the references of every node
  key,      \* what key_fn returns for a node
  out,      \* outdegree_map: the references not taken yet
  heap,     \* the nodes that can be taken
  sorted,   \* the result so far
  phase     \* "start", "sorting", then "ok" or "err"

sort_vars == <<graph, key, out, heap, sorted, phase>>

SortTypeOK ==
  /\ graph \in [Nodes -> SUBSET Ids]
  /\ key \in [Nodes -> Keys \cup {KeyFails}]
  /\ out \in [Nodes -> SUBSET Ids]
  /\ heap \in SUBSET Nodes
  /\ sorted \in Seq(Nodes)
  /\ phase \in {"start", "sorting", "ok", "err"}

SortInit ==
  /\ graph \in [Nodes -> SUBSET Ids]
  /\ key \in [Nodes -> Keys \cup {KeyFails}]
  /\ out = graph
  /\ heap = {}
  /\ sorted = << >>
  /\ phase = "start"

(* TieBreaker: the higher power level first, then the older, then the id.  *)
Precedes(x, y) ==
  \/ key[x].power > key[y].power
  \/ /\ key[x].power = key[y].power
     /\ key[x].ts < key[y].ts \/ (key[x].ts = key[y].ts /\ x < y)

Done == Range(sorted)

(* Push the nodes on the heap; key_fn is called for each.                  *)
PushAll(h, new) ==
  IF \A n \in new : key[n] # KeyFails
  THEN heap' = h \cup new /\ phase' = "sorting"
  ELSE heap' = h /\ phase' = "err"

(* The nodes without references are the first that can be taken.           *)
Build ==
  /\ phase = "start"
  /\ PushAll({}, {n \in Nodes : graph[n] = {}})
  /\ UNCHANGED <<graph, key, out, sorted>>

(* reverse_graph: the nodes that refer to n.                               *)
Parents(n) == {p \in Nodes : n \in graph[p]}

(* Mutation of Ready: a node is pushed as soon as one of its references is *)
(* taken.                                                                  *)
ReadyEarly(n) == Parents(n)
(* The nodes whose last missing reference is n.                            *)
Ready(n) == {p \in Parents(n) : out[p] \ {n} = {}}

(* Mutation of Smallest: a plain vector instead of a heap.                 *)
SmallestAny(n) == n \in heap
Smallest(n) == n \in heap /\ \A m \in heap \ {n} : Precedes(n, m)

(* One turn of the loop: the smallest node is taken from the heap.         *)
Take(n) ==
  /\ phase = "sorting"
  /\ Smallest(n)
  /\ out' = [p \in Nodes |-> IF p \in Parents(n) THEN out[p] \ {n} ELSE out[p]]
  /\ PushAll(heap \ {n}, Ready(n))
  /\ sorted' = Append(sorted, n)
  /\ UNCHANGED <<graph, key>>

Finish ==
  /\ phase = "sorting"
  /\ heap = {}
  /\ phase' = "ok"
  /\ UNCHANGED <<graph, key, out, heap, sorted>>

SortNext == Build \/ (\E n \in Nodes : Take(n)) \/ Finish

SortSpec == SortInit /\ [][SortNext]_sort_vars

----------------------------------------------------------------------------
(* Properties.                                                             *)

(* Every event comes after all events it refers to, and no event comes     *)
(* twice.                                                                  *)
Topological ==
  \A i \in 1 .. Len(sorted) :
    /\ graph[sorted[i]] \subseteq {sorted[j] : j \in 1 .. i - 1}
    /\ \A j \in 1 .. i - 1 : sorted[j] # sorted[i]

(* The result stops only where it must: an event that is left out refers   *)
(* to an event that is left out too or is not in the graph.  So a graph    *)
(* that is closed and has no cycle is returned whole.                      *)
Maximal ==
  phase = "ok" => \A n \in Nodes \ Done : graph[n] \ Done # {}

(* The order is the one the tie breaker determines, and does not depend on *)
(* the iteration order of a hash map: whenever a later event could have    *)
(* been taken at position i, the event taken there precedes it.            *)
Lexicographic ==
  \A i, j \in 1 .. Len(sorted) :
    i < j /\ graph[sorted[j]] \subseteq {sorted[k] : k \in 1 .. i - 1}
      => Precedes(sorted[i], sorted[j])
=============================================================================
