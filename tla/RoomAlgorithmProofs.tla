------------------------ MODULE RoomAlgorithmProofs -------------------------
(***************************************************************************)
(* Two algorithms of the rooms.  The topological sort is right for every   *)
(* graph: open or closed, with or without cycles, and whichever events     *)
(* cannot be fetched.  A difference of states that is computed, stored,    *)
(* merged into its parent and loaded again gives the state it was computed *)
(* for, whatever the states.                                               *)
(***************************************************************************)
EXTENDS TopoSort, StateDiff, TLAPS

-----------------------------------------------------------------------------
(* The topological sort.                                                   *)

Before(i) == {sorted[j] : j \in 1 .. i - 1}

(* The inductive invariant.  What is missing of a node is what the result  *)
(* does not have yet; the heap holds the nodes that miss nothing; and what *)
(* is still on the heap comes, in the order of the tie breaker, after all  *)
(* nodes that were taken while it was there.                               *)
Missing == \A n \in Nodes : out[n] = graph[n] \ Done
Front ==
  phase \in {"sorting", "ok"} =>
    \A n \in Nodes : out[n] = {} <=> n \in heap \/ n \in Done
Fresh == heap \cap Done = {}
Start == phase = "start" => heap = {} /\ sorted = << >>
End == phase = "ok" => heap = {}
Overtaken ==
  \A m \in heap : \A i \in 1 .. Len(sorted) :
    graph[m] \subseteq Before(i) => Precedes(sorted[i], m)

IInv ==
  SortTypeOK /\ Missing /\ Front /\ Fresh /\ Start /\ End /\ Topological /\ Overtaken /\ Lexicographic

LEMMA AppendRange ==
  ASSUME NEW q \in Seq(Nodes), NEW n \in Nodes
  PROVE  /\ Append(q, n) \in Seq(Nodes)
         /\ Len(Append(q, n)) = Len(q) + 1
         /\ \A i \in 1 .. Len(q) : Append(q, n)[i] = q[i]
         /\ Append(q, n)[Len(q) + 1] = n
         /\ Range(Append(q, n)) = Range(q) \cup {n}
<1>1. Len(q) \in Nat /\ DOMAIN q = 1 .. Len(q)
  OBVIOUS
<1>2. /\ Append(q, n) \in Seq(Nodes)
      /\ Len(Append(q, n)) = Len(q) + 1
      /\ \A i \in 1 .. Len(q) : Append(q, n)[i] = q[i]
      /\ Append(q, n)[Len(q) + 1] = n
      /\ DOMAIN Append(q, n) = 1 .. Len(q) + 1
  OBVIOUS
<1>3. 1 .. Len(q) + 1 = (1 .. Len(q)) \cup {Len(q) + 1}
  BY <1>1
<1>4. Range(Append(q, n)) = Range(q) \cup {n}
  <2>1. Range(Append(q, n)) = {Append(q, n)[i] : i \in (1 .. Len(q)) \cup {Len(q) + 1}}
    BY Zenon, <1>2, <1>3 DEF Range
  <2>2. @ = {Append(q, n)[i] : i \in 1 .. Len(q)} \cup {Append(q, n)[Len(q) + 1]}
    BY Zenon
  <2>3. {Append(q, n)[i] : i \in 1 .. Len(q)} = Range(q)
    BY Zenon, <1>1, <1>2 DEF Range
  <2> QED BY Zenon, <1>2, <2>1, <2>2, <2>3
<1>5. QED
  BY Zenon, <1>2, <1>4

LEMMA InitInv == SortInit => IInv
<1> SUFFICES ASSUME SortInit PROVE IInv
  BY Zenon
<1>1. Done = {}
  BY DEF SortInit, Done, Range
<1>2. SortTypeOK
  BY DEF SortInit, SortTypeOK
<1>3. Missing /\ Front /\ Fresh /\ Start /\ End
  BY Zenon, <1>1 DEF SortInit, Missing, Front, Fresh, Start, End
<1>4. Topological /\ Overtaken /\ Lexicographic
  BY DEF SortInit, Topological, Overtaken, Lexicographic
<1> QED BY Zenon, <1>2, <1>3, <1>4 DEF IInv

(* Steps that leave the result alone.                                      *)
LEMMA SameResult ==
  ASSUME Topological, Lexicographic, UNCHANGED <<graph, key, sorted>>
  PROVE  Topological' /\ Lexicographic'
<1>1. Topological'
  BY DEF Topological
<1>2. \A x, y : Precedes(x, y)' <=> Precedes(x, y)
  BY Zenon DEF Precedes
<1>3. Lexicographic'
  BY <1>2 DEF Lexicographic
<1> QED BY Zenon, <1>1, <1>3

LEMMA BuildInv == IInv /\ Build => IInv'
<1> SUFFICES ASSUME IInv, Build PROVE IInv'
  BY Zenon
<1>1. /\ phase = "start" /\ heap = {} /\ sorted = << >>
      /\ UNCHANGED <<graph, key, out, sorted>>
      /\ \/ phase' = "sorting" /\ heap' = {n \in Nodes : graph[n] = {}}
         \/ phase' = "err" /\ heap' = {}
  BY Zenon DEF Build, PushAll, IInv, Start
<1>2. Done = {} /\ Done' = {}
  BY <1>1 DEF Done, Range
<1>3. SortTypeOK'
  BY Zenon, <1>1 DEF IInv, SortTypeOK
<1>4. Missing' /\ Fresh' /\ Start' /\ End'
  BY Zenon, <1>1, <1>2 DEF IInv, Missing, Fresh, Start, End
<1>5. Front'
  BY Zenon, <1>1, <1>2 DEF IInv, Missing, Front
<1>6. Overtaken'
  BY <1>1 DEF Overtaken
<1>7. Topological' /\ Lexicographic'
  BY Zenon, <1>1, SameResult DEF IInv
<1> QED BY Zenon, <1>3, <1>4, <1>5, <1>6, <1>7 DEF IInv

LEMMA FinishInv == IInv /\ Finish => IInv'
<1> SUFFICES ASSUME IInv, Finish PROVE IInv'
  BY Zenon
<1> USE DEF IInv, Finish
<1>1. Done' = Done
  BY Zenon DEF Done
<1>2. SortTypeOK'
  BY Zenon DEF SortTypeOK
<1>3. Missing' /\ Fresh' /\ Start' /\ End' /\ Front'
  BY Zenon, <1>1 DEF Missing, Fresh, Start, End, Front
<1>4. Overtaken'
  BY Zenon DEF Overtaken
<1>5. Topological' /\ Lexicographic'
  BY Zenon, SameResult
<1> QED BY Zenon, <1>2, <1>3, <1>4, <1>5

(* What taking a node does to the result.                                  *)
LEMMA TakeStep ==
  ASSUME IInv, NEW n \in Nodes, Take(n)
  PROVE  /\ n \in heap /\ n \notin Done /\ graph[n] \subseteq Done
         /\ Len(sorted) \in Nat
         /\ sorted' \in Seq(Nodes) /\ Len(sorted') = Len(sorted) + 1
         /\ \A i \in 1 .. Len(sorted) : sorted'[i] = sorted[i]
         /\ sorted'[Len(sorted) + 1] = n
         /\ Done' = Done \cup {n}
         /\ Done = {sorted[j] : j \in 1 .. Len(sorted)}
<1>1. n \in heap /\ phase = "sorting"
  BY Zenon DEF Take, Smallest
<1>2. n \notin Done /\ out[n] = {}
  BY Zenon, <1>1 DEF IInv, Fresh, Front
<1>3. graph[n] \subseteq Done
  BY Zenon, <1>2 DEF IInv, Missing
<1>4. sorted \in Seq(Nodes) /\ sorted' = Append(sorted, n)
  BY Zenon DEF IInv, SortTypeOK, Take
<1>5. Done = {sorted[j] : j \in 1 .. Len(sorted)} /\ Len(sorted) \in Nat
  BY <1>4 DEF Done, Range
<1> QED BY <1>1, <1>2, <1>3, <1>4, <1>5, AppendRange DEF Done

LEMMA TakeHeap ==
  ASSUME IInv, NEW n \in Nodes, Take(n)
  PROVE  (SortTypeOK /\ Missing /\ Front /\ Fresh /\ Start /\ End)'
<1> USE DEF IInv
<1>1. /\ n \in heap /\ n \notin Done /\ graph[n] \subseteq Done
      /\ sorted' \in Seq(Nodes)
      /\ Done' = Done \cup {n}
  BY Zenon, TakeStep
<1>2. /\ phase = "sorting"
      /\ out' = [p \in Nodes |-> IF p \in Parents(n) THEN out[p] \ {n} ELSE out[p]]
      /\ UNCHANGED <<graph, key>>
      /\ \/ phase' = "sorting" /\ heap' = (heap \ {n}) \cup Ready(n)
         \/ phase' = "err" /\ heap' = heap \ {n}
  BY Zenon DEF Take, PushAll
<1>3. Ready(n) = {p \in Nodes : n \in graph[p] /\ out[p] \ {n} = {}}
  BY Zenon DEF Ready, Parents
<1>4. Missing'
  BY Zenon, <1>1, <1>2 DEF Missing, Parents
<1>5. SortTypeOK'
  <2>1. out' \in [Nodes -> SUBSET Ids]
    BY Zenon, <1>2 DEF SortTypeOK
  <2> QED BY Zenon, <1>1, <1>2, <1>3, <2>1 DEF SortTypeOK
<1>6. Front'
  <2> SUFFICES ASSUME phase' = "sorting", NEW p \in Nodes
               PROVE  (out'[p] = {}) <=> (p \in heap' \/ p \in Done')
    BY Zenon, <1>2 DEF Front
  <2>1. out[p] = {} <=> p \in heap \/ p \in Done
    BY Zenon, <1>2 DEF Front
  <2>2. out'[p] = out[p] \ {n}
    BY Zenon, <1>1, <1>2, <1>4 DEF Missing
  <2>3. n \in out[p] => n \in graph[p]
    BY Zenon DEF Missing
  <2>4. heap' = (heap \ {n}) \cup Ready(n)
    BY Zenon, <1>2
  <2> QED BY Zenon, <1>1, <1>3, <2>1, <2>2, <2>3, <2>4
<1>7. Fresh'
  <2>1. Ready(n) \cap Done' = {}
    BY <1>1, <1>2, <1>3 DEF Front, Missing
  <2> QED BY Zenon, <1>1, <1>2, <2>1 DEF Fresh
<1>8. Start' /\ End'
  BY Zenon, <1>2 DEF Start, End
<1> QED BY Zenon, <1>4, <1>5, <1>6, <1>7, <1>8

LEMMA TakeOrder ==
  ASSUME IInv, NEW n \in Nodes, Take(n)
  PROVE  (Topological /\ Overtaken /\ Lexicographic)'
<1> USE DEF IInv
<1> DEFINE L == Len(sorted)
<1>1. /\ n \in heap /\ n \notin Done /\ graph[n] \subseteq Done
      /\ L \in Nat /\ Len(sorted') = L + 1
      /\ \A i \in 1 .. L : sorted'[i] = sorted[i]
      /\ sorted'[L + 1] = n
      /\ Done = {sorted[j] : j \in 1 .. L}
  BY Zenon, TakeStep
<1>2. /\ UNCHANGED <<graph, key>>
      /\ heap' \subseteq (heap \ {n}) \cup Ready(n)
      /\ \A m \in heap \ {n} : Precedes(n, m)
  BY Zenon DEF Take, PushAll, Smallest
<1> HIDE DEF L
<1>3. \A i \in 1 .. L + 1 : Before(i)' = Before(i) /\ n \notin Before(i)
  BY <1>1 DEF Before
<1>4. Before(L + 1) = Done
  BY <1>1 DEF Before
<1>5. \A x, y : Precedes(x, y)' <=> Precedes(x, y)
  BY Zenon, <1>2 DEF Precedes
<1>6. \A i \in 1 .. L + 1 : i \in 1 .. L \/ i = L + 1
  BY <1>1
<1>7. Topological'
  <2> SUFFICES ASSUME NEW i \in 1 .. L + 1
               PROVE  /\ graph[sorted'[i]] \subseteq Before(i)
                      /\ \A j \in 1 .. i - 1 : sorted'[j] # sorted'[i]
    BY Zenon, <1>1, <1>2, <1>3 DEF Topological, Before
  <2>1. CASE i \in 1 .. L
    <3>1. /\ graph[sorted[i]] \subseteq Before(i)
          /\ \A j \in 1 .. i - 1 : sorted[j] # sorted[i]
      BY Zenon, <2>1 DEF Topological, Before, L
    <3>2. \A j \in 1 .. i - 1 : j \in 1 .. L
      BY <1>1, <2>1
    <3> QED BY Zenon, <1>1, <2>1, <3>1, <3>2
  <2>2. CASE i = L + 1
    BY <1>1, <1>4, <2>2
  <2> QED BY Zenon, <1>6, <2>1, <2>2
<1>8. Overtaken'
  <2> SUFFICES ASSUME NEW m \in heap', NEW i \in 1 .. L + 1, graph[m] \subseteq Before(i)
               PROVE  Precedes(sorted'[i], m)
    BY <1>1, <1>2, <1>3, <1>5 DEF Overtaken
  <2>1. m \in heap \ {n}
    BY Zenon, <1>2, <1>3 DEF Ready, Parents
  <2> QED BY Zenon, <1>1, <1>2, <1>6, <2>1 DEF Overtaken, L
<1>9. Lexicographic'
  <2> SUFFICES ASSUME NEW i \in 1 .. L + 1, NEW j \in 1 .. L + 1, i < j,
                      graph[sorted'[j]] \subseteq Before(i)
               PROVE  Precedes(sorted'[i], sorted'[j])
    BY Zenon, <1>1, <1>2, <1>3, <1>5 DEF Lexicographic, Before
  <2>1. i \in 1 .. L
    BY <1>1
  <2>2. CASE j \in 1 .. L
    BY Zenon, <1>1, <2>1, <2>2 DEF Lexicographic, Before, L
  <2>3. CASE j = L + 1
    BY Zenon, <1>1, <2>1, <2>3 DEF Overtaken, L
  <2> QED BY Zenon, <1>6, <2>2, <2>3
<1> QED BY Zenon, <1>7, <1>8, <1>9

(* The invariant holds after every turn of the loop.                       *)
THEOREM Invariance == SortSpec => []IInv
<1>1. IInv /\ [SortNext]_sort_vars => IInv'
  <2> SUFFICES ASSUME IInv, [SortNext]_sort_vars PROVE IInv'
    BY Zenon
  <2>1. CASE Build
    BY Zenon, <2>1, BuildInv
  <2>2. CASE \E n \in Nodes : Take(n)
    BY Zenon, <2>2, TakeHeap, TakeOrder DEF IInv
  <2>3. CASE Finish
    BY Zenon, <2>3, FinishInv
  <2>4. CASE UNCHANGED sort_vars
    BY <2>4 DEF sort_vars, IInv, SortTypeOK, Missing, Front, Fresh, Start, End, Topological, Overtaken,
                Lexicographic, Done, Before, Precedes
  <2> QED BY Zenon, <2>1, <2>2, <2>3, <2>4 DEF SortNext
<1> QED BY InitInv, <1>1, PTL DEF SortSpec

(* lexicographical_topological_sort puts an event only after all events it *)
(* refers to, and never twice.                                             *)
THEOREM TopologicalCorrect == SortSpec => []Topological
  BY Invariance, PTL DEF IInv

(* It leaves out only the events that depend on a cycle or on an event     *)
(* that is not in the graph.                                               *)
THEOREM MaximalCorrect == SortSpec => []Maximal
<1>1. IInv => Maximal
  BY Zenon DEF IInv, Front, End, Missing, Maximal
<1> QED BY <1>1, Invariance, PTL

(* Its order is the one of the tie breaker, whatever the iteration order   *)
(* of the maps it works on.                                                *)
THEOREM LexicographicCorrect == SortSpec => []Lexicographic
  BY Invariance, PTL DEF IInv

-----------------------------------------------------------------------------
(* The differences of states.                                              *)

(* The difference that set_event_state and save_state compute is exact and *)
(* new_shortstatehash_info gives back the state from it.                   *)
THEOREM DiffCorrect ==
  ASSUME NEW base, NEW state
  PROVE  /\ Exact(base, DiffAdded(base, state), DiffRemoved(base, state))
         /\ Full(base, DiffAdded(base, state), DiffRemoved(base, state)) = state
BY Zenon DEF Exact, Full, DiffAdded, DiffRemoved

(* What append_to_state saves, one new event and the one it replaces, is   *)
(* exact too when the event is new to the state.                           *)
THEOREM ReplaceCorrect ==
  ASSUME NEW base, NEW new, new \notin base, NEW old \in SUBSET base
  PROVE  /\ Exact(base, {new}, old)
         /\ Full(base, {new}, old) = (base \ old) \cup {new}
BY Zenon DEF Exact, Full

(* Merging a difference into the one of its parent layer, the step that    *)
(* save_state_from_diff repeats, changes neither the state nor the         *)
(* exactness of the difference.  Without exactness it would: an event that *)
(* is added twice and removed once comes out present.                      *)
THEOREM MergeCorrect ==
  ASSUME NEW base, NEW p_added, NEW p_removed, NEW added, NEW removed,
         Exact(base, p_added, p_removed),
         Exact(Full(base, p_added, p_removed), added, removed)
  PROVE  LET m_added == MergeAdded(p_added, p_removed, added, removed)
             m_removed == MergeRemoved(p_added, p_removed, added, removed)
         IN  /\ Full(base, m_added, m_removed) = Full(Full(base, p_added, p_removed), added, removed)
             /\ Exact(base, m_added, m_removed)
<1> DEFINE m_added == MergeAdded(p_added, p_removed, added, removed)
           m_removed == MergeRemoved(p_added, p_removed, added, removed)
<1>1. Full(base, m_added, m_removed) = Full(Full(base, p_added, p_removed), added, removed)
  BY DEF Exact, Full, MergeAdded, MergeRemoved, Removed1
<1>2. m_added \cap base = {}
  BY DEF Exact, Full, MergeAdded, Removed1
<1>3. m_removed \subseteq base
  BY DEF Exact, Full, MergeRemoved, Removed1
<1>4. QED
  BY <1>1, <1>2, <1>3 DEF Exact
=============================================================================
