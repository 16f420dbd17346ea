---------------------------- MODULE InboundRoom ----------------------------
(***************************************************************************)
(* handle_room of the route PUT /_matrix/federation/v1/send: the PDUs that *)
(* one inbound transaction holds for one room are sorted by their          *)
(* prev_events (build_local_dag, on top of the topological sort) and       *)
(* handled one after the other under the room's federation lock.           *)
(***************************************************************************)
EXTENDS TopoSort, FiniteSets

VARIABLES
  order,     \* sorted_event_ids, what is left of it
  results,   \* the PDUs that have a result
  stage,     \* "sorting", "handling", then "response" or "shutdown"
  running    \* the server is not shutting down

inbound_vars == <<graph, key, out, heap, sorted, phase, order, results, stage, running>>

(* The key function of build_local_dag never fails and breaks no tie.      *)
SameKey == [power |-> 0, ts |-> 0]

(* dag: an event's edges are its prev_events, also those that are not part *)
(* of the transaction.  An event id is a hash of the event: no event refers *)
(* to itself or to an event that refers to it.                             *)
InitRoom ==
  /\ SortInit
  /\ \A n \in Nodes : \A p \in graph[n] \cap Nodes : p < n
  /\ key = [n \in Nodes |-> SameKey]
  /\ order = << >>
  /\ results = {}
  /\ stage = "sorting"
  /\ running = TRUE

(* Sequences that hold every element of S once.                            *)
Orders(S) == {q \in [1 .. Cardinality(S) -> S] : Range(q) = S}

(* build_local_dag: one step of the sort, for two or more PDUs.            *)
BuildLocalDag ==
  /\ stage = "sorting"
  /\ Cardinality(Nodes) >= 2
  /\ SortNext
  /\ UNCHANGED <<order, results, stage, running>>

(* sorted_event_ids: the result of the sort, or the PDUs in any order when *)
(* it has failed or when there is nothing to sort.                         *)
SortedEventIds ==
  /\ stage = "sorting"
  /\ phase \in {"ok", "err"} \/ Cardinality(Nodes) < 2
  /\ order' \in IF phase = "ok" THEN {sorted} ELSE Orders(Nodes)
  /\ stage' = "handling"
  /\ UNCHANGED <<sort_vars, results, running>>

(* check_running, then handle_incoming_pdu, whatever its result.           *)
HandlePdu ==
  /\ stage = "handling"
  /\ order # << >>
  /\ IF running
     THEN /\ results' = results \cup {Head(order)}
          /\ order' = Tail(order)
          /\ UNCHANGED stage
     ELSE stage' = "shutdown" /\ UNCHANGED <<order, results>>
  /\ UNCHANGED <<sort_vars, running>>

Respond ==
  /\ stage = "handling"
  /\ order = << >>
  /\ stage' = "response"
  /\ UNCHANGED <<sort_vars, order, results, running>>

Shutdown ==
  /\ running
  /\ running' = FALSE
  /\ UNCHANGED <<sort_vars, order, results, stage>>

NextRoom == BuildLocalDag \/ SortedEventIds \/ HandlePdu \/ Respond \/ Shutdown

SpecRoom == InitRoom /\ [][NextRoom]_inbound_vars

----------------------------------------------------------------------------
(* Properties.                                                             *)

(* "Try to sort PDUs by their dependencies, but fall back to arbitrary     *)
(* order on failure (e.g., cycles)": sorting never loses a PDU, so when    *)
(* the transaction is answered every PDU has been handled and has a        *)
(* result.                                                                 *)
AllHandled == stage = "response" => results = Nodes
=============================================================================
