----------------------------- MODULE StateDiff -----------------------------
(***************************************************************************)
(* The difference that service/rooms/state_compressor stores for a state   *)
(* of a room: what is added to and what is removed from the state of the   *)
(* layer below.  A state is a set of compressed state events, pairs of a   *)
(* short state key and a short event id.                                   *)
(***************************************************************************)
EXTENDS Integers, FiniteSets

(* new_shortstatehash_info: the state of a layer, from the one below.      *)
Full(base, added, removed) == (base \cup added) \ removed

(* The difference between two states, in set_event_state and save_state.   *)
DiffAdded(base, state) == state \ base
DiffRemoved(base, state) == base \ state

(* A difference that says nothing twice and removes only what is there.    *)
Exact(base, added, removed) ==
  /\ added \cap base = {}
  /\ removed \subseteq base

(* save_state_from_diff, the two loops that combine a difference with the  *)
(* one of the parent layer: what the parent added and is removed again is  *)
(* forgotten, and what it removed and is added again is forgotten too.     *)
Removed1(p_added, p_removed, removed) == p_removed \cup (removed \ p_added)

MergeRemoved(p_added, p_removed, added, removed) ==
  Removed1(p_added, p_removed, removed) \ added

(* Mutation of MergeAdded: what is removed again stays added.              *)
MergeAddedKeeps(p_added, p_removed, added, removed) ==
  p_added \cup (added \ Removed1(p_added, p_removed, removed))

MergeAdded(p_added, p_removed, added, removed) ==
  (p_added \ removed) \cup (added \ Removed1(p_added, p_removed, removed))

(* The difference is too big for a layer of its own.                       *)
TooBig(diffsum, diff_to_sibling, parent_diff) ==
  diffsum * diffsum >= 2 * diff_to_sibling * parent_diff
=============================================================================
