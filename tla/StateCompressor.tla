-------------------------- MODULE StateCompressor --------------------------
(***************************************************************************)
(* service/rooms/state_compressor: the states of a room are stored as      *)
(* layers of differences (shortstatehash_statediff).  diffs maps a short   *)
(* state hash to the difference that is stored for it.                     *)
(***************************************************************************)
EXTENDS StateDiff, Sequences

CONSTANTS
  NoHash,      \* parent of a bottom layer
  MaxParents   \* more parent layers than this are merged (3)

(* load_shortstatehash_info: the layers of a state, the bottom one first.  *)
RECURSIVE Load(_, _)
Load(diffs, h) ==
  IF h \notin DOMAIN diffs THEN << >>
  ELSE LET d == diffs[h]
           below == IF d.parent = NoHash THEN << >> ELSE Load(diffs, d.parent)
           full == IF below = << >> THEN d.added
                   ELSE Full(below[Len(below)].full, d.added, d.removed)
       IN  Append(below, [hash |-> h, full |-> full, added |-> d.added, removed |-> d.removed])

(* The full state; an error of load_shortstatehash_info is an empty state  *)
(* to the callers that ignore it.                                          *)
StateOf(diffs, h) ==
  LET stack == Load(diffs, h) IN IF stack = << >> THEN {} ELSE stack[Len(stack)].full

(* save_statediff.                                                         *)
Put(diffs, h, d) == [x \in DOMAIN diffs \cup {h} |-> IF x = h THEN d ELSE diffs[x]]

(* save_state_from_diff: the difference becomes a layer on top of the      *)
(* parents, or replaces their top layer when it is too big or when there   *)
(* are too many.                                                           *)
RECURSIVE SaveDiff(_, _, _, _, _, _)
SaveDiff(diffs, h, added, removed, diff_to_sibling, parents) ==
  IF parents = << >>
  THEN Put(diffs, h, [parent |-> NoHash, added |-> added, removed |-> removed])
  ELSE LET p == parents[Len(parents)]
           diffsum == Cardinality(added) + Cardinality(removed)
       IN  IF \/ Len(parents) > MaxParents
              \/ TooBig(diffsum, diff_to_sibling, Cardinality(p.added) + Cardinality(p.removed))
           THEN SaveDiff(diffs, h, MergeAdded(p.added, p.removed, added, removed),
                         MergeRemoved(p.added, p.removed, added, removed), diffsum,
                         SubSeq(parents, 1, Len(parents) - 1))
           ELSE Put(diffs, h, [parent |-> p.hash, added |-> added, removed |-> removed])

(* A whole state is saved as a difference to the state base.               *)
SaveState(diffs, h, state, base, diff_to_sibling) ==
  LET parents == Load(diffs, base)
      below == StateOf(diffs, base)
  IN  SaveDiff(diffs, h, DiffAdded(below, state), DiffRemoved(below, state), diff_to_sibling, parents)
=============================================================================
