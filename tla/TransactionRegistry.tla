------------------------ MODULE TransactionRegistry ------------------------
(***************************************************************************)
(* What service/transactions promises to the federation handler, without   *)
(* tasks, channels, locks or clocks: a transaction is in progress at most  *)
(* once, one of an origin at a time and MaxActive in all; it can be in     *)
(* progress again only when its response is not kept; and a response goes  *)
(* out only for a transaction that was processed to the end.               *)
(***************************************************************************)
EXTENDS Integers, FiniteSets

CONSTANTS
  Keys,       \* transactions: records with an origin
  MaxActive,  \* how many may be in progress
  NoKey

VARIABLES
  active,     \* the transactions in progress
  kept,       \* those whose response is kept
  finished,   \* those that were processed to the end at some time
  responded   \* the transaction whose response the last step sent

vars == <<active, kept, finished, responded>>

Init == active = {} /\ kept = {} /\ finished = {} /\ responded = NoKey

Start(k) ==
  /\ k \notin active \cup kept
  /\ \A j \in active : j.origin # k.origin
  /\ Cardinality(active) < MaxActive
  /\ active' = active \cup {k}
  /\ responded' = NoKey
  /\ UNCHANGED <<kept, finished>>

(* The response is kept, others may be dropped to make room, or itself.    *)
Finish(k) ==
  /\ k \in active
  /\ active' = active \ {k}
  /\ finished' = finished \cup {k}
  /\ kept' \subseteq kept \cup {k}
  /\ responded' = NoKey

Fail(k) ==
  /\ k \in active
  /\ active' = active \ {k}
  /\ responded' = NoKey
  /\ UNCHANGED <<kept, finished>>

Respond(k) ==
  /\ k \in finished
  /\ responded' = k
  /\ UNCHANGED <<active, kept, finished>>

Forget ==
  /\ kept' \subseteq kept
  /\ responded' = NoKey
  /\ UNCHANGED <<active, finished>>

Next == Forget \/ \E k \in Keys : Start(k) \/ Finish(k) \/ Fail(k) \/ Respond(k)

Spec == Init /\ [][Next]_vars
=============================================================================
