---------------------------- MODULE MCLifecycle -----------------------------
(***************************************************************************)
(* Lifecycle for TLC, in three loads: all the workers without requests,    *)
(* one request beside failing workers, and two requests that meet in a     *)
(* queue with one place and one thread.                                    *)
(***************************************************************************)
EXTENDS Lifecycle

Load(s, r, sig, f) == [services |-> s, requests |-> r, signals |-> sig, faults |-> f]

AllWorkers == Load(Services, {}, 1, 1)
OneRequest == Load({"admin"}, {"r1"}, 1, 1)
TwoRequests == Load({"admin"}, {"r1", "r2"}, 0, 0)

MCLoads == {AllWorkers, OneRequest, TwoRequests}
=============================================================================
