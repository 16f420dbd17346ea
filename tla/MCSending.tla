----------------------------- MODULE MCSending -----------------------------
(* Small instances of the outbound queue for TLC.                          *)
EXTENDS Sending

CONSTANTS f1, p1, a1, s1

OneShard == [d \in Dests |-> s1]
KeepAll == -1
=============================================================================
