--------------------------- MODULE MCTransactions ---------------------------
(* Small instances of the inbound transactions for TLC: three origins,     *)
(* the first with two transactions.                                        *)
EXTENDS Transactions

CONSTANTS o1, o2, o3

Key(o, i) == [origin |-> o, id |-> i]
FourKeys == {Key(o1, 1), Key(o1, 2), Key(o2, 1), Key(o3, 1)}
=============================================================================
