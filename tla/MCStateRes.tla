----------------------------- MODULE MCStateRes -----------------------------
(***************************************************************************)
(* Small instances of state resolution for TLC, and beside it of the sort  *)
(* it calls (TopoSort), which runs on every graph of a few events rather   *)
(* than on the graphs of this room.                                        *)
(***************************************************************************)
EXTENDS StateRes, TopoSort

MCUsers == {"alice", "bob", "carol"}
MCServerOf == [u \in MCUsers |-> IF u = "carol" THEN "remote" ELSE "local"]

M(sender, user, membership) ==
  [type |-> "member", sender |-> sender, key |-> user, membership |-> membership,
   via |-> None, token |-> None, mxid |-> None]
PL(sender, users) ==
  [type |-> "power", sender |-> sender, key |-> "",
   levels |-> [DefaultLevels EXCEPT !.users = users]]
JR(sender, rule) == [type |-> "rules", sender |-> sender, key |-> "", rule |-> rule]
Topic(sender) == [type |-> "topic", sender |-> sender, key |-> ""]

(* Alice creates the room with level 100, or as a privileged creator, and  *)
(* gives Bob level 50; anybody may join.                                   *)
Alice(n) == IF n >= 12 THEN << >> ELSE "alice" :> 100

Timeline(n) ==
  << [type |-> "create", sender |-> "alice", key |-> "", additional |-> {},
      creator |-> "alice", federate |-> TRUE],
     M("alice", "alice", "join"), PL("alice", Alice(n) @@ ("bob" :> 50)),
     JR("alice", "public"), M("bob", "bob", "join") >>

(* What each event of the room's beginning is authorised by.               *)
Cited(n, i) ==
  CASE i = 1 -> {}
    [] i = 2 -> {1}
    [] i = 3 -> {1, 2}
    [] i = 4 -> {1, 2, 3}
    [] i = 5 -> {1, 3, 4}
MCSetup(n) ==
  [i \in 1 .. 5 |-> Timeline(n)[i] @@
     [id |-> i, ts |-> 0, prev |-> IF i = 1 THEN {} ELSE {i - 1},
      auth |-> IF n >= 12 THEN Cited(n, i) \ {1} ELSE Cited(n, i)]]

(* Alice and Bob moderate, Carol comes and goes; some attempts are refused.*)
MCMenu ==
  {M("alice", "bob", "ban"), M("alice", "bob", "leave"), M("bob", "bob", "leave"),
   PL("alice", "alice" :> 100), PL("alice", << >>),
   PL("bob", ("alice" :> 100) @@ ("bob" :> 50) @@ ("carol" :> 50)),
   PL("bob", ("bob" :> 50) @@ ("carol" :> 50)),
   PL("bob", ("alice" :> 100) @@ ("bob" :> 50) @@ ("carol" :> 101)),
   JR("alice", "invite"), JR("bob", "knock"), JR("bob", "restricted"),
   M("bob", "carol", "invite"), M("bob", "carol", "ban"), M("bob", "carol", "leave"),
   M("carol", "carol", "join"), [M("carol", "carol", "join") EXCEPT !.via = "bob"],
   M("carol", "carol", "knock"), Topic("bob"), Topic("carol")}

----------------------------------------------------------------------------
NoRoom == version = 12 /\ pdus = << >> /\ state = << >> /\ leaf = << >> /\ merged = None
NoSort ==
  graph = << >> /\ key = << >> /\ out = << >> /\ heap = {} /\ sorted = << >> /\ phase = "none"

MCInit == (Init /\ NoSort) \/ (NoRoom /\ SortInit)

MCNext ==
  \/ phase = "none" /\ Next /\ UNCHANGED sort_vars
  \/ phase # "none" /\ SortNext /\ UNCHANGED vars

MCSpec == MCInit /\ [][MCNext]_<<vars, sort_vars>>

Symmetry == Permutations(Branches)
=============================================================================
