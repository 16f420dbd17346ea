------------------------------- MODULE MCRoom -------------------------------
(* A room with a local user a and a remote user b.                         *)
EXTENDS Room

(* ja: a joins.  jb: b joins; on top of that, in branches, pb: b changes   *)
(* their profile, lb: b leaves, mb: b speaks.  nb joins the branches of pb *)
(* and mb.  ban: a bans b; m: a speaks.                                    *)
MCInitial == {"ja"}
MCKeys == {"a", "b"}
MCUsers == {"a", "b"}
MCLocalUsers == {"a"}
MCKeyOf == [e \in Events |->
  CASE e = "ja" -> "a" [] e \in {"jb", "lb", "pb", "ban"} -> "b" [] OTHER -> NoKey]
MCMembership == [e \in Events |-> IF e \in {"ja", "jb", "pb"} THEN "join" ELSE "leave"]
MCRemotePrev == [e \in Remote |->
  CASE e = "jb" -> {"ja"} [] e \in {"lb", "pb", "mb"} -> {"jb"} [] e = "nb" -> {"pb", "mb"}]
MCRemoteState == [e \in Remote |->
  {<<"a", "ja">>} \cup (CASE e = "jb" -> {} [] e \in {"lb", "pb", "mb"} -> {<<"b", "jb">>}
                          [] e = "nb" -> {<<"b", "pb">>})]

Sender(e) == IF e \in {"ja", "ban", "m"} THEN "a" ELSE "b"
JoinedIn(u, s) == \E p \in s : p[1] = u /\ MCMembership[p[2]] = "join"

(* The rules for a public room in which a has the power.                   *)
MCAllowed(e, s) ==
  CASE e = "jb" -> <<"b", "ban">> \notin s
    [] OTHER -> JoinedIn(Sender(e), s)

(* A power event wins, then the later one.                                 *)
Rank(e) == CASE e = "ban" -> 9 [] e = "pb" -> 3 [] e = "lb" -> 2 [] OTHER -> 1
MCResolve(states) ==
  LET all == UNION states
  IN  {p \in all : \A q \in all : q[1] = p[1] => Rank(q[2]) <= Rank(p[2])}

(* The state of a key never goes back to an event that lost to the present *)
(* one: the check and the change of the state of the room are not torn     *)
(* apart by another change.  (Not so after a crash between the two writes  *)
(* that store a hash and its difference: the state is then empty.)         *)
NoLostUpdate ==
  [][crashes = 0 =>
       \A p \in RoomState : \E q \in RoomState' : q[1] = p[1] /\ Rank(p[2]) <= Rank(q[2])]_vars
=============================================================================
