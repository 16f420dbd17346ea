------------------------------ MODULE MCRooms ------------------------------
(***************************************************************************)
(* A small instance of Rooms: two local users, one of them the admin and   *)
(* the creator of Home, and a remote one, the creator of Away.  Each       *)
(* workload is a few requests that may meet.                               *)
(***************************************************************************)
EXTENDS Rooms

Ask(route, user, of, room) == [route |-> route, user |-> user, of |-> of, room |-> room, invitee |-> "-"]

At1(rule, members) == Furnished("home", "alice", rule, members)
At2(rule, members) == Furnished("away", "carol", rule, members)

Alone == At1("invite", [alice |-> "join"])
Work(state, there, reqs) == [aliases |-> [a |-> "home", b |-> "-"], state |-> state, far |-> there, reqs |-> reqs]

Elsewhere(rule, reqs) ==
  Work([home |-> Alone], At2(rule, [carol |-> "join"]), reqs)
Invited(reqs) ==
  LET st == At2("invite", [carol |-> "join", bob |-> "invite"])
  IN Work([home |-> Alone], st, reqs)
Both(rule, members, reqs) ==
  LET st == At2(rule, members) IN Work([home |-> Alone, away |-> st], st, reqs)
Inside(rule, members, reqs) ==
  Work([home |-> At1(rule, members)], At2("public", [carol |-> "join"]), reqs)

MCWorkloads ==
  {\* Away: through the other server, alone and while it invites or removes.
   Elsewhere("public", {Ask("join", "bob", "-", "away"), Ask("join", "alice", "-", "away"),
                        Ask("leave", "bob", "-", "away")}),
   Elsewhere("public", {Ask("join", "alice", "-", "away"), Ask("far_invite", "carol", "alice", "away")}),
   Elsewhere("invite", {Ask("far_invite", "carol", "bob", "away"), Ask("join", "bob", "-", "away"),
                        Ask("leave", "bob", "-", "away")}),
   Elsewhere("public", {Ask("join", "bob", "-", "away"), Ask("far_kick", "carol", "bob", "away"),
                        Ask("far_ban", "carol", "bob", "away")}),
   Elsewhere("knock", {Ask("knock", "bob", "-", "away"), Ask("far_invite", "carol", "bob", "away"),
                       Ask("leave", "bob", "-", "away")}),
   Both("restricted", [carol |-> "join", alice |-> "join"],
        {Ask("join", "bob", "-", "away"), Ask("leave", "alice", "-", "away"),
         Ask("far_kick", "carol", "alice", "away")}),
   Both("knock_restricted", [carol |-> "join", bob |-> "join"],
        {Ask("knock", "alice", "-", "away"), Ask("leave", "bob", "-", "away"),
         Ask("far_ban", "carol", "alice", "away")}),
   Elsewhere("invite", {Ask("ban_room", "alice", "-", "away"), Ask("far_invite", "carol", "bob", "away"),
                        Ask("join", "bob", "-", "away")}),
   \* Home: local users, and the other server's.
   Inside("invite", [alice |-> "join"],
          {Ask("invite", "alice", "bob", "home"), Ask("join", "bob", "-", "home"),
           Ask("kick", "alice", "bob", "home")}),
   Inside("public", [alice |-> "join", bob |-> "join"],
          {Ask("ban", "alice", "bob", "home"), Ask("unban", "alice", "bob", "home"),
           Ask("leave", "bob", "-", "home"), Ask("forget", "bob", "-", "home")}),
   Inside("public", [alice |-> "join"],
          {Ask("far_join", "carol", "carol", "home"), Ask("ban", "alice", "carol", "home"),
           Ask("state", "alice", "invite", "home")}),
   Inside("knock", [alice |-> "join"],
          {Ask("far_knock", "carol", "carol", "home"), Ask("invite", "alice", "carol", "home"),
           Ask("far_leave", "carol", "carol", "home")}),
   \* Rooms that come, move and go.
   Inside("public", [alice |-> "join"],
          {[Ask("create", "bob", "b", "next12") EXCEPT !.invitee = "alice"], Ask("create_alias", "alice", "b", "home"),
           Ask("delete_alias", "alice", "b", "home")}),
   Inside("public", [alice |-> "join"],
          {Ask("upgrade", "alice", "next12", "home"), Ask("join", "bob", "-", "home"),
           Ask("delete_alias", "alice", "a", "home")}),
   Inside("public", [alice |-> "join"],
          {Ask("upgrade", "alice", "next11", "home"), Ask("create_alias", "bob", "b", "home")}),
   Inside("public", [alice |-> "join", bob |-> "join"],
          {Ask("ban_room", "alice", "-", "home"), Ask("unban_room", "alice", "-", "home"),
           Ask("join", "bob", "-", "home"), Ask("publish", "alice", "-", "home")}),
   Inside("public", [alice |-> "join"],
          {[Ask("create", "bob", "b", "next11") EXCEPT !.invitee = "carol"], Ask("unpublish", "alice", "-", "home"),
           Ask("leave", "alice", "-", "home"), Ask("join", "bob", "-", "home")}),
   \* The admin's commands.
   Inside("public", [alice |-> "join"],
          {Ask("force_join_all", "alice", "-", "home"), Ask("leave", "alice", "-", "home"),
           Ask("ban", "alice", "bob", "home"), Ask("force_leave", "bob", "-", "home")}),
   Both("public", [carol |-> "join", alice |-> "join"],
        {Ask("force_join_list", "alice", "bob", "away"), Ask("force_leave", "alice", "-", "away"),
         Ask("force_leave_remote", "bob", "-", "away"), Ask("force_join", "alice", "-", "away")}),
   Inside("public", [alice |-> "join"],
          {Ask("force_demote", "alice", "-", "home"), Ask("join_alias", "bob", "a", "-"),
           Ask("join_alias", "alice", "b", "-"), Ask("state", "alice", "invite", "home")}),
   \* Invite links, with and without a room to meet in.
   Inside("public", [alice |-> "join", bob |-> "join"],
          {Ask("create_invite", "alice", "-", "-"), Ask("accept_invite", "bob", "-", "next12"),
           Ask("invite_link", "bob", "alice", "next11"), Ask("revoke_invite", "alice", "-", "-")}),
   Inside("invite", [alice |-> "join"],
          {Ask("invite_link", "alice", "bob", "next11"), Ask("accept_invite", "bob", "-", "next12"),
           Ask("leave", "bob", "-", "next11")})}
=============================================================================
