------------------------------- MODULE Rooms -------------------------------
(***************************************************************************)
(* Who is in a room: joining, leaving, inviting, knocking, kicking and     *)
(* banning, by local users and by the users of another server; and how a   *)
(* room comes, moves and goes: creation, upgrade, aliases, the public      *)
(* directory and the admin's room ban.                                     *)
(*                                                                         *)
(* The members of a room are recorded twice: in the room's current state,  *)
(* which events change one by one under the room's state mutex, and in the *)
(* tables of the state cache, which some handlers also write without it.   *)
(*                                                                         *)
(* A handler is the list of the calls that it makes.  Handlers run side by *)
(* side, a mutex guard is dropped when its handler ends, and the process   *)
(* may stop between any two calls.  The other server is external: `far` is *)
(* its state of the room Away, and its answers may be lost.                *)
(***************************************************************************)
EXTENDS Integers, Sequences, FiniteSets

CONSTANTS
  Local,       \* users of this server
  Remote,      \* users of the other server
  Admins,      \* admins of this server, some of Local
  Home,        \* a room of this server
  Away,        \* a room of the other server
  Next12,      \* a room still to be made, of a version whose ids are hashes
  Next11,      \* a room still to be made, of an older version
  Aliases,     \* local aliases
  Slots,       \* requests under way at once, one number for each
  Workloads,   \* how the rooms are at first, and what is asked of the server
  MaxCrashes   \* bound: restarts

VARIABLES
  db,       \* the tables, and the current state of every room
  far,      \* the other server's state of Away
  lock,     \* rooms.state.mutex: who holds the guard of a room
  req,      \* the requests under way
  stale,    \* members whose cache row was written on the strength of an old answer
  plan      \* the requests to come, and the restarts that may still happen

vars == <<db, far, lock, req, stale, plan>>

Users == Local \cup Remote
Rooms == {Home, Away, Next11, Next12}
None == "-"

-----------------------------------------------------------------------------
(* The state of a room: a few of its state events.  `rest` stands for the  *)
(* name, topic, history visibility and whatever else has no say here.      *)

Keys == {"create", "levels", "rule", "tomb", "closed", "rest"}

Blank(r) ==
  [v12 |-> r = Next12, create |-> None, levels |-> None, rule |-> None, tomb |-> None, closed |-> None,
   rest |-> None, member |-> [u \in Users |-> None]]

(* A room that its creator has furnished.                                  *)
Furnished(r, creator, rule, members) ==
  [Blank(r) EXCEPT !.create = creator, !.levels = creator, !.rule = rule, !.rest = "set",
                !.member = [u \in Users |-> IF u \in DOMAIN members THEN members[u] ELSE None]]

Member(sender, u, m) == [key |-> "member", of |-> u, val |-> m, sender |-> sender, via |-> None]
StateEvent(sender, k, v) == [key |-> k, of |-> None, val |-> v, sender |-> sender, via |-> None]
NoEvent == StateEvent(None, None, None)

Apply(st, e) ==
  IF e.key = "member" THEN [st EXCEPT !.member[e.of] = e.val] ELSE [st EXCEPT ![e.key] = e.val]

(* Whom the power levels name may do what others cannot; the creator may   *)
(* while there are none, and always where the version says so.             *)
Powerful(st, u) ==
  \/ u = IF st.levels = None THEN st.create ELSE st.levels
  \/ st.v12 /\ u = st.create

(* Who may invite: everyone, until the room is closed by an upgrade.       *)
MayInvite(st, u, v) ==
  /\ st.member[u] = "join"
  /\ st.member[v] \notin {"join", "ban"}
  /\ st.closed # None => Powerful(st, u)

MayJoin(st, e) ==
  /\ e.sender = e.of
  /\ st.create # None
  /\ st.member[e.of] # "ban"
  /\ \/ st.rule = "public"
     \/ st.member[e.of] \in {"join", "invite"}
     \/ st.create = e.of /\ \A u \in Users : st.member[u] = None
     \/ /\ st.rule \in {"restricted", "knock_restricted"}
        /\ e.via # None /\ MayInvite(st, e.via, e.of)

MayLeave(st, e) ==
  IF e.sender = e.of
  THEN st.member[e.of] \in {"join", "invite", "knock"}
  ELSE st.member[e.sender] = "join" /\ Powerful(st, e.sender) /\ ~ Powerful(st, e.of)

(* auth_check, for the events of this module.  The create event of a room  *)
(* whose id is its hash names no room.                                     *)
Allowed(st, e) ==
  IF e.key = "member"
  THEN CASE e.val = "join" -> MayJoin(st, e)
         [] e.val = "invite" -> MayInvite(st, e.sender, e.of)
         [] e.val = "leave" -> MayLeave(st, e)
         [] e.val = "ban" -> /\ st.member[e.sender] = "join"
                             /\ Powerful(st, e.sender) /\ ~ Powerful(st, e.of)
         [] e.val = "knock" -> /\ st.rule \in {"knock", "knock_restricted"}
                               /\ st.member[e.of] \notin {"ban", "invite", "join"}
  ELSE IF e.key = "create" THEN st.create = None /\ (st.v12 => e.of = None)
  ELSE st.member[e.sender] = "join" /\ Powerful(st, e.sender)

-----------------------------------------------------------------------------
(* The state cache.  cache[r][u] is the table that lists u for the room.   *)

is_joined(t, r, u) == t.cache[r][u] = "join"
is_invited(t, r, u) == t.cache[r][u] = "invite"
server_in_room(t, r) == r \in t.here

update_joined_count(t, r) ==
  [t EXCEPT !.here = IF \E u \in Local : is_joined(t, r, u) THEN @ \cup {r} ELSE @ \ {r}]

mark_as_joined(t, r, u) == [t EXCEPT !.cache[r][u] = "join"]
mark_as_invited(t, r, u) == [t EXCEPT !.cache[r][u] = "invite"]
forget(t, r, u) == [t EXCEPT !.cache[r][u] = IF @ = "leave" THEN None ELSE @]

(* A banned or disabled room is forgotten at once.                         *)
mark_as_left(t, r, u) ==
  LET left == [t EXCEPT !.cache[r][u] = "leave"]
  IN IF u \in Local /\ r \in t.banned \cup t.disabled THEN forget(left, r, u) ELSE left

update_membership(t, r, u, m) ==
  CASE m = "join" -> mark_as_joined(t, r, u)
    [] m = "invite" -> mark_as_invited(t, r, u)
    [] m \in {"leave", "ban"} -> mark_as_left(t, r, u)
    [] OTHER -> t

(* append_pdu and set_room_state: st is the state after the event.         *)
append_pdu(t, r, st, e) ==
  LET put == [t EXCEPT !.state[r] = st]
  IN IF e.key = "member"
     THEN update_joined_count(update_membership(put, r, e.of, e.val), r)
     ELSE put

(* force_state: the state that another server sent, and its members.       *)
force_state(t, r, st) ==
  LET row(u) == CASE st.member[u] \in {"join", "invite"} -> st.member[u]
                  [] st.member[u] \in {"leave", "ban"} -> "leave"
                  [] OTHER -> t.cache[r][u]
  IN update_joined_count([t EXCEPT !.state[r] = st, !.cache[r] = [u \in Users |-> row(u)]], r)

(* The aliases: alias_roomid and alias_userid, and aliasid_alias by room.  *)
local_aliases_for_room(t, r) == {a \in Aliases : <<r, a>> \in t.listed}

set_alias(t, a, r, u) ==
  [t EXCEPT !.alias_user[a] = u, !.alias_room[a] = r, !.listed = @ \cup {<<r, a>>}]

remove_alias(t, a) ==
  [t EXCEPT !.alias_room[a] = None, !.alias_user[a] = None,
            !.listed = @ \ {<<t.alias_room[a], a>>}]

user_can_remove_alias(t, a, u) ==
  /\ t.alias_room[a] # None
  /\ \/ t.alias_user[a] = u
     \/ u \in Admins
     \/ Powerful(t.state[t.alias_room[a]], u)

-----------------------------------------------------------------------------
Do(call, r) == [call |-> call, room |-> r, ev |-> NoEvent]
With(call, r, e) == [call |-> call, room |-> r, ev |-> e]

(* build_and_append_pdu: the event is built and checked against the state, *)
(* then appended to it.                                                    *)
Append1(r, e) == <<With("build", r, e), With("commit", r, e)>>

Idle == [route |-> None, user |-> None, of |-> None, room |-> None, invitee |-> None,
         todo |-> << >>, or_else |-> << >>, next |-> Blank(None), saw |-> None, users |-> {},
         direct |-> {}]

-----------------------------------------------------------------------------
(* The handlers.  q is the request: its user, the user it is about (of),   *)
(* its room.                                                               *)

JoinHelper(q) == <<Do("lock", q.room), Do("join", q.room)>>
JoinRoute(q) == <<Do("permitted", q.room)>> \o JoinHelper(q)
JoinAlias(q) == <<Do("resolve", q.room)>>
JoinLocal(q) == <<Do("authorise", q.room)>>
make_join_request(q) == <<With("make", q.room, Member(q.user, q.user, "join"))>>
SendJoin(q) == <<With("send", q.room, Member(q.user, q.user, "join"))>>
TakeJoin(q) ==
  LET e == Member(q.user, q.user, "join") IN <<With("force", q.room, e), With("commit", q.room, e)>>
JoinRemote(q) == make_join_request(q) \o SendJoin(q) \o TakeJoin(q)

LeaveRoute(q) == <<Do("leave", q.room)>>
MarkLeft(q) == <<Do("mark_left", q.room), Do("count", q.room)>>
MakeLeave(q) == <<With("make", q.room, Member(q.user, q.user, "leave"))>>
SendLeave(q) == <<With("send", q.room, Member(q.user, q.user, "leave"))>>
RemoteLeave(q) == MakeLeave(q) \o SendLeave(q) \o MarkLeft(q)
LeaveByEvent(q) == <<Do("lock", q.room), Do("leave_event", q.room)>>

ForgetRoute(q) == <<Do("forget", q.room)>>

KickRoute(q) ==
  <<Do("lock", q.room), Do("kickable", q.room)>>
    \o Append1(q.room, Member(q.user, q.of, "leave"))
BanRouteUnlocked(q) == Append1(q.room, Member(q.user, q.of, "ban"))
BanRoute(q) == <<Do("lock", q.room)>> \o Append1(q.room, Member(q.user, q.of, "ban"))
UnbanRoute(q) ==
  <<Do("lock", q.room), Do("is_banned", q.room)>>
    \o Append1(q.room, Member(q.user, q.of, "leave"))

(* invite_helper.  A remote user's server signs the invite first; the      *)
(* event then comes in as any other does.                                  *)
InviteHelper(q) ==
  LET e == Member(q.user, q.of, "invite")
  IN IF q.of \in Local
     THEN <<Do("sender_joined", q.room), Do("lock", q.room)>> \o Append1(q.room, e)
     ELSE <<Do("lock", q.room), With("build", q.room, e), Do("unlock", q.room),
            Do("ask", q.room), Do("lock", q.room)>> \o Append1(q.room, e)
InviteRoute(q) == <<Do("permitted", q.room), Do("not_banned", q.room)>> \o InviteHelper(q)

KnockRoute(q) == <<Do("permitted", q.room), Do("lock", q.room), Do("knock", q.room)>>
KnockLocal(q) == Append1(q.room, Member(q.user, q.user, "knock"))
make_knock_request(q) == <<With("make", q.room, Member(q.user, q.user, "knock"))>>
SendKnock(q) == <<With("send", q.room, Member(q.user, q.user, "knock"))>>
TakeKnock(q) ==
  LET e == Member(q.user, q.user, "knock") IN <<With("force", q.room, e), With("commit", q.room, e)>>
KnockRemote(q) == make_knock_request(q) \o SendKnock(q) \o TakeKnock(q)

(* When the knock fails here the other server may take it, but then it is  *)
(* in no state of this server.                                             *)
KnockElsewhere(q) == make_knock_request(q) \o SendKnock(q)

(* A member event of the other server, in a room that this server is in.   *)
Incoming(q, m) == <<Do("lock", q.room)>> \o Append1(q.room, Member(q.user, q.of, m))

(* A user of the other server asks for a template, then sends the event.   *)
Templates(q, m) ==
  <<Do("resident", q.room), Do("lock", q.room), With("template", q.room, Member(q.user, q.of, m)),
    Do("unlock", q.room)>>
create_join_event_template_route(q) == Templates(q, "join")
create_leave_event_template_route(q) == Templates(q, "leave")
create_knock_event_template_route(q) == Templates(q, "knock")

create_join_event(q) == <<Do("resident", q.room), Do("vouched", q.room)>> \o Incoming(q, "join")
create_leave_event(q) == <<Do("resident", q.room)>> \o Incoming(q, "leave")
create_knock_event_v1_route(q) == <<Do("resident", q.room)>> \o Incoming(q, "knock")

FarJoin(q) == create_join_event_template_route(q) \o create_join_event(q)
FarLeave(q) == create_leave_event_template_route(q) \o create_leave_event(q)
FarKnock(q) == create_knock_event_template_route(q) \o create_knock_event_v1_route(q)

(* The other server invites, kicks or bans a local user in Away.           *)
FarInvite(q) ==
  <<Do("invite_in", q.room), With("far", q.room, Member(q.user, q.of, "invite")),
    Do("deliver", q.room)>> \o Incoming(q, "invite")
FarRemove(q, m) ==
  <<With("far", q.room, Member(q.user, q.of, m)), Do("deliver", q.room)>> \o Incoming(q, m)

(* Creation, with an alias, a place in the directory and invites.  A room  *)
(* whose id is a hash has no id before its create event.                   *)
room_alias_check(t, a) == t.alias_room[a] = None
CreateChecks(q) == <<Do("unused", q.room), Do("alias_check", q.room)>>
CreateEvent(q) ==
  LET put == Append1(q.room, StateEvent(q.user, "create", q.user))
  IN IF q.room = Next12 THEN put ELSE <<Do("lock", q.room)>> \o put \o <<Do("unlock", q.room)>>
CreatorJoins(q) == <<Do("lock", q.room)>> \o Append1(q.room, Member(q.user, q.user, "join"))
default_power_levels_content(q) == IF q.room = Next12 THEN "nobody" ELSE q.user
CreateLevels(q) == Append1(q.room, StateEvent(q.user, "levels", default_power_levels_content(q)))
CreateRules(q) == Append1(q.room, StateEvent(q.user, "rule", "public"))
CreateRest(q) == Append1(q.room, StateEvent(q.user, "rest", "set"))
CreateInvites(q) ==
  IF q.invitee = None THEN << >>
  ELSE <<Do("try", q.room)>> \o InviteHelper([q EXCEPT !.of = q.invitee])
         \o <<Do("unlock", q.room), Do("tried", q.room)>>
Announce(q) == <<Do("set_alias", q.room), Do("publish", q.room)>>
CreateRouteEager(q) ==
  CreateChecks(q) \o CreateEvent(q) \o CreatorJoins(q) \o CreateLevels(q)
    \o Announce(q) \o CreateRules(q) \o CreateRest(q) \o <<Do("unlock", q.room)>>
    \o CreateInvites(q)
CreateRoute(q) ==
  CreateChecks(q) \o CreateEvent(q) \o CreatorJoins(q) \o CreateLevels(q) \o CreateRules(q)
    \o CreateRest(q) \o <<Do("unlock", q.room)>> \o CreateInvites(q) \o Announce(q)

(* Upgrade of the room to q.of.  An older version gets its tombstone       *)
(* before there is a replacement.  The last event of the old room is sent  *)
(* with the guard of the new one.                                          *)
MayUpgrade(q) ==
  <<Do("lock", q.room), With("template", q.room, StateEvent(q.user, "tomb", q.of)),
    Do("unlock", q.room), Do("unused", q.of)>>
Tombstone(q) ==
  <<Do("lock", q.room)>> \o Append1(q.room, StateEvent(q.user, "tomb", q.of))
    \o <<Do("unlock", q.room)>>
TombstoneFirst(q) == IF q.of = Next11 THEN Tombstone(q) ELSE << >>
TombstoneLast(q) == IF q.of = Next12 THEN Tombstone(q) ELSE << >>
Replacement(q) ==
  LET put == Append1(q.of, StateEvent(q.user, "create", q.user))
  IN IF q.of = Next12 THEN put \o <<Do("lock", q.of)>> ELSE <<Do("lock", q.of)>> \o put
UpgraderJoins(q) == Append1(q.of, Member(q.user, q.user, "join"))
Transfers(q) ==
  <<Do("transfer_rule", q.of), Do("transfer_levels", q.of), Do("transfer_rest", q.of),
    Do("move_aliases", q.of)>>
CloseOld(q) == Append1(q.room, StateEvent(q.user, "closed", "set")) \o <<Do("unlock", q.of)>>
UpgradeRoute(q) ==
  MayUpgrade(q) \o TombstoneFirst(q) \o Replacement(q) \o UpgraderJoins(q) \o Transfers(q)
    \o CloseOld(q) \o TombstoneLast(q)

CreateAlias(q) == <<Do("alias_free", q.room), Do("set_alias", q.room)>>
DeleteAlias(q) == <<Do("alias_remove", q.room)>>
Publish(q) == <<Do("may_publish", q.room), Do("publish", q.room)>>
Unpublish(q) == <<Do("may_publish", q.room), Do("unpublish", q.room)>>
SendState(q) ==
  <<Do("lock", q.room)>> \o Append1(q.room, StateEvent(q.user, "rule", q.of))

(* The admin's ban: every local member leaves, then the room is marked.    *)
BanRoom(q) ==
  <<Do("members", q.room), Do("evict", q.room), Do("drop_aliases", q.room),
    Do("unpublish", q.room), Do("ban", q.room), Do("disable", q.room)>>
UnbanRoom(q) == <<Do("unban", q.room), Do("enable", q.room)>>

(* The admin's commands for local users: into a room, out of it, and out   *)
(* of its power levels.                                                    *)
force_join_room(q) == JoinHelper(q)
BulkJoin(q) == <<Do("resident", q.room), Do("admin_inside", q.room)>>
force_join_list_of_local_users(q) == BulkJoin(q) \o <<Do("named", q.room), Do("join_each", q.room)>>
force_join_all_local_users(q) == BulkJoin(q) \o <<Do("everyone", q.room), Do("join_each", q.room)>>
force_leave_room(q) == <<Do("is_member", q.room), Do("leave", q.room)>>
force_leave_remote_room(q) == MakeLeave(q) \o SendLeave(q)
force_demote(q) == <<Do("lock", q.room), Do("demote", q.room)>>

(* Invite links.  There is one token; whoever accepts it gets a direct     *)
(* room with the inviter: one they have, or a new one.                     *)
Inviter(q) == IF q.route = "accept_invite" THEN q.of ELSE q.user
Recipient(q) == IF q.route = "accept_invite" THEN q.user ELSE q.of
create_invite(q) == <<Do("issue_token", q.room)>>
revoke_invite(q) == <<Do("owns_token", q.room), Do("revoke_token", q.room)>>
accept_invite(q) ==
  <<Do("check_token", q.room), Do("known_direct", q.room), Do("accepted", q.room), Do("mark_used", q.room)>>
issue_invite_link(q) == <<Do("known_direct", q.room), Do("issue_token", q.room)>>

(* Both users' m.direct get the room; each is read and then written.       *)
ensure_direct_account_data(q, u, v) ==
  <<With("direct_read", q.room, Member(u, v, None)), With("direct_write", q.room, Member(u, v, None))>>
EnsureDirect(q) ==
  ensure_direct_account_data(q, Inviter(q), Recipient(q))
    \o ensure_direct_account_data(q, Recipient(q), Inviter(q))

(* The new room is given an id whatever its version.                       *)
NewDirectCreate(q) ==
  <<Do("lock", q.room)>>
    \o Append1(q.room, [StateEvent(Inviter(q), "create", Inviter(q)) EXCEPT !.of = q.room])
NewDirectState(q) ==
  LET u == Inviter(q)
  IN Append1(q.room, Member(u, u, "join")) \o Append1(q.room, StateEvent(u, "levels", u))
       \o Append1(q.room, StateEvent(u, "rule", "invite")) \o Append1(q.room, StateEvent(u, "rest", "set"))
       \o <<Do("unlock", q.room)>>
NewDirectInvite(q) ==
  <<Do("lock", q.room)>> \o Append1(q.room, Member(Inviter(q), Recipient(q), "invite"))
    \o EnsureDirect(q) \o <<Do("unlock", q.room)>>

Program(q) ==
  CASE q.route = "join" -> JoinRoute(q)
    [] q.route = "leave" -> LeaveRoute(q)
    [] q.route = "forget" -> ForgetRoute(q)
    [] q.route = "invite" -> InviteRoute(q)
    [] q.route = "knock" -> KnockRoute(q)
    [] q.route = "kick" -> KickRoute(q)
    [] q.route = "ban" -> BanRoute(q)
    [] q.route = "unban" -> UnbanRoute(q)
    [] q.route = "far_join" -> FarJoin(q)
    [] q.route = "far_leave" -> FarLeave(q)
    [] q.route = "far_knock" -> FarKnock(q)
    [] q.route = "far_invite" -> FarInvite(q)
    [] q.route = "far_kick" -> FarRemove(q, "leave")
    [] q.route = "far_ban" -> FarRemove(q, "ban")
    [] q.route = "create" -> CreateRoute(q)
    [] q.route = "upgrade" -> UpgradeRoute(q)
    [] q.route = "create_alias" -> CreateAlias(q)
    [] q.route = "delete_alias" -> DeleteAlias(q)
    [] q.route = "publish" -> Publish(q)
    [] q.route = "unpublish" -> Unpublish(q)
    [] q.route = "state" -> SendState(q)
    [] q.route = "ban_room" -> BanRoom(q)
    [] q.route = "unban_room" -> UnbanRoom(q)
    [] q.route = "join_alias" -> JoinAlias(q)
    [] q.route = "force_join" -> force_join_room(q)
    [] q.route = "force_join_list" -> force_join_list_of_local_users(q)
    [] q.route = "force_join_all" -> force_join_all_local_users(q)
    [] q.route = "force_leave" -> force_leave_room(q)
    [] q.route = "force_leave_remote" -> force_leave_remote_room(q)
    [] q.route = "force_demote" -> force_demote(q)
    [] q.route = "create_invite" -> create_invite(q)
    [] q.route = "revoke_invite" -> revoke_invite(q)
    [] q.route = "accept_invite" -> accept_invite(q)
    [] q.route = "invite_link" -> issue_invite_link(q)

-----------------------------------------------------------------------------
(* A workload is a record: the rooms at first, and the requests, which     *)
(* arrive in any order, at most as many at once as there are slots.        *)
CacheOf(st) ==
  [u \in Users |-> IF st.member[u] = "ban" THEN "leave"
                   ELSE IF st.member[u] = "knock" THEN None ELSE st.member[u]]

(* invitetoken_info: who invites, and whether someone came.                *)
NoToken == [inviter |-> None, used |-> FALSE]

InitDb(w) ==
  LET known == w.state
  IN [state |-> [r \in Rooms |-> IF r \in DOMAIN known THEN known[r] ELSE Blank(r)],
      cache |-> [r \in Rooms |-> IF r \in DOMAIN known THEN CacheOf(known[r])
                                 ELSE [u \in Users |-> None]],
      here |-> {r \in DOMAIN known : \E u \in Local : known[r].member[u] = "join"},
      alias_room |-> w.aliases, alias_user |-> [a \in Aliases |-> IF w.aliases[a] = None THEN None ELSE known[Home].create],
      listed |-> {<<w.aliases[a], a>> : a \in {a \in Aliases : w.aliases[a] # None}},
      public |-> {Home}, banned |-> {}, disabled |-> {}, token |-> NoToken, direct |-> {}]

Init ==
  \E w \in Workloads :
    /\ db = InitDb(w)
    /\ far = IF Away \in DOMAIN w.state THEN w.state[Away] ELSE w.far
    /\ lock = [r \in Rooms |-> 0]
    /\ req = [s \in Slots |-> Idle]
    /\ stale = {}
    /\ plan = [reqs |-> w.reqs, crashes |-> MaxCrashes]

(* The least free slot takes the request: slots have no meaning.           *)
Arrive(s) ==
  /\ req[s] = Idle
  /\ \A t \in Slots : t < s => req[t] # Idle
  /\ \E q \in plan.reqs :
       /\ req' = [req EXCEPT ![s] =
            [Idle EXCEPT !.route = q.route, !.user = q.user, !.of = q.of, !.room = q.room,
                         !.invitee = q.invitee, !.todo = Program(q)]]
       /\ plan' = [plan EXCEPT !.reqs = @ \ {q}]
  /\ UNCHANGED <<db, far, lock, stale>>

-----------------------------------------------------------------------------
(* One call of a request.                                                  *)

At(s, call) == req[s].todo # << >> /\ Head(req[s].todo).call = call
Room(s) == Head(req[s].todo).room
Event(s) == Head(req[s].todo).ev
Rest(s) == Tail(req[s].todo)

Unlocked(s) == [r \in Rooms |-> IF lock[r] = s THEN 0 ELSE lock[r]]

(* The request goes on as q; when nothing is left to do it ends, and drops *)
(* the guards it holds.                                                    *)
Go(s, q) ==
  IF q.todo = << >>
  THEN req' = [req EXCEPT ![s] = Idle] /\ lock' = Unlocked(s)
  ELSE req' = [req EXCEPT ![s] = q] /\ UNCHANGED lock
Continue(s) == Go(s, [req[s] EXCEPT !.todo = Tail(@)])
Then(s, steps) == Go(s, [req[s] EXCEPT !.todo = steps])

(* An error: ends the request, unless there is another way to go on.       *)
Give(s) ==
  IF req[s].or_else = << >> THEN Then(s, << >>)
  ELSE Go(s, [req[s] EXCEPT !.todo = Head(req[s].or_else), !.or_else = Tail(@)])
Fail(s) == Give(s) /\ UNCHANGED <<db, far, stale>>

Check(s, call, ok) ==
  /\ At(s, call)
  /\ \/ ok /\ Continue(s) /\ UNCHANGED <<db, far, stale>>
     \/ ~ ok /\ Fail(s)
Write(s, call, t) == At(s, call) /\ db' = t /\ Continue(s) /\ UNCHANGED <<far, stale>>

Lock(s) ==
  /\ At(s, "lock")
  /\ lock[Room(s)] = 0
  /\ lock' = [lock EXCEPT ![Room(s)] = s]
  /\ req' = [req EXCEPT ![s].todo = Tail(@)]
  /\ UNCHANGED <<db, far, stale>>
Unlock(s) ==
  /\ At(s, "unlock")
  /\ req' = [req EXCEPT ![s] = IF Rest(s) = << >> THEN Idle ELSE [@ EXCEPT !.todo = Rest(s)]]
  /\ lock' = IF Rest(s) = << >> THEN Unlocked(s) ELSE [lock EXCEPT ![Room(s)] = IF @ = s THEN 0 ELSE @]
  /\ UNCHANGED <<db, far, stale>>

(* create_hash_and_sign_event, then append_to_state.                       *)
Build(s) ==
  LET st == db.state[Room(s)] IN
  /\ At(s, "build")
  /\ \/ /\ Allowed(st, Event(s))
        /\ Go(s, [req[s] EXCEPT !.todo = Tail(@), !.next = Apply(st, Event(s))])
        /\ UNCHANGED <<db, far, stale>>
     \/ ~ Allowed(st, Event(s)) /\ Fail(s)

(* The event is appended; events of local users also go to the other       *)
(* server, and it takes those that it allows.  Without the room's guard,   *)
(* what was appended since the event was built is lost.                    *)
Lost(s) ==
  {<<Room(s), u>> : u \in {u \in Users : /\ u # Event(s).of
                                        /\ req[s].next.member[u] # db.state[Room(s)].member[u]}}

Commit(s) ==
  LET e == Event(s) IN
  /\ At(s, "commit")
  /\ db' = append_pdu(db, Room(s), req[s].next, e)
  /\ far' = IF Room(s) = Away /\ e.sender \in Local /\ Allowed(far, e) THEN Apply(far, e) ELSE far
  /\ Go(s, [req[s] EXCEPT !.todo = Tail(@), !.next = Blank(None)])
  /\ stale' = IF req[s].route = "upgrade" /\ lock[Room(s)] # s THEN stale \cup Lost(s) ELSE stale

(* Requests to the other server.  It may vouch for the user; its answer,   *)
(* or the request, may be lost.                                            *)
FarAllows(e) == \E v \in Remote \cup {None} : Allowed(far, [e EXCEPT !.via = v])

Make(s) ==
  /\ At(s, "make")
  /\ \/ FarAllows(Event(s)) /\ Continue(s) /\ UNCHANGED <<db, far, stale>>
     \/ Fail(s)

(* What it answers: the state before a join, little of it for a knock.     *)
Answer(e) ==
  IF e.val = "join" THEN far
  ELSE [far EXCEPT !.member = [u \in Users |-> None], !.levels = None]

Send(s) ==
  LET e == Event(s) IN
  /\ At(s, "send")
  /\ \/ /\ FarAllows(e)
        /\ far' = Apply(far, e)
        /\ \/ Go(s, [req[s] EXCEPT !.todo = Tail(@), !.next = Answer(e)])
           \/ Give(s)
        /\ UNCHANGED <<db, stale>>
     \/ Fail(s)

Force(s) ==
  /\ At(s, "force")
  /\ db' = force_state(db, Room(s), req[s].next)
  /\ Go(s, [req[s] EXCEPT !.todo = Tail(@), !.next = Apply(@, Event(s))])
  /\ UNCHANGED <<far, stale>>

(* join_room_by_id_helper, with the guard.  A room that this server has    *)
(* left is joined through another server, if there is one.                 *)
Join(s) ==
  LET r == Room(s)
      u == req[s].user
      here == server_in_room(db, r)
  IN /\ At(s, "join")
     /\ \/ is_joined(db, r, u) /\ Then(s, Rest(s))
        \/ /\ ~ is_joined(db, r, u)
           /\ IF here THEN db.state[r].member[u] = "ban" ELSE r # Away
           /\ Give(s)
        \/ /\ ~ is_joined(db, r, u)
           /\ here /\ db.state[r].member[u] # "ban"
           /\ Then(s, JoinLocal(req[s]) \o Rest(s))
        \/ /\ ~ is_joined(db, r, u)
           /\ ~ here /\ r = Away
           /\ Then(s, JoinRemote(req[s]) \o Rest(s))
     /\ UNCHANGED <<db, far, stale>>

(* The room whose members a restricted room lets in.                       *)
AllowRoom(r) == IF r = Home THEN Away ELSE Home

user_can_perform_restricted_join(t, u, r) ==
  /\ t.state[r].rule \in {"restricted", "knock_restricted"}
  /\ server_in_room(t, AllowRoom(r))
  /\ is_joined(t, AllowRoom(r), u)

select_authorising_user(t, r, u) ==
  LET able == {v \in Local : is_joined(t, r, v) /\ MayInvite(t.state[r], v, u)}
  IN IF able = {} THEN None ELSE CHOOSE v \in able : TRUE

(* join_room_by_id_helper_local; a room of the other server can also be    *)
(* joined through it when this fails.                                      *)
Authorise(s) ==
  LET r == Room(s)
      u == req[s].user
      via == IF ~ is_invited(db, r, u) /\ user_can_perform_restricted_join(db, u, r)
             THEN select_authorising_user(db, r, u) ELSE None
      e == [Member(u, u, "join") EXCEPT !.via = via]
  IN /\ At(s, "authorise")
     /\ Go(s, [req[s] EXCEPT !.todo = Append1(r, e) \o Rest(s),
                             !.or_else = IF r = Away THEN <<JoinRemote(req[s]) \o Rest(s)>> \o @ ELSE @])
     /\ UNCHANGED <<db, far, stale>>

LeaveUnasked(s) ==
  LET r == Room(s)
      q == [req[s] EXCEPT !.saw = db.cache[r][req[s].user]]
  IN /\ At(s, "leave")
     /\ Go(s, [q EXCEPT !.todo = (IF r = Away THEN RemoteLeave(q) ELSE MarkLeft(q)) \o Rest(s)])
     /\ UNCHANGED <<db, far, stale>>

(* leave_room: which of its three cases.                                   *)
Leave(s) ==
  LET r == Room(s)
      q == [req[s] EXCEPT !.saw = db.cache[r][req[s].user]]
  IN /\ At(s, "leave")
     /\ \/ /\ r \in db.banned \cup db.disabled
           /\ Go(s, [q EXCEPT !.todo = MarkLeft(q) \o Rest(s)])
        \/ /\ r \notin db.banned \cup db.disabled /\ ~ server_in_room(db, r)
           /\ Go(s, [q EXCEPT !.todo = (IF r = Away THEN RemoteLeave(q) ELSE MarkLeft(q)) \o Rest(s),
                              !.or_else = <<MarkLeft(q) \o Rest(s)>> \o @])
        \/ /\ r \notin db.banned \cup db.disabled /\ server_in_room(db, r)
           /\ Go(s, [q EXCEPT !.todo = LeaveByEvent(q) \o Rest(s)])
     /\ UNCHANGED <<db, far, stale>>

LeaveEvent(s) ==
  LET r == Room(s)
      u == req[s].user
  IN /\ At(s, "leave_event")
     /\ Then(s, (IF db.state[r].member[u] # None
                 THEN Append1(r, Member(u, u, "leave")) \o <<Do("unlock", r)>>
                 ELSE <<Do("unlock", r)>> \o MarkLeft(req[s])) \o Rest(s))
     /\ UNCHANGED <<db, far, stale>>

(* Someone else is at work on the membership, or it changed since the      *)
(* request looked at it.                                                   *)
Overtaken(s, r, u) ==
  \/ db.cache[r][u] # req[s].saw
  \/ \E t \in Slots \ {s} : req[t].room = r /\ u \in {req[t].user, req[t].of}

(* Writes of the cache without the guard.                                  *)
MarkUnguarded(s, call, u, t) ==
  /\ At(s, call)
  /\ db' = t
  /\ stale' = IF Overtaken(s, Room(s), u) \/ Room(s) \in db.banned \cup db.disabled
              THEN stale \cup {<<Room(s), u>>} ELSE stale
  /\ Continue(s)
  /\ UNCHANGED far

(* create_invite_route: an invite to a room that this server is not in is  *)
(* recorded at once.                                                       *)
InviteIn(s) ==
  LET r == Room(s)
      u == req[s].of
  IN /\ At(s, "invite_in")
     /\ \/ r \in db.banned /\ u \notin Admins /\ Then(s, << >>)
        \/ /\ r \in db.banned => u \in Admins
           /\ Go(s, [req[s] EXCEPT
                !.saw = db.cache[r][u],
                !.todo = IF server_in_room(db, r) THEN Tail(@)
                         ELSE <<Do("mark_invited", r), Do("count", r)>> \o Tail(@)])
     /\ UNCHANGED <<db, far, stale>>

FarActs(s) ==
  /\ At(s, "far")
  /\ \/ Allowed(far, Event(s)) /\ far' = Apply(far, Event(s)) /\ Continue(s)
     \/ ~ Allowed(far, Event(s)) /\ UNCHANGED far /\ Then(s, << >>)
  /\ UNCHANGED <<db, stale>>

(* The state of a room that this server is in follows from what arrives;   *)
(* the other server sends nothing to it otherwise.                         *)
Delivered(r) == server_in_room(db, r) /\ r \notin db.disabled

(* knock_room_by_id_helper.  Locally when this server is in the room or    *)
(* knows no other.                                                         *)
KnockOn(s) ==
  LET q == req[s]
  IN IF server_in_room(db, q.room) \/ q.room # Away
     THEN Go(s, [q EXCEPT !.todo = KnockLocal(q),
                          !.or_else = IF q.room = Away
                                      THEN <<KnockElsewhere(q)>>
                                      ELSE << >>])
     ELSE Then(s, KnockRemote(q))

KnockKeepsGuard(s) ==
  LET q == req[s]
      r == q.room
  IN /\ At(s, "knock")
     /\ IF db.state[r].rule = "knock_restricted" /\ is_joined(db, AllowRoom(r), q.user)
        THEN Then(s, JoinHelper(q))
        ELSE KnockOn(s)
     /\ UNCHANGED <<db, far, stale>>

Knock(s) ==
  LET q == req[s]
      r == q.room
      member == db.state[r].member[q.user]
      refused == is_invited(db, r, q.user) \/ is_joined(db, r, q.user) \/ member = "ban"
  IN /\ At(s, "knock")
     /\ \/ refused /\ Then(s, << >>)
        \/ /\ ~ refused
           /\ IF db.state[r].rule = "knock_restricted" /\ is_joined(db, AllowRoom(r), q.user)
              THEN Go(s, [q EXCEPT !.todo = <<Do("unlock", r)>> \o JoinHelper(q),
                     !.or_else = <<<<Do("unlock", r), Do("lock", r), Do("knock_anyway", r)>>>>])
              ELSE KnockOn(s)
     /\ UNCHANGED <<db, far, stale>>

KnockAnyway(s) == At(s, "knock_anyway") /\ KnockOn(s) /\ UNCHANGED <<db, far, stale>>

(* make_join and its like: a join of a restricted room gets the name of a  *)
(* local user who vouches for it.                                          *)
Template(s) ==
  LET r == Room(s)
      e == Event(s)
      restricted == /\ req[s].route = "far_join"
                    /\ ~ is_joined(db, r, e.of) /\ ~ is_invited(db, r, e.of)
                    /\ db.state[r].rule \in {"restricted", "knock_restricted"}
      via == IF restricted /\ user_can_perform_restricted_join(db, e.of, r)
             THEN select_authorising_user(db, r, e.of) ELSE None
      ok == (restricted => via # None) /\ Allowed(db.state[r], [e EXCEPT !.via = via])
  IN /\ At(s, "template")
     /\ \/ ok /\ Go(s, [req[s] EXCEPT !.todo = Tail(@), !.saw = via]) /\ UNCHANGED <<db, far, stale>>
        \/ ~ ok /\ Fail(s)

(* create_join_event: whoever vouches is still in the room, and the rooms  *)
(* that let the user in still do.                                          *)
Vouched(s) ==
  LET r == Room(s)
      via == req[s].saw
      ok == via # None => is_joined(db, r, via) /\ user_can_perform_restricted_join(db, req[s].of, r)
      signed == [i \in DOMAIN Rest(s) |-> [Rest(s)[i] EXCEPT !.ev.via = via]]
  IN /\ At(s, "vouched")
     /\ \/ ok /\ Then(s, signed) /\ UNCHANGED <<db, far, stale>>
        \/ ~ ok /\ Fail(s)

(* The transferable state of the old room, at this moment.  The power      *)
(* levels come without whoever upgrades.                                   *)
Transfer(s, call, k) ==
  LET v == db.state[req[s].room][k]
      kept == IF k = "levels" /\ v = req[s].user THEN "nobody" ELSE v
  IN /\ At(s, call)
     /\ Then(s, (IF v = None THEN << >>
                 ELSE Append1(Room(s), StateEvent(req[s].user, k, kept))) \o Rest(s))
     /\ UNCHANGED <<db, far, stale>>

MoveAliases(s) ==
  LET u == req[s].user
      as == local_aliases_for_room(db, req[s].room)
  IN /\ At(s, "move_aliases")
     /\ \/ /\ as = {}
           /\ Continue(s) /\ UNCHANGED <<db, far, stale>>
        \/ \E a \in as :
             \/ /\ user_can_remove_alias(db, a, u)
                /\ db' = set_alias(remove_alias(db, a), a, Room(s), u)
                /\ UNCHANGED <<req, lock, far, stale>>
             \/ ~ user_can_remove_alias(db, a, u) /\ Fail(s)

(* The local members of a room that is to be banned, one after the other.  *)
ListMembers(s) ==
  /\ At(s, "members")
  /\ Go(s, [req[s] EXCEPT !.todo = Tail(@),
                          !.users = {u \in Local : is_joined(db, Room(s), u)}])
  /\ UNCHANGED <<db, far, stale>>

Evict(s) ==
  LET r == Room(s)
  IN /\ At(s, "evict")
     /\ \/ req[s].users = {} /\ Continue(s)
        \/ \E u \in req[s].users :
             Go(s, [req[s] EXCEPT !.user = u, !.users = @ \ {u},
                      !.todo = <<Do("try", r), Do("leave", r), Do("tried", r), Do("evicted", r)>> \o @])
     /\ UNCHANGED <<db, far, stale>>

(* Bulk joins: one user after the other; an error is counted.              *)
JoinEach(s) ==
  LET r == Room(s)
  IN /\ At(s, "join_each")
     /\ \/ req[s].users = {} /\ Continue(s)
        \/ \E u \in req[s].users :
             Go(s, [req[s] EXCEPT !.user = u, !.users = @ \ {u},
                      !.todo = <<Do("try", r)>> \o JoinHelper(req[s])
                                 \o <<Do("unlock", r), Do("tried", r)>> \o @])
     /\ UNCHANGED <<db, far, stale>>

Chosen(s, call, us) ==
  At(s, call) /\ Go(s, [req[s] EXCEPT !.todo = Tail(@), !.users = us]) /\ UNCHANGED <<db, far, stale>>

(* The user's own entry goes; without power levels there are the defaults. *)
Demote(s) ==
  LET u == req[s].user
      st == db.state[Room(s)]
      levels == IF st.levels \in {u, None} THEN "nobody" ELSE st.levels
  IN /\ At(s, "demote")
     /\ \/ /\ u \in {st.levels, st.create}
           /\ Then(s, Append1(Room(s), StateEvent(u, "levels", levels)))
           /\ UNCHANGED <<db, far, stale>>
        \/ u \notin {st.levels, st.create} /\ Fail(s)

Resolve(s) ==
  LET r == db.alias_room[req[s].of]
  IN /\ At(s, "resolve")
     /\ \/ r = None /\ Fail(s)
        \/ /\ r # None
           /\ LET q == [req[s] EXCEPT !.room = r] IN Go(s, [q EXCEPT !.todo = JoinRoute(q)])
           /\ UNCHANGED <<db, far, stale>>

-----------------------------------------------------------------------------
(* Invite links and direct rooms.                                          *)

issue_token(t, u) == [t EXCEPT !.token = [inviter |-> u, used |-> FALSE]]
save_token(t, u) == [t EXCEPT !.token = [inviter |-> u, used |-> TRUE]]
revoke_token(t) == [t EXCEPT !.token = NoToken]

(* Nobody accepts their own invite.  A used token is accepted again.       *)
CheckToken(s) ==
  LET u == db.token.inviter
  IN /\ At(s, "check_token")
     /\ \/ u \notin {None, req[s].user} /\ Go(s, [req[s] EXCEPT !.todo = Tail(@), !.of = u])
                                         /\ UNCHANGED <<db, far, stale>>
        \/ u \in {None, req[s].user} /\ Fail(s)

room_joined_count(t, r) == Cardinality({u \in Users : is_joined(t, r, u)})

KnownDirect(s) ==
  LET q == req[s]
      known == {r \in Rooms : /\ <<Inviter(q), Recipient(q), r>> \in db.direct
                              /\ is_joined(db, r, Inviter(q)) /\ room_joined_count(db, r) <= 2}
  IN /\ At(s, "known_direct")
     /\ \/ \E r \in known : Go(s, [q EXCEPT !.room = r, !.todo = Tail(@)])
        \/ known = {} /\ Then(s, <<Do("shared_room", q.room)>> \o Rest(s))
     /\ UNCHANGED <<db, far, stale>>

SharedRoom(s) ==
  LET q == req[s]
      shared == {r \in Rooms : /\ is_joined(db, r, Inviter(q)) /\ is_joined(db, r, Recipient(q))
                               /\ room_joined_count(db, r) <= 2}
  IN /\ At(s, "shared_room")
     /\ \/ \E r \in shared :
             LET found == [q EXCEPT !.room = r]
             IN Go(s, [found EXCEPT !.todo = EnsureDirect(found) \o Tail(@)])
        \/ /\ shared = {}
           /\ Then(s, NewDirectCreate(q) \o NewDirectState(q) \o NewDirectInvite(q) \o Rest(s))
     /\ UNCHANGED <<db, far, stale>>

DirectRead(s) ==
  /\ At(s, "direct_read")
  /\ Go(s, [req[s] EXCEPT !.todo = Tail(@), !.direct = {d \in db.direct : d[1] = Event(s).sender}])
  /\ UNCHANGED <<db, far, stale>>

DirectWrite(s) ==
  LET u == Event(s).sender
  IN /\ At(s, "direct_write")
     /\ db' = [db EXCEPT !.direct = {d \in @ : d[1] # u} \cup req[s].direct \cup {<<u, Event(s).of, Room(s)>>}]
     /\ Go(s, [req[s] EXCEPT !.todo = Tail(@), !.direct = {}])
     /\ UNCHANGED <<far, stale>>

Accepted(s) ==
  LET q == req[s]
  IN /\ At(s, "accepted")
     /\ Then(s, (IF is_joined(db, q.room, q.user) THEN << >>
                 ELSE JoinHelper(q) \o <<Do("unlock", q.room)>>) \o Rest(s))
     /\ UNCHANGED <<db, far, stale>>

(* mark_token_used: what was read is written back.                         *)
MarkUsed(s) ==
  /\ At(s, "mark_used")
  /\ Then(s, IF db.token.inviter = None \/ db.token.used THEN Rest(s)
              ELSE <<Do("save_token", Room(s))>> \o Rest(s))
  /\ UNCHANGED <<db, far, stale>>

Evicted(s) == Write(s, "evicted", forget(db, Room(s), req[s].user))

(* Calls whose error is only logged: the guard they took is dropped, and   *)
(* the handler goes on.                                                    *)
AfterTried(steps) ==
  LET i == CHOOSE i \in DOMAIN steps : /\ steps[i].call = "tried"
                                       /\ \A j \in 1 .. i - 1 : steps[j].call # "tried"
  IN SubSeq(steps, i + 1, Len(steps))

Try(s) ==
  /\ At(s, "try")
  /\ Go(s, [req[s] EXCEPT !.todo = Tail(@),
                          !.or_else = <<<<Do("unlock", Room(s))>> \o AfterTried(req[s].todo)>>])
  /\ UNCHANGED <<db, far, stale>>
Tried(s) ==
  /\ At(s, "tried")
  /\ Go(s, [req[s] EXCEPT !.todo = Tail(@), !.or_else = << >>])
  /\ UNCHANGED <<db, far, stale>>

(* forget_room_route: not for members, the invited or strangers.           *)
Forgettable(r, u) ==
  /\ db.cache[r][u] \notin {"join", "invite"}
  /\ db.state[r].member[u] \in {"leave", "ban"} \/ db.cache[r][u] = "leave"

RemoveAliases(t, r) ==
  LET as == local_aliases_for_room(t, r)
  IN [t EXCEPT !.alias_room = [a \in Aliases |-> IF a \in as THEN None ELSE @[a]],
               !.alias_user = [a \in Aliases |-> IF a \in as THEN None ELSE @[a]],
               !.listed = {p \in @ : p[1] # r}]

(* Rooms that the admin banned are for admins only.                        *)
banned_room_check(t, r, u) == r \in t.banned => u \in Admins

Call(s) ==
  LET q == req[s]
      r == Room(s)
      st == db.state[r]
  IN \/ Check(s, "permitted", banned_room_check(db, r, q.user))
     \/ Check(s, "not_banned", st.member[q.of] # "ban")
     \/ Check(s, "sender_joined", is_joined(db, r, q.user))
     \/ Check(s, "kickable", st.member[q.of] \in {"join", "invite", "knock"})
     \/ Check(s, "is_banned", st.member[q.of] = "ban")
     \/ Check(s, "resident", st.create # None /\ server_in_room(db, r))
     \/ Check(s, "deliver", Delivered(r))
     \/ Check(s, "unused", st.create = None)
     \/ Check(s, "alias_free", db.alias_room[q.of] = None)
     \/ Check(s, "alias_check", room_alias_check(db, q.of))
     \/ Check(s, "admin_inside", \E u \in Admins : is_joined(db, r, u))
     \/ Check(s, "is_member", is_joined(db, r, q.user))
     \/ Check(s, "owns_token", db.token.inviter = q.user)
     \/ Chosen(s, "named", {q.of})
     \/ Chosen(s, "everyone", Local)
     \/ Write(s, "issue_token", issue_token(db, q.user))
     \/ Write(s, "revoke_token", revoke_token(db))
     \/ Write(s, "save_token", save_token(db, q.of))
     \/ Check(s, "may_publish", st.create # None /\ (q.user \in Admins \/ Powerful(st, q.user)))
     \/ At(s, "ask") /\ ((Continue(s) /\ UNCHANGED <<db, far, stale>>) \/ Fail(s))
     \/ MarkUnguarded(s, "mark_left", q.user, mark_as_left(db, r, q.user))
     \/ MarkUnguarded(s, "mark_invited", q.of, mark_as_invited(db, r, q.of))
     \/ Write(s, "count", update_joined_count(db, r))
     \/ /\ At(s, "forget")
        /\ \/ Forgettable(r, q.user) /\ Write(s, "forget", forget(db, r, q.user))
           \/ ~ Forgettable(r, q.user) /\ Fail(s)
     \/ Write(s, "set_alias", set_alias(db, q.of, r, q.user))
     \/ /\ At(s, "alias_remove")
        /\ \/ user_can_remove_alias(db, q.of, q.user) /\ Write(s, "alias_remove", remove_alias(db, q.of))
           \/ ~ user_can_remove_alias(db, q.of, q.user) /\ Fail(s)
     \/ Write(s, "drop_aliases", RemoveAliases(db, r))
     \/ Write(s, "publish", [db EXCEPT !.public = @ \cup {r}])
     \/ Write(s, "unpublish", [db EXCEPT !.public = @ \ {r}])
     \/ Write(s, "ban", [db EXCEPT !.banned = @ \cup {r}])
     \/ Write(s, "disable", [db EXCEPT !.disabled = @ \cup {r}])
     \/ Write(s, "unban", [db EXCEPT !.banned = @ \ {r}])
     \/ Write(s, "enable", [db EXCEPT !.disabled = @ \ {r}])

Step(s) ==
  /\ \/ Call(s)
     \/ Lock(s)
     \/ Unlock(s)
     \/ Build(s)
     \/ Commit(s)
     \/ Make(s)
     \/ Send(s)
     \/ Force(s)
     \/ Join(s)
     \/ Authorise(s)
     \/ Leave(s)
     \/ LeaveEvent(s)
     \/ InviteIn(s)
     \/ FarActs(s)
     \/ Knock(s)
     \/ KnockAnyway(s)
     \/ Template(s)
     \/ Vouched(s)
     \/ Transfer(s, "transfer_rule", "rule")
     \/ Transfer(s, "transfer_levels", "levels")
     \/ Transfer(s, "transfer_rest", "rest")
     \/ MoveAliases(s)
     \/ ListMembers(s)
     \/ Evict(s)
     \/ Evicted(s)
     \/ JoinEach(s)
     \/ Demote(s)
     \/ Resolve(s)
     \/ CheckToken(s)
     \/ KnownDirect(s)
     \/ SharedRoom(s)
     \/ DirectRead(s)
     \/ DirectWrite(s)
     \/ Accepted(s)
     \/ MarkUsed(s)
     \/ Try(s)
     \/ Tried(s)
  /\ UNCHANGED plan

(* The process stops and starts: what it held in memory is gone.           *)
Restart ==
  /\ plan.crashes > 0
  /\ \E s \in Slots : req[s] # Idle
  /\ plan' = [plan EXCEPT !.crashes = @ - 1]
  /\ lock' = [r \in Rooms |-> 0]
  /\ req' = [s \in Slots |-> Idle]
  /\ UNCHANGED <<db, far, stale>>

Next == Restart \/ \E s \in Slots : Arrive(s) \/ Step(s)

(* Every handler is polled until it ends, and every request to the other   *)
(* server is answered or times out.                                        *)
Spec == Init /\ [][Next]_vars /\ \A s \in Slots : WF_vars(Step(s))

-----------------------------------------------------------------------------
(* Properties.                                                             *)

(* Nobody is at work on the membership of u.                               *)
Settled(r, u) ==
  /\ lock[r] = 0
  /\ \A s \in Slots : r \in {req[s].room, req[s].of} => u \notin {req[s].user, req[s].of}

(* The state cache lists a local user as joined if and only if the room's  *)
(* current state does, however joins, leaves, kicks and invites meet and   *)
(* wherever the server stops: /sync, /send and server_in_room go by the    *)
(* cache, the auth rules by the state.  Three kinds of writes are          *)
(* excepted: mark_as_left and mark_as_invited without the room's guard,    *)
(* where what the handler saw was overtaken; leaving a banned room without *)
(* event; and what an upgrade overwrites that lacks the room's guard.      *)
CacheAgrees ==
  \A r \in Rooms, u \in Local :
    Settled(r, u) /\ <<r, u>> \notin stale =>
      (is_joined(db, r, u) <=> db.state[r].member[u] = "join")

(* What a step changes in the state of a room, but for its closing.        *)
Changed(r) ==
  {k \in Keys \ {"closed"} : db.state[r][k] # db'.state[r][k]}
    \cup {u \in Users : db.state[r].member[u] # db'.state[r].member[u]}

Closing(r) == \E s \in Slots : req[s].route = "upgrade" /\ req[s].room = r /\ lock[req[s].of] = s

(* No state event is lost: a step changes one entry of a room's state, or  *)
(* takes over the state of another server.  The event that closes an       *)
(* upgraded room, which is sent with the guard of the new room, is         *)
(* excepted: it can be lost, and what it overwrites can.                   *)
NothingLost ==
  [][\A r \in Rooms : \/ Cardinality(Changed(r)) <= 1
                       \/ \E s \in Slots : At(s, "force")
                       \/ Closing(r)]_vars

Whole(r) ==
  LET st == db.state[r]
  IN st.create # None /\ st.levels # None /\ st.rule # None /\ st.rest # None

(* What leads to a room of this server leads to one that is there, with    *)
(* its power levels, join rules and the rest, even if creation or upgrade  *)
(* fails or the server stops half way: local aliases, the directory, and   *)
(* the tombstone of a room upgraded to a version with hashed ids.  What a  *)
(* user lists as a direct room exists.                                     *)
LeadsToWhole ==
  /\ \A a \in Aliases : db.alias_room[a] # None => Whole(db.alias_room[a])
  /\ \A r \in db.public : Whole(r)
  /\ \A r \in Rooms : db.state[r].tomb = Next12 => Whole(Next12)
  /\ \A d \in db.direct : db.state[d[3]].create # None

(* Every request ends: no handler waits for ever for the guard of a room,  *)
(* its own included.                                                       *)
Finishes == \A s \in Slots : req[s] # Idle ~> req[s] = Idle

(* Who made a room can still act in it once it has its power levels.       *)
UpgraderKeepsPower ==
  \A r \in {Next11, Next12} :
    db.state[r].levels # None => Powerful(db.state[r], db.state[r].create)
=============================================================================
