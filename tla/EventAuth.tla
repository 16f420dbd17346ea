------------------------------ MODULE EventAuth ------------------------------
(***************************************************************************)
(* The authorisation rules of a room: which state an event is checked      *)
(* against (auth_types_for_event) and whether it passes (auth_check).      *)
(*                                                                         *)
(* An event is a record with fields type, key (the state key, or NoKey),   *)
(* sender, auth and prev (sets of event ids), and the fields of its        *)
(* content that the rules read.  Contents are well formed and all events   *)
(* are of one room.  A state is a function from <<type, key>> to events.   *)
(***************************************************************************)
EXTENDS Integers, FiniteSets

CONSTANTS
  Users,      \* user ids
  ServerOf,   \* the server name of every user
  NoKey,      \* no state key
  None        \* an absent field or event

IntMax == 1000                  \* Int::MAX
Unset == -1000                  \* None: less than every Some

(* RoomVersion: the rules that differ between room versions.               *)
RoomVersion(n) ==
  [hashes |-> n >= 12, privileged |-> n >= 12, createSender |-> n >= 11,
   knockRestricted |-> n >= 10, knocking |-> n >= 7, notifications |-> n >= 6,
   aliases |-> n < 6, redactions |-> n < 3]

CreateKey == <<"create", "">>
PowerKey == <<"power", "">>
RulesKey == <<"rules", "">>
Member(u) == <<"member", u>>

Fetch(st, k) == IF k \in DOMAIN st THEN st[k] ELSE None

(* The state an event is authorised by.                                    *)
AuthTypes(v, e) ==
  CASE e.type = "create" -> {}
    [] e.type # "create" ->
       {PowerKey, Member(e.sender)}
       \cup (IF v.hashes THEN {} ELSE {CreateKey})
       \cup (IF e.type # "member" THEN {} ELSE
               {Member(e.key)}
               \cup (IF e.membership \notin {"join", "invite", "knock"} THEN {}
                     ELSE {RulesKey} \cup {Member(u) : u \in {e.via} \ {None}})
               \cup (IF e.membership # "invite" THEN {}
                     ELSE {<<"tpi", t>> : t \in {e.token} \ {None}}))

----------------------------------------------------------------------------
(* Power levels.                                                           *)

(* RoomPowerLevelsEventContent::default(): a room without power levels.    *)
DefaultLevels ==
  [users |-> << >>, users_default |-> 0, events |-> << >>, events_default |-> 0,
   state_default |-> 50, ban |-> 50, redact |-> 50, kick |-> 50, invite |-> 0,
   notifications |-> 50]

Levels(pl) == IF pl = None THEN DefaultLevels ELSE pl.levels

Get(f, x) == IF x \in DOMAIN f THEN f[x] ELSE Unset

(* get_user_power, or users_default.                                       *)
UserPower(levels, u) ==
  IF u \in DOMAIN levels.users THEN levels.users[u] ELSE levels.users_default

Creators(v, create) ==
  {create.sender} \cup (IF v.privileged THEN create.additional ELSE {})

(* Is the user privileged as a creator, in a room with or without levels.  *)
IsCreator(v, create, u, havePls) ==
  IF v.privileged THEN u \in Creators(v, create)
  ELSE ~havePls /\ u = (IF v.createSender THEN create.sender ELSE create.creator)

(* The sender's level for everything but membership.                       *)
SenderPower(v, e, pl, create) ==
  IF v.privileged /\ e.sender \in Creators(v, create) THEN IntMax
  ELSE IF pl # None THEN UserPower(pl.levels, e.sender)
  ELSE IF e.sender = (IF v.createSender THEN create.sender ELSE create.creator) THEN 100
  ELSE 0

GetSendLevel(e, pl) ==
  IF e.type \in DOMAIN Levels(pl).events THEN Levels(pl).events[e.type]
  ELSE IF e.key # NoKey THEN Levels(pl).state_default ELSE Levels(pl).events_default

CanSendEvent(e, pl, level) ==
  /\ level >= GetSendLevel(e, pl)
  /\ e.key \in Users => e.key = e.sender

(* Mutation of MayChange: the new level is not checked.                    *)
MayChangeNewUnchecked(old, new, level) == old = new \/ old <= level

(* One entry of a list of levels may change if neither value exceeds the   *)
(* sender's.                                                               *)
MayChange(old, new, level) == old = new \/ (old <= level /\ new <= level)

(* The levels that are serialised: those that are not the default (ruma).  *)
Serialised(levels, name) == levels[name] # DefaultLevels[name]

CheckPowerLevels(v, e, pl, level, create) ==
  LET old == pl.levels
      new == e.levels IN
  /\ e.key = ""
  /\ \/ pl = None
     \/ /\ \A u \in DOMAIN old.users \cup DOMAIN new.users :
             LET o == Get(old.users, u)
                 n == Get(new.users, u) IN
             /\ v.privileged => ~(u \in Creators(v, create) /\ n # Unset)
             /\ o # n /\ u # e.sender => o # level
             /\ MayChange(o, n, level)
        /\ \A t \in DOMAIN old.events \cup DOMAIN new.events :
             MayChange(Get(old.events, t), Get(new.events, t), level)
        /\ v.notifications => MayChange(old.notifications, new.notifications, level)
        /\ \A name \in {"users_default", "events_default", "state_default", "ban",
                        "redact", "kick", "invite"} :
             Serialised(old, name) /\ Serialised(new, name)
               => old[name] <= level /\ new[name] <= level

(* Room versions 1 and 2: a redaction needs the level or the same server.  *)
CheckRedaction(e, level, pl) ==
  level >= Levels(pl).redact \/ ServerOf[e.sender] = e.redactsServer

----------------------------------------------------------------------------
(* Membership.                                                             *)

MembershipOf(ev) == IF ev = None THEN "leave" ELSE ev.membership

(* The level in a membership check: members only, or as a creator.         *)
MembershipPower(v, create, levels, u, counts) ==
  IF v.privileged /\ u \in Creators(v, create) THEN IntMax
  ELSE IF u \in DOMAIN levels.users THEN levels.users[u]
  ELSE IF counts THEN levels.users_default ELSE Unset

(* The user a restricted join is authorised by is joined and may invite.   *)
JoinAuthorised(v, e, st, create) ==
  LET pl == Fetch(st, PowerKey) IN
  /\ e.via # None
  /\ MembershipOf(Fetch(st, Member(e.via))) = "join"
  /\ \/ IsCreator(v, create, e.via, pl # None)
     \/ pl = None
     \/ UserPower(pl.levels, e.via) >= pl.levels.invite

JoinRule(st) == IF RulesKey \in DOMAIN st THEN st[RulesKey].rule ELSE "invite"

JoinAllowed(v, e, st, create) ==
  LET target == MembershipOf(Fetch(st, Member(e.key)))
      invited == target \in {"join", "invite"}
      havePls == PowerKey \in DOMAIN st
      rule == JoinRule(st) IN
  \/ /\ e.prev = {create.id}
     /\ IsCreator(v, create, e.sender, havePls)
     /\ IsCreator(v, create, e.key, havePls)
  \/ /\ e.sender = e.key
     /\ target # "ban"
     /\ \/ rule = "public"
        \/ rule = "invite" /\ invited
        \/ rule = "knock" /\ v.knocking /\ invited
        \/ /\ rule = "restricted" \/ (rule = "knock_restricted" /\ v.knockRestricted)
           /\ invited \/ JoinAuthorised(v, e, st, create)

VerifyThirdPartyInvite(e, tpi) ==
  /\ e.key = e.mxid
  /\ tpi # None
  /\ tpi.key = e.token
  /\ e.sender = tpi.sender
  /\ e.token \in tpi.publicKeys

InviteAllowed(v, e, st, create, tpi) ==
  LET target == MembershipOf(Fetch(st, Member(e.key)))
      levels == Levels(Fetch(st, PowerKey))
      joined == MembershipOf(Fetch(st, Member(e.sender))) = "join" IN
  IF e.token # None
  THEN target # "ban" /\ VerifyThirdPartyInvite(e, tpi)
  ELSE /\ joined
       /\ target \notin {"join", "ban"}
       /\ \/ IsCreator(v, create, e.sender, PowerKey \in DOMAIN st)
          \/ MembershipPower(v, create, levels, e.sender, joined) >= levels.invite

(* A user leaves, is kicked, or is unbanned.                               *)
LeaveAllowed(v, e, st, create) ==
  LET target == MembershipOf(Fetch(st, Member(e.key)))
      levels == Levels(Fetch(st, PowerKey))
      joined == MembershipOf(Fetch(st, Member(e.sender))) = "join"
      creator == IsCreator(v, create, e.sender, PowerKey \in DOMAIN st)
      power == MembershipPower(v, create, levels, e.sender, joined) IN
  IF e.sender = e.key THEN target \in {"join", "invite", "knock"}
  ELSE /\ joined
       /\ target = "ban" => creator \/ power >= levels.ban
       /\ target \notin {"ban", "leave"} =>
            \/ creator
            \/ /\ power >= levels.kick
               /\ power > MembershipPower(v, create, levels, e.key, FALSE)

BanAllowed(v, e, st, create) ==
  LET levels == Levels(Fetch(st, PowerKey))
      joined == MembershipOf(Fetch(st, Member(e.sender))) = "join"
      power == MembershipPower(v, create, levels, e.sender, joined) IN
  /\ joined
  /\ \/ IsCreator(v, create, e.sender, PowerKey \in DOMAIN st)
     \/ /\ power >= levels.ban
        /\ MembershipPower(v, create, levels, e.key, FALSE) < power

KnockAllowed(v, e, st) ==
  /\ v.knocking
  /\ \/ JoinRule(st) = "knock"
     \/ JoinRule(st) = "knock_restricted" /\ v.knockRestricted
  /\ e.sender = e.key
  /\ MembershipOf(Fetch(st, Member(e.sender))) \notin {"ban", "invite", "join"}

ValidMembershipChange(v, e, st, create, tpi) ==
  \/ e.membership = "join" /\ JoinAllowed(v, e, st, create)
  \/ e.membership = "invite" /\ InviteAllowed(v, e, st, create, tpi)
  \/ e.membership = "leave" /\ LeaveAllowed(v, e, st, create)
  \/ e.membership = "ban" /\ BanAllowed(v, e, st, create)
  \/ e.membership = "knock" /\ KnockAllowed(v, e, st)

----------------------------------------------------------------------------
(* The create event has no predecessor; before version 11 it names the     *)
(* creator.                                                                *)
CreateAllowed(v, e) ==
  /\ e.prev = {}
  /\ v.createSender \/ v.privileged \/ e.creator # None

(* The rules that do not depend on the type of the event.                  *)
CommonRules(v, e, create) ==
  /\ v.hashes # (create.id \in e.auth)
  /\ v.hashes \/ create.federate \/ ServerOf[create.sender] = ServerOf[e.sender]

(* Everything else is sent by a member with the level for its type.        *)
EventAllowed(v, e, st, create) ==
  LET pl == Fetch(st, PowerKey)
      level == SenderPower(v, e, pl, create) IN
  /\ MembershipOf(Fetch(st, Member(e.sender))) = "join"
  /\ IF e.type = "tpi" THEN level >= Levels(pl).invite
     ELSE /\ CanSendEvent(e, pl, level)
          /\ e.type = "power" => CheckPowerLevels(v, e, pl, level, create)
          /\ e.type = "redaction" /\ v.redactions => CheckRedaction(e, level, pl)

AuthCheck(v, e, tpi, st, create) ==
  IF e.type = "create" THEN CreateAllowed(v, e)
  ELSE /\ CommonRules(v, e, create)
       /\ CASE e.type = "aliases" /\ v.aliases -> e.key = ServerOf[e.sender]
            [] e.type = "member" -> ValidMembershipChange(v, e, st, create, tpi)
            [] OTHER -> EventAllowed(v, e, st, create)
=============================================================================
