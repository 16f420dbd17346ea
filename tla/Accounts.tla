------------------------------ MODULE Accounts ------------------------------
(***************************************************************************)
(* Accounts, devices, access tokens, email addresses and pushers: the      *)
(* client routes and admin commands that change them, over the services    *)
(* users, threepid, uiaa, password_reset, firstrun, appservice and pusher. *)
(*                                                                         *)
(* A route or command is the list of the service calls that it makes, in   *)
(* its order; a call that returns an error ends the request there and      *)
(* undoes nothing.  Each call is one step, requests run side by side, and  *)
(* the process may stop between any two steps: the tables stay, the        *)
(* requests and what the services hold in memory are gone.                 *)
(***************************************************************************)
EXTENDS Integers, Sequences, FiniteSets

CONSTANTS
  Users,              \* local users
  Devices,            \* device ids
  Mails,              \* email addresses, normalised
  Secrets,            \* client secrets: one for each attempt of a client
  Slots,              \* requests that may be under way at once
  Workloads,          \* sets of routes and commands; a behaviour uses one set
  AllowRegistration,  \* allow_registration
  SuspendOnRegister,  \* suspend_on_register
  Appservice,         \* the sender user of the appservice, one of Users
  AsToken,            \* its as_token
  NoToken,            \* the empty token of a dehydrated device
  None,               \* no row, no value
  MaxTokens,          \* bound: access tokens generated
  MaxSessions,        \* bound: validation sessions created
  MaxRequests,        \* bound: requests
  MaxCrashes          \* bound: restarts

VARIABLES
  db,        \* the tables
  mem,       \* what the services hold in memory
  req,       \* the requests under way
  made,      \* tokens, sessions, requests and restarts so far
  workload   \* what the clients and admins of this behaviour do

vars == <<db, mem, req, made, workload>>

Keys == Users \X Devices
Tokens == (1 .. MaxTokens) \cup {AsToken, NoToken}
Sids == 1 .. MaxSessions
Session == [mail : Mails, secret : Secrets, state : {"pending", "validated"}]

-----------------------------------------------------------------------------
(* Startup.                                                                *)

(* users: userid_password holds a hash ("on") or "" ("off").               *)
exists(t, u) == t.account[u] # "none"
is_active(t, u) == t.account[u] = "on"

(* firstrun: no local user but the server's has a password.                *)
FirstRun(t) == \A u \in Users : ~ is_active(t, u)

Memory(t) ==
  [sessions |-> [i \in Sids |-> None],
   client_secrets |-> [c \in Secrets |-> None],
   uiaa |-> {},
   first_run |-> FirstRun(t),
   appservice |-> t.appservice]

(* The server starts empty, or with accounts that have an email address,   *)
(* one of which may be logged in.                                          *)
InitDb(mail) ==
  [account |-> [u \in Users |-> IF mail[u] = None THEN "none" ELSE "on"],
   locked |-> {}, login_disabled |-> {}, suspended |-> {},
   devices |-> {},
   token_of |-> [k \in Keys |-> None],
   owner_of |-> [t \in Tokens |-> None],
   email_of |-> mail,
   localpart_of |-> [m \in Mails |-> IF \E u \in Users : mail[u] = m
                                     THEN CHOOSE u \in Users : mail[u] = m ELSE None],
   resets |-> {},
   dehydrated |-> [u \in Users |-> None],
   pushers |-> {},
   admins |-> {},
   appservice |-> FALSE]

-----------------------------------------------------------------------------
(* Service calls that write tables: each maps the tables to the tables.    *)

set_password(t, u) == [t EXCEPT !.account[u] = "on"]
create(t, u) == set_password(t, u)
clear_password(t, u) == [t EXCEPT !.account[u] = "off"]

set_token_keeps_old(t, u, d, tok) ==
  [t EXCEPT !.token_of[<<u, d>>] = tok, !.owner_of[tok] = <<u, d>>]

(* set_token, for a device that has metadata: the old token of the device  *)
(* is taken out of token_userdeviceid, the new one goes into both tables.  *)
set_token(t, u, d, tok) ==
  LET old == t.token_of[<<u, d>>]
      removed == [k \in Tokens |-> IF k = old THEN None ELSE t.owner_of[k]]
  IN [t EXCEPT !.token_of[<<u, d>>] = tok,
               !.owner_of = [removed EXCEPT ![tok] = <<u, d>>]]

(* create_device up to the point where set_token may refuse the token.     *)
put_metadata(t, u, d) == [t EXCEPT !.devices = @ \cup {<<u, d>>}]

create_device(t, u, d, tok) == set_token(put_metadata(t, u, d), u, d, tok)

remove_dehydrated_device(t, u, d) ==
  IF t.dehydrated[u] = d THEN [t EXCEPT !.dehydrated[u] = None] ELSE t

remove_device(t, u, d) ==
  LET old == t.token_of[<<u, d>>]
      rest == remove_dehydrated_device(t, u, d)
  IN [rest EXCEPT !.token_of[<<u, d>>] = None,
                  !.owner_of = [k \in Tokens |-> IF k = old THEN None ELSE rest.owner_of[k]],
                  !.devices = @ \ {<<u, d>>}]

(* set_dehydrated_device: the one before it, if any, is removed first.     *)
set_dehydrated_device(t, u, d) ==
  LET cleared == IF t.dehydrated[u] = None THEN t ELSE remove_device(t, u, t.dehydrated[u])
  IN [create_device(cleared, u, d, NoToken) EXCEPT !.dehydrated[u] = d]

(* threepid: the two tables of an address.                                 *)
get_localpart_for_email(t, m) == t.localpart_of[m]

disassociate_localpart_email(t, u) ==
  LET m == t.email_of[u]
  IN [t EXCEPT !.email_of[u] = None,
               !.localpart_of = [n \in Mails |-> IF n = m THEN None ELSE @[n]]]

MayAssociateAny(t, u, m) == TRUE

MayAssociate(t, u, m) == get_localpart_for_email(t, m) \in {u, None}

associate_localpart_email(t, u, m) ==
  IF get_localpart_for_email(t, m) = u
  THEN t
  ELSE LET cleared == disassociate_localpart_email(t, u)
       IN [cleared EXCEPT !.email_of[u] = m, !.localpart_of[m] = u]

set_pusher(t, u, d) == [t EXCEPT !.pushers = @ \cup {<<u, d>>}]
delete_pushers(t, u, ds) == [t EXCEPT !.pushers = @ \ ({u} \X ds)]

suspend_account(t, u) == [t EXCEPT !.suspended = @ \cup {u}]
unsuspend_account(t, u) == [t EXCEPT !.suspended = @ \ {u}]
lock_account(t, u) == [t EXCEPT !.locked = @ \cup {u}]
unlock_account(t, u) == [t EXCEPT !.locked = @ \ {u}]
disable_login(t, u) == [t EXCEPT !.login_disabled = @ \cup {u}]
enable_login(t, u) == [t EXCEPT !.login_disabled = @ \ {u}]

(* password_reset: a user has at most one reset token; check_token also    *)
(* drops one that is too old.                                              *)
issue_token(t, u) == [t EXCEPT !.resets = @ \cup {u}]
check_token(t, u) == u \in t.resets

(* make_user_admin: the user joins the admin room.                         *)
make_user_admin(t, u) == [t EXCEPT !.admins = @ \cup {u}]

(* The rooms that full_user_deactivate leaves; one is the admin room.      *)
update_all_rooms(t, u) == [t EXCEPT !.admins = @ \ {u}]

(* start_appservice: its user gets an empty password when it has none yet  *)
(* or is deactivated, and is left alone otherwise.                         *)
start_appservice(t) ==
  IF is_active(t, Appservice) THEN t ELSE clear_password(t, Appservice)

Idle == [op |-> "idle", todo |-> << >>]

Init ==
  /\ \E mail \in [Users -> Mails \cup {None}] :
       /\ \A u, v \in Users : mail[u] = mail[v] => u = v \/ mail[u] = None
       /\ db \in {InitDb(mail)} \cup
            {create_device(InitDb(mail), k[1], k[2], 1) : k \in {k \in Keys : mail[k[1]] # None}}
  /\ mem = Memory(db)
  /\ req = [s \in Slots |-> Idle]
  /\ made = [tokens |-> Cardinality(db.devices), sessions |-> 0, requests |-> 0, crashes |-> 0]
  /\ workload \in Workloads

-----------------------------------------------------------------------------
(* The requests: what each route or command calls, in order.               *)

SubmitToken == <<"validate">>
RequestRegistrationToken == <<"email_free", "issue">>
LoginRoute == <<"handle_login", "issue">>
RequestPasswordChangeToken == <<"mail_known", "issue">>
Request3pidToken == <<"email_free", "issue">>

Register(login) ==
  <<"email_free", "name_free", "consume", "same_mail", "create", "associate">>
    \o (IF login THEN <<"device">> ELSE << >>) \o <<"empower">>
CreateUser == <<"name_free", "create", "empower">>
FinishLogin == <<"validate", "consume", "account", "may_login", "device_exists",
                 "give_token">>

RemoveDevices == <<"list", "remove_listed">>
Logout == <<"remove_own", "own_pushers">>
LogoutAll == RemoveDevices \o <<"all_pushers">>
ChangePassword(out) ==
  <<"uiaa", "set_password">> \o
    (IF out THEN <<"list_others", "remove_listed", "other_pushers">> ELSE << >>)
ResetPassword(out) ==
  <<"consume", "account", "set_password">> \o
    (IF out THEN RemoveDevices \o <<"all_pushers">> ELSE << >>)

DeactivateAccount == RemoveDevices \o <<"clear_password">>
FullUserDeactivate == DeactivateAccount \o <<"disassociate", "all_pushers", "leave_rooms">>
Deactivate == <<"uiaa">> \o FullUserDeactivate
AdminDeactivate(leave) ==
  DeactivateAccount \o (IF leave THEN FullUserDeactivate ELSE << >>)

AdminResetPassword(out) == <<"set_password">> \o (IF out THEN RemoveDevices ELSE << >>)
IssueResetLink == <<"issue_reset">>
PostPasswordReset == <<"check_reset", "consume_reset">>

Add3pid == <<"uiaa", "consume", "associate">>
Delete3pid == <<"disassociate">>
ChangeEmail(set) == IF set THEN <<"associate">> ELSE <<"disassociate">>

UpdateDevice == <<"get_device", "put_device">>
DeleteDevice == <<"uiaa", "remove_target">>
PutDehydrated == <<"set_dehydrated">>
DeleteDehydrated == <<"get_dehydrated", "remove_target">>
SetPusher == <<"set_pusher">>

Suspend == <<"restrictable", "suspend">>
Unsuspend == <<"known", "unsuspend">>
Lock == <<"restrictable", "lock">>
Unlock == <<"unlock">>
AdminLogout == <<"restrictable">> \o RemoveDevices
DisableLogin == <<"restrictable", "disable_login">>
EnableLogin == <<"known", "enable_login">>

RegisterAppservice == <<"as_collision", "as_insert", "as_start">>
UnregisterAppservice == <<"as_remove">>
AppserviceDevice == <<"as_device">>

(* What an operation calls; some take a flag from the request.             *)
Programs ==
  [submit |-> {SubmitToken}, register_code |-> {RequestRegistrationToken},
   login_code |-> {LoginRoute}, reset_code |-> {RequestPasswordChangeToken},
   link_code |-> {Request3pidToken},
   register |-> {Register(TRUE), Register(FALSE)}, create_user |-> {CreateUser},
   login |-> {FinishLogin}, logout |-> {Logout}, logout_all |-> {LogoutAll},
   change_password |-> {ChangePassword(TRUE), ChangePassword(FALSE)},
   reset |-> {ResetPassword(TRUE), ResetPassword(FALSE)},
   deactivate |-> {Deactivate},
   admin_deactivate |-> {AdminDeactivate(TRUE), AdminDeactivate(FALSE)},
   admin_reset |-> {AdminResetPassword(TRUE), AdminResetPassword(FALSE)},
   reset_link |-> {IssueResetLink}, web_reset |-> {PostPasswordReset},
   add_3pid |-> {Add3pid}, delete_3pid |-> {Delete3pid},
   change_email |-> {ChangeEmail(TRUE), ChangeEmail(FALSE)},
   update_device |-> {UpdateDevice}, delete_device |-> {DeleteDevice},
   put_dehydrated |-> {PutDehydrated}, delete_dehydrated |-> {DeleteDehydrated},
   set_pusher |-> {SetPusher},
   suspend |-> {Suspend}, unsuspend |-> {Unsuspend}, lock |-> {Lock}, unlock |-> {Unlock},
   admin_logout |-> {AdminLogout}, disable_login |-> {DisableLogin},
   enable_login |-> {EnableLogin},
   as_register |-> {RegisterAppservice}, as_unregister |-> {UnregisterAppservice},
   as_device |-> {AppserviceDevice}]

ASSUME AccountsAssumption ==
  /\ MaxTokens \in Nat \ {0}
  /\ MaxSessions \in Nat
  /\ Appservice \in Users
  /\ {AsToken, NoToken} \cap (1 .. MaxTokens) = {}
  /\ None \notin UNION {Users, Devices, Mails, Secrets, Keys, Tokens, Sids, Session}
  /\ Workloads \subseteq SUBSET DOMAIN Programs

(* Requests of a logged-in device, and those that name a user, an address  *)
(* or a client secret; every other argument is left out.                   *)
Authenticated ==
  {"link_code", "logout", "logout_all", "change_password", "deactivate", "add_3pid",
   "delete_3pid", "update_device", "delete_device", "put_dehydrated",
   "delete_dehydrated", "set_pusher"}
NamesUser ==
  {"login_code", "register", "create_user", "admin_deactivate", "admin_reset",
   "reset_link", "web_reset", "change_email", "suspend", "unsuspend", "lock", "unlock",
   "admin_logout", "disable_login", "enable_login"}
NamesMail == {"register_code", "reset_code", "link_code", "register", "change_email"}
NamesSecret ==
  {"submit", "register_code", "login_code", "reset_code", "link_code", "register",
   "login", "reset", "add_3pid"}
NamesDevice ==
  {"register", "login", "update_device", "delete_device", "put_dehydrated", "as_device"}

(* auth: the token of the request belongs to a device, and the user is not *)
(* locked unless the request is a logout.                                  *)
Authorized(u, d, op) ==
  /\ \E tok \in Tokens \ {NoToken} : db.owner_of[tok] = <<u, d>>
  /\ u \in db.locked => op \in {"logout", "logout_all"}

(* Registration is open, or the first account is still to be made.         *)
Accepting(op) ==
  /\ op \in {"register", "register_code"} => AllowRegistration \/ mem.first_run
  /\ op = "as_device" => mem.appservice

Args(S, used) == IF used THEN S ELSE {None}

Arrive(s) ==
  /\ req[s] = Idle
  /\ made.requests < MaxRequests
  /\ \E op \in workload : \E todo \in Programs[op] :
     \E u \in Args(Users, op \in Authenticated \cup NamesUser) :
     \E d \in Args(Devices, op \in Authenticated) :
     \E e \in Args(Devices, op \in NamesDevice) :
     \E m \in Args(Mails, op \in NamesMail) :
     \E c \in Args(Secrets, op \in NamesSecret) :
       /\ op \in Authenticated => Authorized(u, d, op)
       /\ Accepting(op)
       /\ req' = [req EXCEPT ![s] =
            [op |-> op, todo |-> todo, user |-> u, dev |-> d, target |-> e, mail |-> m,
             secret |-> c, sid |-> IF c = None THEN None ELSE mem.client_secrets[c],
             verified |-> None, listed |-> {}, found |-> FALSE]]
  /\ made' = [made EXCEPT !.requests = @ + 1]
  /\ UNCHANGED <<db, mem, workload>>

-----------------------------------------------------------------------------
(* One call of a request.                                                  *)

At(s, call) == req[s].todo # << >> /\ Head(req[s].todo) = call

Left(r) == IF Len(r.todo) = 1 THEN Idle ELSE [r EXCEPT !.todo = Tail(@)]

(* The request goes on as r.                                               *)
Continue(s, r) == req' = [req EXCEPT ![s] = Left(r)] /\ UNCHANGED workload
Fail(s) == req' = [req EXCEPT ![s] = Idle] /\ UNCHANGED <<db, mem, made, workload>>

Check(s, call, ok) ==
  /\ At(s, call)
  /\ \/ ok /\ Continue(s, req[s]) /\ UNCHANGED <<db, mem, made>>
     \/ ~ ok /\ Fail(s)

Write(s, call, t) ==
  /\ At(s, call)
  /\ db' = t
  /\ Continue(s, req[s])
  /\ UNCHANGED <<mem, made>>

(* Validation sessions.  A client secret has one session; asking again     *)
(* sends a new code for it, or nothing when it is validated already.       *)
create_session(s) ==
  LET i == made.sessions + 1 IN
  /\ made.sessions < MaxSessions
  /\ made' = [made EXCEPT !.sessions = i]
  /\ mem' = [mem EXCEPT
       !.sessions[i] = [mail |-> req[s].mail, secret |-> req[s].secret, state |-> "pending"],
       !.client_secrets[req[s].secret] = i]

issue_always_creates(s) ==
  /\ At(s, "issue")
  /\ create_session(s)
  /\ Continue(s, req[s])
  /\ UNCHANGED db

issue_validation_session(s) ==
  /\ At(s, "issue")
  /\ IF mem.client_secrets[req[s].secret] = None
     THEN create_session(s)
     ELSE UNCHANGED <<mem, made>>
  /\ Continue(s, req[s])
  /\ UNCHANGED db

(* try_validate_session: the code is the current one and not too old, or   *)
(* the session is validated already.                                       *)
try_validate_session(s) ==
  /\ At(s, "validate")
  /\ \/ /\ req[s].sid # None
        /\ mem.sessions[req[s].sid] # None
        /\ mem' = [mem EXCEPT !.sessions[req[s].sid].state = "validated"]
        /\ Continue(s, req[s])
        /\ UNCHANGED <<db, made>>
     \/ /\ req[s].sid # None
        /\ mem.sessions[req[s].sid] # None => mem.sessions[req[s].sid].state = "pending"
        /\ Fail(s)
     \/ req[s].sid = None /\ Fail(s)

Consumable(r) ==
  /\ r.sid # None
  /\ mem.sessions[r.sid] # None
  /\ mem.sessions[r.sid].secret = r.secret
  /\ mem.sessions[r.sid].state = "validated"

(* remove_session: the session leaves both maps.                           *)
consume_valid_session(s) ==
  /\ At(s, "consume")
  /\ \/ /\ Consumable(req[s])
        /\ LET x == mem.sessions[req[s].sid] IN
           /\ mem' = [mem EXCEPT !.sessions[req[s].sid] = None,
                                 !.client_secrets[x.secret] = None]
           /\ Continue(s, [req[s] EXCEPT !.verified = x.mail])
        /\ UNCHANGED <<db, made>>
     \/ ~ Consumable(req[s]) /\ Fail(s)

(* uiaa: without auth data a session is opened and the request is refused; *)
(* with the password of an active account the session is used up.  A wrong *)
(* password, or a session that is gone, changes nothing.                   *)
authenticate_password(s) ==
  LET u == req[s].user IN
  /\ At(s, "uiaa")
  /\ \/ /\ mem' = [mem EXCEPT !.uiaa = @ \cup {u}]
        /\ req' = [req EXCEPT ![s] = Idle]
        /\ UNCHANGED <<db, made, workload>>
     \/ /\ u \in mem.uiaa
        /\ is_active(db, u)
        /\ mem' = [mem EXCEPT !.uiaa = @ \ {u}]
        /\ Continue(s, req[s])
        /\ UNCHANGED <<db, made>>

(* handle_login, then the address that the code goes to.                   *)
handle_login(s) ==
  LET u == req[s].user
      ok == /\ u \notin db.locked \cup db.login_disabled
            /\ is_active(db, u)
            /\ db.email_of[u] # None
  IN /\ At(s, "handle_login")
     /\ \/ ok /\ Continue(s, [req[s] EXCEPT !.mail = db.email_of[u]]) /\ UNCHANGED <<db, mem, made>>
        \/ ~ ok /\ Fail(s)

(* The account of the verified address.                                    *)
account_of_email(s) ==
  LET u == get_localpart_for_email(db, req[s].verified) IN
  /\ At(s, "account")
  /\ \/ u # None /\ Continue(s, [req[s] EXCEPT !.user = u]) /\ UNCHANGED <<db, mem, made>>
     \/ u = None /\ Fail(s)

device_exists(s) ==
  /\ At(s, "device_exists")
  /\ Continue(s, [req[s] EXCEPT !.found = <<req[s].user, req[s].target>> \in db.devices])
  /\ UNCHANGED <<db, mem, made>>

(* A new token for the device: set_token needs its metadata, create_device *)
(* makes it.                                                               *)
NewToken(s, found) ==
  LET k == <<req[s].user, req[s].target>>
      tok == made.tokens + 1
  IN /\ made.tokens < MaxTokens
     /\ \/ /\ found => k \in db.devices
           /\ db' = IF found THEN set_token(db, k[1], k[2], tok)
                    ELSE create_device(db, k[1], k[2], tok)
           /\ made' = [made EXCEPT !.tokens = tok]
           /\ Continue(s, req[s])
           /\ UNCHANGED mem
        \/ found /\ k \notin db.devices /\ Fail(s)

complete_login(s) == At(s, "give_token") /\ NewToken(s, req[s].found)
register_device(s) == At(s, "device") /\ NewToken(s, FALSE)

(* A loop over all_device_ids: the list is the one at its start, and       *)
(* devices are removed one by one.                                         *)
list_devices(s, call, devs) ==
  /\ At(s, call)
  /\ Continue(s, [req[s] EXCEPT !.listed = devs])
  /\ UNCHANGED <<db, mem, made>>

DevicesOf(u) == {d \in Devices : <<u, d>> \in db.devices}

remove_listed(s) ==
  /\ At(s, "remove_listed")
  /\ \/ \E d \in req[s].listed :
          /\ db' = remove_device(db, req[s].user, d)
          /\ req' = [req EXCEPT ![s].listed = @ \ {d}]
          /\ UNCHANGED <<mem, made, workload>>
     \/ req[s].listed = {} /\ Continue(s, req[s]) /\ UNCHANGED <<db, mem, made>>

(* empower_first_user, then suspend_on_register in the register route.     *)
empower_first_user(s) ==
  LET u == req[s].user IN
  /\ At(s, "empower")
  /\ db' = IF mem.first_run THEN make_user_admin(db, u)
           ELSE IF SuspendOnRegister /\ req[s].op = "register"
           THEN suspend_account(db, u)
           ELSE db
  /\ mem' = [mem EXCEPT !.first_run = FALSE]
  /\ Continue(s, req[s])
  /\ UNCHANGED made

(* delete_dehydrated_device_route reads the id of the device first.        *)
get_dehydrated_device_id(s) ==
  LET d == db.dehydrated[req[s].user] IN
  /\ At(s, "get_dehydrated")
  /\ \/ d # None /\ Continue(s, [req[s] EXCEPT !.target = d]) /\ UNCHANGED <<db, mem, made>>
     \/ d = None /\ Fail(s)

put_dehydrated(s) ==
  LET u == req[s].user
      d == req[s].target
      ok == db.dehydrated[u] # None \/ <<u, d>> \notin db.devices
  IN /\ At(s, "set_dehydrated")
     /\ exists(db, u)
     /\ \/ ok /\ Write(s, "set_dehydrated", set_dehydrated_device(db, u, d))
        \/ ~ ok /\ Fail(s)

(* consume_token: the token was checked before; what it does now does not  *)
(* depend on the token still being there.                                  *)
consume_token(s) ==
  Write(s, "consume_reset",
        set_password([db EXCEPT !.resets = @ \ {req[s].user}], req[s].user))

(* Appservices.  The token of an appservice is no user's; it is refused by *)
(* set_token once the metadata of the new device is written.               *)
start(s) ==
  /\ At(s, "as_start")
  /\ db' = start_appservice(db)
  /\ mem' = [mem EXCEPT !.appservice = TRUE]
  /\ Continue(s, req[s])
  /\ UNCHANGED made

unregister_appservice(s) ==
  /\ At(s, "as_remove")
  /\ \/ /\ mem.appservice
        /\ mem' = [mem EXCEPT !.appservice = FALSE]
        /\ db' = [db EXCEPT !.appservice = FALSE]
        /\ Continue(s, req[s])
        /\ UNCHANGED made
     \/ ~ mem.appservice /\ Fail(s)

appservice_device(s) ==
  /\ At(s, "as_device")
  /\ exists(db, Appservice)
  /\ db' = put_metadata(db, Appservice, req[s].target)
  /\ req' = [req EXCEPT ![s] = Idle]
  /\ UNCHANGED <<mem, made, workload>>

-----------------------------------------------------------------------------
Mail(r) == IF r.verified = None THEN r.mail ELSE r.verified

(* Calls that only look, and calls that only write tables.                 *)
Call(s) ==
  LET r == req[s]
      u == r.user
  IN \/ Check(s, "email_free", get_localpart_for_email(db, r.mail) = None)
     \/ Check(s, "mail_known", get_localpart_for_email(db, r.mail) # None)
     \/ Check(s, "name_free", ~ exists(db, u))
     \/ Check(s, "same_mail", r.verified = r.mail)
     \/ Check(s, "may_login", u \notin db.locked \cup db.login_disabled)
     \/ Check(s, "known", exists(db, u))
     \/ Check(s, "restrictable", exists(db, u) /\ u \notin db.admins)
     \/ Check(s, "check_reset", check_token(db, u))
     \/ Check(s, "get_device", <<u, r.target>> \in db.devices)
     \/ Check(s, "as_collision", db.owner_of[AsToken] = None)
     \/ Write(s, "create", create(db, u))
     \/ Write(s, "set_password", set_password(db, u))
     \/ Write(s, "clear_password", clear_password(db, u))
     \/ /\ At(s, "associate")
        /\ \/ MayAssociate(db, u, Mail(r)) /\ Write(s, "associate", associate_localpart_email(db, u, Mail(r)))
           \/ ~ MayAssociate(db, u, Mail(r)) /\ Fail(s)
     \/ Write(s, "disassociate", disassociate_localpart_email(db, u))
     \/ Write(s, "remove_own", remove_device(db, u, r.dev))
     \/ Write(s, "remove_target", remove_device(db, u, r.target))
     \/ Write(s, "put_device", put_metadata(db, u, r.target))
     \/ Write(s, "set_pusher", set_pusher(db, u, r.dev))
     \/ Write(s, "own_pushers", delete_pushers(db, u, {r.dev}))
     \/ Write(s, "other_pushers", delete_pushers(db, u, Devices \ {r.dev}))
     \/ Write(s, "all_pushers", delete_pushers(db, u, Devices))
     \/ Write(s, "leave_rooms", update_all_rooms(db, u))
     \/ Write(s, "suspend", suspend_account(db, u))
     \/ Write(s, "unsuspend", unsuspend_account(db, u))
     \/ Write(s, "lock", lock_account(db, u))
     \/ Write(s, "unlock", unlock_account(db, u))
     \/ Write(s, "disable_login", disable_login(db, u))
     \/ Write(s, "enable_login", enable_login(db, u))
     \/ /\ At(s, "issue_reset")
        /\ \/ is_active(db, u) /\ Write(s, "issue_reset", issue_token(db, u))
           \/ ~ is_active(db, u) /\ Fail(s)
     \/ Write(s, "as_insert", [db EXCEPT !.appservice = TRUE])

(* Shutdown or crash, and startup: the workers of appservice and firstrun. *)
Restart ==
  LET t == IF db.appservice THEN start_appservice(db) ELSE db IN
  /\ made.crashes < MaxCrashes
  /\ made' = [made EXCEPT !.crashes = @ + 1]
  /\ db' = t
  /\ mem' = Memory(t)
  /\ req' = [s \in Slots |-> Idle]
  /\ UNCHANGED workload

Next ==
  \/ \E s \in Slots :
       \/ Arrive(s)
       \/ Call(s)
       \/ issue_validation_session(s)
       \/ try_validate_session(s)
       \/ consume_valid_session(s)
       \/ authenticate_password(s)
       \/ handle_login(s)
       \/ account_of_email(s)
       \/ device_exists(s)
       \/ complete_login(s)
       \/ register_device(s)
       \/ list_devices(s, "list", DevicesOf(req[s].user))
       \/ list_devices(s, "list_others", DevicesOf(req[s].user) \ {req[s].dev})
       \/ remove_listed(s)
       \/ empower_first_user(s)
       \/ get_dehydrated_device_id(s)
       \/ put_dehydrated(s)
       \/ consume_token(s)
       \/ start(s)
       \/ unregister_appservice(s)
       \/ appservice_device(s)
  \/ Restart

Spec == Init /\ [][Next]_vars

-----------------------------------------------------------------------------
(* Properties.                                                             *)

Database ==
  [account : [Users -> {"none", "off", "on"}],
   locked : SUBSET Users, login_disabled : SUBSET Users, suspended : SUBSET Users,
   devices : SUBSET Keys,
   token_of : [Keys -> Tokens \cup {None}],
   owner_of : [Tokens -> Keys \cup {None}],
   email_of : [Users -> Mails \cup {None}],
   localpart_of : [Mails -> Users \cup {None}],
   resets : SUBSET Users,
   dehydrated : [Users -> Devices \cup {None}],
   pushers : SUBSET Keys,
   admins : SUBSET Users,
   appservice : BOOLEAN]

MemoryType ==
  [sessions : [Sids -> Session \cup {None}],
   client_secrets : [Secrets -> Sids \cup {None}],
   uiaa : SUBSET Users,
   first_run : BOOLEAN,
   appservice : BOOLEAN]

Calls ==
  {"email_free", "mail_known", "handle_login", "issue", "validate", "consume", "name_free",
   "same_mail", "create", "associate", "disassociate", "empower", "account", "may_login",
   "device_exists", "give_token", "device", "list", "list_others", "remove_listed",
   "remove_own", "own_pushers", "other_pushers", "all_pushers", "uiaa", "set_password",
   "clear_password", "leave_rooms", "issue_reset", "check_reset", "consume_reset",
   "get_device", "put_device", "remove_target", "set_dehydrated", "get_dehydrated",
   "set_pusher", "known", "restrictable", "suspend", "unsuspend", "lock", "unlock",
   "disable_login", "enable_login", "as_collision", "as_insert", "as_start", "as_remove",
   "as_device"}

Request ==
  [op : DOMAIN Programs, todo : Seq(Calls), user : Users \cup {None},
   dev : Devices \cup {None}, target : Devices \cup {None}, mail : Mails \cup {None},
   secret : Secrets \cup {None}, sid : Sids \cup {None}, verified : Mails \cup {None},
   listed : SUBSET Devices, found : BOOLEAN]

TypeOK ==
  /\ db \in Database
  /\ mem \in MemoryType
  /\ req \in [Slots -> Request \cup {Idle}]
  /\ made \in [tokens : 0 .. MaxTokens, sessions : 0 .. MaxSessions,
              requests : Nat, crashes : Nat]
  /\ workload \subseteq DOMAIN Programs

(* The token tables agree: a token that find_from_token accepts is the     *)
(* current token of a device that has metadata, and the token of a device  *)
(* is accepted.  Logging in again on a device, logging out and deleting    *)
(* devices therefore end the token that was in use before (the empty       *)
(* token, which all dehydrated devices share, aside).                      *)
TokensAgree ==
  /\ \A t \in Tokens \ {NoToken} :
       db.owner_of[t] # None => /\ db.token_of[db.owner_of[t]] = t
                                /\ db.owner_of[t] \in db.devices
  /\ \A k \in Keys :
       db.token_of[k] \notin {None, NoToken} => db.owner_of[db.token_of[k]] = k

(* An address leads to the account that has it, and to no other, whatever  *)
(* registrations, links and deactivations run side by side.                *)
EmailsAgree ==
  \A u \in Users, m \in Mails : db.email_of[u] = m <=> db.localpart_of[m] = u

(* The two maps of the validation sessions are each other's inverse: the   *)
(* lookups that session.rs expects to succeed do.                          *)
SessionMaps ==
  /\ \A c \in Secrets : mem.client_secrets[c] # None =>
       /\ mem.sessions[mem.client_secrets[c]] # None
       /\ mem.sessions[mem.client_secrets[c]].secret = c
  /\ \A i \in Sids : mem.sessions[i] # None => mem.client_secrets[mem.sessions[i].secret] = i

(* A deactivated account has no device with a token: "the user will not be *)
(* able to log in again".                                                  *)
DeactivatedLoggedOut ==
  \A k \in Keys : db.account[k[1]] = "off" /\ k[1] # Appservice => db.token_of[k] \in {None, NoToken}
=============================================================================
