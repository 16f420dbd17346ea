--------------------------- MODULE AccountsProofs ---------------------------
(***************************************************************************)
(* The tables of accounts agree for any number of users, devices, email    *)
(* addresses and requests under way, and however often the server is       *)
(* restarted.                                                              *)
(*                                                                         *)
(* Two things make the invariants inductive: a token that has not been     *)
(* generated is in no table (Fresh, and the like for sessions), and a      *)
(* request has the arguments of the calls that it still has to make, or    *)
(* has a call before them that finds the argument (Ready).                 *)
(***************************************************************************)
EXTENDS Accounts, FiniteSetTheorems, TLAPS

(* The invariants of the tables, of any tables t.                          *)
TokensOf(t) ==
  /\ \A k \in Tokens \ {NoToken} :
       t.owner_of[k] # None => /\ t.token_of[t.owner_of[k]] = k
                               /\ t.owner_of[k] \in t.devices
  /\ \A k \in Keys :
       t.token_of[k] \notin {None, NoToken} => t.owner_of[t.token_of[k]] = k
EmailsOf(t) ==
  \A u \in Users, m \in Mails : t.email_of[u] = m <=> t.localpart_of[m] = u
Fresh(t, n) == \A i \in n + 1 .. MaxTokens : t.owner_of[i] = None

Good(t, n) == t \in Database /\ TokensOf(t) /\ EmailsOf(t) /\ Fresh(t, n)

LEMMA Constants ==
  /\ None \notin Users /\ None \notin Devices /\ None \notin Mails
  /\ None \notin Secrets /\ None \notin Keys /\ None \notin Tokens
  /\ None \notin Sids /\ None \notin Session
  /\ NoToken \in Tokens /\ 1 .. MaxTokens \subseteq Tokens \ {NoToken}
  /\ MaxTokens \in Nat /\ MaxTokens >= 1 /\ MaxSessions \in Nat
  BY AccountsAssumption DEF Tokens

-----------------------------------------------------------------------------
(* The calls that write tables.                                            *)

(* What is not a token or an address does not matter.                      *)
LEMMA OtherTables ==
  ASSUME NEW t, NEW x \in Database, NEW n \in 0 .. MaxTokens, Good(t, n),
         x.devices = t.devices, x.token_of = t.token_of, x.owner_of = t.owner_of,
         x.email_of = t.email_of, x.localpart_of = t.localpart_of
  PROVE  Good(x, n)
  BY DEF Good, TokensOf, EmailsOf, Fresh

LEMMA PasswordGood ==
  ASSUME NEW t, NEW n \in 0 .. MaxTokens, Good(t, n), NEW u
  PROVE  Good(set_password(t, u), n) /\ Good(clear_password(t, u), n)
<1>1. set_password(t, u) \in Database /\ clear_password(t, u) \in Database
  BY Zenon DEF Good, Database, set_password, clear_password
<1>2. ASSUME NEW x \in {set_password(t, u), clear_password(t, u)}
      PROVE  /\ x.devices = t.devices /\ x.token_of = t.token_of /\ x.owner_of = t.owner_of
             /\ x.email_of = t.email_of /\ x.localpart_of = t.localpart_of
  BY Zenon DEF set_password, clear_password, Good, Database
<1> QED BY Zenon, <1>1, <1>2, OtherTables

LEMMA MetadataGood ==
  ASSUME NEW t, NEW n \in 0 .. MaxTokens, Good(t, n), NEW u \in Users, NEW d \in Devices
  PROVE  /\ Good(put_metadata(t, u, d), n)
         /\ <<u, d>> \in put_metadata(t, u, d).devices
<1>1. put_metadata(t, u, d) \in Database
  <2>1. t \in Database /\ t.devices \cup {<<u, d>>} \in SUBSET Keys
    <3>1. <<u, d>> \in Keys /\ t \in Database /\ t.devices \in SUBSET Keys
      BY Zenon DEF Good, Database, Keys
    <3> QED BY Zenon, <3>1
  <2> QED BY Zenon, <2>1 DEF Database, put_metadata
<1> QED BY Zenon, <1>1 DEF put_metadata, Good, Database, TokensOf, EmailsOf, Fresh

(* A token that is new, or the empty one, for a device with metadata.      *)
LEMMA SetTokenGood ==
  ASSUME NEW t, NEW n \in 0 .. MaxTokens, Good(t, n),
         NEW u \in Users, NEW d \in Devices, <<u, d>> \in t.devices,
         NEW tok \in Tokens, NEW p \in 0 .. MaxTokens,
         \/ tok = NoToken /\ p = n
         \/ tok = n + 1 /\ p = n + 1
  PROVE  Good(set_token(t, u, d, tok), p)
<1> DEFINE key == <<u, d>>
           old == t.token_of[key]
           new == set_token(t, u, d, tok)
           owner == [k \in Tokens |-> IF k = tok THEN key ELSE IF k = old THEN None ELSE t.owner_of[k]]
<1>1. key \in Keys
  BY Zenon DEF Keys
<1>2. t \in Database /\ TokensOf(t) /\ EmailsOf(t) /\ Fresh(t, n)
  BY Zenon DEF Good
<1>3. /\ new = [t EXCEPT !.token_of = [t.token_of EXCEPT ![key] = tok], !.owner_of = owner]
      /\ owner \in [Tokens -> Keys \cup {None}]
      /\ [t.token_of EXCEPT ![key] = tok] \in [Keys -> Tokens \cup {None}]
  BY Zenon, <1>1, <1>2 DEF set_token, Database
<1> HIDE DEF key, new, owner
<1>4. /\ new \in Database
      /\ new.owner_of = owner /\ new.token_of = [t.token_of EXCEPT ![key] = tok]
      /\ new.devices = t.devices
      /\ new.email_of = t.email_of /\ new.localpart_of = t.localpart_of
  BY Zenon, <1>2, <1>3 DEF Database
<1>5. tok # NoToken => t.owner_of[tok] = None /\ \A k \in Keys : t.token_of[k] # tok
  BY <1>2, Constants DEF Fresh, TokensOf
<1>6. TokensOf(new)
  <2>1. ASSUME NEW k \in Tokens \ {NoToken}, owner[k] # None
        PROVE  new.token_of[owner[k]] = k /\ owner[k] \in t.devices
    BY <1>1, <1>2, <1>4, <1>5, <2>1 DEF TokensOf, Database, owner, key
  <2>2. ASSUME NEW k \in Keys, new.token_of[k] \notin {None, NoToken}
        PROVE  owner[new.token_of[k]] = k
    BY <1>1, <1>2, <1>4, <1>5, <2>2 DEF TokensOf, Database, owner, key
  <2> QED BY Zenon, <1>4, <2>1, <2>2 DEF TokensOf
<1>7. EmailsOf(new)
  BY <1>2, <1>4 DEF EmailsOf
<1>8. Fresh(new, p)
  BY <1>2, <1>4, Constants DEF Fresh, owner
<1> QED BY Zenon, <1>4, <1>6, <1>7, <1>8 DEF Good, new

LEMMA CreateDeviceGood ==
  ASSUME NEW t, NEW n \in 0 .. MaxTokens, Good(t, n),
         NEW u \in Users, NEW d \in Devices,
         NEW tok \in Tokens, NEW p \in 0 .. MaxTokens,
         \/ tok = NoToken /\ p = n
         \/ tok = n + 1 /\ p = n + 1
  PROVE  Good(create_device(t, u, d, tok), p)
  BY Zenon, MetadataGood, SetTokenGood DEF create_device

LEMMA RemoveDeviceGood ==
  ASSUME NEW t, NEW n \in 0 .. MaxTokens, Good(t, n),
         NEW u \in Users, NEW d \in Devices
  PROVE  Good(remove_device(t, u, d), n)
<1> DEFINE key == <<u, d>>
           old == t.token_of[key]
           rest == remove_dehydrated_device(t, u, d)
           new == remove_device(t, u, d)
           token == [t.token_of EXCEPT ![key] = None]
           owner == [k \in Tokens |-> IF k = old THEN None ELSE t.owner_of[k]]
<1>1. key \in Keys
  BY Zenon DEF Keys
<1>2. t \in Database /\ TokensOf(t) /\ EmailsOf(t) /\ Fresh(t, n)
  BY Zenon DEF Good
<1>3. /\ rest \in Database
      /\ rest.token_of = t.token_of /\ rest.owner_of = t.owner_of /\ rest.devices = t.devices
      /\ rest.email_of = t.email_of /\ rest.localpart_of = t.localpart_of
  BY Zenon, <1>2 DEF remove_dehydrated_device, Database
<1> HIDE DEF key, rest
<1>4. new = [rest EXCEPT !.token_of = token, !.owner_of = owner, !.devices = t.devices \ {key}]
  BY Zenon, <1>1, <1>3 DEF remove_device, rest, key
<1>5. token \in [Keys -> Tokens \cup {None}] /\ owner \in [Tokens -> Keys \cup {None}]
  BY Zenon, <1>1, <1>2 DEF Database
<1> HIDE DEF new, token, owner
<1>6. /\ new \in Database
      /\ new.token_of = token /\ new.owner_of = owner /\ new.devices = t.devices \ {key}
      /\ new.email_of = t.email_of /\ new.localpart_of = t.localpart_of
  BY Zenon, <1>2, <1>3, <1>4, <1>5 DEF Database
<1>7. TokensOf(new)
  <2>1. ASSUME NEW k \in Tokens \ {NoToken}, owner[k] # None
        PROVE  token[owner[k]] = k /\ owner[k] \in t.devices \ {key}
    BY Zenon, <1>1, <1>2, <2>1 DEF TokensOf, Database, owner, token
  <2>2. ASSUME NEW k \in Keys, token[k] \notin {None, NoToken}
        PROVE  owner[token[k]] = k
    BY <1>1, <1>2, <2>2 DEF TokensOf, Database, owner, token
  <2> QED BY Zenon, <1>6, <2>1, <2>2 DEF TokensOf
<1>8. EmailsOf(new) /\ Fresh(new, n)
  BY <1>2, <1>6, Constants DEF EmailsOf, Fresh, owner
<1> QED BY Zenon, <1>6, <1>7, <1>8 DEF Good, new

LEMMA SetDehydratedGood ==
  ASSUME NEW t, NEW n \in 0 .. MaxTokens, Good(t, n),
         NEW u \in Users, NEW d \in Devices
  PROVE  Good(set_dehydrated_device(t, u, d), n)
<1> DEFINE cleared == IF t.dehydrated[u] = None THEN t ELSE remove_device(t, u, t.dehydrated[u])
           made_device == create_device(cleared, u, d, NoToken)
<1>1. t.dehydrated[u] \in Devices \cup {None}
  BY Zenon DEF Good, Database
<1>2. Good(cleared, n)
  BY Zenon, <1>1, RemoveDeviceGood
<1>3. Good(made_device, n)
  BY Zenon, <1>2, Constants, CreateDeviceGood
<1>4. set_dehydrated_device(t, u, d) = [made_device EXCEPT !.dehydrated[u] = d]
  BY Zenon DEF set_dehydrated_device
<1> HIDE DEF made_device
<1>5. [made_device EXCEPT !.dehydrated[u] = d] \in Database
  BY Zenon, <1>3 DEF Good, Database
<1> QED BY ZenonT(40), <1>3, <1>4, <1>5, OtherTables DEF Good, Database

LEMMA DisassociateGood ==
  ASSUME NEW t, NEW n \in 0 .. MaxTokens, Good(t, n), NEW u \in Users
  PROVE  /\ Good(disassociate_localpart_email(t, u), n)
         /\ disassociate_localpart_email(t, u).email_of[u] = None
         /\ \A m \in Mails : t.localpart_of[m] = None =>
              disassociate_localpart_email(t, u).localpart_of[m] = None
<1> DEFINE m0 == t.email_of[u]
           new == disassociate_localpart_email(t, u)
           email == [t.email_of EXCEPT ![u] = None]
           part == [m \in Mails |-> IF m = m0 THEN None ELSE t.localpart_of[m]]
<1>1. t \in Database /\ TokensOf(t) /\ EmailsOf(t) /\ Fresh(t, n)
  BY Zenon DEF Good
<1>2. new = [t EXCEPT !.email_of = email, !.localpart_of = part]
  BY Zenon, <1>1 DEF disassociate_localpart_email, Database
<1>3. email \in [Users -> Mails \cup {None}] /\ part \in [Mails -> Users \cup {None}]
  BY Zenon, <1>1 DEF Database
<1> HIDE DEF new, email, part
<1>4. /\ new \in Database
      /\ new.email_of = email /\ new.localpart_of = part
      /\ new.token_of = t.token_of /\ new.owner_of = t.owner_of /\ new.devices = t.devices
  BY Zenon, <1>1, <1>2, <1>3 DEF Database
<1>5. EmailsOf(new)
  BY <1>1, <1>4, Constants DEF EmailsOf, Database, email, part
<1>6. TokensOf(new) /\ Fresh(new, n)
  BY Zenon, <1>1, <1>4 DEF TokensOf, Fresh
<1> QED BY Zenon, <1>1, <1>4, <1>5, <1>6 DEF Good, new, email, part, Database

LEMMA AssociateGood ==
  ASSUME NEW t, NEW n \in 0 .. MaxTokens, Good(t, n), NEW u \in Users, NEW m \in Mails,
         MayAssociate(t, u, m)
  PROVE  Good(associate_localpart_email(t, u, m), n)
<1>1. CASE t.localpart_of[m] = u
  BY Zenon, <1>1 DEF associate_localpart_email, get_localpart_for_email
<1>2. CASE t.localpart_of[m] # u
  <2> DEFINE cleared == disassociate_localpart_email(t, u)
             new == associate_localpart_email(t, u, m)
             email == [cleared.email_of EXCEPT ![u] = m]
             part == [cleared.localpart_of EXCEPT ![m] = u]
  <2>1. t.localpart_of[m] = None
    BY Zenon, <1>2 DEF MayAssociate, get_localpart_for_email
  <2>2. /\ Good(cleared, n) /\ cleared.email_of[u] = None
        /\ cleared.localpart_of[m] = None
    BY Zenon, <2>1, DisassociateGood
  <2>3. new = [cleared EXCEPT !.email_of = email, !.localpart_of = part]
    BY Zenon, <1>2 DEF associate_localpart_email, get_localpart_for_email
  <2> HIDE DEF cleared, new
  <2>4. email \in [Users -> Mails \cup {None}] /\ part \in [Mails -> Users \cup {None}]
    BY Zenon, <2>2 DEF Good, Database
  <2> HIDE DEF email, part
  <2>5. /\ new \in Database
        /\ new.email_of = email /\ new.localpart_of = part
        /\ new.token_of = cleared.token_of /\ new.owner_of = cleared.owner_of
        /\ new.devices = cleared.devices
    BY Zenon, <2>2, <2>3, <2>4 DEF Good, Database
  <2>6. EmailsOf(new)
    BY <2>2, <2>5, Constants DEF Good, EmailsOf, Database, email, part
  <2>7. TokensOf(new) /\ Fresh(new, n)
    BY Zenon, <2>2, <2>5 DEF Good, TokensOf, Fresh
  <2> QED BY Zenon, <2>5, <2>6, <2>7 DEF Good, new
<1> QED BY Zenon, <1>1, <1>2

-----------------------------------------------------------------------------
(* The requests.                                                           *)

(* The calls that need the user, the device of the request line, and the   *)
(* device that the request is sent from.                                   *)
UserCalls ==
  {"create", "associate", "disassociate", "device", "give_token", "empower", "remove_listed",
   "remove_own", "remove_target", "put_device", "set_pusher", "set_dehydrated",
   "get_dehydrated", "handle_login", "suspend", "lock", "disable_login", "issue_reset", "uiaa"}
TargetCalls ==
  {"device", "give_token", "remove_target", "put_device", "set_dehydrated", "as_device"}
DevCalls == {"remove_own", "set_pusher"}

Before(q, i, call) == \E j \in 1 .. i - 1 : q[j] = call

(* A request has what its calls need, or finds it in an earlier call.      *)
Ready(r) ==
  \A i \in 1 .. Len(r.todo) :
    /\ r.todo[i] \in UserCalls => r.user # None \/ Before(r.todo, i, "account")
    /\ r.todo[i] \in TargetCalls => r.target # None \/ Before(r.todo, i, "get_dehydrated")
    /\ r.todo[i] \in DevCalls => r.dev # None
    /\ r.todo[i] = "issue" =>
         r.secret # None /\ (r.mail # None \/ Before(r.todo, i, "handle_login"))
    /\ r.todo[i] = "associate" => Mail(r) # None \/ Before(r.todo, i, "consume")
    /\ r.todo[i] = "account" => r.verified # None \/ Before(r.todo, i, "consume")

Requests == req \in [Slots -> Request \cup {Idle}] /\ \A s \in Slots : Ready(req[s])

(* The sessions that are still to be made do not exist.                    *)
Sessions ==
  /\ mem \in MemoryType
  /\ SessionMaps
  /\ \A i \in made.sessions + 1 .. MaxSessions : mem.sessions[i] = None

Counters ==
  made \in [tokens : 0 .. MaxTokens, sessions : 0 .. MaxSessions, requests : Nat, crashes : Nat]

(* The inductive invariant.                                                *)
IInv ==
  /\ Good(db, made.tokens)
  /\ Sessions
  /\ Requests
  /\ Counters
  /\ workload \subseteq DOMAIN Programs

LEMMA IInvImplies == IInv => TypeOK /\ TokensAgree /\ EmailsAgree /\ SessionMaps
<1> SUFFICES ASSUME IInv PROVE TypeOK /\ TokensAgree /\ EmailsAgree /\ SessionMaps
  BY Zenon
<1>1. TypeOK
  BY Zenon DEF IInv, Good, Sessions, Requests, Counters, TypeOK
<1>2. TokensAgree /\ EmailsAgree
  BY Zenon DEF IInv, Good, TokensOf, EmailsOf, TokensAgree, EmailsAgree
<1> QED BY Zenon, <1>1, <1>2 DEF IInv, Sessions

LEMMA TailFacts ==
  ASSUME NEW S, NEW q \in Seq(S), Len(q) # 0
  PROVE  /\ Tail(q) \in Seq(S) /\ Len(Tail(q)) = Len(q) - 1
         /\ \A i \in 1 .. Len(q) - 1 : Tail(q)[i] = q[i + 1]
  OBVIOUS

LEMMA IdleReady == Idle.todo = << >> /\ Ready(Idle)
  BY DEF Idle, Ready

(* A request that is not idle has all its fields.                          *)
LEMMA Underway ==
  ASSUME req \in [Slots -> Request \cup {Idle}], NEW s \in Slots, NEW call, At(s, call)
  PROVE  /\ req[s] \in Request
         /\ Len(req[s].todo) \in Nat \ {0}
         /\ req[s].todo[1] = call
         /\ Ready(req[s]) =>
              /\ call \in UserCalls \ {"account"} => req[s].user \in Users
              /\ call \in TargetCalls => req[s].target \in Devices
              /\ call \in DevCalls => req[s].dev \in Devices
              /\ call = "issue" => req[s].secret \in Secrets /\ req[s].mail \in Mails
              /\ call = "associate" => Mail(req[s]) \in Mails
              /\ call = "account" => req[s].verified \in Mails
<1>1. req[s] \in Request
  BY DEF At, Idle
<1>2. Len(req[s].todo) \in Nat \ {0} /\ req[s].todo[1] = call
  BY <1>1 DEF At, Request
<1>3. \A c : ~ Before(req[s].todo, 1, c)
  BY DEF Before
<1> QED BY <1>1, <1>2, <1>3 DEF Ready, Request, Mail

(* A call is done: the request has still what the calls after it need.     *)
LEMMA LeftReady ==
  ASSUME NEW r \in Request, Len(r.todo) # 0, Ready(r),
         NEW q \in Request, q.todo = r.todo,
         r.user # None \/ r.todo[1] = "account" => q.user # None,
         r.target # None \/ r.todo[1] = "get_dehydrated" => q.target # None,
         q.dev = r.dev, q.secret = r.secret,
         r.mail # None \/ r.todo[1] = "handle_login" => q.mail # None,
         r.verified # None \/ r.todo[1] = "consume" => q.verified # None
  PROVE  Left(q) \in Request \cup {Idle} /\ Ready(Left(q))
<1> DEFINE n == Len(r.todo)
<1>1. r.todo \in Seq(Calls) /\ n \in Nat \ {0}
  BY DEF Request
<1>2. CASE n = 1
  BY Zenon, <1>2, IdleReady DEF Left
<1>3. CASE n # 1
  <2> DEFINE x == [q EXCEPT !.todo = Tail(@)]
  <2>1. Left(q) = x
    BY Zenon, <1>3 DEF Left
  <2>2. /\ Tail(r.todo) \in Seq(Calls) /\ Len(Tail(r.todo)) = n - 1
        /\ \A i \in 1 .. n - 1 : Tail(r.todo)[i] = r.todo[i + 1]
    BY Zenon, <1>1, TailFacts
  <2>3. /\ x \in Request /\ x.todo = Tail(r.todo)
        /\ x.user = q.user /\ x.target = q.target /\ x.dev = q.dev /\ x.secret = q.secret
        /\ x.mail = q.mail /\ x.verified = q.verified
    <3>1. x = [q EXCEPT !.todo = Tail(r.todo)]
      BY Zenon
    <3>2. x \in Request
      BY ZenonT(40), <2>2, <3>1 DEF Request
    <3> QED BY Zenon, <3>1, <3>2 DEF Request
  <2>4. ASSUME NEW i \in 1 .. n - 1, NEW c, Before(r.todo, i + 1, c)
        PROVE  r.todo[1] = c \/ Before(x.todo, i, c)
    <3>1. PICK j \in 1 .. i : r.todo[j] = c
      BY <1>1, <2>4 DEF Before
    <3>2. CASE j = 1
      BY Zenon, <3>1, <3>2
    <3>3. CASE j # 1
      <4> DEFINE k == j - 1
      <4>1. k \in 1 .. i - 1 /\ k \in 1 .. n - 1 /\ k + 1 = j
        BY <1>1, <3>3
      <4>2. x.todo[k] = c
        BY Zenon, <2>2, <2>3, <3>1, <4>1
      <4> QED BY Zenon, <4>1, <4>2 DEF Before
    <3> QED BY Zenon, <3>2, <3>3
  <2> HIDE DEF x
  <2>5. Mail(r) # None \/ r.todo[1] = "consume" => Mail(x) # None
    BY Zenon, <2>3 DEF Mail
  <2>6. ASSUME NEW i \in 1 .. Len(x.todo)
        PROVE  /\ x.todo[i] \in UserCalls => x.user # None \/ Before(x.todo, i, "account")
               /\ x.todo[i] \in TargetCalls => x.target # None \/ Before(x.todo, i, "get_dehydrated")
               /\ x.todo[i] \in DevCalls => x.dev # None
               /\ x.todo[i] = "issue" =>
                    x.secret # None /\ (x.mail # None \/ Before(x.todo, i, "handle_login"))
               /\ x.todo[i] = "associate" => Mail(x) # None \/ Before(x.todo, i, "consume")
               /\ x.todo[i] = "account" => x.verified # None \/ Before(x.todo, i, "consume")
    <3>1. i \in 1 .. n - 1 /\ i + 1 \in 1 .. n /\ x.todo[i] = r.todo[i + 1]
      BY <1>1, <2>2, <2>3
    <3> QED BY Zenon, <2>3, <2>4, <2>5, <3>1 DEF Ready
  <2> QED BY Zenon, <2>1, <2>3, <2>6 DEF Ready
<1> QED BY Zenon, <1>2, <1>3

-----------------------------------------------------------------------------
(* A request arrives with what its calls need.                             *)

Supplied(op, todo) ==
  \A i \in 1 .. Len(todo) :
    /\ todo[i] \in UserCalls => op \in Authenticated \cup NamesUser \/ Before(todo, i, "account")
    /\ todo[i] \in TargetCalls => op \in NamesDevice \/ Before(todo, i, "get_dehydrated")
    /\ todo[i] \in DevCalls => op \in Authenticated
    /\ todo[i] = "issue" =>
         op \in NamesSecret /\ (op \in NamesMail \/ Before(todo, i, "handle_login"))
    /\ todo[i] = "associate" => op \in NamesMail \/ Before(todo, i, "consume")
    /\ todo[i] = "account" => Before(todo, i, "consume")

(* The calls that need more than a user, and the operations they are in.   *)
Special == TargetCalls \cup DevCalls \cup {"issue", "associate", "account"}
SpecialOps ==
  {"register_code", "login_code", "reset_code", "link_code", "register", "login", "logout",
   "reset", "add_3pid", "change_email", "update_device", "delete_device", "put_dehydrated",
   "delete_dehydrated", "set_pusher", "as_device"}

(* The operations with a flag.                                             *)
LEMMA Flagged ==
  /\ Programs["register"] = {Register(TRUE), Register(FALSE)}
  /\ Programs["change_password"] = {ChangePassword(TRUE), ChangePassword(FALSE)}
  /\ Programs["reset"] = {ResetPassword(TRUE), ResetPassword(FALSE)}
  /\ Programs["admin_deactivate"] = {AdminDeactivate(TRUE), AdminDeactivate(FALSE)}
  /\ Programs["admin_reset"] = {AdminResetPassword(TRUE), AdminResetPassword(FALSE)}
  /\ Programs["change_email"] = {ChangeEmail(TRUE), ChangeEmail(FALSE)}
<1>1. Programs["register"] = {Register(TRUE), Register(FALSE)}
  BY Zenon DEF Programs
<1>2. Programs["change_password"] = {ChangePassword(TRUE), ChangePassword(FALSE)}
  BY Zenon DEF Programs
<1>3. Programs["reset"] = {ResetPassword(TRUE), ResetPassword(FALSE)}
  BY Zenon DEF Programs
<1>4. Programs["admin_deactivate"] = {AdminDeactivate(TRUE), AdminDeactivate(FALSE)}
  BY Zenon DEF Programs
<1>5. Programs["admin_reset"] = {AdminResetPassword(TRUE), AdminResetPassword(FALSE)}
  BY Zenon DEF Programs
<1>6. Programs["change_email"] = {ChangeEmail(TRUE), ChangeEmail(FALSE)}
  BY Zenon DEF Programs
<1> QED BY Zenon, <1>1, <1>2, <1>3, <1>4, <1>5, <1>6

LEMMA NoUserCalls ==
  ASSUME NEW op \in DOMAIN Programs \ (Authenticated \cup NamesUser \cup {"login", "reset"}),
         NEW todo \in Programs[op]
  PROVE  \A i \in 1 .. Len(todo) : todo[i] \notin UserCalls
<1>1. op \in {"submit", "register_code", "reset_code", "as_register", "as_unregister", "as_device"}
  BY Zenon DEF Programs, Authenticated, NamesUser
<1>2. todo \in {SubmitToken, RequestRegistrationToken, RequestPasswordChangeToken,
                RegisterAppservice, UnregisterAppservice, AppserviceDevice}
  BY <1>1 DEF Programs
<1> QED BY <1>2 DEF UserCalls, SubmitToken, RequestRegistrationToken,
                    RequestPasswordChangeToken, RegisterAppservice, UnregisterAppservice,
                    AppserviceDevice

LEMMA NoSpecialCalls ==
  ASSUME NEW op \in DOMAIN Programs \ SpecialOps, NEW todo \in Programs[op]
  PROVE  \A i \in 1 .. Len(todo) : todo[i] \notin Special
<1>1. \/ op \in {"submit", "create_user", "reset_link", "web_reset", "delete_3pid"}
      \/ op \in {"logout_all", "deactivate", "admin_logout"}
      \/ op \in {"admin_reset", "admin_deactivate", "change_password"}
      \/ op \in {"suspend", "unsuspend", "lock", "unlock", "disable_login", "enable_login",
                 "as_register", "as_unregister"}
  BY Zenon DEF Programs, SpecialOps
<1> USE DEF Special, TargetCalls, DevCalls
<1>2. CASE op \in {"submit", "create_user", "reset_link", "web_reset", "delete_3pid"}
  <2>1. todo \in {SubmitToken, CreateUser, IssueResetLink, PostPasswordReset, Delete3pid}
    BY <1>2 DEF Programs
  <2> QED BY <2>1 DEF SubmitToken, CreateUser, IssueResetLink, PostPasswordReset, Delete3pid
<1>3. CASE op \in {"logout_all", "deactivate", "admin_logout"}
  <2>1. todo \in {LogoutAll, Deactivate, AdminLogout}
    BY <1>3 DEF Programs
  <2>2. CASE todo = LogoutAll
    BY <2>2 DEF LogoutAll, RemoveDevices
  <2>3. CASE todo = AdminLogout
    BY <2>3 DEF AdminLogout, RemoveDevices
  <2>4. CASE todo = Deactivate
    BY <2>4 DEF Deactivate, FullUserDeactivate, DeactivateAccount, RemoveDevices
  <2> QED BY ZenonT(40), <2>1, <2>2, <2>3, <2>4
<1>4. CASE op \in {"admin_reset", "admin_deactivate", "change_password"}
  <2>1. \/ todo \in {AdminResetPassword(TRUE), AdminResetPassword(FALSE)}
        \/ todo = AdminDeactivate(TRUE) \/ todo = AdminDeactivate(FALSE)
        \/ todo \in {ChangePassword(TRUE), ChangePassword(FALSE)}
    BY Zenon, <1>4, Flagged
  <2>2. CASE todo \in {AdminResetPassword(TRUE), AdminResetPassword(FALSE)}
    BY <2>2 DEF AdminResetPassword, RemoveDevices
  <2>3. CASE todo \in {ChangePassword(TRUE), ChangePassword(FALSE)}
    BY SMTT(30), <2>3 DEF ChangePassword
  <2>4. CASE todo = AdminDeactivate(TRUE)
    BY <2>4 DEF AdminDeactivate, FullUserDeactivate, DeactivateAccount, RemoveDevices
  <2>5. CASE todo = AdminDeactivate(FALSE)
    BY <2>5 DEF AdminDeactivate, DeactivateAccount, RemoveDevices
  <2> QED BY Zenon, <2>1, <2>2, <2>3, <2>4, <2>5
<1>5. CASE op \in {"suspend", "unsuspend", "lock", "unlock", "disable_login", "enable_login",
                  "as_register", "as_unregister"}
  <2>1. todo \in {Suspend, Unsuspend, Lock, Unlock, DisableLogin, EnableLogin,
                  RegisterAppservice, UnregisterAppservice}
    BY <1>5 DEF Programs
  <2> QED BY SMTT(30), <2>1 DEF Suspend, Unsuspend, Lock, Unlock, DisableLogin, EnableLogin,
                      RegisterAppservice, UnregisterAppservice
<1> QED BY Zenon, <1>1, <1>2, <1>3, <1>4, <1>5

(* Codes, devices and pushers: the request names what the call needs.      *)
LEMMA NamedArguments ==
  ASSUME NEW op \in {"register_code", "reset_code", "link_code", "update_device", "delete_device",
                     "put_dehydrated", "as_device", "logout", "set_pusher", "register",
                     "change_email"},
         NEW todo \in Programs[op], NEW i \in 1 .. Len(todo)
  PROVE  /\ todo[i] \in TargetCalls => op \in NamesDevice
         /\ todo[i] \in DevCalls => op \in Authenticated
         /\ todo[i] = "issue" => op \in NamesSecret \cap NamesMail
         /\ todo[i] = "associate" => op \in NamesMail
         /\ todo[i] # "account"
<1> USE DEF TargetCalls, DevCalls
<1>1. CASE op \in {"register_code", "reset_code", "link_code"}
  <2>1. todo \in {RequestRegistrationToken, RequestPasswordChangeToken, Request3pidToken}
    BY <1>1 DEF Programs
  <2>2. op \in NamesSecret \cap NamesMail
    BY Zenon, <1>1 DEF NamesSecret, NamesMail
  <2> QED BY SMTT(30), <2>1, <2>2 DEF RequestRegistrationToken, RequestPasswordChangeToken, Request3pidToken
<1>2. CASE op \in {"update_device", "delete_device", "put_dehydrated", "as_device"}
  <2>1. todo \in {UpdateDevice, DeleteDevice, PutDehydrated, AppserviceDevice}
    BY <1>2 DEF Programs
  <2>2. op \in NamesDevice
    BY Zenon, <1>2 DEF NamesDevice
  <2> QED BY SMTT(30), <2>1, <2>2 DEF UpdateDevice, DeleteDevice, PutDehydrated, AppserviceDevice
<1>3. CASE op \in {"logout", "set_pusher"}
  <2>1. todo \in {Logout, SetPusher}
    BY <1>3 DEF Programs
  <2>2. op \in Authenticated
    BY Zenon, <1>3 DEF Authenticated
  <2> QED BY SMTT(30), <2>1, <2>2 DEF Logout, SetPusher
<1>4. CASE op = "register"
  <2>1. todo = Register(TRUE) \/ todo = Register(FALSE)
    BY Zenon, <1>4, Flagged
  <2>2. op \in NamesDevice \cap NamesMail
    BY Zenon, <1>4 DEF NamesDevice, NamesMail
  <2>3. CASE todo = Register(TRUE)
    BY <2>2, <2>3 DEF Register
  <2>4. CASE todo = Register(FALSE)
    BY <2>2, <2>4 DEF Register
  <2> QED BY Zenon, <2>1, <2>3, <2>4
<1>5. CASE op = "change_email"
  <2>1. todo = ChangeEmail(TRUE) \/ todo = ChangeEmail(FALSE)
    BY Zenon, <1>5, Flagged
  <2>2. op \in NamesMail
    BY Zenon, <1>5 DEF NamesMail
  <2> QED BY <2>1, <2>2 DEF ChangeEmail
<1> QED BY Zenon, <1>1, <1>2, <1>3, <1>4, <1>5

(* The operations in which a call finds what a later one needs.            *)
LEMMA FoundArguments ==
  ASSUME NEW op \in {"login_code", "login", "reset", "add_3pid", "delete_dehydrated"},
         NEW todo \in Programs[op], NEW i \in 1 .. Len(todo)
  PROVE  /\ todo[i] \in TargetCalls => op \in NamesDevice \/ Before(todo, i, "get_dehydrated")
         /\ todo[i] \notin DevCalls
         /\ todo[i] = "issue" => op \in NamesSecret /\ Before(todo, i, "handle_login")
         /\ todo[i] = "associate" => Before(todo, i, "consume")
         /\ todo[i] = "account" => Before(todo, i, "consume")
         /\ op \in {"login", "reset"} /\ todo[i] \in UserCalls => Before(todo, i, "account")
<1> USE DEF TargetCalls, DevCalls, UserCalls, Before
<1>1. CASE op = "login_code"
  <2>1. todo = LoginRoute
    BY Zenon, <1>1 DEF Programs
  <2> QED BY <1>1, <2>1 DEF LoginRoute, NamesSecret
<1>2. CASE op = "login"
  <2>1. todo = FinishLogin
    BY Zenon, <1>2 DEF Programs
  <2> QED BY <1>2, <2>1 DEF FinishLogin, NamesDevice
<1>3. CASE op = "reset"
  <2>1. todo = ResetPassword(TRUE) \/ todo = ResetPassword(FALSE)
    BY Zenon, <1>3, Flagged
  <2>2. CASE todo = ResetPassword(TRUE)
    BY <1>3, <2>2 DEF ResetPassword, RemoveDevices
  <2>3. CASE todo = ResetPassword(FALSE)
    BY <1>3, <2>3 DEF ResetPassword
  <2> QED BY Zenon, <2>1, <2>2, <2>3
<1>4. CASE op = "add_3pid"
  <2>1. todo = Add3pid
    BY Zenon, <1>4 DEF Programs
  <2> QED BY <1>4, <2>1 DEF Add3pid
<1>5. CASE op = "delete_dehydrated"
  <2>1. todo = DeleteDehydrated
    BY Zenon, <1>5 DEF Programs
  <2> QED BY <1>5, <2>1 DEF DeleteDehydrated
<1> QED BY Zenon, <1>1, <1>2, <1>3, <1>4, <1>5

LEMMA ProgramsSupplied ==
  ASSUME NEW op \in DOMAIN Programs, NEW todo \in Programs[op]
  PROVE  Supplied(op, todo)
<1> SUFFICES ASSUME NEW i \in 1 .. Len(todo)
             PROVE  Supplied(op, todo)!(i)
  BY Zenon DEF Supplied
<1>1. todo[i] \in UserCalls => op \in Authenticated \cup NamesUser \/ Before(todo, i, "account")
  BY Zenon, NoUserCalls, FoundArguments
<1>2. CASE op \notin SpecialOps
  BY Zenon, <1>1, <1>2, NoSpecialCalls DEF Special
<1>3. CASE op \in {"register_code", "reset_code", "link_code", "update_device", "delete_device",
                  "put_dehydrated", "as_device", "logout", "set_pusher", "register",
                  "change_email"}
  BY Zenon, <1>1, <1>3, NamedArguments
<1>4. CASE op \in {"login_code", "login", "reset", "add_3pid", "delete_dehydrated"}
  BY Zenon, <1>1, <1>4, FoundArguments
<1> QED BY Zenon, <1>2, <1>3, <1>4 DEF SpecialOps

LEMMA ProgramsType ==
  ASSUME NEW op \in DOMAIN Programs, NEW todo \in Programs[op]
  PROVE  todo \in Seq(Calls)
<1> DEFINE Is(x) == x \in Seq(Calls)
<1>1. Is(SubmitToken) /\ Is(RequestRegistrationToken) /\ Is(LoginRoute)
  BY DEF Calls, SubmitToken, RequestRegistrationToken, LoginRoute
<1>2. Is(RequestPasswordChangeToken) /\ Is(Request3pidToken) /\ Is(CreateUser) /\ Is(FinishLogin)
  BY DEF Calls, RequestPasswordChangeToken, Request3pidToken, CreateUser, FinishLogin
<1>3. Is(RemoveDevices) /\ Is(Logout) /\ Is(IssueResetLink) /\ Is(PostPasswordReset)
  BY DEF Calls, RemoveDevices, Logout, IssueResetLink, PostPasswordReset
<1>4. Is(<<"all_pushers">>) /\ Is(<<"clear_password">>) /\ Is(<<"uiaa">>)
      /\ Is(<<"disassociate", "all_pushers", "leave_rooms">>)
      /\ Is(<<"set_password">>) /\ Is(<<"restrictable">>) /\ Is(<< >>)
  BY DEF Calls
<1> HIDE DEF Is
<1>5. ASSUME NEW x, NEW y, Is(x), Is(y) PROVE Is(x \o y)
  BY <1>5 DEF Is
<1>6. Is(LogoutAll) /\ Is(AdminLogout) /\ Is(AdminResetPassword(TRUE)) /\ Is(AdminResetPassword(FALSE))
  BY Zenon, <1>3, <1>4, <1>5 DEF LogoutAll, AdminLogout, AdminResetPassword
<1>7. Is(DeactivateAccount) /\ Is(FullUserDeactivate)
  BY Zenon, <1>3, <1>4, <1>5 DEF DeactivateAccount, FullUserDeactivate
<1>8. Is(Deactivate) /\ Is(AdminDeactivate(TRUE)) /\ Is(AdminDeactivate(FALSE))
  BY Zenon, <1>4, <1>5, <1>7 DEF Deactivate, AdminDeactivate
<1>9. Is(Register(TRUE)) /\ Is(Register(FALSE))
  <2>1. /\ Is(<<"email_free", "name_free", "consume", "same_mail", "create", "associate">>)
        /\ Is(<<"device">>) /\ Is(<<"empower">>)
    BY DEF Is, Calls
  <2> QED BY Zenon, <1>4, <1>5, <2>1 DEF Register
<1>10. Is(ChangePassword(TRUE)) /\ Is(ChangePassword(FALSE))
  <2>1. Is(<<"uiaa", "set_password">>) /\ Is(<<"list_others", "remove_listed", "other_pushers">>)
    BY DEF Is, Calls
  <2> QED BY Zenon, <1>4, <1>5, <2>1 DEF ChangePassword
<1>11. Is(ResetPassword(TRUE)) /\ Is(ResetPassword(FALSE))
  <2>1. Is(<<"consume", "account", "set_password">>)
    BY DEF Is, Calls
  <2> QED BY Zenon, <1>3, <1>4, <1>5, <2>1 DEF ResetPassword
<1>12. Is(Add3pid) /\ Is(Delete3pid) /\ Is(ChangeEmail(TRUE)) /\ Is(ChangeEmail(FALSE))
  BY DEF Is, Calls, Add3pid, Delete3pid, ChangeEmail
<1>13. /\ Is(UpdateDevice) /\ Is(DeleteDevice) /\ Is(PutDehydrated) /\ Is(DeleteDehydrated)
       /\ Is(SetPusher)
  BY DEF Is, Calls, UpdateDevice, DeleteDevice, PutDehydrated, DeleteDehydrated, SetPusher
<1>14. Is(Suspend) /\ Is(Unsuspend) /\ Is(Lock) /\ Is(Unlock) /\ Is(DisableLogin) /\ Is(EnableLogin)
  BY DEF Is, Calls, Suspend, Unsuspend, Lock, Unlock, DisableLogin, EnableLogin
<1>15. Is(RegisterAppservice) /\ Is(UnregisterAppservice) /\ Is(AppserviceDevice)
  BY DEF Is, Calls, RegisterAppservice, UnregisterAppservice, AppserviceDevice
<1>16. CASE op \in {"register", "change_password", "reset", "admin_deactivate", "admin_reset",
                   "change_email"}
  <2>1. \E b \in BOOLEAN : todo \in {Register(b), ChangePassword(b), ResetPassword(b),
                                   AdminDeactivate(b), AdminResetPassword(b), ChangeEmail(b)}
    BY Zenon, <1>16, Flagged
  <2>2. Is(todo)
    BY Zenon, <1>6, <1>8, <1>9, <1>10, <1>11, <1>12, <2>1
  <2> QED BY Zenon, <2>2 DEF Is
<1>17. CASE op \in {"submit", "register_code", "login_code", "reset_code", "link_code",
                   "create_user", "login", "logout"}
  <2>1. todo \in {SubmitToken, RequestRegistrationToken, LoginRoute, RequestPasswordChangeToken,
                  Request3pidToken, CreateUser, FinishLogin, Logout}
    BY <1>17 DEF Programs
  <2> QED BY ZenonT(40), <1>1, <1>2, <1>3, <2>1 DEF Is
<1>18. CASE op \in {"logout_all", "deactivate", "reset_link", "web_reset", "add_3pid",
                   "delete_3pid", "update_device", "delete_device"}
  <2>1. todo \in {LogoutAll, Deactivate, IssueResetLink, PostPasswordReset, Add3pid, Delete3pid,
                  UpdateDevice, DeleteDevice}
    BY <1>18 DEF Programs
  <2> QED BY ZenonT(40), <1>3, <1>6, <1>8, <1>12, <1>13, <2>1 DEF Is
<1>19. CASE op \in {"put_dehydrated", "delete_dehydrated", "set_pusher", "suspend", "unsuspend",
                   "lock", "unlock"}
  <2>1. todo \in {PutDehydrated, DeleteDehydrated, SetPusher, Suspend, Unsuspend, Lock, Unlock}
    BY <1>19 DEF Programs
  <2> QED BY ZenonT(40), <1>13, <1>14, <2>1 DEF Is
<1>20. CASE op \in {"admin_logout", "disable_login", "enable_login", "as_register",
                   "as_unregister", "as_device"}
  <2>1. todo \in {AdminLogout, DisableLogin, EnableLogin, RegisterAppservice,
                  UnregisterAppservice, AppserviceDevice}
    BY <1>20 DEF Programs
  <2> QED BY ZenonT(40), <1>6, <1>14, <1>15, <2>1 DEF Is
<1> QED BY Zenon, <1>16, <1>17, <1>18, <1>19, <1>20 DEF Programs

-----------------------------------------------------------------------------
(* Steps of a request.                                                     *)

(* The calls whose result later calls need.                                *)
Finders == {"account", "get_dehydrated", "handle_login", "consume"}

LEMMA GoesOn ==
  ASSUME Requests, NEW s \in Slots, NEW call, At(s, call), NEW q \in Request,
         q.todo = req[s].todo,
         req[s].user # None \/ call = "account" => q.user # None,
         req[s].target # None \/ call = "get_dehydrated" => q.target # None,
         q.dev = req[s].dev, q.secret = req[s].secret,
         req[s].mail # None \/ call = "handle_login" => q.mail # None,
         req[s].verified # None \/ call = "consume" => q.verified # None,
         Continue(s, q)
  PROVE  Requests' /\ UNCHANGED workload
<1>1. /\ req[s] \in Request /\ Len(req[s].todo) \in Nat \ {0} /\ req[s].todo[1] = call
      /\ Ready(req[s])
  BY Zenon, Underway DEF Requests
<1>2. Left(q) \in Request \cup {Idle} /\ Ready(Left(q))
  BY Zenon, <1>1, LeftReady
<1> QED BY Zenon, <1>2 DEF Requests, Continue

LEMMA GoesOnAsIs ==
  ASSUME Requests, NEW s \in Slots, NEW call, At(s, call), call \notin Finders,
         Continue(s, req[s])
  PROVE  Requests' /\ UNCHANGED workload
<1>1. req[s] \in Request
  BY Zenon, Underway DEF Requests
<1> QED BY Zenon, <1>1, GoesOn DEF Finders

LEMMA Ends ==
  ASSUME Requests, NEW s \in Slots, req' = [req EXCEPT ![s] = Idle]
  PROVE  Requests'
  BY Zenon, IdleReady DEF Requests

LEMMA FailInv ==
  ASSUME IInv, NEW s \in Slots, Fail(s)
  PROVE  IInv'
<1>1. Requests'
  BY Zenon, Ends DEF Fail, IInv
<1> QED BY Zenon, <1>1 DEF Fail, IInv, Sessions, SessionMaps, Counters

LEMMA CheckInv ==
  ASSUME IInv, NEW s \in Slots, NEW call, call \notin Finders, NEW ok, Check(s, call, ok)
  PROVE  IInv'
<1>1. CASE Fail(s)
  BY Zenon, <1>1, FailInv
<1>2. CASE At(s, call) /\ Continue(s, req[s]) /\ UNCHANGED <<db, mem, made>>
  <2>1. Requests' /\ UNCHANGED workload
    BY Zenon, <1>2, GoesOnAsIs DEF IInv
  <2> QED BY Zenon, <1>2, <2>1 DEF IInv, Sessions, SessionMaps, Counters
<1> QED BY Zenon, <1>1, <1>2 DEF Check

LEMMA WriteInv ==
  ASSUME IInv, NEW s \in Slots, NEW call, call \notin Finders, NEW t, Good(t, made.tokens),
         Write(s, call, t)
  PROVE  IInv'
<1>1. Requests' /\ UNCHANGED workload
  BY Zenon, GoesOnAsIs DEF IInv, Write
<1> QED BY Zenon, <1>1 DEF Write, IInv, Sessions, SessionMaps, Counters

LEMMA Unaffected ==
  ASSUME IInv, UNCHANGED <<mem, made>>
  PROVE  Sessions' /\ Counters'
  BY Zenon DEF IInv, Sessions, SessionMaps, Counters

LEMMA ArriveInv ==
  ASSUME IInv, NEW s \in Slots, Arrive(s)
  PROVE  IInv'
<1> DEFINE New(op, todo, u, d, e, m, c) ==
             [op |-> op, todo |-> todo, user |-> u, dev |-> d, target |-> e, mail |-> m,
              secret |-> c, sid |-> IF c = None THEN None ELSE mem.client_secrets[c],
              verified |-> None, listed |-> {}, found |-> FALSE]
           Chosen(op, todo) ==
             \E u \in Args(Users, op \in Authenticated \cup NamesUser) :
             \E d \in Args(Devices, op \in Authenticated) :
             \E e \in Args(Devices, op \in NamesDevice) :
             \E m \in Args(Mails, op \in NamesMail) :
             \E c \in Args(Secrets, op \in NamesSecret) :
               /\ op \in Authenticated => Authorized(u, d, op)
               /\ Accepting(op)
               /\ req' = [req EXCEPT ![s] = New(op, todo, u, d, e, m, c)]
<1>1. \E op \in workload : \E todo \in Programs[op] : Chosen(op, todo)
  BY Zenon DEF Arrive
<1> HIDE DEF New, Chosen
<1>2. PICK op \in workload : \E todo \in Programs[op] : Chosen(op, todo)
  BY Zenon, <1>1
<1>3. PICK todo \in Programs[op] : Chosen(op, todo)
  BY Zenon, <1>2
<1>4. PICK u \in Args(Users, op \in Authenticated \cup NamesUser),
           d \in Args(Devices, op \in Authenticated),
           e \in Args(Devices, op \in NamesDevice),
           m \in Args(Mails, op \in NamesMail),
           c \in Args(Secrets, op \in NamesSecret) :
        req' = [req EXCEPT ![s] = New(op, todo, u, d, e, m, c)]
  BY <1>3, Zenon DEF Chosen
<1>5. req' = [req EXCEPT ![s] =
            [op |-> op, todo |-> todo, user |-> u, dev |-> d, target |-> e, mail |-> m,
             secret |-> c, sid |-> IF c = None THEN None ELSE mem.client_secrets[c],
             verified |-> None, listed |-> {}, found |-> FALSE]]
  BY Zenon, <1>4 DEF New
<1> DEFINE i0 == IF c = None THEN None ELSE mem.client_secrets[c]
           r == [op |-> op, todo |-> todo, user |-> u, dev |-> d, target |-> e, mail |-> m,
                 secret |-> c, sid |-> i0, verified |-> None, listed |-> {}, found |-> FALSE]
<1>6. op \in DOMAIN Programs
  BY Zenon, <1>2 DEF IInv
<1>7. todo \in Seq(Calls) /\ Supplied(op, todo)
  BY Zenon, <1>6, ProgramsType, ProgramsSupplied
<1>8. /\ u \in Users \cup {None} /\ (op \in Authenticated \cup NamesUser => u # None)
      /\ d \in Devices \cup {None} /\ (op \in Authenticated => d # None)
      /\ e \in Devices \cup {None} /\ (op \in NamesDevice => e # None)
      /\ m \in Mails \cup {None} /\ (op \in NamesMail => m # None)
      /\ c \in Secrets \cup {None} /\ (op \in NamesSecret => c # None)
  BY Zenon, <1>4, Constants DEF Args
<1>9. i0 \in Sids \cup {None}
  BY Zenon, <1>8 DEF IInv, Sessions, MemoryType
<1>10. r \in Request
  BY ZenonT(40), <1>6, <1>7, <1>8, <1>9 DEF Request
<1>11. Ready(r)
  BY ZenonT(40), <1>7, <1>8 DEF Supplied, Ready, Mail
<1>12. Requests'
  BY Zenon, <1>5, <1>10, <1>11 DEF IInv, Requests
<1>13. Sessions' /\ Counters' /\ UNCHANGED <<db, workload>> /\ made'.tokens = made.tokens
  BY DEF Arrive, IInv, Sessions, SessionMaps, Counters
<1> QED BY Zenon, <1>12, <1>13 DEF IInv

(* What a request does to what the services hold in memory.                *)
LEMMA IssueInv ==
  ASSUME IInv, NEW s \in Slots, issue_validation_session(s)
  PROVE  IInv'
<1>1. At(s, "issue") /\ Continue(s, req[s]) /\ UNCHANGED db
  BY Zenon DEF issue_validation_session
<1>2. Requests' /\ UNCHANGED workload
  BY Zenon, <1>1, GoesOnAsIs DEF IInv, Finders
<1>3. CASE UNCHANGED <<mem, made>>
  BY Zenon, <1>1, <1>2, <1>3, Unaffected DEF IInv
<1>4. CASE mem.client_secrets[req[s].secret] = None /\ create_session(s)
  <2> DEFINE i == made.sessions + 1
             c == req[s].secret
             x == [mail |-> req[s].mail, secret |-> c, state |-> "pending"]
  <2>1. c \in Secrets /\ x \in Session /\ i \in Sids
    <3>1. c \in Secrets /\ req[s].mail \in Mails
      BY Zenon, <1>1, Underway DEF IInv, Requests
    <3>2. i \in Sids
      BY <1>4, Constants DEF IInv, create_session, Counters, Sids
    <3> QED BY Zenon, <3>1, <3>2 DEF Session
  <2>2. /\ mem \in MemoryType /\ SessionMaps
        /\ \A j \in made.sessions + 1 .. MaxSessions : mem.sessions[j] = None
        /\ made.sessions \in 0 .. MaxSessions
    BY Zenon DEF IInv, Sessions, Counters
  <2>3. /\ mem' = [mem EXCEPT !.sessions = [mem.sessions EXCEPT ![i] = x],
                              !.client_secrets = [mem.client_secrets EXCEPT ![c] = i]]
        /\ made' = [made EXCEPT !.sessions = i]
    BY Zenon, <1>4 DEF create_session
  <2> HIDE DEF x
  <2>4. Counters' /\ made'.tokens = made.tokens /\ made'.sessions = i
    BY <2>1, <2>3 DEF IInv, Counters, Sids
  <2>5. /\ mem' \in MemoryType
        /\ mem'.sessions = [mem.sessions EXCEPT ![i] = x]
        /\ mem'.client_secrets = [mem.client_secrets EXCEPT ![c] = i]
    BY Zenon, <2>1, <2>2, <2>3 DEF MemoryType
  <2>6. mem.sessions[i] = None /\ x # None /\ x.secret = c /\ mem.client_secrets[c] = None
    BY SMTT(30), <1>4, <2>1, <2>2, Constants DEF Sids, x
  <2>7. SessionMaps'
    BY <2>1, <2>2, <2>5, <2>6, Constants DEF SessionMaps, MemoryType, Session
  <2>8. \A j \in i + 1 .. MaxSessions : mem'.sessions[j] = None
    BY <2>1, <2>2, <2>5, Constants DEF MemoryType, Sids
  <2> QED BY Zenon, <1>1, <1>2, <2>4, <2>5, <2>7, <2>8 DEF IInv, Sessions
<1> QED BY Zenon, <1>3, <1>4 DEF issue_validation_session

LEMMA ValidateInv ==
  ASSUME IInv, NEW s \in Slots, try_validate_session(s)
  PROVE  IInv'
<1>1. CASE Fail(s)
  BY Zenon, <1>1, FailInv
<1>2. CASE /\ At(s, "validate") /\ req[s].sid # None /\ mem.sessions[req[s].sid] # None
           /\ mem' = [mem EXCEPT !.sessions[req[s].sid].state = "validated"]
           /\ Continue(s, req[s]) /\ UNCHANGED <<db, made>>
  <2> DEFINE i == req[s].sid
             x == [mem.sessions[i] EXCEPT !.state = "validated"]
  <2>1. Requests' /\ UNCHANGED workload
    BY Zenon, <1>2, GoesOnAsIs DEF IInv, Finders
  <2>2. i \in Sids
    BY Zenon, <1>2, Underway DEF IInv, Requests, Request
  <2>3. /\ mem \in MemoryType /\ SessionMaps /\ mem.sessions[i] \in Session
        /\ \A j \in made.sessions + 1 .. MaxSessions : mem.sessions[j] = None
    BY Zenon, <1>2, <2>2 DEF IInv, Sessions, MemoryType
  <2>4. x \in Session /\ x.secret = mem.sessions[i].secret /\ x # None
    BY Zenon, <2>3, Constants DEF Session
  <2>5. mem' = [mem EXCEPT !.sessions = [mem.sessions EXCEPT ![i] = x]]
    BY Zenon, <1>2
  <2> HIDE DEF x, i
  <2>6. /\ mem' \in MemoryType /\ mem'.client_secrets = mem.client_secrets
        /\ mem'.sessions = [mem.sessions EXCEPT ![i] = x]
    BY Zenon, <2>3, <2>4, <2>5 DEF MemoryType
  <2>7. SessionMaps'
    <3>1. /\ mem.sessions \in [Sids -> Session \cup {None}]
          /\ mem.client_secrets \in [Secrets -> Sids \cup {None}]
          /\ mem.sessions[i] # None
      BY Zenon, <2>3, Constants DEF MemoryType
    <3>2. \A k \in Sids : /\ mem'.sessions[k] # None <=> mem.sessions[k] # None
                          /\ mem.sessions[k] # None => mem'.sessions[k].secret = mem.sessions[k].secret
      BY Zenon, <2>2, <2>4, <2>6, <3>1
    <3> QED BY SMT, <2>3, <2>6, <3>1, <3>2 DEF SessionMaps
  <2>8. \A j \in made.sessions + 1 .. MaxSessions : mem'.sessions[j] = None
    <3> SUFFICES ASSUME NEW j \in made.sessions + 1 .. MaxSessions PROVE mem'.sessions[j] = None
      BY Zenon
    <3>1. j # i /\ j \in Sids
      BY <1>2, <2>3, Constants DEF IInv, Counters, i, Sids
    <3> QED BY Zenon, <2>3, <2>6, <3>1 DEF MemoryType
  <2> QED BY Zenon, <1>2, <2>1, <2>6, <2>7, <2>8 DEF IInv, Sessions, Counters
<1> QED BY Zenon, <1>1, <1>2 DEF try_validate_session

LEMMA ConsumeInv ==
  ASSUME IInv, NEW s \in Slots, consume_valid_session(s)
  PROVE  IInv'
<1>1. CASE Fail(s)
  BY Zenon, <1>1, FailInv
<1> DEFINE i == req[s].sid
           x == mem.sessions[i]
<1>2. CASE /\ At(s, "consume") /\ Consumable(req[s])
           /\ mem' = [mem EXCEPT !.sessions[i] = None, !.client_secrets[x.secret] = None]
           /\ Continue(s, [req[s] EXCEPT !.verified = x.mail]) /\ UNCHANGED <<db, made>>
  <2>1. /\ mem \in MemoryType /\ SessionMaps
        /\ \A j \in made.sessions + 1 .. MaxSessions : mem.sessions[j] = None
    BY Zenon DEF IInv, Sessions
  <2>2. req[s] \in Request /\ i \in Sids
    BY Zenon, <1>2, Underway DEF IInv, Requests, Request, Consumable
  <2>3. x \in Session /\ x # None
    BY Zenon, <1>2, <2>1, <2>2 DEF Consumable, MemoryType
  <2>4. x.mail \in Mails /\ x.secret \in Secrets /\ mem.client_secrets[x.secret] = i
    BY Zenon, <2>1, <2>2, <2>3 DEF Session, SessionMaps
  <2>5. /\ mem' = [mem EXCEPT !.sessions = [mem.sessions EXCEPT ![i] = None],
                              !.client_secrets = [mem.client_secrets EXCEPT ![x.secret] = None]]
    BY Zenon, <1>2
  <2>6. Requests' /\ UNCHANGED workload
    <3> DEFINE q == [req[s] EXCEPT !.verified = x.mail]
    <3>1. q \in Request
      BY Zenon, <2>2, <2>4 DEF Request
    <3>2. /\ q.todo = req[s].todo /\ q.user = req[s].user /\ q.target = req[s].target
          /\ q.dev = req[s].dev /\ q.secret = req[s].secret /\ q.mail = req[s].mail
          /\ q.verified # None
      BY Zenon, <2>2, <2>4, Constants DEF Request
    <3> HIDE DEF q
    <3>3. Continue(s, q)
      BY Zenon, <1>2 DEF q
    <3> QED BY <1>2, <3>1, <3>2, <3>3, GoesOn DEF IInv
  <2> HIDE DEF x, i
  <2>7. /\ mem' \in MemoryType
        /\ mem'.sessions = [mem.sessions EXCEPT ![i] = None]
        /\ mem'.client_secrets = [mem.client_secrets EXCEPT ![x.secret] = None]
    BY Zenon, <2>1, <2>2, <2>4, <2>5 DEF MemoryType
  <2>8. SessionMaps'
    BY <2>1, <2>2, <2>4, <2>7 DEF SessionMaps, MemoryType, x
  <2>9. \A j \in made.sessions + 1 .. MaxSessions : mem'.sessions[j] = None
    <3> SUFFICES ASSUME NEW j \in made.sessions + 1 .. MaxSessions PROVE mem'.sessions[j] = None
      BY Zenon
    <3>1. j \in Sids
      BY Constants DEF IInv, Counters, Sids
    <3> QED BY Zenon, <2>1, <2>2, <2>7, <3>1 DEF MemoryType
  <2> QED BY Zenon, <1>2, <2>6, <2>7, <2>8, <2>9 DEF IInv, Sessions, Counters
<1> QED BY Zenon, <1>1, <1>2 DEF consume_valid_session

(* Sessions are not touched by the rest of what is held in memory.         *)
LEMMA OtherMemory ==
  ASSUME IInv, mem' \in MemoryType, mem'.sessions = mem.sessions,
         mem'.client_secrets = mem.client_secrets, made'.sessions = made.sessions
  PROVE  Sessions'
  BY Zenon DEF IInv, Sessions, SessionMaps

LEMMA UiaaInv ==
  ASSUME IInv, NEW s \in Slots, authenticate_password(s)
  PROVE  IInv'
<1> DEFINE u == req[s].user
<1>1. At(s, "uiaa") /\ UNCHANGED <<db, made>>
  BY Zenon DEF authenticate_password
<1>2. u \in Users
  BY <1>1, Underway DEF IInv, Requests, UserCalls
<1>3. mem' = [mem EXCEPT !.uiaa = @ \cup {u}] \/ mem' = [mem EXCEPT !.uiaa = @ \ {u}]
  BY Zenon DEF authenticate_password
<1>4. Requests' /\ UNCHANGED workload
  <2>1. CASE Continue(s, req[s])
    BY Zenon, <1>1, <2>1, GoesOnAsIs DEF IInv, Finders
  <2>2. CASE req' = [req EXCEPT ![s] = Idle] /\ UNCHANGED workload
    BY Zenon, <2>2, Ends DEF IInv
  <2> QED BY Zenon, <2>1, <2>2 DEF authenticate_password
<1> HIDE DEF u
<1>5. /\ mem' \in MemoryType /\ mem'.sessions = mem.sessions
      /\ mem'.client_secrets = mem.client_secrets
  BY <1>2, <1>3 DEF IInv, Sessions, MemoryType
<1>6. Sessions'
  BY Zenon, <1>1, <1>5, OtherMemory
<1> QED BY Zenon, <1>1, <1>4, <1>6 DEF IInv, Counters

-----------------------------------------------------------------------------
(* Calls that read tables for later calls.                                 *)

LEMMA FoundInv ==
  ASSUME IInv, NEW s \in Slots,
         handle_login(s) \/ account_of_email(s) \/ get_dehydrated_device_id(s)
  PROVE  IInv'
<1>0. db \in Database /\ Requests
  BY Zenon DEF IInv, Good
<1>1. CASE Fail(s)
  BY Zenon, <1>1, FailInv
<1>2. ASSUME NEW call, At(s, call), NEW q \in Request,
             q.todo = req[s].todo,
             req[s].user # None \/ call = "account" => q.user # None,
             req[s].target # None \/ call = "get_dehydrated" => q.target # None,
             q.dev = req[s].dev, q.secret = req[s].secret,
             req[s].mail # None \/ call = "handle_login" => q.mail # None,
             req[s].verified # None \/ call = "consume" => q.verified # None,
             Continue(s, q), UNCHANGED <<db, mem, made>>
      PROVE  IInv'
  <2>1. Requests' /\ UNCHANGED workload
    BY Zenon, <1>0, <1>2, GoesOn
  <2> QED BY Zenon, <1>2, <2>1, Unaffected DEF IInv
<1>3. CASE handle_login(s) /\ ~ Fail(s)
  <2> DEFINE m == db.email_of[req[s].user]
             q == [req[s] EXCEPT !.mail = m]
  <2>1. At(s, "handle_login") /\ m # None /\ Continue(s, q) /\ UNCHANGED <<db, mem, made>>
    BY Zenon, <1>3 DEF handle_login
  <2>2. req[s] \in Request /\ req[s].user \in Users
    BY Zenon, <1>0, <2>1, Underway DEF Requests, UserCalls
  <2>3. m \in Mails
    BY Zenon, <1>0, <2>1, <2>2 DEF Database
  <2>4. /\ q \in Request /\ q.todo = req[s].todo /\ q.user = req[s].user
        /\ q.target = req[s].target /\ q.dev = req[s].dev /\ q.secret = req[s].secret
        /\ q.mail # None /\ q.verified = req[s].verified
    BY Zenon, <2>1, <2>2, <2>3 DEF Request
  <2> HIDE DEF q
  <2> QED BY <1>2, <2>1, <2>4
<1>4. CASE account_of_email(s) /\ ~ Fail(s)
  <2> DEFINE u == get_localpart_for_email(db, req[s].verified)
             q == [req[s] EXCEPT !.user = u]
  <2>1. At(s, "account") /\ u # None /\ Continue(s, q) /\ UNCHANGED <<db, mem, made>>
    BY Zenon, <1>4 DEF account_of_email
  <2>2. req[s] \in Request /\ req[s].verified \in Mails
    BY Zenon, <1>0, <2>1, Underway DEF Requests
  <2>3. u \in Users
    BY Zenon, <1>0, <2>1, <2>2 DEF Database, get_localpart_for_email
  <2>4. /\ q \in Request /\ q.todo = req[s].todo /\ q.user # None
        /\ q.target = req[s].target /\ q.dev = req[s].dev /\ q.secret = req[s].secret
        /\ q.mail = req[s].mail /\ q.verified = req[s].verified
    BY Zenon, <2>1, <2>2, <2>3 DEF Request
  <2> HIDE DEF q
  <2> QED BY <1>2, <2>1, <2>4
<1>5. CASE get_dehydrated_device_id(s) /\ ~ Fail(s)
  <2> DEFINE d == db.dehydrated[req[s].user]
             q == [req[s] EXCEPT !.target = d]
  <2>1. At(s, "get_dehydrated") /\ d # None /\ Continue(s, q) /\ UNCHANGED <<db, mem, made>>
    BY Zenon, <1>5 DEF get_dehydrated_device_id
  <2>2. req[s] \in Request /\ req[s].user \in Users
    BY Zenon, <1>0, <2>1, Underway DEF Requests, UserCalls
  <2>3. d \in Devices
    BY Zenon, <1>0, <2>1, <2>2 DEF Database
  <2>4. /\ q \in Request /\ q.todo = req[s].todo /\ q.user = req[s].user
        /\ q.target # None /\ q.dev = req[s].dev /\ q.secret = req[s].secret
        /\ q.mail = req[s].mail /\ q.verified = req[s].verified
    BY Zenon, <2>1, <2>2, <2>3 DEF Request
  <2> HIDE DEF q
  <2> QED BY <1>2, <2>1, <2>4
<1> QED BY Zenon, <1>1, <1>3, <1>4, <1>5

LEMMA NotedInv ==
  ASSUME IInv, NEW s \in Slots, NEW call, call \notin Finders, At(s, call),
         NEW q \in {[req[s] EXCEPT !.found = b] : b \in BOOLEAN} \cup
                   {[req[s] EXCEPT !.listed = D] : D \in SUBSET Devices},
         Continue(s, q), UNCHANGED <<db, mem, made>>
  PROVE  IInv'
<1>1. req[s] \in Request
  BY Zenon, Underway DEF IInv, Requests
<1>2. /\ q \in Request /\ q.todo = req[s].todo /\ q.user = req[s].user
      /\ q.target = req[s].target /\ q.dev = req[s].dev /\ q.secret = req[s].secret
      /\ q.mail = req[s].mail /\ q.verified = req[s].verified
  BY <1>1 DEF Request
<1>3. Requests' /\ UNCHANGED workload
  BY Zenon, <1>2, GoesOn DEF IInv, Finders
<1> QED BY Zenon, <1>3, Unaffected DEF IInv

LEMMA LookInv ==
  ASSUME IInv, NEW s \in Slots,
         \/ device_exists(s)
         \/ list_devices(s, "list", DevicesOf(req[s].user))
         \/ list_devices(s, "list_others", DevicesOf(req[s].user) \ {req[s].dev})
  PROVE  IInv'
<1>1. CASE device_exists(s)
  <2> DEFINE b == <<req[s].user, req[s].target>> \in db.devices
  <2>1. b \in BOOLEAN
    OBVIOUS
  <2>2. /\ At(s, "device_exists") /\ Continue(s, [req[s] EXCEPT !.found = b])
        /\ UNCHANGED <<db, mem, made>>
    BY Zenon, <1>1 DEF device_exists
  <2> HIDE DEF b
  <2> QED BY Zenon, <2>1, <2>2, NotedInv DEF Finders
<1>2. CASE list_devices(s, "list", DevicesOf(req[s].user))
  BY Zenon, <1>2, NotedInv DEF list_devices, DevicesOf, Finders
<1>3. CASE list_devices(s, "list_others", DevicesOf(req[s].user) \ {req[s].dev})
  BY Zenon, <1>3, NotedInv DEF list_devices, DevicesOf, Finders
<1> QED BY Zenon, <1>1, <1>2, <1>3

-----------------------------------------------------------------------------
(* Devices and tokens.                                                     *)

LEMMA NewTokenInv ==
  ASSUME IInv, NEW s \in Slots, complete_login(s) \/ register_device(s)
  PROVE  IInv'
<1> DEFINE u == req[s].user
           d == req[s].target
           tok == made.tokens + 1
<1>1. PICK call \in {"give_token", "device"}, found \in BOOLEAN : At(s, call) /\ NewToken(s, found)
  <2>1. CASE complete_login(s)
    <3>1. At(s, "give_token") /\ NewToken(s, req[s].found)
      BY Zenon, <2>1 DEF complete_login
    <3>2. req[s].found \in BOOLEAN
      BY Zenon, <3>1, Underway DEF IInv, Requests, Request
    <3> QED BY Zenon, <3>1, <3>2
  <2>2. CASE register_device(s)
    BY Zenon, <2>2 DEF register_device
  <2> QED BY Zenon, <2>1, <2>2
<1>2. u \in Users /\ d \in Devices
  BY Zenon, <1>1, Underway DEF IInv, Requests, UserCalls, TargetCalls
<1>3. made.tokens < MaxTokens /\ made.tokens \in 0 .. MaxTokens
  BY Zenon, <1>1 DEF NewToken, IInv, Counters
<1>4. tok \in Tokens /\ tok \in 0 .. MaxTokens
  BY <1>3, Constants
<1>5. CASE Fail(s)
  BY Zenon, <1>5, FailInv
<1>6. CASE ~ Fail(s)
  <2>1. /\ found => <<u, d>> \in db.devices
        /\ db' = IF found THEN set_token(db, u, d, tok) ELSE create_device(db, u, d, tok)
        /\ made' = [made EXCEPT !.tokens = tok]
        /\ Continue(s, req[s]) /\ UNCHANGED mem
    BY Zenon, <1>1, <1>6 DEF NewToken
  <2>2. Requests' /\ UNCHANGED workload
    BY Zenon, <1>1, <2>1, GoesOnAsIs DEF IInv, Finders
  <2>3. Good(db', tok)
    BY Zenon, <1>2, <1>3, <1>4, <2>1, SetTokenGood, CreateDeviceGood DEF IInv
  <2>4. Counters' /\ made'.tokens = tok /\ made'.sessions = made.sessions
    BY Zenon, <1>4, <2>1 DEF IInv, Counters
  <2>5. Sessions'
    BY Zenon, <2>1, <2>4, OtherMemory DEF IInv, Sessions
  <2> QED BY Zenon, <2>2, <2>3, <2>4, <2>5 DEF IInv
<1> QED BY Zenon, <1>5, <1>6

LEMMA RemoveListedInv ==
  ASSUME IInv, NEW s \in Slots, remove_listed(s)
  PROVE  IInv'
<1>1. At(s, "remove_listed")
  BY Zenon DEF remove_listed
<1>2. req[s] \in Request /\ req[s].user \in Users /\ Ready(req[s])
  BY <1>1, Underway DEF IInv, Requests, UserCalls
<1>3. CASE req[s].listed = {} /\ Continue(s, req[s]) /\ UNCHANGED <<db, mem, made>>
  <2>1. Requests' /\ UNCHANGED workload
    BY Zenon, <1>1, <1>3, GoesOnAsIs DEF IInv, Finders
  <2> QED BY Zenon, <1>3, <2>1, Unaffected DEF IInv
<1>4. ASSUME NEW d \in req[s].listed,
             db' = remove_device(db, req[s].user, d),
             req' = [req EXCEPT ![s].listed = @ \ {d}],
             UNCHANGED <<mem, made, workload>>
      PROVE  IInv'
  <2>1. d \in Devices /\ made.tokens \in 0 .. MaxTokens
    BY Zenon, <1>2 DEF Request, IInv, Counters
  <2>2. Good(db', made.tokens)
    BY Zenon, <1>2, <1>4, <2>1, RemoveDeviceGood DEF IInv
  <2> DEFINE q == [req[s] EXCEPT !.listed = @ \ {d}]
  <2>3. /\ q \in Request /\ q.todo = req[s].todo /\ q.user = req[s].user
        /\ q.target = req[s].target /\ q.dev = req[s].dev /\ q.secret = req[s].secret
        /\ q.mail = req[s].mail /\ q.verified = req[s].verified
    BY Zenon, <1>2 DEF Request
  <2>4. req' = [req EXCEPT ![s] = q]
    BY Zenon, <1>4
  <2> HIDE DEF q
  <2>5. Ready(q)
    BY Zenon, <1>2, <2>3 DEF Ready, Mail
  <2>6. Requests'
    BY Zenon, <2>3, <2>4, <2>5 DEF IInv, Requests
  <2> QED BY Zenon, <1>4, <2>2, <2>6, Unaffected DEF IInv
<1> QED BY Zenon, <1>3, <1>4 DEF remove_listed

LEMMA PutDehydratedInv ==
  ASSUME IInv, NEW s \in Slots, put_dehydrated(s)
  PROVE  IInv'
<1> DEFINE u == req[s].user
           d == req[s].target
<1>1. CASE Fail(s)
  BY Zenon, <1>1, FailInv
<1>2. CASE Write(s, "set_dehydrated", set_dehydrated_device(db, u, d))
  <2>1. At(s, "set_dehydrated")
    BY Zenon, <1>2 DEF Write
  <2>2. u \in Users /\ d \in Devices /\ made.tokens \in 0 .. MaxTokens
    BY <2>1, Underway DEF IInv, Requests, UserCalls, TargetCalls, Counters
  <2>3. Good(set_dehydrated_device(db, u, d), made.tokens)
    BY Zenon, <2>2, SetDehydratedGood DEF IInv
  <2> QED BY Zenon, <1>2, <2>3, WriteInv DEF Finders
<1> QED BY Zenon, <1>1, <1>2 DEF put_dehydrated

-----------------------------------------------------------------------------
(* The rest of the tables.                                                 *)

LEMMA SetsGood ==
  ASSUME NEW t, NEW n \in 0 .. MaxTokens, Good(t, n), NEW u \in Users
  PROVE  /\ Good(suspend_account(t, u), n) /\ Good(lock_account(t, u), n)
         /\ Good(disable_login(t, u), n)
         /\ Good(issue_token(t, u), n) /\ Good(make_user_admin(t, u), n)
<1>1. t \in Database
  BY Zenon DEF Good
<1>2. ASSUME NEW S \in SUBSET Users
      PROVE  /\ Good([t EXCEPT !.suspended = S], n) /\ Good([t EXCEPT !.locked = S], n)
             /\ Good([t EXCEPT !.login_disabled = S], n) /\ Good([t EXCEPT !.resets = S], n)
             /\ Good([t EXCEPT !.admins = S], n)
  <2>1. ASSUME NEW x \in {[t EXCEPT !.suspended = S], [t EXCEPT !.locked = S],
                          [t EXCEPT !.login_disabled = S], [t EXCEPT !.resets = S],
                          [t EXCEPT !.admins = S]}
        PROVE  /\ x \in Database
               /\ x.devices = t.devices /\ x.token_of = t.token_of /\ x.owner_of = t.owner_of
               /\ x.email_of = t.email_of /\ x.localpart_of = t.localpart_of
    BY <1>1, <1>2 DEF Database
  <2> QED BY Zenon, <2>1, OtherTables
<1>3. /\ t.suspended \in SUBSET Users /\ t.locked \in SUBSET Users
      /\ t.login_disabled \in SUBSET Users /\ t.resets \in SUBSET Users
      /\ t.admins \in SUBSET Users
  BY Zenon, <1>1 DEF Database
<1> QED BY Zenon, <1>2, <1>3 DEF suspend_account, lock_account, disable_login, issue_token,
              make_user_admin

(* The calls that only take something out of a table need no argument.     *)
LEMMA TakenGood ==
  ASSUME NEW t, NEW n \in 0 .. MaxTokens, Good(t, n), NEW u, NEW D, NEW b \in BOOLEAN
  PROVE  /\ Good(unsuspend_account(t, u), n) /\ Good(unlock_account(t, u), n)
         /\ Good(enable_login(t, u), n) /\ Good([t EXCEPT !.resets = @ \ {u}], n)
         /\ Good(update_all_rooms(t, u), n) /\ Good(delete_pushers(t, u, D), n)
         /\ Good([t EXCEPT !.appservice = b], n)
<1>1. t \in Database
  BY Zenon DEF Good
<1>2. ASSUME NEW x \in {unsuspend_account(t, u), unlock_account(t, u), enable_login(t, u),
                        [t EXCEPT !.resets = @ \ {u}], update_all_rooms(t, u),
                        delete_pushers(t, u, D), [t EXCEPT !.appservice = b]}
      PROVE  /\ x \in Database
             /\ x.devices = t.devices /\ x.token_of = t.token_of /\ x.owner_of = t.owner_of
             /\ x.email_of = t.email_of /\ x.localpart_of = t.localpart_of
  BY <1>1 DEF Database, unsuspend_account, unlock_account, enable_login, update_all_rooms,
     delete_pushers
<1> QED BY Zenon, <1>2, OtherTables

LEMMA PusherGood ==
  ASSUME NEW t, NEW n \in 0 .. MaxTokens, Good(t, n), NEW u \in Users, NEW d \in Devices
  PROVE  Good(set_pusher(t, u, d), n)
<1> DEFINE x == set_pusher(t, u, d)
<1>1. t \in Database /\ <<u, d>> \in Keys
  BY Zenon DEF Good, Keys
<1>2. /\ x \in Database
      /\ x.devices = t.devices /\ x.token_of = t.token_of /\ x.owner_of = t.owner_of
      /\ x.email_of = t.email_of /\ x.localpart_of = t.localpart_of
  BY Zenon, <1>1 DEF Database, set_pusher
<1> QED BY Zenon, <1>2, OtherTables

LEMMA StartGood ==
  ASSUME NEW t, NEW n \in 0 .. MaxTokens, Good(t, n)
  PROVE  Good(start_appservice(t), n)
  BY Zenon, PasswordGood DEF start_appservice

LEMMA CallInv ==
  ASSUME IInv, NEW s \in Slots, Call(s)
  PROVE  IInv'
<1> DEFINE r == req[s]
           u == r.user
<1>1. Good(db, made.tokens) /\ made.tokens \in 0 .. MaxTokens /\ Requests
  BY Zenon DEF IInv, Counters
<1>2. ASSUME NEW call \in Calls, call \notin Finders, NEW ok, Check(s, call, ok) PROVE IInv'
  BY Zenon, <1>2, CheckInv
<1>3. ASSUME NEW call, call \notin Finders, NEW t, Write(s, call, t),
             At(s, call) => Good(t, made.tokens)
      PROVE  IInv'
  BY Zenon, <1>3, WriteInv DEF Write
<1>4. ASSUME NEW call \in UserCalls, At(s, call) PROVE u \in Users
  BY Zenon, <1>1, <1>4, Underway DEF Requests, UserCalls
<1>5. CASE \/ Check(s, "email_free", get_localpart_for_email(db, r.mail) = None)
           \/ Check(s, "mail_known", get_localpart_for_email(db, r.mail) # None)
           \/ Check(s, "name_free", ~ exists(db, u))
           \/ Check(s, "same_mail", r.verified = r.mail)
           \/ Check(s, "may_login", u \notin db.locked \cup db.login_disabled)
           \/ Check(s, "known", exists(db, u))
           \/ Check(s, "restrictable", exists(db, u) /\ u \notin db.admins)
           \/ Check(s, "check_reset", check_token(db, u))
           \/ Check(s, "get_device", <<u, r.target>> \in db.devices)
           \/ Check(s, "as_collision", db.owner_of[AsToken] = None)
  BY <1>2, <1>5, ZenonT(40) DEF Calls, Finders
<1>6. CASE \/ Write(s, "create", create(db, u))
           \/ Write(s, "set_password", set_password(db, u))
           \/ Write(s, "clear_password", clear_password(db, u))
  BY Zenon, <1>1, <1>3, <1>6, PasswordGood DEF Finders, create
<1>7. CASE \/ Write(s, "own_pushers", delete_pushers(db, u, {r.dev}))
           \/ Write(s, "other_pushers", delete_pushers(db, u, Devices \ {r.dev}))
           \/ Write(s, "all_pushers", delete_pushers(db, u, Devices))
           \/ Write(s, "leave_rooms", update_all_rooms(db, u))
           \/ Write(s, "unsuspend", unsuspend_account(db, u))
           \/ Write(s, "unlock", unlock_account(db, u))
           \/ Write(s, "enable_login", enable_login(db, u))
           \/ Write(s, "as_insert", [db EXCEPT !.appservice = TRUE])
  BY Zenon, <1>1, <1>3, <1>7, TakenGood DEF Finders
<1>8. CASE \/ Write(s, "suspend", suspend_account(db, u))
           \/ Write(s, "lock", lock_account(db, u))
           \/ Write(s, "disable_login", disable_login(db, u))
           \/ Write(s, "issue_reset", issue_token(db, u))
  BY Zenon, <1>1, <1>3, <1>4, <1>8, SetsGood DEF Finders, UserCalls
<1>9. CASE Write(s, "associate", associate_localpart_email(db, u, Mail(r))) /\ MayAssociate(db, u, Mail(r))
  <2>1. At(s, "associate")
    BY Zenon, <1>9 DEF Write
  <2>2. u \in Users /\ Mail(r) \in Mails
    BY <1>1, <2>1, Underway DEF Requests, UserCalls
  <2> QED BY Zenon, <1>1, <1>3, <1>9, <2>2, AssociateGood DEF Finders
<1>10. CASE Write(s, "disassociate", disassociate_localpart_email(db, u))
  BY Zenon, <1>1, <1>3, <1>4, <1>10, DisassociateGood DEF Finders, UserCalls
<1>11. CASE Write(s, "remove_own", remove_device(db, u, r.dev))
  <2>1. At(s, "remove_own")
    BY Zenon, <1>11 DEF Write
  <2>2. u \in Users /\ r.dev \in Devices
    BY <1>1, <2>1, Underway DEF Requests, UserCalls, DevCalls
  <2> QED BY Zenon, <1>1, <1>3, <1>11, <2>2, RemoveDeviceGood DEF Finders
<1>12. CASE Write(s, "remove_target", remove_device(db, u, r.target))
  <2>1. At(s, "remove_target")
    BY Zenon, <1>12 DEF Write
  <2>2. u \in Users /\ r.target \in Devices
    BY <1>1, <2>1, Underway DEF Requests, UserCalls, TargetCalls
  <2> QED BY Zenon, <1>1, <1>3, <1>12, <2>2, RemoveDeviceGood DEF Finders
<1>13. CASE Write(s, "put_device", put_metadata(db, u, r.target))
  <2>1. At(s, "put_device")
    BY Zenon, <1>13 DEF Write
  <2>2. u \in Users /\ r.target \in Devices
    BY <1>1, <2>1, Underway DEF Requests, UserCalls, TargetCalls
  <2> QED BY Zenon, <1>1, <1>3, <1>13, <2>2, MetadataGood DEF Finders
<1>14. CASE Write(s, "set_pusher", set_pusher(db, u, r.dev))
  <2>1. At(s, "set_pusher")
    BY Zenon, <1>14 DEF Write
  <2>2. u \in Users /\ r.dev \in Devices
    BY <1>1, <2>1, Underway DEF Requests, UserCalls, DevCalls
  <2> QED BY Zenon, <1>1, <1>3, <1>14, <2>2, PusherGood DEF Finders
<1>15. CASE Fail(s)
  BY Zenon, <1>15, FailInv
<1> QED BY Zenon, <1>5, <1>6, <1>7, <1>8, <1>9, <1>10, <1>11, <1>12, <1>13, <1>14, <1>15 DEF Call

LEMMA ConsumeTokenInv ==
  ASSUME IInv, NEW s \in Slots, consume_token(s)
  PROVE  IInv'
<1>1. Good(db, made.tokens) /\ made.tokens \in 0 .. MaxTokens
  BY Zenon DEF IInv, Counters
<1>2. Good([db EXCEPT !.resets = @ \ {req[s].user}], made.tokens)
  BY Zenon, <1>1, TakenGood
<1>3. Good(set_password([db EXCEPT !.resets = @ \ {req[s].user}], req[s].user), made.tokens)
  BY Zenon, <1>1, <1>2, PasswordGood
<1> QED BY Zenon, <1>3, WriteInv DEF consume_token, Finders

(* The calls that change both the tables and what is held in memory.       *)
LEMMA EmpowerInv ==
  ASSUME IInv, NEW s \in Slots, empower_first_user(s)
  PROVE  IInv'
<1>1. /\ At(s, "empower") /\ Continue(s, req[s]) /\ UNCHANGED made
      /\ mem' = [mem EXCEPT !.first_run = FALSE]
      /\ \/ db' = make_user_admin(db, req[s].user)
         \/ db' = suspend_account(db, req[s].user)
         \/ db' = db
  BY Zenon DEF empower_first_user
<1>2. req[s].user \in Users /\ made.tokens \in 0 .. MaxTokens
  BY <1>1, Underway DEF IInv, Requests, UserCalls, Counters
<1>3. Good(db', made.tokens)
  BY Zenon, <1>1, <1>2, SetsGood DEF IInv
<1>4. Requests' /\ UNCHANGED workload
  BY Zenon, <1>1, GoesOnAsIs DEF IInv, Finders
<1>5. Sessions'
  BY Zenon, <1>1, OtherMemory DEF IInv, Sessions, MemoryType
<1> QED BY Zenon, <1>1, <1>3, <1>4, <1>5 DEF IInv, Counters

LEMMA AppserviceInv ==
  ASSUME IInv, NEW s \in Slots, start(s) \/ unregister_appservice(s) \/ appservice_device(s)
  PROVE  IInv'
<1>1. Good(db, made.tokens) /\ made.tokens \in 0 .. MaxTokens /\ Appservice \in Users
  BY Zenon, AccountsAssumption DEF IInv, Counters
<1>2. CASE Fail(s)
  BY Zenon, <1>2, FailInv
<1>3. CASE \/ start(s)
           \/ unregister_appservice(s) /\ ~ Fail(s)
  <2>1. PICK call \in {"as_start", "as_remove"}, b \in BOOLEAN :
          At(s, call) /\ Continue(s, req[s]) /\ UNCHANGED made /\ mem' = [mem EXCEPT !.appservice = b]
    BY Zenon, <1>3 DEF start, unregister_appservice
  <2>2. Requests' /\ UNCHANGED workload
    BY Zenon, <2>1, GoesOnAsIs DEF IInv, Finders
  <2>3. Sessions'
    BY Zenon, <2>1, OtherMemory DEF IInv, Sessions, MemoryType
  <2>4. Good(db', made.tokens)
    <3>1. db' = start_appservice(db) \/ db' = [db EXCEPT !.appservice = FALSE]
      BY Zenon, <1>3 DEF start, unregister_appservice
    <3>2. Good(start_appservice(db), made.tokens)
      BY Zenon, <1>1, StartGood
    <3>3. Good([db EXCEPT !.appservice = FALSE], made.tokens)
      BY Zenon, <1>1, TakenGood
    <3> QED BY Zenon, <3>1, <3>2, <3>3
  <2> QED BY Zenon, <2>1, <2>2, <2>3, <2>4 DEF IInv, Counters
<1>4. CASE appservice_device(s)
  <2>1. /\ At(s, "as_device") /\ db' = put_metadata(db, Appservice, req[s].target)
        /\ req' = [req EXCEPT ![s] = Idle] /\ UNCHANGED <<mem, made, workload>>
    BY Zenon, <1>4 DEF appservice_device
  <2>2. req[s].target \in Devices
    BY Zenon, <2>1, Underway DEF IInv, Requests, TargetCalls
  <2>3. Good(db', made.tokens)
    BY Zenon, <1>1, <2>1, <2>2, MetadataGood
  <2>4. Requests'
    BY Zenon, <2>1, Ends DEF IInv
  <2> QED BY Zenon, <2>1, <2>3, <2>4, Unaffected DEF IInv
<1> QED BY Zenon, <1>2, <1>3, <1>4

-----------------------------------------------------------------------------
(* Startup.                                                                *)

LEMMA MemoryGood ==
  ASSUME NEW t \in Database
  PROVE  /\ Memory(t) \in MemoryType
         /\ Memory(t).sessions = [i \in Sids |-> None]
         /\ Memory(t).client_secrets = [c \in Secrets |-> None]
<1>1. FirstRun(t) \in BOOLEAN /\ t.appservice \in BOOLEAN
  BY Zenon DEF FirstRun, Database
<1> QED BY Zenon, <1>1 DEF Memory, MemoryType

LEMMA RestartInv ==
  ASSUME IInv, Restart
  PROVE  IInv'
<1> DEFINE t == IF db.appservice THEN start_appservice(db) ELSE db
<1>1. /\ made' = [made EXCEPT !.crashes = @ + 1] /\ db' = t /\ mem' = Memory(t)
      /\ req' = [s \in Slots |-> Idle] /\ UNCHANGED workload
  BY Zenon DEF Restart
<1>2. Counters' /\ made'.tokens = made.tokens /\ made'.sessions = made.sessions
      /\ made.tokens \in 0 .. MaxTokens
  BY <1>1 DEF IInv, Counters
<1>3. Good(t, made.tokens)
  BY Zenon, <1>2, StartGood DEF IInv
<1> HIDE DEF t
<1>4. Requests'
  BY Zenon, <1>1, IdleReady DEF Requests
<1>5. Sessions'
  <2>1. /\ mem' \in MemoryType /\ mem'.sessions = [i \in Sids |-> None]
        /\ mem'.client_secrets = [c \in Secrets |-> None]
    BY Zenon, <1>1, <1>3, MemoryGood DEF Good
  <2>2. \A i \in made'.sessions + 1 .. MaxSessions : i \in Sids
    <3>1. made'.sessions \in 0 .. MaxSessions
      BY Zenon, <1>2 DEF Counters
    <3> QED BY <3>1, Constants DEF Sids
  <2> QED BY Zenon, <2>1, <2>2 DEF Sessions, SessionMaps
<1> QED BY Zenon, <1>1, <1>2, <1>3, <1>4, <1>5 DEF IInv

LEMMA InitInv == Init => IInv
<1> SUFFICES ASSUME Init PROVE IInv
  BY Zenon
<1>1. PICK mail \in [Users -> Mails \cup {None}] :
        /\ \A u, v \in Users : mail[u] = mail[v] => u = v \/ mail[u] = None
        /\ db \in {InitDb(mail)} \cup
             {create_device(InitDb(mail), k[1], k[2], 1) : k \in {k \in Keys : mail[k[1]] # None}}
  BY Zenon DEF Init
<1> DEFINE t == InitDb(mail)
           part == [m \in Mails |-> IF \E u \in Users : mail[u] = m
                                    THEN CHOOSE u \in Users : mail[u] = m ELSE None]
<1>2. \A m \in Mails : \A u \in Users : mail[u] = m <=> part[m] = u
  <2> SUFFICES ASSUME NEW m \in Mails, NEW u \in Users PROVE mail[u] = m <=> part[m] = u
    BY Zenon
  <2>1. CASE \E w \in Users : mail[w] = m
    <3>1. part[m] \in Users /\ mail[part[m]] = m
      <4> DEFINE c == CHOOSE w \in Users : mail[w] = m
      <4>1. c \in Users /\ mail[c] = m
        BY <2>1, Zenon
      <4>2. part[m] = c
        BY Zenon, <2>1
      <4> QED BY Zenon, <4>1, <4>2
    <3> QED BY Zenon, <1>1, <3>1, Constants
  <2>2. CASE ~ \E w \in Users : mail[w] = m
    BY Zenon, <2>2, Constants
  <2> QED BY Zenon, <2>1, <2>2
<1>3. part \in [Mails -> Users \cup {None}]
  <2> SUFFICES ASSUME NEW m \in Mails PROVE part[m] \in Users \cup {None}
    BY Zenon
  <2>1. CASE \E w \in Users : mail[w] = m
    BY Zenon, <1>2, <2>1
  <2> QED BY Zenon, <2>1
<1> HIDE DEF part
<1>4. /\ t \in Database /\ t.devices = {} /\ t.email_of = mail /\ t.localpart_of = part
      /\ t.token_of = [k \in Keys |-> None] /\ t.owner_of = [k \in Tokens |-> None]
  BY Zenon, <1>1, <1>3 DEF InitDb, Database, part
<1> HIDE DEF t
<1>5. Good(t, 0)
  BY <1>2, <1>4, Constants DEF Good, TokensOf, EmailsOf, Fresh
<1>6. Good(db, made.tokens) /\ made.tokens \in 0 .. MaxTokens
  <2>1. CASE db = t
    <3>1. made.tokens = 0
      BY Zenon, <1>4, <2>1, FS_EmptySet DEF Init
    <3> QED BY <1>5, <2>1, <3>1, Constants
  <2>2. ASSUME NEW k \in Keys, db = create_device(t, k[1], k[2], 1)
        PROVE  Good(db, made.tokens) /\ made.tokens \in 0 .. MaxTokens
    <3>1. k[1] \in Users /\ k[2] \in Devices
      BY Zenon DEF Keys
    <3>2. db.devices = {<<k[1], k[2]>>}
      BY Zenon, <1>4, <2>2 DEF create_device, set_token, put_metadata, Database
    <3>3. made.tokens = 1
      BY Zenon, <3>2, FS_Singleton DEF Init
    <3>4. 1 \in Tokens /\ 1 \in 0 .. MaxTokens /\ 0 \in 0 .. MaxTokens
      BY Constants
    <3> QED BY SMTT(30), <1>5, <2>2, <3>1, <3>3, <3>4, CreateDeviceGood
  <2> QED BY Zenon, <1>1, <2>1, <2>2 DEF t
<1>7. Counters
  BY <1>6, Constants DEF Init, Counters
<1>8. Requests
  BY Zenon, IdleReady DEF Init, Requests
<1>9. Sessions
  <2>1. /\ mem \in MemoryType /\ mem.sessions = [i \in Sids |-> None]
        /\ mem.client_secrets = [c \in Secrets |-> None] /\ made.sessions = 0
    BY Zenon, <1>6, MemoryGood DEF Good, Init
  <2> QED BY <2>1 DEF Sessions, SessionMaps, Sids
<1> QED BY Zenon, <1>6, <1>7, <1>8, <1>9, AccountsAssumption DEF IInv, Init

LEMMA NextInv == IInv /\ [Next]_vars => IInv'
<1> SUFFICES ASSUME IInv, [Next]_vars PROVE IInv'
  BY Zenon
<1>1. ASSUME NEW s \in Slots, Arrive(s) \/ Call(s) \/ consume_token(s) \/ empower_first_user(s)
      PROVE  IInv'
  BY Zenon, <1>1, ArriveInv, CallInv, ConsumeTokenInv, EmpowerInv
<1>2. ASSUME NEW s \in Slots,
             \/ issue_validation_session(s) \/ try_validate_session(s)
             \/ consume_valid_session(s) \/ authenticate_password(s)
      PROVE  IInv'
  BY Zenon, <1>2, IssueInv, ValidateInv, ConsumeInv, UiaaInv
<1>3. ASSUME NEW s \in Slots,
             \/ handle_login(s) \/ account_of_email(s) \/ get_dehydrated_device_id(s)
             \/ device_exists(s)
             \/ list_devices(s, "list", DevicesOf(req[s].user))
             \/ list_devices(s, "list_others", DevicesOf(req[s].user) \ {req[s].dev})
      PROVE  IInv'
  BY Zenon, <1>3, FoundInv, LookInv
<1>4. ASSUME NEW s \in Slots,
             \/ complete_login(s) \/ register_device(s) \/ remove_listed(s) \/ put_dehydrated(s)
      PROVE  IInv'
  BY Zenon, <1>4, NewTokenInv, RemoveListedInv, PutDehydratedInv
<1>5. ASSUME NEW s \in Slots, start(s) \/ unregister_appservice(s) \/ appservice_device(s)
      PROVE  IInv'
  BY Zenon, <1>5, AppserviceInv
<1>6. CASE Restart
  BY Zenon, <1>6, RestartInv
<1>7. CASE UNCHANGED vars
  BY Zenon, <1>7 DEF vars, IInv, Sessions, SessionMaps, Requests, Counters
<1> QED BY Zenon, <1>1, <1>2, <1>3, <1>4, <1>5, <1>6, <1>7 DEF Next

(* The inductive invariant holds in every state.                           *)
THEOREM Invariance == Spec => []IInv
  BY InitInv, NextInv, PTL DEF Spec

(* The tables, what the services hold in memory and every request under    *)
(* way have their types: no call of a route or command (Call and the       *)
(* actions beside it) is made without the arguments it needs.              *)
THEOREM TypeCorrect == Spec => []TypeOK
  BY Invariance, IInvImplies, PTL

(* A token that find_from_token accepts is the current token of a device   *)
(* that exists, and the token of every device is accepted: set_token,      *)
(* create_device, remove_device and set_dehydrated_device keep the two     *)
(* tables in step whatever requests run side by side and wherever the      *)
(* server stops.                                                           *)
THEOREM TokensAgreeCorrect == Spec => []TokensAgree
  BY Invariance, IInvImplies, PTL

(* An email address leads to the account that has it and to no other.      *)
THEOREM EmailsAgreeCorrect == Spec => []EmailsAgree
  BY Invariance, IInvImplies, PTL

(* The two maps of validation sessions are inverse, so that the lookups    *)
(* session.rs expects to succeed do.                                       *)
THEOREM SessionMapsCorrect == Spec => []SessionMaps
  BY Invariance, IInvImplies, PTL
=============================================================================
