----------------------------- MODULE Migrations -----------------------------
(***************************************************************************)
(* What Services::start does to the database before any worker runs: the   *)
(* schema migrations of an old database, or the first rows of a new one.   *)
(* The process may be killed between two writes and is then started again; *)
(* nothing else uses the database in the meantime.                         *)
(*                                                                         *)
(* A migration reads a table and visits its rows one after the other; for  *)
(* each row it issues a few writes, computed from the tables it found.     *)
(* Then it sets a marker or a version number.  Writes reach the disk in    *)
(* the order they are issued: a crash that loses the last of them is an    *)
(* earlier crash.                                                          *)
(*                                                                         *)
(* Source: src/src/service/migrations.rs and create_admin_room of          *)
(* src/src/service/admin/create.rs.  The media migration is Media's.       *)
(***************************************************************************)
EXTENDS Integers, Sequences, FiniteSets

CONSTANTS
  Users,       \* local users who have an account or a membership in the room
  Events,      \* events that others refer to
  Receipts,    \* keys of read receipts: a count and a user
  Fields,      \* fields of a profile
  Databases,   \* the databases a server may be started on
  MaxCrashes   \* bound: how often a process is stopped or fails to create a room

DATABASE_VERSION == 18

VARIABLES
  db,       \* version, markers, accounts and the tables the migrations touch
  proc,     \* down | boot | migrate | fresh | up | refused | panicked
  at,       \* the step of the plan that is running
  read,     \* this step has read its table
  rows,     \* the rows it has still to visit
  todo,     \* the writes it still has to issue for the row it visits
  crashes,  \* how often the process was stopped
  left      \* history: the tables as the last process that came up left them

migrate_vars == <<db, proc, at, read, rows, todo, crashes, left>>

None == "none"

(* The tables by their keys: a membership row is under its key with one    *)
(* separator or with two, a reference with its separator or without.  A    *)
(* key has a value or None.  db.member is what the state of the room says  *)
(* of a user, and who sent that.                                           *)
TableKeys ==
  [rules |-> Users, joined |-> {"one", "two"} \X Users, leftstate |-> Users, invites |-> Users,
   references |-> {"joint", "split"} \X Events, receipts |-> Receipts, profile |-> Fields]
TableValues ==
  [rules |-> {"old", "renamed", "default"}, joined |-> {"row"},
   leftstate |-> {"corrupt", "null", "event"}, invites |-> {"corrupt", "empty", "stripped"},
   references |-> {"row"}, receipts |-> {"row"}, profile |-> {"raw", "json"}]

Member(membership) == [membership |-> membership, sender |-> "local"]
W(table, key, value) == [table |-> table, key |-> key, value |-> value]
Put(d, w) == [d EXCEPT !.tables[w.table][w.key] = w.value]

Rows(d, table) == {k \in DOMAIN d.tables[table] : d.tables[table][k] # None}

(* What a loop of a migration does with one row; a migration with two      *)
(* loops ends the first before it begins the second.                       *)
Visit(loop, writes) == [loop |-> loop, writes |-> writes]

-----------------------------------------------------------------------------
(* The writes of each migration.                                           *)

list_local_users(d) == d.accounts \ {"server"}

(* db_lt_12: every local user's rules under their new names.               *)
db_lt_12(d) ==
  {Visit(1, << W("rules", u, IF d.tables.rules[u] = "old" THEN "renamed" ELSE d.tables.rules[u]) >>) :
     u \in list_local_users(d)}

(* db_lt_13: the rules are completed with the server's defaults.           *)
db_lt_13(d) ==
  {Visit(1, << W("rules", u, IF d.tables.rules[u] = None THEN None ELSE "default") >>) :
     u \in list_local_users(d)}

(* Both read the rules of a user with expect: without any they panic.      *)
Panics(w) == w.table = "rules" /\ w.value = None

(* The row is removed, then inserted under the right key.                  *)
fix_bad_double_separator_in_state_cache(d) ==
  {Visit(1, << W("joined", k, None), W("joined", <<"one", k[2]>>, "row") >>) :
     k \in {j \in Rows(d, "joined") : j[1] = "two"}}

mark_as_joined(u) ==
  << W("joined", <<"one", u>>, "row"), W("invites", u, None), W("leftstate", u, None) >>
mark_as_left(u) ==
  << W("leftstate", u, "null"), W("joined", <<"one", u>>, None), W("invites", u, None) >>

Members(d) == {k[2] : k \in {j \in Rows(d, "joined") : j[1] = "one"}}
Joined(d, users) == {u \in users : d.member[u].membership = "join"}

(* Both lists of users are filtered by the same condition.                 *)
retroactively_fix_bad_data_from_roomuserid_joined(d) ==
  LET joined_members == Joined(d, Members(d))
      non_joined_members == Joined(d, Members(d))
  IN  {Visit(1, mark_as_joined(u)) : u \in joined_members}
        \cup {Visit(2, mark_as_left(u)) : u \in non_joined_members}

(* A defect for comparison: the wrong key is removed first.                *)
fix_referencedevents_missing_sep_RemoveFirst(d) ==
  {Visit(1, << W("references", k, None), W("references", <<"split", k[2]>>, "row") >>) :
     k \in {j \in Rows(d, "references") : j[1] = "joint"}}

(* The row is put under the right key, then removed under the wrong one.   *)
fix_referencedevents_missing_sep(d) ==
  {Visit(1, << W("references", <<"split", k[2]>>, "row"), W("references", k, None) >>) :
     k \in {j \in Rows(d, "references") : j[1] = "joint"}}

(* A receipt goes when the row before it is of the same user.              *)
fix_readreceiptid_readreceipt_duplicates(d) ==
  LET Dup(k) == \E j \in Rows(d, "receipts") :
                  /\ j[1] < k[1] /\ j[2] = k[2]
                  /\ \A i \in Rows(d, "receipts") : i[1] <= j[1] \/ k[1] <= i[1]
  IN  {Visit(1, << W("receipts", k, None) >>) : k \in {j \in Rows(d, "receipts") : Dup(j)}}

fix_corrupt_msc4133_fields(d) ==
  {Visit(1, << W("profile", k, IF k = "tz" THEN "json" ELSE None) >>) :
     k \in {f \in Rows(d, "profile") : d.tables.profile[f] = "raw"}}

(* A room without state leaves its rows as they are.                       *)
populate_userroomid_leftstate_table(d) ==
  {Visit(1, << W("leftstate", u, IF d.member[u].membership # None THEN "event" ELSE None) >>) :
     u \in {v \in Rows(d, "leftstate") : d.has_state /\ d.tables.leftstate[v] = "corrupt"}}

(* An unreadable row is removed and then counts as an empty one.           *)
fix_local_invite_state(d) ==
  {Visit(1, (IF d.tables.invites[u] = "corrupt" THEN << W("invites", u, None) >> ELSE << >>)
              \o (IF d.member[u] = Member("invite")
                    THEN << W("invites", u, "stripped") >> ELSE << >>)) :
     u \in {v \in Rows(d, "invites") : d.tables.invites[v] # "stripped"}}

-----------------------------------------------------------------------------
(* migrate: the steps in their order.  A step is due by the version, by    *)
(* its marker, or by either; it ends with a version, a marker, or both.    *)
Plan == <<"v12", "v13", "media", "separator", "joined", "references", "receipts",
          "v17", "profile", "v18", "leftstate", "invites">>
Named == {"media", "separator", "joined", "references", "receipts", "profile",
          "leftstate", "invites"}
Target == [v12 |-> 12, v13 |-> 13, v17 |-> 17, v18 |-> 18]

(* A defect for comparison: the marker is not looked at.                   *)
Due_Always(d, step) == IF step \in Named THEN TRUE ELSE d.version < Target[step]
(* A defect for comparison: a database of version 17 has its last version  *)
(* number left as it is.                                                   *)
Due_Stuck(d, step) ==
  IF step \in Named
    THEN step \notin d.markers \/ (step \in {"references", "receipts"} /\ d.version < 17)
    ELSE d.version < Target[step] /\ d.version # 17

Due(d, step) ==
  IF step \in Named
    THEN step \notin d.markers \/ (step \in {"references", "receipts"} /\ d.version < 17)
    ELSE d.version < Target[step]

Writes(d, step) ==
  CASE step = "v12" -> db_lt_12(d)
    [] step = "v13" -> db_lt_13(d)
    [] step = "separator" -> fix_bad_double_separator_in_state_cache(d)
    [] step = "joined" -> retroactively_fix_bad_data_from_roomuserid_joined(d)
    [] step = "references" -> fix_referencedevents_missing_sep(d)
    [] step = "receipts" -> fix_readreceiptid_readreceipt_duplicates(d)
    [] step = "profile" -> fix_corrupt_msc4133_fields(d)
    [] step = "leftstate" -> populate_userroomid_leftstate_table(d)
    [] step = "invites" -> fix_local_invite_state(d)
    [] OTHER -> {}

Done(d, step) ==
  IF step \in Named THEN [d EXCEPT !.markers = @ \cup {step}]
                    ELSE [d EXCEPT !.version = Target[step]]

(* create_admin_room: the server user, then the events of the room, with   *)
(* the alias before the last of them.                                      *)
AdminRoom == <<"user", "create", "join", "power", "rules", "visibility", "guests",
               "name", "topic", "canonical", "alias", "previews">>
Create(d, what) ==
  IF what = "user" THEN [d EXCEPT !.accounts = @ \cup {"server"}]
                   ELSE [d EXCEPT !.admin_room = @ \cup {what}]

-----------------------------------------------------------------------------
MigrateInit ==
  /\ db \in Databases
  /\ proc = "down" /\ at = 1 /\ read = FALSE /\ rows = {} /\ todo = << >>
  /\ crashes = 0 /\ left = {}

Start ==
  /\ proc \in {"down", "refused", "panicked"}
  /\ proc' = "boot" /\ at' = 1 /\ read' = FALSE /\ rows' = {} /\ todo' = << >>
  /\ UNCHANGED <<db, crashes, left>>

(* The process is killed, or stopped once it is up.                        *)
Crash ==
  /\ proc \in {"boot", "migrate", "fresh", "up"} /\ crashes < MaxCrashes
  /\ proc' = "down" /\ crashes' = crashes + 1
  /\ left' = IF proc = "up" THEN {db.tables} ELSE left
  /\ UNCHANGED <<db, at, read, rows, todo>>

(* While the server is up somebody joins the room.                         *)
Use ==
  /\ proc = "up"
  /\ \E u \in DOMAIN db.member :
       LET w == mark_as_joined(u)
       IN  db' = Put(Put(Put([db EXCEPT !.member[u] = Member("join")], w[1]), w[2]), w[3])
  /\ UNCHANGED <<proc, at, read, rows, todo, crashes, left>>

(* migrations: users_count decides; an old database needs its server user  *)
(* and a version that is still supported.                                  *)
migrations ==
  /\ proc = "boot"
  /\ IF db.accounts = {}
       THEN /\ proc' = "fresh"
            /\ db' = [db EXCEPT !.version = DATABASE_VERSION, !.markers = Named]
       ELSE /\ proc' = IF "server" \in db.accounts /\ db.version >= 11
                         THEN "migrate" ELSE "refused"
            /\ UNCHANGED db
  /\ UNCHANGED <<at, read, rows, todo, crashes, left>>

fresh ==
  /\ proc = "fresh"
  /\ db' = Create(db, AdminRoom[at])
  /\ IF at < Len(AdminRoom) THEN at' = at + 1 /\ UNCHANGED proc
                            ELSE proc' = "up" /\ UNCHANGED at
  /\ UNCHANGED <<read, rows, todo, crashes, left>>

(* An event of the admin room is refused: the start fails.                 *)
FreshFails ==
  /\ proc = "fresh" /\ crashes < MaxCrashes
  /\ proc' = "refused" /\ crashes' = crashes + 1
  /\ UNCHANGED <<db, at, read, rows, todo, left>>

step == Plan[at]

Skip ==
  /\ proc = "migrate" /\ at <= Len(Plan) /\ ~read
  /\ ~Due(db, step)
  /\ at' = at + 1
  /\ UNCHANGED <<db, proc, read, rows, todo, crashes, left>>

Read ==
  /\ proc = "migrate" /\ at <= Len(Plan) /\ ~read
  /\ Due(db, step)
  /\ read' = TRUE /\ rows' = Writes(db, step)
  /\ UNCHANGED <<db, proc, at, todo, crashes, left>>

NextRow ==
  /\ proc = "migrate" /\ todo = << >>
  /\ \E r \in rows : /\ \A q \in rows : r.loop <= q.loop
                    /\ todo' = r.writes /\ rows' = rows \ {r}
  /\ UNCHANGED <<db, proc, at, read, crashes, left>>

Issue ==
  /\ proc = "migrate" /\ todo # << >>
  /\ IF Panics(Head(todo))
       THEN proc' = "panicked" /\ UNCHANGED <<db, todo>>
       ELSE db' = Put(db, Head(todo)) /\ todo' = Tail(todo) /\ UNCHANGED proc
  /\ UNCHANGED <<at, read, rows, crashes, left>>

(* A defect for comparison: the marker is set before the writes.           *)
Mark_First ==
  /\ proc = "migrate" /\ read
  /\ db' = Done(db, step)
  /\ IF rows = {} /\ todo = << >> THEN at' = at + 1 /\ read' = FALSE
                     ELSE db # db' /\ UNCHANGED <<at, read>>
  /\ UNCHANGED <<proc, rows, todo, crashes, left>>

Mark ==
  /\ proc = "migrate" /\ read /\ rows = {} /\ todo = << >>
  /\ db' = Done(db, step)
  /\ at' = at + 1 /\ read' = FALSE
  /\ UNCHANGED <<proc, rows, todo, crashes, left>>

(* The end of migrate asserts the version.                                 *)
AssertVersion ==
  /\ proc = "migrate" /\ at > Len(Plan)
  /\ proc' = IF db.version = DATABASE_VERSION THEN "up" ELSE "panicked"
  /\ UNCHANGED <<db, at, read, rows, todo, crashes, left>>

Step == migrations \/ fresh \/ Skip \/ Read \/ NextRow \/ Issue \/ Mark \/ AssertVersion
MigrateNext == Start \/ Crash \/ FreshFails \/ Use \/ Step

(* A start that is not interrupted goes on; the operator starts a server   *)
(* that is down again.                                                     *)
MigrateSpec ==
  MigrateInit /\ [][MigrateNext]_migrate_vars /\ WF_migrate_vars(Step) /\ WF_migrate_vars(Start)

-----------------------------------------------------------------------------
(* The rows each migration is there to fix, and their table.               *)
Repairs == [v12 |-> "rules", separator |-> "joined", references |-> "references",
            profile |-> "profile", leftstate |-> "leftstate", invites |-> "invites"]
Broken(d, s, k) ==
  \/ s = "v12" /\ k \in list_local_users(d) /\ d.tables.rules[k] = "old"
  \/ s = "separator" /\ k[1] = "two" /\ d.tables.joined[k] # None
  \/ s = "references" /\ k[1] = "joint" /\ d.tables.references[k] # None
  \/ s = "profile" /\ d.tables.profile[k] = "raw"
  \/ s = "leftstate" /\ d.has_state /\ d.tables.leftstate[k] = "corrupt"
  \/ s = "invites" /\ \/ d.tables.invites[k] = "corrupt"
                      \/ d.tables.invites[k] = "empty" /\ d.member[k] = Member("invite")
Fixed(d, s) == \A k \in TableKeys[Repairs[s]] : ~ Broken(d, s, k)

(* A migration's marker, or the version it ends with, is on disk only when *)
(* no row it is there to fix is left, wherever starts were interrupted:    *)
(* the next start will not look at the table again.                        *)
MarkedIsFixed == \A s \in DOMAIN Repairs : ~ Due(db, s) => Fixed(db, s)

(* No reference between events gets lost when its row is moved, at no      *)
(* point of an interrupted start.                                          *)
Referenced(d) == {k[2] : k \in Rows(d, "references")}
ReferencesKept == Referenced(db) = db.referenced

(* The databases that a start may find: of the tables' types, with what    *)
(* earlier starts marked as fixed, and with its references; a database     *)
(* without accounts has nothing to fix.                                    *)
IsDatabase(d) ==
  /\ DOMAIN d = {"version", "markers", "accounts", "admin_room", "has_state", "referenced",
                 "member", "tables"}
  /\ d.version \in Nat /\ d.markers \subseteq Named
  /\ d.accounts \subseteq Users \cup {"server"} /\ d.has_state \in BOOLEAN
  /\ d.referenced \subseteq Events /\ DOMAIN d.member = Users
  /\ DOMAIN d.tables = DOMAIN TableKeys
  /\ \A t \in DOMAIN TableKeys : d.tables[t] \in [TableKeys[t] -> TableValues[t] \cup {None}]

ASSUME DatabasesAssumption ==
  \A d \in Databases :
    /\ IsDatabase(d) /\ Referenced(d) = d.referenced
    /\ \A s \in DOMAIN Repairs : ~ Due(d, s) \/ d.accounts = {} => Fixed(d, s)

(* What the users of a server did since it first came up is left alone: no *)
(* later start touches a row of it.                                        *)
Settled == proc # "up" => \A t \in left : db.tables = t

(* A server with a database it supports comes up in the end, however often *)
(* its first starts were interrupted: no interrupted migration leaves a    *)
(* database behind on which the next start refuses to run or panics.       *)
Supported ==
  \/ db.accounts = {}
  \/ /\ "server" \in db.accounts /\ db.version \in 11 .. DATABASE_VERSION
     /\ db.version < 13 =>
          \A u \in list_local_users(db) : db.tables.rules[u] # None
ComesUp == Supported => <>[](proc = "up")

(* The migration named after it makes the membership cache agree with the  *)
(* room: the joined are marked as joined, those who left or were banned as *)
(* left.                                                                   *)
MembershipsMarked ==
  "joined" \in db.markers /\ proc = "up" =>
    Members(db) = {u \in DOMAIN db.member : db.member[u].membership = "join"}
=============================================================================
