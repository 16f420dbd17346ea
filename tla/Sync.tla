-------------------------------- MODULE Sync --------------------------------
(***************************************************************************)
(* How updates reach a client that polls /sync.                            *)
(*                                                                         *)
(* Every update the server keeps for a client (an event of a timeline, a   *)
(* to-device message, account data, receipts, typing, presence, key        *)
(* changes, invites and leaves) is a row stamped with a number taken from  *)
(* the one global counter.  A sync answers with the rows stamped after     *)
(* `since` and hands the client the counter's value as its next `since`.   *)
(* Taking the stamp, writing the row and reading the tables are separate   *)
(* steps of different tasks; this module interleaves them at the grain of  *)
(* one database operation.                                                 *)
(*                                                                         *)
(* One device of one user (alice) polls, with /v3/sync or with simplified  *)
(* sliding sync (v5).  The handlers that write run in Jobs; each is the    *)
(* list of database steps its code performs, in the code's order.          *)
(***************************************************************************)
EXTENDS Integers, Sequences, FiniteSets, TLC, Functions

CONSTANTS Jobs,           \* slots for handlers that write: numbers
          Workloads,      \* [ops: Seq of handler names, v5, presence: BOOLEAN,
                          \*  faults: bound on lost answers and restarts,
                          \*  syncs: bound on syncs that take a stamp]
          TimelineLimit   \* events a sync returns per room

ASSUME LimitAssumption == TimelineLimit \in Nat \ {0}
ASSUME WorkloadsAssumption ==
    \A w \in Workloads : {w.faults, w.syncs} \subseteq Nat

VARIABLES count,    \* globals: the counter, persisted
          db,       \* the tables
          mem,      \* typing notifications and sliding sync connections
          jobs,     \* handlers in progress
          rq,       \* the sync request in progress
          client,   \* what the client holds
          ghost,    \* what the properties remember
          cfg,      \* the workload
          made      \* bounded events so far, and how many handlers have started

vars == <<count, db, mem, jobs, rq, client, ghost, cfg, made>>

Me == "alice"
StateKeys == {"name", "topic"}
NoState == [k \in StateKeys |-> 0]
NoJob == [todo |-> <<>>, n |-> 0, prev |-> {}]
NoRequest == [ph |-> "idle", since |-> 0, cur |-> 0, unread |-> {},
              got |-> {}, excused |-> {}, state |-> {}, again |-> FALSE,
              woken |-> FALSE, was |-> <<>>, now |-> NoState, room |-> 0]

Row(st, key, n) == [st |-> st, key |-> key, n |-> n]
Of(rows, st) == {r \in rows : r.st = st}
At(rows, st, key) == {r \in rows : r.st = st /\ r.key = key}
Newest(rows) == CHOOSE r \in rows : \A q \in rows : q.n <= r.n

-----------------------------------------------------------------------------
(* Service calls that write: the steps each performs, in order.            *)

add_to_device_event == << <<"count">>, <<"put", "todevice", Me>> >>

\* The table the watchers look at, roomusertype_roomuserdataid, is the
\* pointer to the newest entry: it is written after the entry itself.
update(st, key) ==
    << <<"count">>, <<"put", st, key>>, <<"prev", st, key>>,
       <<"point", st, key>>, <<"drop", st, key>> >>

readreceipt_update(u) ==
    << <<"clear", "receipt", u>>, <<"count">>, <<"put", "receipt", u>> >>

\* Of the tables private to a user, alice's sync reads only her own rows; of
\* another user's row only the stamp it takes is of interest.
Own(u, steps) == IF u = Me THEN steps ELSE <<>>

\* The marker's value is put just before its stamp; only the stamp decides
\* whether a sync sends it.
private_read_set(u) == << <<"count">> >> \o Own(u, << <<"cell", "private", u>> >>)

\* The two counters are zeroed (they are watched) before the stamp is taken.
reset_notification_counts(u) ==
    Own(u, << <<"wake">> >>) \o << <<"count">> >>
        \o Own(u, << <<"cell", "notify", u>> >>)

typing_add(u) == << <<"type", u>>, <<"typed">>, <<"wake">> >>

typing_remove(u) == << <<"untype", u>>, <<"typed">>, <<"wake">> >>

\* "prev" may also end the call: an update that is not news is ignored.
set_presence_db(u) ==
    << <<"last", "presence", u>>, <<"count">>, <<"put", "presence", u>>,
       <<"point", "presence", u>>, <<"drop", "presence", u>> >>

\* The timer a new presence starts fires as process_presence_timer.
set_presence(u) == set_presence_db(u)

ping_presence(u) == set_presence(u)

process_presence_timer(u) == set_presence(u)

\* One stamp for every encrypted room the user is in and for the user.
mark_device_key_update(u) ==
    << <<"count">>, <<"put", "room_keys", u>> >>
        \o Own(u, << <<"put", "user_keys", u>> >>)

add_one_time_key == << <<"count">>, <<"wake">> >>

take_one_time_key == << <<"count">>, <<"wake">> >>

add_device_keys(u) == mark_device_key_update(u)

add_cross_signing_keys(u, notify) ==
    IF notify THEN mark_device_key_update(u) ELSE <<>>

sign_key(target) == mark_device_key_update(target)

\* Under the room's state mutex: a first stamp (the read marker's value), the
\* sender's read marks, the event, and then the room's new state.
append_pdu(u, key) ==
    << <<"lock">> >>
        \o private_read_set(u) \o reset_notification_counts(u)
        \o << <<"count">>, <<"put", "timeline", key>>, <<"state", key>> >>

\* The state of an invite, leave or knock is written (and wakes watchers)
\* before its stamp; what the user was before is cleared last.
mark_as(st, others) ==
    << <<"wake">>, <<"count">>, <<"cell", st, "other">> >>
        \o [i \in DOMAIN others |-> <<"clear", others[i], "other">>]

mark_as_invited == mark_as("invite", <<"left", "knock">>)

mark_as_left == mark_as("left", <<"invite", "knock">>)

\* Nothing a sync watches is touched: its tables have no watcher.
mark_as_knocked ==
    << <<"count">>, <<"cell", "knock", "other">>,
       <<"clear", "invite", "other">>, <<"clear", "left", "other">> >>

-----------------------------------------------------------------------------
(* The handlers.  A handler that updates presence does so only when local  *)
(* presence is enabled.                                                    *)

Presence(u) == IF cfg.presence THEN ping_presence(u) ELSE <<>>

send_event_to_device_route ==
    << <<"seen_txn">> >> \o add_to_device_event \o << <<"save_txn">> >>

handle_edu_direct_to_device_event == add_to_device_event

handle_edu_direct_to_device_user == handle_edu_direct_to_device_event

handle_edu_direct_to_device ==
    << <<"seen_txn">> >> \o handle_edu_direct_to_device_user
        \o << <<"save_txn">> >>

set_global_account_data_route == update("global_data", "type")

set_room_account_data_route == update("room_data", "type")

\* Adding and deleting a tag both rewrite the one m.tag entry.
update_tag_route == update("room_data", "tag")

delete_tag_route == update("room_data", "tag")

set_read_marker_route ==
    update("room_data", "fully_read") \o reset_notification_counts(Me)
        \o Presence(Me) \o readreceipt_update(Me) \o private_read_set(Me)

create_receipt_route(kind) ==
    (IF kind = "fully_read" THEN <<>> ELSE reset_notification_counts(Me))
        \o Presence(Me)
        \o CASE kind = "fully_read" -> update("room_data", "fully_read")
             [] kind = "read" -> readreceipt_update(Me)
             [] kind = "private" -> private_read_set(Me)

create_typing_event_route(u, yes) ==
    (IF yes THEN typing_add(u) ELSE typing_remove(u)) \o Presence(u)

set_presence_route(u) == set_presence(u)

\* A new profile is a new member event in each room the user is in.
update_all_rooms(u) == append_pdu(u, "member")

update_displayname(u) == update_all_rooms(u)

update_avatar_url(u) == update_all_rooms(u)

set_displayname_route(u) == update_displayname(u) \o Presence(u)

set_avatar_url_route(u) == update_avatar_url(u) \o Presence(u)

set_profile_key_route(u, name) ==
    (CASE name = "displayname" -> update_displayname(u)
       [] name = "avatar_url" -> update_avatar_url(u)
       [] OTHER -> <<>>) \o Presence(u)

delete_profile_key_route(u, name) == set_profile_key_route(u, name)

upload_keys_route(u) == add_one_time_key \o add_device_keys(u)

claim_keys_helper == take_one_time_key

upload_signing_keys_route(u) == add_cross_signing_keys(u, TRUE)

upload_signatures_route(u) == sign_key(u)

\* EDUs of other servers, after the checks on their origin.
handle_edu_presence_update(u) == set_presence(u)

\* One program after the other.
InTurn(programs) ==
    LET upTo[i \in 0 .. Len(programs)] ==
          IF i = 0 THEN <<>> ELSE upTo[i - 1] \o programs[i]
    IN upTo[Len(programs)]

handle_edu_presence(users) ==
    InTurn([i \in DOMAIN users |-> handle_edu_presence_update(users[i])])

handle_edu_receipt_room_user(u) == readreceipt_update(u)

handle_edu_receipt(users) ==
    InTurn([i \in DOMAIN users |-> handle_edu_receipt_room_user(users[i])])

handle_edu_typing(u, yes) == IF yes THEN typing_add(u) ELSE typing_remove(u)

handle_edu_device_list_update(u) == mark_device_key_update(u)

handle_edu_signing_key_update(u) == add_cross_signing_keys(u, TRUE)

handle_edu(kind) ==
    CASE kind = "edu_presence" -> handle_edu_presence(<<"bob">>)
      [] kind = "edu_receipt" -> handle_edu_receipt(<<"bob">>)
      [] kind = "edu_type" -> handle_edu_typing("bob", TRUE)
      [] kind = "edu_untype" -> handle_edu_typing("bob", FALSE)
      [] kind = "edu_devices" -> handle_edu_device_list_update("bob")
      [] kind = "edu_to_device" -> handle_edu_direct_to_device
      [] kind = "edu_signing" -> handle_edu_signing_key_update("bob")

Program(op) ==
    CASE op = "to_device" -> send_event_to_device_route
      [] op = "global_data" -> set_global_account_data_route
      [] op = "room_data" -> set_room_account_data_route
      [] op = "tag" -> update_tag_route
      [] op = "untag" -> delete_tag_route
      [] op = "read_marker" -> set_read_marker_route
      [] op = "fully_read" -> create_receipt_route("fully_read")
      [] op = "receipt" -> create_receipt_route("read")
      [] op = "private_receipt" -> create_receipt_route("private")
      [] op = "type" -> create_typing_event_route(Me, TRUE)
      [] op = "untype" -> create_typing_event_route(Me, FALSE)
      [] op = "presence" -> set_presence_route("bob")
      [] op = "timer" -> process_presence_timer("bob")
      [] op = "displayname" -> set_displayname_route("bob")
      [] op = "avatar" -> set_avatar_url_route("bob")
      [] op = "profile_key" -> set_profile_key_route(Me, "avatar_url")
      [] op = "no_profile_key" -> delete_profile_key_route(Me, "displayname")
      [] op = "upload_keys" -> upload_keys_route(Me)
      [] op = "claim_keys" -> claim_keys_helper
      [] op = "signing_keys" -> upload_signing_keys_route("bob")
      [] op = "sign_key" -> upload_signatures_route("bob")
      [] op = "message" -> append_pdu("bob", "message")
      [] op = "name" -> append_pdu("bob", "name")
      [] op = "topic" -> append_pdu("bob", "topic")
      [] op = "own_message" -> append_pdu(Me, "message")
      [] op = "invite" -> mark_as_invited
      [] op = "leave" -> mark_as_left
      [] op = "knock" -> mark_as_knocked
      [] OTHER -> handle_edu(op)

\* What a sync reads.
AllStreams == {"todevice", "global_data", "room_data", "receipt", "private", "notify",
               "presence", "user_keys", "room_keys", "left", "invite", "knock",
               "timeline", "typing"}

\* The streams the workload writes: reading any other stream finds nothing.
Streams ==
    LET Steps == UNION {Range(Program(cfg.ops[i])) : i \in DOMAIN cfg.ops}
    IN AllStreams \cap
         ({s[2] : s \in {t \in Steps : t[1] \in {"put", "cell"}}}
            \cup (IF <<"typed">> \in Steps THEN {"typing"} ELSE {})
            \cup (IF cfg.presence THEN {"presence"} ELSE {}))

-----------------------------------------------------------------------------
(* The rows a sync of alice can read; typing is held in memory.            *)

Rows ==
    db.rows \cup (IF mem.last = 0 THEN {}
                  ELSE {Row("typing", "room", mem.last)})

\* A row whose stamp a running sync has already passed, or the client has.
Overtaken(n) ==
    \/ client.token >= n
    \/ rq.ph # "idle" /\ rq.cur >= n

\* A write to a table the hanging sync watches.
Wake(r) == IF r.ph = "wait" THEN [r EXCEPT !.woken = TRUE] ELSE r

\* watch: the tables whose rows end the wait of a sync.
Watched == {"todevice", "receipt", "room_keys", "user_keys", "timeline"}
WatchedPointers == {"global_data", "room_data"}

Job(j, todo) ==
    jobs' = [jobs EXCEPT ![j] = IF todo = <<>> THEN NoJob
                                ELSE [@ EXCEPT !.todo = todo]]

-----------------------------------------------------------------------------
(* One step of a handler.                                                  *)

\* Slots are alike: the first free one is taken.
Arrive(j) ==
    /\ jobs[j].todo = <<>>
    /\ \A i \in Jobs : i < j => jobs[i].todo # <<>>
    /\ made.started < Len(cfg.ops)
    /\ jobs' = [jobs EXCEPT ![j] = [NoJob EXCEPT
                                       !.todo = Program(cfg.ops[made.started + 1])]]
    /\ made' = [made EXCEPT !.started = @ + 1]
    /\ UNCHANGED <<count, db, mem, rq, client, ghost, cfg>>

next_count(j) ==
    /\ count' = count + 1
    /\ jobs' = [jobs EXCEPT ![j] = [@ EXCEPT !.n = count + 1,
                                               !.todo = Tail(jobs[j].todo)]]
    /\ UNCHANGED <<db, mem, rq, client, ghost, cfg, made>>

\* The streams kept in tables of the database.
Tables == AllStreams \ {"typing"}

\* put and cell: a row is added, or replaces the row of its key.
Insert(j, st, key, replaced) ==
    LET row == Row(st, key, jobs[j].n)
    IN /\ st \in Tables
       /\ db' = [db EXCEPT !.rows = (@ \ replaced) \cup {row}]
       /\ ghost' = [ghost EXCEPT !.overtaken =
                       IF Overtaken(row.n) THEN @ \cup {row} ELSE @]
       /\ rq' = IF st \in Watched THEN Wake(rq) ELSE rq
       /\ Job(j, Tail(jobs[j].todo))
       /\ UNCHANGED <<count, mem, client, cfg, made>>

\* Read the newest entry's place; presence ends here when nothing changed.
ReadPointer(j, st, key, mayStop) ==
    /\ \E stop \in IF mayStop THEN BOOLEAN ELSE {FALSE} :
          jobs' = [jobs EXCEPT ![j] =
                     [@ EXCEPT !.prev = At(db.latest, st, key),
                               !.todo = IF stop THEN SubSeq(@, 6, Len(@)) ELSE Tail(@)]]
    /\ UNCHANGED <<count, db, mem, rq, client, ghost, cfg, made>>

Point(j, st, key) ==
    /\ db' = [db EXCEPT !.latest = (@ \ At(@, st, key))
                                      \cup {Row(st, key, jobs[j].n)}]
    /\ rq' = IF st \in WatchedPointers THEN Wake(rq) ELSE rq
    /\ Job(j, Tail(jobs[j].todo))
    /\ UNCHANGED <<count, mem, client, ghost, cfg, made>>

Delete(j, rows) ==
    /\ db' = [db EXCEPT !.rows = @ \ rows]
    /\ Job(j, Tail(jobs[j].todo))
    /\ UNCHANGED <<count, mem, rq, client, ghost, cfg, made>>

WakeSync(j) ==
    /\ rq' = Wake(rq)
    /\ Job(j, Tail(jobs[j].todo))
    /\ UNCHANGED <<count, db, mem, client, ghost, cfg, made>>

Typing(j, users) ==
    /\ mem' = [mem EXCEPT !.typing = users]
    /\ Job(j, Tail(jobs[j].todo))
    /\ UNCHANGED <<count, db, rq, client, ghost, cfg, made>>

\* The stamp is taken and stored under the lock of last_typing_update, which
\* readers take too.
Typed(j) ==
    /\ count' = count + 1
    /\ mem' = [mem EXCEPT !.last = count + 1]
    /\ Job(j, Tail(jobs[j].todo))
    /\ UNCHANGED <<db, rq, client, ghost, cfg, made>>

Lock(j) ==
    /\ mem.lock = {}
    /\ mem' = [mem EXCEPT !.lock = {j}]
    /\ count' = count + 1
    /\ Job(j, Tail(jobs[j].todo))
    /\ UNCHANGED <<db, rq, client, ghost, cfg, made>>

\* The last thing done under the mutex.
set_room_state(j, key) ==
    /\ db' = IF key \in StateKeys THEN [db EXCEPT !.state[key] = jobs[j].n]
             ELSE db
    /\ mem' = [mem EXCEPT !.lock = {}]
    /\ Job(j, Tail(jobs[j].todo))
    /\ UNCHANGED <<count, rq, client, ghost, cfg, made>>

\* A transaction id already saved ends the request.
get_client_txn(j) ==
    /\ Job(j, IF db.txn THEN <<>> ELSE Tail(jobs[j].todo))
    /\ UNCHANGED <<count, db, mem, rq, client, ghost, cfg, made>>

add_client_txnid(j) ==
    /\ db' = [db EXCEPT !.txn = TRUE]
    /\ Job(j, Tail(jobs[j].todo))
    /\ UNCHANGED <<count, mem, rq, client, ghost, cfg, made>>

Step(j) ==
    /\ jobs[j].todo # <<>>
    /\ LET s == Head(jobs[j].todo)
       IN \/ s[1] = "count" /\ next_count(j)
          \/ s[1] = "put" /\ Insert(j, s[2], s[3], {})
          \/ s[1] = "cell" /\ Insert(j, s[2], s[3], At(db.rows, s[2], s[3]))
          \/ s[1] = "prev" /\ ReadPointer(j, s[2], s[3], FALSE)
          \/ s[1] = "last" /\ ReadPointer(j, s[2], s[3], TRUE)
          \/ s[1] = "point" /\ Point(j, s[2], s[3])
          \/ s[1] = "drop" /\ Delete(j, jobs[j].prev)
          \/ s[1] = "clear" /\ Delete(j, At(db.rows, s[2], s[3]))
          \/ s[1] = "wake" /\ WakeSync(j)
          \/ s[1] = "type" /\ Typing(j, mem.typing \cup {s[2]})
          \/ s[1] = "untype" /\ Typing(j, mem.typing \ {s[2]})
          \/ s[1] = "typed" /\ Typed(j)
          \/ s[1] = "lock" /\ Lock(j)
          \/ s[1] = "state" /\ set_room_state(j, s[2])
          \/ s[1] = "seen_txn" /\ get_client_txn(j)
          \/ s[1] = "save_txn" /\ add_client_txnid(j)

-----------------------------------------------------------------------------
(* GET /v3/sync.                                                           *)

After(since, st) == {r \in Of(Rows, st) : r.n > since}
UpTo(rows, n) == {r \in rows : r.n <= n}

\* Reads cut at current_count (until); the others also answer with younger
\* rows, which the next sync will repeat.
changes_since(st, since, until) == UpTo(After(since, st), until)
keys_changed(st, since, until) == UpTo(After(since, st), until)
get_to_device_events(since, until) == UpTo(After(since, "todevice"), until)
readreceipts_since(since) == After(since, "receipt")
last_privateread_update(since) == After(since, "private")
last_notification_read(since) == After(since, "notify")
presence_since(since) == After(since, "presence")

build_account_data(r) == changes_since("room_data", r.since, r.cur)

build_notification_counts(r) == last_notification_read(r.since)

process_presence_updates(r) == presence_since(r.since)

\* A first sync has no device list updates.
build_device_list_updates(r) ==
    IF r.since = 0 THEN {} ELSE keys_changed("room_keys", r.since, r.cur)

\* A leave after current_count waits for the next sync; a first sync has none.
load_left_room(r) ==
    {l \in Of(Rows, "left") : l.n <= r.cur /\ r.since # 0 /\ r.since < l.n}

invited_rooms(r) == After(r.since, "invite")

knocked_rooms(r) == After(r.since, "knock")

StreamOf(r, st) ==
    CASE st = "todevice" -> get_to_device_events(r.since, r.cur)
      [] st = "global_data" -> changes_since("global_data", r.since, r.cur)
      [] st = "room_data" -> build_account_data(r)
      [] st = "receipt" -> readreceipts_since(r.since)
      [] st = "private" -> last_privateread_update(r.since)
      [] st = "notify" -> build_notification_counts(r)
      [] st = "presence" -> process_presence_updates(r)
      [] st = "user_keys" -> keys_changed("user_keys", r.since, r.cur)
      [] st = "room_keys" -> build_device_list_updates(r)
      [] st = "left" -> load_left_room(r)
      [] st = "invite" -> invited_rooms(r)
      [] st = "knock" -> knocked_rooms(r)

\* The newest rows of a window, at most TimelineLimit of them.
load_timeline(window) ==
    {r \in window : Cardinality({q \in window : q.n > r.n}) < TimelineLimit}

\* What an initial sync leaves out: rooms left before it, and device lists,
\* which a new client asks for anyway.
NotInitial == {"left", "room_keys"}

SyncBegin ==
    /\ ~cfg.v5 /\ rq.ph = "idle"
    /\ rq' = [NoRequest EXCEPT !.ph = "build", !.since = client.token]
    /\ UNCHANGED <<count, db, mem, jobs, client, ghost, cfg, made>>

\* ping_presence for the syncing user, when that is news, before anything is
\* read.
SyncPing ==
    /\ cfg.presence /\ ~cfg.v5 /\ rq.ph = "build" /\ ~rq.again
    /\ made.syncs < cfg.syncs
    /\ made' = [made EXCEPT !.syncs = @ + 1]
    /\ LET row == Row("presence", Me, count + 1)
       IN /\ count' = count + 1
          /\ db' = [db EXCEPT !.rows = (@ \ At(db.latest, "presence", Me))
                                         \cup {row},
                              !.latest = (@ \ At(@, "presence", Me))
                                            \cup {row}]
    /\ UNCHANGED <<mem, jobs, rq, client, ghost, cfg>>

build_sync_events ==
    /\ rq.ph = "build"
    /\ rq' = [rq EXCEPT
         !.ph = "read", !.cur = count, !.got = {}, !.excused = {},
         !.unread = Streams
             \cup (IF "todevice" \in Streams THEN {"received"} ELSE {})
             \cup (IF "timeline" \in Streams THEN {"hashes"} ELSE {})]
    /\ UNCHANGED <<count, db, mem, jobs, client, ghost, cfg, made>>

Reading(st, phase) == rq.ph = phase /\ st \in rq.unread
Got(st, rows, excused) ==
    rq' = [rq EXCEPT !.unread = @ \ {st}, !.got = @ \cup rows,
                     !.excused = @ \cup excused]

ReadStream(st) ==
    /\ Reading(st, "read") /\ ~cfg.v5
    /\ st \notin {"received", "hashes", "timeline", "typing"}
    /\ Got(st, StreamOf(rq, st),
           IF rq.since = 0 /\ st \in NotInitial
           THEN UpTo(Of(Rows, st), rq.cur) ELSE {})
    /\ UNCHANGED <<count, db, mem, jobs, client, ghost, cfg, made>>

build_timeline ==
    /\ Reading("timeline", "read") /\ ~cfg.v5
    /\ LET window == UpTo(After(rq.since, "timeline"), rq.cur)
       IN Got("timeline", load_timeline(window),
              window \ load_timeline(window))
    /\ UNCHANGED <<count, db, mem, jobs, client, ghost, cfg, made>>

\* last_typing_update drops users whose notification expired, which is an
\* update of its own.
build_typing(phase, since) ==
    /\ Reading("typing", phase)
    /\ \E expired \in IF mem.typing = {} THEN {FALSE} ELSE BOOLEAN :
          LET now == IF expired THEN count + 1 ELSE mem.last
          IN /\ count' = IF expired THEN count + 1 ELSE count
             /\ mem' = IF expired
                       THEN [mem EXCEPT !.typing = {}, !.last = now] ELSE mem
             /\ Got("typing", IF now > since
                              THEN {Row("typing", "room", now)} ELSE {}, {})
    /\ UNCHANGED <<db, jobs, client, ghost, cfg, made>>

\* The room's state now, and the one remembered for `since`; now is
\* remembered for current_count.  (Of the remembered ones, those of tokens
\* older than the client's are never looked up again and are left out.)
fetch_shortstatehashes ==
    /\ Reading("hashes", "read")
    /\ rq' = [rq EXCEPT !.unread = @ \ {"hashes"}, !.now = db.state,
                !.was = IF rq.since \in DOMAIN db.tokens
                        THEN <<db.tokens[rq.since]>> ELSE <<>>]
    /\ db' = [db EXCEPT !.tokens = (rq.cur :> db.state) @@
                    [t \in {u \in DOMAIN @ : u >= client.token} |-> @[t]]]
    /\ ghost' = [ghost EXCEPT !.skewed = @ \/
          \E k \in StateKeys : db.state[k] #
             LET e == UpTo(At(db.rows, "timeline", k), rq.cur)
             IN IF e = {} THEN 0 ELSE Newest(e).n]
    /\ UNCHANGED <<count, mem, jobs, client, cfg, made>>

\* Without a `since` the bound is the largest number there is.
remove_to_device_events(since) ==
    LET until == {r \in Of(db.rows, "todevice") : since = 0 \/ r.n <= since}
    IN /\ db' = [db EXCEPT !.rows = @ \ until]
       /\ ghost' = [ghost EXCEPT
             !.removed = @ \cup until,
             !.wiped = IF since = 0 THEN @ \cup until ELSE @]

\* Mutant: everything up to the new token is removed.
RemoveReceived_Current ==
    /\ Reading("received", "read") /\ ~cfg.v5
    /\ remove_to_device_events(rq.cur)
    /\ Got("received", {}, {})
    /\ UNCHANGED <<count, mem, jobs, client, cfg, made>>

RemoveReceived ==
    /\ Reading("received", "read") /\ ~cfg.v5
    /\ remove_to_device_events(rq.since)
    /\ Got("received", {}, {})
    /\ UNCHANGED <<count, mem, jobs, client, cfg, made>>

\* state_added between the two states, without what the timeline carries.
state_added(was, now, timeline) ==
    {Row("timeline", k, now[k]) : k \in {k \in StateKeys : was[k] # now[k]}}
        \ timeline

\* The state at the start of the timeline.
StateBefore(rows, timeline) ==
    LET first == CHOOSE r \in timeline : \A q \in timeline : r.n <= q.n
        older == {r \in rows : r.n < first.n}
    IN {Newest(At(older, "timeline", k)) :
           k \in {k \in StateKeys : At(older, "timeline", k) # {}}}

\* prev_events of each event must be what the fold carries; it carries the
\* previous event's own prev event, so only one event can pass.
timeline_is_linear(timeline, limited) ==
    timeline = {} \/ (Cardinality(timeline) = 1 /\ ~limited)

\* Mutant: a first sync relies on the timeline when there is one.
build_state_initial_TimelineOnly(r, timeline) ==
    IF timeline # {} THEN {}
    ELSE {Row("timeline", k, r.now[k]) :
            k \in {k \in StateKeys : r.now[k] # 0}}

build_state_initial(r, timeline) ==
    IF timeline # {} THEN StateBefore(db.rows, timeline)
    ELSE {Row("timeline", k, r.now[k]) :
            k \in {k \in StateKeys : r.now[k] # 0}}
build_state_incremental(r, timeline, limited) ==
    IF timeline_is_linear(timeline, limited) /\ ~limited THEN {}
    ELSE state_added(r.was[1], r.now, timeline)

build_state_events(r) ==
    LET timeline == Of(r.got, "timeline")
        limited == Of(r.excused, "timeline") # {}
    IN IF "timeline" \notin Streams THEN {}
       ELSE IF r.since # 0 /\ r.was # <<>>
            THEN build_state_incremental(r, timeline, limited)
            ELSE build_state_initial(r, timeline)

\* Mutant: the answer carries the counter as it is when the answer is made.
sync_events_route_LateToken ==
    /\ rq.ph = "read" /\ rq.unread = {} /\ ~cfg.v5
    /\ LET state == build_state_events(rq)
       IN rq' = IF rq.got = {} /\ state = {} /\ rq.since # 0 /\ ~rq.again
                THEN [rq EXCEPT !.ph = "wait", !.again = TRUE]
                ELSE [rq EXCEPT !.ph = "sent", !.state = state, !.cur = count]
    /\ UNCHANGED <<count, db, mem, jobs, client, ghost, cfg, made>>

\* An empty answer hangs once; an initial sync is never empty.  The watcher
\* is a future: it subscribes to the tables when it is first awaited, here.
sync_events_route ==
    /\ rq.ph = "read" /\ rq.unread = {} /\ ~cfg.v5
    /\ LET state == build_state_events(rq)
       IN rq' = IF rq.got = {} /\ state = {} /\ rq.since # 0 /\ ~rq.again
                THEN [rq EXCEPT !.ph = "wait", !.again = TRUE]
                ELSE [rq EXCEPT !.ph = "sent", !.state = state]
    /\ UNCHANGED <<count, db, mem, jobs, client, ghost, cfg, made>>

\* Mutant: the poll has no timeout.
SyncRetry_NoTimeout ==
    /\ rq.ph = "wait" /\ ~cfg.v5 /\ rq.woken
    /\ rq' = [rq EXCEPT !.ph = "build", !.woken = FALSE]
    /\ UNCHANGED <<count, db, mem, jobs, client, ghost, cfg, made>>

\* Something happened in a watched table, or the poll timed out.
SyncRetry ==
    /\ rq.ph = "wait" /\ ~cfg.v5
    /\ rq' = [rq EXCEPT !.ph = "build", !.woken = FALSE]
    /\ UNCHANGED <<count, db, mem, jobs, client, ghost, cfg, made>>

-----------------------------------------------------------------------------
(* POST simplified sliding sync, with one list that holds the room.        *)

Extensions == Streams \cap {"global_data", "user_keys", "room_keys", "todevice"}
RoomStreams == Streams \cap {"timeline", "room_data", "receipt", "private"}

snake_connection_cached == mem.known # <<>>

\* A first request forgets the connection: its rooms are then sent from 0.
update_snake_sync_request_with_cache(token) ==
    IF token = 0 THEN <<0>> ELSE mem.known

\* A position the connection's cache does not know restarts the stream.
sync_events_v5_route ==
    /\ cfg.v5 /\ rq.ph = "idle" /\ made.syncs < cfg.syncs
    /\ made' = [made EXCEPT !.syncs = @ + 1]
    /\ count' = count + 1
    /\ IF client.token # 0 /\ ~snake_connection_cached
       THEN /\ client' = [client EXCEPT !.token = 0]
            /\ UNCHANGED <<mem, rq>>
       ELSE LET known == update_snake_sync_request_with_cache(client.token)
            IN /\ mem' = [mem EXCEPT !.known = known]
               /\ rq' = [NoRequest EXCEPT !.ph = "read",
                            !.since = client.token, !.cur = count + 1,
                            !.room = known[1], !.unread = Extensions]
               /\ UNCHANGED client
    /\ UNCHANGED <<db, jobs, ghost, cfg>>

collect_account_data(r) == After(r.since, "global_data")

collect_e2ee(r, st) == After(r.since, st)

ReadExtension(st) ==
    /\ cfg.v5 /\ Reading(st, "read") /\ st # "todevice"
    /\ Got(st, IF st = "global_data" THEN collect_account_data(rq)
               ELSE collect_e2ee(rq, st), {})
    /\ UNCHANGED <<count, db, mem, jobs, client, ghost, cfg, made>>

collect_to_device ==
    /\ cfg.v5 /\ Reading("todevice", "read")
    /\ IF rq.again
       THEN /\ Got("todevice", get_to_device_events(0, rq.cur), {})
            /\ UNCHANGED <<db, ghost>>
       ELSE /\ IF rq.since = 0 THEN UNCHANGED <<db, ghost>>
               ELSE remove_to_device_events(rq.since)
            /\ rq' = [rq EXCEPT !.again = TRUE]
    /\ UNCHANGED <<count, mem, jobs, client, cfg, made>>

\* The list remembers `since`, not the new position, for its rooms.
update_snake_sync_known_rooms(globalsince) == <<globalsince>>

handle_lists ==
    /\ cfg.v5 /\ rq.ph = "read" /\ rq.unread = {}
    /\ mem' = [mem EXCEPT !.known = update_snake_sync_known_rooms(rq.since)]
    /\ rq' = [rq EXCEPT !.ph = "rooms", !.unread = RoomStreams]
    /\ UNCHANGED <<count, db, jobs, client, ghost, cfg, made>>

process_rooms(st) ==
    /\ cfg.v5 /\ Reading(st, "rooms")
    /\ LET all == After(rq.room, st)
           cut == UpTo(all, rq.cur)
       IN CASE st = "timeline" -> Got(st, load_timeline(cut),
                                      cut \ load_timeline(cut))
            [] st = "room_data" -> Got(st, cut, {})
            [] OTHER -> Got(st, all, {})
    /\ UNCHANGED <<count, db, mem, jobs, client, ghost, cfg, made>>

\* Account data and key changes do not keep an answer from hanging.
HangV5 ==
    /\ cfg.v5 /\ rq.ph = "rooms" /\ rq.unread = {}
    /\ rq' = [rq EXCEPT !.ph = IF \E r \in rq.got : r.st \in
                  {"timeline", "receipt", "private", "todevice"}
                               THEN "typing" ELSE "wait",
                        !.unread = Streams \cap {"typing"}]
    /\ UNCHANGED <<count, db, mem, jobs, client, ghost, cfg, made>>

ResumeV5 ==
    /\ cfg.v5 /\ rq.ph = "wait"
    /\ rq' = [rq EXCEPT !.ph = "typing", !.woken = FALSE]
    /\ UNCHANGED <<count, db, mem, jobs, client, ghost, cfg, made>>

AnswerV5 ==
    /\ cfg.v5 /\ rq.ph = "typing" /\ rq.unread = {}
    /\ rq' = [rq EXCEPT !.ph = "sent"]
    /\ UNCHANGED <<count, db, mem, jobs, client, ghost, cfg, made>>

-----------------------------------------------------------------------------
(* The client, and the process.                                            *)

\* State events first, then the timeline; an initial answer starts afresh.
Applied(r) ==
    [k \in StateKeys |->
        LET t == At(r.got, "timeline", k)
            s == At(r.state, "timeline", k)
        IN IF t # {} THEN Newest(t).n
           ELSE IF s # {} THEN Newest(s).n
           ELSE IF r.since = 0 THEN 0 ELSE client.state[k]]

Receive ==
    /\ rq.ph = "sent"
    /\ client' = [token |-> rq.cur, seen |-> client.seen \cup rq.got,
                  excused |-> client.excused \cup rq.excused,
                  state |-> Applied(rq)]
    /\ rq' = NoRequest
    /\ UNCHANGED <<count, db, mem, jobs, ghost, cfg, made>>

\* The connection breaks: the handler is dropped, or its answer is.
Lose ==
    /\ rq.ph # "idle" /\ made.faults < cfg.faults
    /\ made' = [made EXCEPT !.faults = @ + 1]
    /\ rq' = NoRequest
    /\ UNCHANGED <<count, db, mem, jobs, client, ghost, cfg>>

NoMem == [typing |-> {}, last |-> 0, lock |-> {}, known |-> <<>>]

\* Users who were online when the process stopped go offline, one by one.
unset_all_presence(n, users) ==
    LET old == {r \in db.latest : r.st = "presence" /\ r.key \in Range(users)}
        new == {Row("presence", users[i], count + i) : i \in 1 .. n}
    IN /\ count' = count + n
       /\ db' = [db EXCEPT !.rows = (@ \ old) \cup new,
                           !.latest = (@ \ old) \cup new]

Restart ==
    /\ made.faults < cfg.faults
    /\ made' = [made EXCEPT !.faults = @ + 1]
    /\ mem' = NoMem
    /\ jobs' = [j \in Jobs |-> NoJob]
    /\ rq' = NoRequest
    /\ LET known == {r.key : r \in Of(db.latest, "presence")}
       IN \E n \in 0 .. Cardinality(known) :
             \E users \in Injection(1 .. n, known) : unset_all_presence(n, users)
    /\ UNCHANGED <<client, ghost, cfg>>

Init ==
    /\ count = 1
    /\ db = [rows |-> {}, latest |-> {}, state |-> NoState, txn |-> FALSE,
             tokens |-> <<>>]
    /\ mem = NoMem
    /\ jobs = [j \in Jobs |-> NoJob]
    /\ rq = NoRequest
    /\ client = [token |-> 0, seen |-> {}, excused |-> {}, state |-> NoState]
    /\ ghost = [overtaken |-> {}, removed |-> {}, wiped |-> {},
                skewed |-> FALSE]
    /\ cfg \in Workloads
    /\ made = [started |-> 0, syncs |-> 0, faults |-> 0]

SyncV3 ==
    \/ SyncBegin \/ SyncPing \/ build_sync_events
    \/ \E st \in rq.unread : ReadStream(st)
    \/ build_timeline \/ (~cfg.v5 /\ build_typing("read", rq.since))
    \/ fetch_shortstatehashes \/ RemoveReceived
    \/ sync_events_route \/ SyncRetry

SyncV5 ==
    \/ sync_events_v5_route
    \/ \E st \in rq.unread : ReadExtension(st) \/ process_rooms(st)
    \/ collect_to_device \/ handle_lists \/ HangV5 \/ ResumeV5
    \/ (cfg.v5 /\ build_typing("typing", rq.room)) \/ AnswerV5

Handlers == \E j \in Jobs : Arrive(j) \/ Step(j)

Next ==
    \/ Handlers \/ SyncV3 \/ SyncV5 \/ Receive \/ Lose \/ Restart

\* Tasks go on running (a workload is finite, so it is enough that some handler
\* does), and a client that has its answer asks again.
Fairness == WF_vars(Handlers) /\ WF_vars(SyncV3 \/ Receive)

Spec == Init /\ [][Next]_vars /\ Fairness

-----------------------------------------------------------------------------
(* Properties.                                                             *)

Known == client.seen \cup client.excused \cup ghost.overtaken

\* What a sync of this kind answers for.
Answered == IF cfg.v5 THEN Extensions \cup RoomStreams \cup (Streams \cap {"typing"})
            ELSE Streams

\* A token never hides an update: every row stamped up to the client's token
\* was in an answer the client received (or lies in a gap the answer
\* announced), unless the row was written only after a sync had already
\* passed its stamp.
NothingMissed ==
    \A r \in Rows :
        r.st \in Answered /\ r.n <= client.token => r \in Known

\* A to-device message is deleted only once the client has received it; the
\* exceptions are a message written behind a sync that had passed it, and
\* an initial sync, which deletes everything.
ToDeviceKept == ghost.removed \subseteq Known \cup ghost.wiped

\* The comment above the call says the messages received last time are
\* removed: an initial sync then removes none the client has not received.
OnlyReceivedRemoved == ghost.removed \subseteq Known

\* Replaying state and timelines, the client has the room's state as of its
\* token, as long as no sync remembered for its token a state that was not
\* the one of that moment.
Newest0(rows) == IF rows = {} THEN 0 ELSE Newest(rows).n
StateAgrees ==
    ~cfg.v5 /\ ~ghost.skewed => \A k \in StateKeys :
        LET rows == UpTo(At(db.rows, "timeline", k), client.token)
        IN client.state[k] \in {Newest0(rows \ ghost.overtaken)}
                                  \cup {r.n : r \in rows \cap ghost.overtaken}

\* A client that keeps polling /v3/sync catches up: every update is in the end
\* in an answer it received, but for those a sync had already passed.
Delivery == <>[](cfg.v5 \/ \A r \in Rows : r \in Known)
=============================================================================
