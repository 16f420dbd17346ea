---------------------------- MODULE SyncProofs ------------------------------
(***************************************************************************)
(* Proofs about the delivery of updates, for any workload, any number of   *)
(* handlers, syncs, lost answers and restarts.                             *)
(***************************************************************************)
EXTENDS Sync, TLAPS

(* The records that the steps change field by field.                       *)
IsDb(d) ==
  d = [rows |-> d.rows, latest |-> d.latest, state |-> d.state, txn |-> d.txn,
       tokens |-> d.tokens]
IsMem(m) == m = [typing |-> m.typing, last |-> m.last, lock |-> m.lock, known |-> m.known]
IsJob(k) == k = [todo |-> k.todo, n |-> k.n, prev |-> k.prev] /\ k.n \in Nat
IsRq(q) ==
  q = [ph |-> q.ph, since |-> q.since, cur |-> q.cur, unread |-> q.unread,
       got |-> q.got, excused |-> q.excused, state |-> q.state, again |-> q.again,
       woken |-> q.woken, was |-> q.was, now |-> q.now, room |-> q.room]
IsGhost(g) ==
  g = [overtaken |-> g.overtaken, removed |-> g.removed, wiped |-> g.wiped,
       skewed |-> g.skewed]

Shape ==
  /\ IsDb(db) /\ IsMem(mem) /\ IsRq(rq) /\ IsGhost(ghost)
  /\ jobs = [j \in Jobs |-> jobs[j]] /\ \A j \in Jobs : IsJob(jobs[j])
  /\ client = [token |-> client.token, seen |-> client.seen, excused |-> client.excused,
               state |-> client.state]

(* Stamps come from the counter, and no token is ahead of it.              *)
Stamps ==
  /\ {count, mem.last, client.token, rq.since, rq.cur, rq.room} \subseteq Nat
  /\ \A r \in db.rows : r.n \in Nat /\ r.st # "typing"
  /\ mem.last <= count /\ client.token <= count /\ rq.cur <= count

(* A request works on the client's token; sliding sync sends a room's      *)
(* updates after a token that is older still.                              *)
Window ==
  /\ rq.ph # "idle" => rq.since = client.token /\ rq.room <= client.token
  /\ rq.ph \notin {"idle", "build"} => client.token <= rq.cur
  /\ mem.known # << >> => mem.known[1] \in Nat /\ mem.known[1] <= client.token

(* The streams the request in progress has read.                           *)
Typings == Streams \cap {"typing"}
Done ==
  CASE ~ cfg.v5 /\ rq.ph \in {"read", "sent"} -> Streams \ rq.unread
    [] cfg.v5 /\ rq.ph = "read" -> Extensions \ rq.unread
    [] cfg.v5 /\ rq.ph = "rooms" -> Extensions \cup (RoomStreams \ rq.unread)
    [] cfg.v5 /\ rq.ph \in {"wait", "typing", "sent"} ->
         Extensions \cup RoomStreams \cup (Typings \ rq.unread)
    [] OTHER -> {}

Phases ==
  /\ rq.ph \in {"idle", "build", "read", "rooms", "wait", "typing", "sent"}
  /\ rq.ph = "build" => ~ cfg.v5
  /\ rq.ph \in {"rooms", "typing"} => cfg.v5
  /\ rq.ph = "sent" => rq.unread = {}
  /\ cfg.v5 /\ rq.ph = "read" => rq.unread \subseteq Extensions
  /\ cfg.v5 /\ rq.ph = "rooms" => rq.unread \subseteq RoomStreams
  /\ ~ cfg.v5 /\ "received" \in rq.unread /\ rq.ph = "read" => "todevice" \in Streams

(* What a stream that was read held up to the new token is in the answer,  *)
(* or known before.                                                        *)
Covered ==
  \A r \in Rows :
    r.st \in Done /\ r.n <= rq.cur => r \in rq.got \cup rq.excused \cup Known

IInv == Shape /\ Stamps /\ Window /\ Phases /\ NothingMissed /\ Covered /\ ToDeviceKept

LEMMA SameStreams ==
  ASSUME cfg' = cfg
  PROVE  /\ Streams' = Streams /\ Extensions' = Extensions /\ RoomStreams' = RoomStreams
         /\ Typings' = Typings /\ Answered' = Answered
<1>1. Streams' = Streams
  BY SMT DEF Streams, Program, Presence, set_read_marker_route, create_receipt_route,
     create_typing_event_route, set_displayname_route, set_avatar_url_route,
     set_profile_key_route, delete_profile_key_route
<1> QED BY Zenon, <1>1 DEF Extensions, RoomStreams, Typings, Answered

-----------------------------------------------------------------------------
(* The steps of the handlers, which write rows.                            *)

(* The request in progress keeps its place.                                *)
SamePlace ==
  /\ cfg' = cfg /\ client' = client
  /\ rq'.ph = rq.ph /\ rq'.since = rq.since /\ rq'.cur = rq.cur /\ rq'.room = rq.room
  /\ rq'.unread = rq.unread /\ rq'.got = rq.got /\ rq'.excused = rq.excused

(* A row that is stamped after every token given out or being given out.   *)
Late(r) == ~ (r.n <= client.token) /\ (rq.ph = "idle" \/ ~ (r.n <= rq.cur))

LEMMA RowsStep ==
  ASSUME IInv, SamePlace, ghost.overtaken \subseteq ghost'.overtaken,
         \A r \in Rows' \ Rows : r \in ghost'.overtaken \/ Late(r)
  PROVE  NothingMissed' /\ Covered'
<1>1. Known \subseteq Known' /\ ghost'.overtaken \subseteq Known'
  BY Zenon DEF SamePlace, Known
<1>2. Done' = Done /\ (rq.ph = "idle" => Done = {})
  BY Zenon, SameStreams DEF SamePlace, Done
<1>3. NothingMissed'
  BY Zenon, <1>1, SameStreams DEF IInv, NothingMissed, SamePlace, Late
<1>4. Covered'
  BY Zenon, <1>1, <1>2 DEF IInv, Covered, SamePlace, Late
<1> QED BY Zenon, <1>3, <1>4

LEMMA PlaceStep ==
  ASSUME IInv, SamePlace, mem'.known = mem.known
  PROVE  Window' /\ Phases'
  BY Zenon, SameStreams DEF IInv, Window, Phases, SamePlace

LEMMA JobShape ==
  ASSUME IInv, NEW j \in Jobs, NEW todo, Job(j, todo)
  PROVE  jobs' = [i \in Jobs |-> jobs'[i]] /\ \A i \in Jobs : IsJob(jobs'[i])
<1> DEFINE new == IF todo = << >> THEN NoJob ELSE [jobs[j] EXCEPT !.todo = todo]
<1>1. jobs' = [jobs EXCEPT ![j] = new]
  BY Zenon DEF Job
<1>2. IsJob(jobs[j])
  BY Zenon DEF IInv, Shape
<1>3. IsJob(new)
  BY Zenon, <1>2 DEF NoJob, IsJob
<1> HIDE DEF new
<1> QED BY Zenon, <1>1, <1>3 DEF IInv, Shape

LEMMA WakeShape ==
  ASSUME IInv, rq' = rq \/ rq' = Wake(rq)
  PROVE  /\ IsRq(rq')
         /\ rq'.ph = rq.ph /\ rq'.since = rq.since /\ rq'.cur = rq.cur /\ rq'.room = rq.room
         /\ rq'.unread = rq.unread /\ rq'.got = rq.got /\ rq'.excused = rq.excused
  BY Zenon DEF IInv, Shape, IsRq, Wake

(* A handler's step: what it may do to the request and to the tables.      *)
LEMMA HandlerStep ==
  ASSUME IInv, cfg' = cfg, client' = client, rq' = rq \/ rq' = Wake(rq),
         jobs' = [j \in Jobs |-> jobs'[j]], \A j \in Jobs : IsJob(jobs'[j]),
         IsDb(db'), \A r \in db'.rows : r.n \in Nat /\ r.st # "typing",
         IsMem(mem'), mem'.known = mem.known,
         count' \in Nat, mem'.last \in Nat, count <= count', mem'.last <= count',
         ghost' = ghost \/ \E r : ghost' = [ghost EXCEPT !.overtaken = @ \cup {r}],
         \A r \in Rows' \ Rows : r \in ghost'.overtaken \/ Late(r)
  PROVE  IInv'
<1>1. SamePlace
  BY Zenon, WakeShape DEF SamePlace
<1>2. /\ ghost.overtaken \subseteq ghost'.overtaken /\ ghost'.removed = ghost.removed
      /\ ghost'.wiped = ghost.wiped /\ IsGhost(ghost')
  BY Zenon DEF IInv, Shape, IsGhost
<1>3. NothingMissed' /\ Covered'
  BY Zenon, <1>1, <1>2, RowsStep
<1>4. Window' /\ Phases'
  BY Zenon, <1>1, PlaceStep
<1>5. Shape'
  BY Zenon, <1>2, WakeShape DEF IInv, Shape
<1>6. Stamps'
  BY <1>1 DEF IInv, Stamps, SamePlace
<1>7. ToDeviceKept'
  BY Zenon, <1>1, <1>2 DEF IInv, ToDeviceKept, Known, SamePlace
<1> QED BY Zenon, <1>3, <1>4, <1>5, <1>6, <1>7 DEF IInv

(* A step that changes neither the tables nor the typing notifications.    *)
LEMMA PlainStep ==
  ASSUME IInv, cfg' = cfg, client' = client, rq' = rq \/ rq' = Wake(rq), ghost' = ghost,
         jobs' = [j \in Jobs |-> jobs'[j]], \A j \in Jobs : IsJob(jobs'[j]),
         count' \in {count, count + 1}, IsDb(db'), db'.rows \subseteq db.rows,
         IsMem(mem'), mem'.known = mem.known, mem'.last = mem.last
  PROVE  IInv'
<1>1. Rows' \subseteq Rows
  BY Zenon DEF Rows
<1>2. \A r \in db'.rows : r.n \in Nat /\ r.st # "typing"
  BY Zenon DEF IInv, Stamps
<1>3. count' \in Nat /\ mem'.last \in Nat /\ count <= count' /\ mem'.last <= count'
  BY DEF IInv, Stamps
<1> QED BY Zenon, <1>1, <1>2, <1>3, HandlerStep

LEMMA OneJob ==
  ASSUME IInv, NEW j \in Jobs, NEW new, IsJob(new), jobs' = [jobs EXCEPT ![j] = new]
  PROVE  jobs' = [i \in Jobs |-> jobs'[i]] /\ \A i \in Jobs : IsJob(jobs'[i])
  BY Zenon DEF IInv, Shape

LEMMA ArriveInv ==
  ASSUME IInv, NEW j \in Jobs, Arrive(j)
  PROVE  IInv'
<1>1. PICK new : new = [NoJob EXCEPT !.todo = Program(cfg.ops[made.started + 1])]
  BY Zenon
<1>2. IsJob(new)
  BY Zenon, <1>1 DEF NoJob, IsJob
<1>3. jobs' = [jobs EXCEPT ![j] = new] /\ UNCHANGED <<count, db, mem, rq, client, ghost, cfg>>
  BY <1>1, Zenon DEF Arrive
<1> QED BY Zenon, <1>2, <1>3, OneJob, PlainStep DEF IInv, Shape

LEMMA CountInv ==
  ASSUME IInv, NEW j \in Jobs, next_count(j)
  PROVE  IInv'
<1>1. PICK new : new = [jobs[j] EXCEPT !.n = count + 1, !.todo = Tail(jobs[j].todo)]
  BY Zenon
<1>2. IsJob(new)
  <2>1. IsJob(jobs[j]) /\ count + 1 \in Nat
    BY DEF IInv, Shape, Stamps
  <2> QED BY Zenon, <1>1, <2>1 DEF IsJob
<1>3. jobs' = [jobs EXCEPT ![j] = new] /\ count' = count + 1
      /\ UNCHANGED <<db, mem, rq, client, ghost, cfg>>
  BY <1>1, Zenon DEF next_count
<1> QED BY Zenon, <1>2, <1>3, OneJob, PlainStep DEF IInv, Shape

LEMMA PointerInv ==
  ASSUME IInv, NEW j \in Jobs, NEW st, NEW key, NEW may, ReadPointer(j, st, key, may)
  PROVE  IInv'
<1>1. PICK todo : jobs' = [jobs EXCEPT ![j] =
                             [@ EXCEPT !.prev = At(db.latest, st, key), !.todo = todo]]
  BY Zenon DEF ReadPointer
<1>2. PICK new : new = [jobs[j] EXCEPT !.prev = At(db.latest, st, key), !.todo = todo]
  BY Zenon
<1>3. IsJob(new)
  <2>1. IsJob(jobs[j])
    BY Zenon DEF IInv, Shape
  <2> QED BY Zenon, <1>2, <2>1 DEF IsJob
<1>4. jobs' = [jobs EXCEPT ![j] = new] /\ UNCHANGED <<count, db, mem, rq, client, ghost, cfg>>
  BY <1>1, <1>2, Zenon DEF ReadPointer
<1> QED BY Zenon, <1>3, <1>4, OneJob, PlainStep DEF IInv, Shape

LEMMA InsertInv ==
  ASSUME IInv, NEW j \in Jobs, NEW st, NEW key, NEW replaced, Insert(j, st, key, replaced)
  PROVE  IInv'
<1> DEFINE row == Row(st, key, jobs[j].n)
<1>1. jobs' = [i \in Jobs |-> jobs'[i]] /\ \A i \in Jobs : IsJob(jobs'[i])
  BY Zenon, JobShape DEF Insert
<1>2. /\ db' = [db EXCEPT !.rows = (@ \ replaced) \cup {row}]
      /\ ghost' = [ghost EXCEPT !.overtaken = IF Overtaken(row.n) THEN @ \cup {row} ELSE @]
      /\ rq' = rq \/ rq' = Wake(rq)
      /\ UNCHANGED <<count, mem, client, cfg>>
  BY Zenon DEF Insert
<1>3. row.n \in Nat /\ row.st # "typing"
  BY Zenon DEF Row, IInv, Shape, IsJob, Insert, Tables
<1> HIDE DEF row
<1>4. IsDb(db') /\ db'.rows \subseteq db.rows \cup {row}
  BY Zenon, <1>2 DEF IInv, Shape, IsDb
<1>5. Rows' \subseteq Rows \cup {row}
  BY Zenon, <1>2, <1>4 DEF Rows
<1>6. ghost' = ghost \/ \E r : ghost' = [ghost EXCEPT !.overtaken = @ \cup {r}]
  BY Zenon, <1>2 DEF IInv, Shape, IsGhost
<1>7. row \in ghost'.overtaken \/ Late(row)
  <2>1. CASE Overtaken(row.n)
    BY Zenon, <1>2, <2>1 DEF IInv, Shape, IsGhost
  <2>2. CASE ~ Overtaken(row.n)
    BY Zenon, <1>3, <2>2 DEF Overtaken, Late, IInv, Stamps
  <2> QED BY Zenon, <2>1, <2>2
<1>8. \A r \in db'.rows : r.n \in Nat /\ r.st # "typing"
  BY Zenon, <1>3, <1>4 DEF IInv, Stamps
<1>9. count' \in Nat /\ mem'.last \in Nat /\ count <= count' /\ mem'.last <= count'
  BY <1>2 DEF IInv, Stamps
<1> QED BY Zenon, <1>1, <1>2, <1>4, <1>5, <1>6, <1>7, <1>8, <1>9, HandlerStep DEF IInv, Shape

(* The steps that write no row.                                            *)
LEMMA OtherSteps ==
  ASSUME IInv, NEW j \in Jobs, NEW st, NEW key,
         \/ Point(j, st, key) \/ (\E rows : Delete(j, rows)) \/ WakeSync(j)
         \/ (\E users : Typing(j, users)) \/ Lock(j) \/ set_room_state(j, key)
         \/ get_client_txn(j) \/ add_client_txnid(j)
  PROVE  IInv'
<1>1. \E todo : Job(j, todo)
  BY Zenon DEF Point, Delete, WakeSync, Typing, Lock, set_room_state, get_client_txn, add_client_txnid
<1>2. jobs' = [i \in Jobs |-> jobs'[i]] /\ \A i \in Jobs : IsJob(jobs'[i])
  BY Zenon, <1>1, JobShape
<1>3. /\ cfg' = cfg /\ client' = client /\ ghost' = ghost
      /\ rq' = rq \/ rq' = Wake(rq)
  BY Zenon DEF Point, Delete, WakeSync, Typing, Lock, set_room_state, get_client_txn, add_client_txnid
<1>4. count' \in {count, count + 1}
  BY Zenon DEF Point, Delete, WakeSync, Typing, Lock, set_room_state, get_client_txn, add_client_txnid
<1>5. IsDb(db') /\ db'.rows \subseteq db.rows
  <2>1. CASE Point(j, st, key)
    BY Zenon, <2>1 DEF Point, IInv, Shape, IsDb
  <2>2. CASE \E rows : Delete(j, rows)
    BY Zenon, <2>2 DEF Delete, IInv, Shape, IsDb
  <2>3. CASE set_room_state(j, key)
    BY Zenon, <2>3 DEF set_room_state, IInv, Shape, IsDb
  <2>4. CASE add_client_txnid(j)
    BY Zenon, <2>4 DEF add_client_txnid, IInv, Shape, IsDb
  <2>5. CASE WakeSync(j) \/ (\E users : Typing(j, users)) \/ Lock(j) \/ get_client_txn(j)
    BY Zenon, <2>5 DEF WakeSync, Typing, Lock, get_client_txn, IInv, Shape
  <2> QED BY Zenon, <2>1, <2>2, <2>3, <2>4, <2>5
<1>6. IsMem(mem') /\ mem'.known = mem.known /\ mem'.last = mem.last
  <2>1. CASE \E users : Typing(j, users)
    BY Zenon, <2>1 DEF Typing, IInv, Shape, IsMem
  <2>2. CASE Lock(j)
    BY Zenon, <2>2 DEF Lock, IInv, Shape, IsMem
  <2>3. CASE set_room_state(j, key)
    BY Zenon, <2>3 DEF set_room_state, IInv, Shape, IsMem
  <2>4. CASE Point(j, st, key) \/ (\E rows : Delete(j, rows)) \/ WakeSync(j)
             \/ get_client_txn(j) \/ add_client_txnid(j)
    BY Zenon, <2>4 DEF Point, Delete, WakeSync, get_client_txn, add_client_txnid, IInv, Shape
  <2> QED BY Zenon, <2>1, <2>2, <2>3, <2>4
<1> QED BY Zenon, <1>2, <1>3, <1>4, <1>5, <1>6, PlainStep

LEMMA TypedInv ==
  ASSUME IInv, NEW j \in Jobs, Typed(j)
  PROVE  IInv'
<1>1. jobs' = [i \in Jobs |-> jobs'[i]] /\ \A i \in Jobs : IsJob(jobs'[i])
  BY Zenon, JobShape DEF Typed
<1>2. count' = count + 1 /\ UNCHANGED <<db, rq, client, ghost, cfg>>
      /\ mem' = [mem EXCEPT !.last = count + 1]
  BY Zenon DEF Typed
<1>3. IsMem(mem') /\ mem'.known = mem.known /\ mem'.last = count + 1
  BY Zenon, <1>2 DEF IInv, Shape, IsMem
<1>4. \A r \in Rows' \ Rows : r.n = count + 1
  BY <1>2, <1>3 DEF Rows, Row
<1>5. \A r \in Rows' \ Rows : Late(r)
  BY <1>4 DEF Late, IInv, Stamps
<1>6. count' \in Nat /\ mem'.last \in Nat /\ count <= count' /\ mem'.last <= count'
  BY <1>2, <1>3 DEF IInv, Stamps
<1> QED BY Zenon, <1>1, <1>2, <1>3, <1>5, <1>6, HandlerStep DEF IInv, Shape, Stamps

LEMMA StepInv ==
  ASSUME IInv, NEW j \in Jobs, Step(j)
  PROVE  IInv'
<1> DEFINE s == Head(jobs[j].todo)
<1>1. \/ next_count(j) \/ Typed(j)
      \/ \E replaced : Insert(j, s[2], s[3], replaced)
      \/ \E may : ReadPointer(j, s[2], s[3], may)
      \/ Point(j, s[2], s[3]) \/ (\E rows : Delete(j, rows)) \/ WakeSync(j)
      \/ (\E users : Typing(j, users)) \/ Lock(j) \/ set_room_state(j, s[2])
      \/ get_client_txn(j) \/ add_client_txnid(j)
  BY Zenon DEF Step
<1> HIDE DEF s
<1> QED BY Zenon, <1>1, CountInv, TypedInv, InsertInv, PointerInv, OtherSteps

LEMMA PingInv ==
  ASSUME IInv, SyncPing
  PROVE  IInv'
<1> DEFINE row == Row("presence", Me, count + 1)
<1>1. /\ count' = count + 1 /\ UNCHANGED <<mem, jobs, rq, client, ghost, cfg>>
      /\ db' = [db EXCEPT !.rows = (@ \ At(db.latest, "presence", Me)) \cup {row},
                          !.latest = (@ \ At(@, "presence", Me)) \cup {row}]
  BY Zenon DEF SyncPing
<1>2. row.n = count + 1 /\ row.st = "presence"
  BY Zenon DEF Row
<1> HIDE DEF row
<1>3. IsDb(db') /\ db'.rows \subseteq db.rows \cup {row}
  BY Zenon, <1>1 DEF IInv, Shape, IsDb
<1>4. Rows' \subseteq Rows \cup {row}
  BY Zenon, <1>1, <1>3 DEF Rows
<1>5. Late(row)
  BY <1>2 DEF Late, IInv, Stamps
<1>6. \A r \in db'.rows : r.n \in Nat /\ r.st # "typing"
  BY <1>2, <1>3 DEF IInv, Stamps
<1>7. count' \in Nat /\ mem'.last \in Nat /\ count <= count' /\ mem'.last <= count'
  BY <1>1 DEF IInv, Stamps
<1>8. \A r \in Rows' \ Rows : Late(r)
  BY Zenon, <1>4, <1>5
<1> QED BY Zenon, <1>1, <1>3, <1>6, <1>7, <1>8, HandlerStep DEF IInv, Shape

-----------------------------------------------------------------------------
(* The steps of a request that read.                                       *)

LEMMA ReadStep ==
  ASSUME IInv, NEW st, rq.ph \notin {"idle", "build"},
         cfg' = cfg, client' = client, jobs' = jobs,
         IsRq(rq'), rq'.ph = rq.ph, rq'.since = rq.since, rq'.cur = rq.cur, rq'.room = rq.room,
         rq'.unread \in {rq.unread, rq.unread \ {st}},
         rq.got \subseteq rq'.got, rq.excused \subseteq rq'.excused,
         rq'.unread # rq.unread /\ st \in Streams =>
           \A r \in Rows' : r.st = st /\ r.n <= rq.cur =>
              r \in rq'.got \cup rq'.excused \cup Known,
         IsDb(db'), db'.rows \subseteq db.rows,
         IsMem(mem'), mem'.known = mem.known, mem'.last \in Nat, mem'.last <= count',
         count' \in Nat, count <= count',
         \A r \in Rows' \ Rows : Late(r),
         IsGhost(ghost'), ghost'.overtaken = ghost.overtaken, ToDeviceKept'
  PROVE  IInv'
<1>1. Known' = Known
  BY Zenon DEF Known
<1>2. rq'.unread \subseteq rq.unread
  BY Zenon
<1>3. Done' \subseteq Done \cup {st}
      /\ (st \in Done' => st \in Done \/ (st \in Streams /\ rq'.unread # rq.unread))
  BY Zenon, SameStreams DEF Done, Extensions, RoomStreams, Typings
<1>4. Covered'
  BY Zenon, <1>1, <1>3 DEF IInv, Covered, Late
<1>5. NothingMissed'
  BY Zenon, <1>1, SameStreams DEF IInv, NothingMissed, Late
<1>6. Window'
  BY Zenon DEF IInv, Window
<1>7. Phases'
  BY Zenon, <1>2, SameStreams DEF IInv, Phases
<1>8. Shape'
  BY Zenon DEF IInv, Shape
<1>9. Stamps'
  BY DEF IInv, Stamps
<1> QED BY Zenon, <1>4, <1>5, <1>6, <1>7, <1>8, <1>9 DEF IInv

LEMMA GotStep ==
  ASSUME IInv, NEW st, NEW rows, NEW excused, Got(st, rows, excused)
  PROVE  /\ IsRq(rq') /\ rq'.ph = rq.ph /\ rq'.since = rq.since /\ rq'.cur = rq.cur
         /\ rq'.room = rq.room /\ rq'.unread = rq.unread \ {st}
         /\ rq'.got = rq.got \cup rows /\ rq'.excused = rq.excused \cup excused
  BY Zenon DEF IInv, Shape, IsRq, Got

(* What lies before the window of a request is known already.              *)
LEMMA Before ==
  ASSUME IInv, rq.ph \notin {"idle", "build"}, NEW r \in Rows, r.st \in Answered
  PROVE  /\ r.n \in Nat /\ rq.since \in Nat /\ rq.cur \in Nat /\ rq.room \in Nat
         /\ r.n <= rq.since \/ r.n <= rq.room => r \in Known
  <1>1. r.n \in Nat
    BY DEF IInv, Stamps, Rows, Row
  <1>2. rq.since = client.token /\ rq.room <= client.token
    BY Zenon DEF IInv, Window
  <1> QED BY <1>1, <1>2 DEF IInv, Stamps, NothingMissed

(* A step that only reads: the tables stay as they are.                    *)
LEMMA PureReadStep ==
  ASSUME IInv, rq.ph \notin {"idle", "build"},
         NEW st, NEW rows, NEW excused, Got(st, rows, excused),
         UNCHANGED <<count, db, mem, jobs, client, ghost, cfg>>,
         \A r \in Rows : r.st = st /\ r.st \in Streams /\ r.n <= rq.cur =>
            r \in rows \cup excused \cup Known
  PROVE  IInv'
<1>1. Rows' = Rows
  BY Zenon DEF Rows
<1>2. ToDeviceKept'
  BY Zenon DEF IInv, ToDeviceKept, Known
<1>3. mem'.last \in Nat /\ mem'.last <= count' /\ count' \in Nat /\ count <= count'
  BY DEF IInv, Stamps
<1>4. \A r \in Rows' : r.st = st /\ st \in Streams /\ r.n <= rq.cur =>
              r \in rq'.got \cup rq'.excused \cup Known
  BY <1>1, GotStep
<1> QED BY Zenon, <1>1, <1>2, <1>3, <1>4, GotStep, ReadStep DEF IInv, Shape

LEMMA ReadStreamInv ==
  ASSUME IInv, NEW st \in rq.unread, ReadStream(st)
  PROVE  IInv'
<1> DEFINE excused == IF rq.since = 0 /\ st \in NotInitial THEN UpTo(Of(Rows, st), rq.cur) ELSE {}
<1>1. Got(st, StreamOf(rq, st), excused) /\ UNCHANGED <<count, db, mem, jobs, client, ghost, cfg>>
      /\ rq.ph = "read" /\ ~ cfg.v5 /\ st \notin {"timeline", "typing"}
  BY Zenon DEF ReadStream, Reading
<1>2. ASSUME NEW r \in Rows, r.st = st, r.st \in Streams, r.n <= rq.cur
      PROVE  r \in StreamOf(rq, st) \cup excused \cup Known
  <2>1. r.st \in Answered
    BY Zenon, <1>1, <1>2 DEF Answered
  <2>2. r.n <= rq.since => r \in Known
    BY Zenon, <1>1, <2>1, Before
  <2>3. CASE ~ (r.n <= rq.since)
    <3>1. r.n \in Nat /\ rq.since \in Nat /\ rq.cur \in Nat
      BY Zenon, <1>1, <2>1, Before
    <3>2. r \in After(rq.since, st) /\ r \in UpTo(After(rq.since, st), rq.cur)
      BY <1>2, <2>3, <3>1 DEF After, Of, UpTo
    <3>3. rq.since = 0 => r \in UpTo(Of(Rows, st), rq.cur)
      BY Zenon, <1>2 DEF Of, UpTo
    <3>4. st \in AllStreams
      BY Zenon, <1>2 DEF Streams
    <3>5. CASE st \in {"todevice", "global_data", "room_data", "user_keys"}
      BY Zenon, <3>2, <3>5 DEF StreamOf, get_to_device_events, changes_since, build_account_data, keys_changed
    <3>6. CASE st \in {"receipt", "private", "notify", "presence", "invite", "knock"}
      BY Zenon, <3>2, <3>6 DEF StreamOf, readreceipts_since, last_privateread_update,
         build_notification_counts, last_notification_read, process_presence_updates,
         presence_since, invited_rooms, knocked_rooms
    <3>7. CASE st = "room_keys"
      BY Zenon, <3>2, <3>3, <3>7 DEF StreamOf, build_device_list_updates, keys_changed, NotInitial
    <3>8. CASE st = "left"
      <4>1. rq.since # 0 => r \in load_left_room(rq)
        BY <1>2, <2>3, <3>1, <3>8 DEF load_left_room, Of
      <4> QED BY Zenon, <3>3, <3>8, <4>1 DEF StreamOf, NotInitial
    <3> QED BY Zenon, <1>1, <3>4, <3>5, <3>6, <3>7, <3>8 DEF AllStreams
  <2> QED BY Zenon, <2>2, <2>3
<1> HIDE DEF excused
<1>3. rq.ph \notin {"idle", "build"}
  BY Zenon, <1>1
<1> QED BY <1>1, <1>2, <1>3, PureReadStep

LEMMA TimelineInv ==
  ASSUME IInv, build_timeline
  PROVE  IInv'
<1> DEFINE window == UpTo(After(rq.since, "timeline"), rq.cur)
<1>1. Got("timeline", load_timeline(window), window \ load_timeline(window))
      /\ UNCHANGED <<count, db, mem, jobs, client, ghost, cfg>>
      /\ rq.ph = "read" /\ ~ cfg.v5
  BY Zenon DEF build_timeline, Reading
<1>2. ASSUME NEW r \in Rows, r.st = "timeline", r.st \in Streams, r.n <= rq.cur
      PROVE  r \in window \cup Known
  <2>1. /\ r.n \in Nat /\ rq.since \in Nat /\ rq.cur \in Nat
        /\ r.n <= rq.since => r \in Known
    BY Zenon, <1>1, <1>2, Before DEF Answered
  <2> QED BY <1>2, <2>1 DEF UpTo, After, Of
<1>3. rq.ph \notin {"idle", "build"}
  BY Zenon, <1>1
<1> HIDE DEF window
<1> QED BY <1>1, <1>2, <1>3, PureReadStep

LEMMA TypingReadInv ==
  ASSUME IInv, NEW phase \in {"read", "typing"}, NEW since \in {rq.since, rq.room},
         build_typing(phase, since)
  PROVE  IInv'
<1>1. rq.ph \notin {"idle", "build"}
  BY Zenon DEF build_typing, Reading
<1>2. PICK expired \in BOOLEAN :
        LET now == IF expired THEN count + 1 ELSE mem.last
        IN /\ count' = IF expired THEN count + 1 ELSE count
           /\ mem' = IF expired THEN [mem EXCEPT !.typing = {}, !.last = now] ELSE mem
           /\ Got("typing", IF now > since THEN {Row("typing", "room", now)} ELSE {}, {})
  BY Zenon DEF build_typing
<1>3. PICK now : now = IF expired THEN count + 1 ELSE mem.last
  BY Zenon
<1>4. PICK rows : rows = IF now > since THEN {Row("typing", "room", now)} ELSE {}
  BY Zenon
<1>5. UNCHANGED <<db, jobs, client, ghost, cfg>>
  BY Zenon DEF build_typing
<1>6. /\ IsMem(mem') /\ mem'.known = mem.known /\ mem'.last = now
      /\ now \in Nat /\ mem'.last <= count' /\ count' \in Nat /\ count <= count'
  <2>1. CASE expired
    <3>1. now = count + 1 /\ count' = count + 1
      BY Zenon, <1>2, <1>3, <2>1
    <3>2. mem' = [mem EXCEPT !.typing = {}, !.last = now]
      BY Zenon, <1>2, <1>3, <2>1
    <3>3. IsMem(mem') /\ mem'.known = mem.known /\ mem'.last = now
      BY Zenon, <3>2 DEF IInv, Shape, IsMem
    <3> QED BY <3>1, <3>3 DEF IInv, Stamps
  <2>2. CASE ~ expired
    BY <1>2, <1>3, <2>2 DEF IInv, Shape, Stamps
  <2> QED BY Zenon, <2>1, <2>2
<1>7. Got("typing", rows, {})
  BY Zenon, <1>2, <1>3, <1>4
<1>8. \A r \in Rows' \ Rows : r.n = now /\ expired
  <2>1. \A r \in Rows' \ Rows : r.n = now
    BY <1>5, <1>6 DEF Rows, Row
  <2>2. ~ expired => mem' = mem
    BY Zenon, <1>2
  <2>3. mem' = mem => Rows' = Rows
    BY Zenon, <1>5 DEF Rows
  <2> QED BY Zenon, <2>1, <2>2, <2>3
<1>9. \A r \in Rows' \ Rows : Late(r)
  BY <1>3, <1>8 DEF Late, IInv, Stamps
<1>10. ASSUME NEW r \in Rows', r.st = "typing", "typing" \in Streams, r.n <= rq.cur
       PROVE  r \in rows \cup Known
  <2>1. r = Row("typing", "room", now)
    BY Zenon, <1>5, <1>6, <1>10 DEF Rows, IInv, Stamps
  <2>2. CASE now > since
    BY Zenon, <1>4, <2>1, <2>2
  <2>3. CASE ~ (now > since)
    <3>1. since \in Nat
      BY Zenon DEF IInv, Stamps
    <3>2. r.n = now /\ r.n <= since
      BY <1>6, <2>1, <2>3, <3>1 DEF Row
    <3>3. r \in Rows
      BY <1>1, <1>3, <1>6, <1>8, <3>2 DEF IInv, Stamps, Window
    <3>4. r.st \in Answered
      BY Zenon, <1>10 DEF Answered
    <3> QED BY Zenon, <1>1, <3>2, <3>3, <3>4, Before
  <2> QED BY Zenon, <2>2, <2>3
<1>11. ToDeviceKept'
  BY Zenon, <1>5 DEF IInv, ToDeviceKept, Known
<1>12. "typing" \in Streams =>
         \A r \in Rows' : r.st = "typing" /\ r.n <= rq.cur =>
              r \in rq'.got \cup rq'.excused \cup Known
  BY <1>7, <1>10, GotStep
<1>13. IsDb(db') /\ db'.rows \subseteq db.rows /\ IsGhost(ghost')
  BY Zenon, <1>5 DEF IInv, Shape
<1> QED BY <1>1, <1>5, <1>6, <1>7, <1>9, <1>11, <1>12, <1>13, GotStep, ReadStep

LEMMA HashesInv ==
  ASSUME IInv, fetch_shortstatehashes
  PROVE  IInv'
<1>1. rq.ph = "read" /\ UNCHANGED <<count, mem, jobs, client, cfg>>
  BY Zenon DEF fetch_shortstatehashes, Reading
<1>2. /\ IsRq(rq') /\ rq'.ph = rq.ph /\ rq'.since = rq.since /\ rq'.cur = rq.cur
      /\ rq'.room = rq.room /\ rq'.unread = rq.unread \ {"hashes"}
      /\ rq'.got = rq.got /\ rq'.excused = rq.excused
  BY Zenon DEF fetch_shortstatehashes, IInv, Shape, IsRq
<1>3. PICK tokens : db' = [db EXCEPT !.tokens = tokens]
  BY Zenon DEF fetch_shortstatehashes, IInv, Shape, IsDb
<1>4. IsDb(db') /\ db'.rows = db.rows
  BY Zenon, <1>3 DEF IInv, Shape, IsDb
<1>5. PICK skewed : ghost' = [ghost EXCEPT !.skewed = skewed]
  BY Zenon DEF fetch_shortstatehashes, IInv, Shape, IsGhost
<1>6. IsGhost(ghost') /\ ghost'.overtaken = ghost.overtaken /\ ghost'.removed = ghost.removed
      /\ ghost'.wiped = ghost.wiped
  BY Zenon, <1>5 DEF IInv, Shape, IsGhost
<1>7. Rows' = Rows
  BY Zenon, <1>1, <1>4 DEF Rows
<1>8. ToDeviceKept'
  BY Zenon, <1>1, <1>6 DEF IInv, ToDeviceKept, Known
<1>9. "hashes" \notin Streams
  BY Zenon DEF Streams, AllStreams
<1>10. mem'.last \in Nat /\ mem'.last <= count' /\ count' \in Nat /\ count <= count' /\ IsMem(mem')
  BY <1>1 DEF IInv, Shape, Stamps
<1> QED BY Zenon, <1>1, <1>2, <1>4, <1>6, <1>7, <1>8, <1>9, <1>10, ReadStep

(* The messages the client says it has, by its token, are removed.         *)
LEMMA RemoveStep ==
  ASSUME IInv, rq.ph \notin {"idle", "build"}, "todevice" \in Answered,
         remove_to_device_events(rq.since), client' = client
  PROVE  /\ IsDb(db') /\ db'.rows \subseteq db.rows
         /\ IsGhost(ghost') /\ ghost'.overtaken = ghost.overtaken
         /\ ToDeviceKept'
<1> DEFINE until == {r \in Of(db.rows, "todevice") : rq.since = 0 \/ r.n <= rq.since}
           wiped == IF rq.since = 0 THEN ghost.wiped \cup until ELSE ghost.wiped
<1>1. /\ db' = [db EXCEPT !.rows = @ \ until]
      /\ ghost' = [ghost EXCEPT !.removed = @ \cup until, !.wiped = wiped]
  BY Zenon DEF remove_to_device_events, IInv, Shape, IsGhost
<1>2. rq.since # 0 => until \subseteq Known
  <2> SUFFICES ASSUME rq.since # 0, NEW r \in until
               PROVE  r \in Known
    BY Zenon
  <2>1. r \in Rows /\ r.st = "todevice" /\ r.n <= rq.since
    BY Zenon DEF Of, Rows
  <2> QED BY Zenon, <2>1, Before
<1>3. rq.since = 0 => until \subseteq wiped
  BY Zenon
<1>4. ghost.wiped \subseteq wiped
  BY Zenon
<1> HIDE DEF until, wiped
<1>5. IsDb(db') /\ db'.rows \subseteq db.rows
  BY Zenon, <1>1 DEF IInv, Shape, IsDb
<1>6. IsGhost(ghost') /\ ghost'.overtaken = ghost.overtaken
      /\ ghost'.removed = ghost.removed \cup until /\ ghost'.wiped = wiped
  BY Zenon, <1>1 DEF IInv, Shape, IsGhost
<1>7. ToDeviceKept'
  BY Zenon, <1>2, <1>3, <1>4, <1>6 DEF IInv, ToDeviceKept, Known
<1> QED BY Zenon, <1>5, <1>6, <1>7

LEMMA ReceivedInv ==
  ASSUME IInv, RemoveReceived
  PROVE  IInv'
<1>1. /\ rq.ph = "read" /\ ~ cfg.v5 /\ "received" \in rq.unread
      /\ UNCHANGED <<count, mem, jobs, client, cfg>>
      /\ remove_to_device_events(rq.since) /\ Got("received", {}, {})
  BY Zenon DEF RemoveReceived, Reading
<1>2. "todevice" \in Answered
  BY Zenon, <1>1 DEF IInv, Phases, Answered
<1>3. rq.ph \notin {"idle", "build"}
  BY Zenon, <1>1
<1>4. Rows' \subseteq Rows
  BY Zenon, <1>1, <1>2, <1>3, RemoveStep DEF Rows
<1>5. "received" \notin Streams
  BY Zenon DEF Streams, AllStreams
<1>6. mem'.last \in Nat /\ mem'.last <= count' /\ count' \in Nat /\ count <= count' /\ IsMem(mem')
  BY <1>1 DEF IInv, Shape, Stamps
<1> QED BY Zenon, <1>1, <1>2, <1>3, <1>4, <1>5, <1>6, RemoveStep, GotStep, ReadStep

LEMMA ExtensionInv ==
  ASSUME IInv, NEW st \in rq.unread, ReadExtension(st)
  PROVE  IInv'
<1>1. /\ cfg.v5 /\ rq.ph = "read" /\ UNCHANGED <<count, db, mem, jobs, client, ghost, cfg>>
      /\ Got(st, After(rq.since, st), {})
  BY Zenon DEF ReadExtension, Reading, collect_account_data, collect_e2ee
<1>2. st \in Answered
  BY Zenon, <1>1 DEF IInv, Phases, Answered
<1>3. rq.ph \notin {"idle", "build"}
  BY Zenon, <1>1
<1>4. \A r \in Rows : r.st = st => r \in After(rq.since, st) \cup Known
  BY <1>2, <1>3, Before DEF After, Of
<1> QED BY <1>1, <1>3, <1>4, PureReadStep

LEMMA RoomsInv ==
  ASSUME IInv, NEW st \in rq.unread, process_rooms(st)
  PROVE  IInv'
<1> DEFINE all == After(rq.room, st)
           cut == UpTo(all, rq.cur)
<1>1. /\ cfg.v5 /\ rq.ph = "rooms" /\ UNCHANGED <<count, db, mem, jobs, client, ghost, cfg>>
      /\ \/ Got(st, load_timeline(cut), cut \ load_timeline(cut))
         \/ Got(st, cut, {}) \/ Got(st, all, {})
  BY Zenon DEF process_rooms, Reading
<1>2. st \in Answered
  BY Zenon, <1>1 DEF IInv, Phases, Answered
<1>3. rq.ph \notin {"idle", "build"}
  BY Zenon, <1>1
<1>4. \A r \in Rows : r.st = st => r \in all \cup Known
  BY <1>2, <1>3, Before DEF After, Of
<1>5. \A r \in Rows : r.st = st /\ r.n <= rq.cur => r \in cut \cup Known
  BY Zenon, <1>4 DEF UpTo
<1> HIDE DEF all, cut
<1> QED BY <1>1, <1>3, <1>4, <1>5, PureReadStep

LEMMA ToDeviceInv ==
  ASSUME IInv, collect_to_device
  PROVE  IInv'
<1>1. /\ cfg.v5 /\ rq.ph = "read" /\ "todevice" \in rq.unread
      /\ UNCHANGED <<count, mem, jobs, client, cfg>>
  BY Zenon DEF collect_to_device, Reading
<1>2. "todevice" \in Answered
  BY Zenon, <1>1 DEF IInv, Phases, Answered
<1>3. rq.ph \notin {"idle", "build"}
  BY Zenon, <1>1
<1>4. CASE Got("todevice", get_to_device_events(0, rq.cur), {}) /\ UNCHANGED <<db, ghost>>
  <2>1. \A r \in Rows : r.st = "todevice" /\ r.n <= rq.cur =>
           r \in get_to_device_events(0, rq.cur) \cup Known
    BY <1>2, <1>3, Before DEF get_to_device_events, UpTo, After, Of
  <2> QED BY <1>1, <1>3, <1>4, <2>1, PureReadStep
<1>5. CASE /\ UNCHANGED <<db, ghost>> \/ remove_to_device_events(rq.since)
           /\ rq' = [rq EXCEPT !.again = TRUE]
  <2>1. /\ IsRq(rq') /\ rq'.ph = rq.ph /\ rq'.since = rq.since /\ rq'.cur = rq.cur
        /\ rq'.room = rq.room /\ rq'.unread = rq.unread
        /\ rq'.got = rq.got /\ rq'.excused = rq.excused
    BY Zenon, <1>5 DEF IInv, Shape, IsRq
  <2>2. /\ IsDb(db') /\ db'.rows \subseteq db.rows
        /\ IsGhost(ghost') /\ ghost'.overtaken = ghost.overtaken /\ ToDeviceKept'
    <3>1. CASE UNCHANGED <<db, ghost>>
      BY Zenon, <1>1, <3>1 DEF IInv, Shape, ToDeviceKept, Known
    <3>2. CASE remove_to_device_events(rq.since)
      BY Zenon, <1>1, <1>2, <1>3, <3>2, RemoveStep
    <3> QED BY Zenon, <1>5, <3>1, <3>2
  <2>3. Rows' \subseteq Rows
    BY Zenon, <1>1, <2>2 DEF Rows
  <2>4. /\ mem'.last \in Nat /\ mem'.last <= count' /\ count' \in Nat /\ count <= count'
        /\ IsMem(mem')
    BY <1>1 DEF IInv, Shape, Stamps
  <2> QED BY Zenon, <1>1, <1>3, <2>1, <2>2, <2>3, <2>4, ReadStep
<1> QED BY Zenon, <1>4, <1>5 DEF collect_to_device

-----------------------------------------------------------------------------
(* The steps that take a request to its next phase.                        *)

LEMMA PhaseStep ==
  ASSUME IInv, UNCHANGED <<db, jobs, client, ghost, cfg>>, IsMem(mem'), mem'.last = mem.last,
         count' \in Nat, count <= count',
         IsRq(rq'), {rq'.since, rq'.cur, rq'.room} \subseteq Nat, rq'.cur <= count',
         Window', Phases', rq.got \subseteq rq'.got \/ Done' = {},
         rq.excused \subseteq rq'.excused \/ Done' = {},
         rq'.cur = rq.cur \/ Done' = {}, Done' \subseteq Done
  PROVE  IInv'
<1>1. Rows' = Rows /\ Known' = Known
  BY Zenon DEF Rows, Known
<1>2. Covered'
  BY Zenon, <1>1 DEF IInv, Covered
<1>3. NothingMissed' /\ ToDeviceKept'
  BY Zenon, <1>1, SameStreams DEF IInv, NothingMissed, ToDeviceKept
<1>4. Shape' /\ Stamps'
  BY DEF IInv, Shape, Stamps
<1> QED BY Zenon, <1>2, <1>3, <1>4 DEF IInv

(* A dropped request: the client keeps its token.                          *)
LEMMA IdleInv ==
  ASSUME IInv, UNCHANGED <<count, db, mem, jobs, client, ghost, cfg>>, rq' = NoRequest
  PROVE  IInv'
<1>1. /\ IsRq(rq') /\ rq'.ph = "idle" /\ rq'.since = 0 /\ rq'.cur = 0 /\ rq'.room = 0
      /\ rq'.unread = {}
  BY Zenon DEF NoRequest, IsRq
<1>2. Window'
  BY Zenon, <1>1 DEF IInv, Window
<1>3. Phases'
  BY Zenon, <1>1, SameStreams DEF Phases
<1>4. Done' = {}
  BY Zenon, <1>1 DEF Done
<1> QED BY <1>1, <1>2, <1>3, <1>4, PhaseStep DEF IInv, Shape, Stamps

LEMMA BeginInv ==
  ASSUME IInv, SyncBegin
  PROVE  IInv'
<1>1. ~ cfg.v5 /\ UNCHANGED <<count, db, mem, jobs, client, ghost, cfg>>
      /\ rq' = [NoRequest EXCEPT !.ph = "build", !.since = client.token]
  BY Zenon DEF SyncBegin
<1>2. /\ IsRq(rq') /\ rq'.ph = "build" /\ rq'.since = client.token /\ rq'.cur = 0
      /\ rq'.room = 0 /\ rq'.unread = {}
  BY Zenon, <1>1 DEF NoRequest, IsRq
<1>3. Window'
  BY <1>1, <1>2 DEF IInv, Window, Stamps
<1>4. Phases'
  BY Zenon, <1>1, <1>2, SameStreams DEF Phases
<1>5. Done' = {}
  BY Zenon, <1>1, <1>2 DEF Done
<1> QED BY <1>1, <1>2, <1>3, <1>4, <1>5, PhaseStep DEF IInv, Shape, Stamps

LEMMA BuildInv ==
  ASSUME IInv, build_sync_events
  PROVE  IInv'
<1> DEFINE unread == Streams \cup (IF "todevice" \in Streams THEN {"received"} ELSE {})
                             \cup (IF "timeline" \in Streams THEN {"hashes"} ELSE {})
<1>1. rq.ph = "build" /\ UNCHANGED <<count, db, mem, jobs, client, ghost, cfg>>
      /\ rq' = [rq EXCEPT !.ph = "read", !.cur = count, !.got = {}, !.excused = {},
                          !.unread = unread]
  BY Zenon DEF build_sync_events
<1>2. Streams \subseteq unread /\ ("received" \in unread => "todevice" \in Streams)
  BY Zenon DEF Streams, AllStreams
<1> HIDE DEF unread
<1>3. /\ IsRq(rq') /\ rq'.ph = "read" /\ rq'.since = rq.since /\ rq'.cur = count
      /\ rq'.room = rq.room /\ rq'.unread = unread
  BY Zenon, <1>1 DEF IInv, Shape, IsRq
<1>4. Window'
  BY Zenon, <1>1, <1>3 DEF IInv, Window, Stamps
<1>5. Phases'
  BY Zenon, <1>1, <1>2, <1>3, SameStreams DEF IInv, Phases
<1>6. Done' = {}
  BY Zenon, <1>1, <1>2, <1>3, SameStreams DEF IInv, Phases, Done
<1> QED BY <1>1, <1>3, <1>4, <1>5, <1>6, PhaseStep DEF IInv, Shape, Stamps

(* The request goes on to another phase with what it has read.             *)
LEMMA GoOn ==
  ASSUME IInv, UNCHANGED <<count, db, jobs, client, ghost, cfg>>,
         rq.ph # "idle", rq'.ph # "idle", rq.ph = "build" => rq'.ph = "build",
         IsMem(mem'), mem'.last = mem.last,
         mem'.known # << >> => mem'.known[1] \in Nat /\ mem'.known[1] <= client.token,
         IsRq(rq'), rq'.since = rq.since, rq'.cur = rq.cur, rq'.room = rq.room,
         rq'.got = rq.got, rq'.excused = rq.excused, Phases', Done' \subseteq Done
  PROVE  IInv'
<1>1. Window'
  BY Zenon DEF IInv, Window
<1>2. /\ {rq'.since, rq'.cur, rq'.room} \subseteq Nat /\ rq'.cur <= count'
      /\ count' \in Nat /\ count <= count'
  BY DEF IInv, Stamps
<1> QED BY Zenon, <1>1, <1>2, PhaseStep

LEMMA AnswerInv ==
  ASSUME IInv, sync_events_route
  PROVE  IInv'
<1>1. /\ rq.ph = "read" /\ rq.unread = {} /\ ~ cfg.v5
      /\ UNCHANGED <<count, db, mem, jobs, client, ghost, cfg>>
  BY Zenon DEF sync_events_route
<1>2. PICK state : \/ rq' = [rq EXCEPT !.ph = "wait", !.again = TRUE]
                   \/ rq' = [rq EXCEPT !.ph = "sent", !.state = state]
  BY Zenon DEF sync_events_route
<1>3. /\ IsRq(rq') /\ rq'.ph \in {"wait", "sent"} /\ rq'.since = rq.since /\ rq'.cur = rq.cur
      /\ rq'.room = rq.room /\ rq'.got = rq.got /\ rq'.excused = rq.excused
      /\ rq'.unread = rq.unread
  BY ZenonT(40), <1>2 DEF IInv, Shape, IsRq
<1>4. Phases'
  BY Zenon, <1>1, <1>3, SameStreams DEF Phases
<1>5. Done' \subseteq Done
  BY Zenon, <1>1, <1>3, SameStreams DEF Done
<1> QED BY Zenon, <1>1, <1>3, <1>4, <1>5, GoOn DEF IInv, Shape, Window

LEMMA RetryInv ==
  ASSUME IInv, SyncRetry
  PROVE  IInv'
<1>1. /\ rq.ph = "wait" /\ ~ cfg.v5 /\ UNCHANGED <<count, db, mem, jobs, client, ghost, cfg>>
      /\ rq' = [rq EXCEPT !.ph = "build", !.woken = FALSE]
  BY Zenon DEF SyncRetry
<1>2. /\ IsRq(rq') /\ rq'.ph = "build" /\ rq'.since = rq.since /\ rq'.cur = rq.cur
      /\ rq'.room = rq.room /\ rq'.got = rq.got /\ rq'.excused = rq.excused
  BY Zenon, <1>1 DEF IInv, Shape, IsRq
<1>3. Phases'
  BY Zenon, <1>1, <1>2, SameStreams DEF Phases
<1>4. Done' = {}
  BY Zenon, <1>1, <1>2 DEF Done
<1> QED BY Zenon, <1>1, <1>2, <1>3, <1>4, GoOn DEF IInv, Shape, Window

(* A position that is not cached resets the client; otherwise a request    *)
(* begins, with its token taken from the counter.                          *)
LEMMA BeginV5Inv ==
  ASSUME IInv, sync_events_v5_route
  PROVE  IInv'
<1>1. /\ cfg.v5 /\ rq.ph = "idle" /\ count' = count + 1 /\ UNCHANGED <<db, jobs, ghost, cfg>>
  BY Zenon DEF sync_events_v5_route
<1>2. CASE /\ client.token # 0 /\ mem.known = << >>
           /\ client' = [client EXCEPT !.token = 0] /\ UNCHANGED <<mem, rq>>
  <2>1. /\ client'.token = 0 /\ client'.seen = client.seen
        /\ client'.excused = client.excused
        /\ client' = [token |-> client'.token, seen |-> client'.seen,
                      excused |-> client'.excused, state |-> client'.state]
    BY Zenon, <1>2 DEF IInv, Shape
  <2>2. Rows' = Rows /\ Known' = Known
    BY Zenon, <1>1, <1>2, <2>1 DEF Rows, Known
  <2>3. NothingMissed'
    <3> SUFFICES ASSUME NEW r \in Rows, r.st \in Answered, r.n <= 0
                 PROVE  r \in Known
      BY Zenon, <1>1, <2>1, <2>2, SameStreams DEF NothingMissed
    <3>1. r.n \in Nat
      BY DEF IInv, Stamps, Rows, Row
    <3> QED BY <3>1 DEF IInv, NothingMissed, Stamps
  <2>4. Covered' /\ ToDeviceKept'
    BY Zenon, <1>1, <1>2, <2>2 DEF IInv, Covered, ToDeviceKept, Done
  <2>5. Window' /\ Phases'
    BY Zenon, <1>1, <1>2, <2>1, SameStreams DEF IInv, Window, Phases
  <2>6. Shape' /\ Stamps'
    BY <1>1, <1>2, <2>1 DEF IInv, Shape, Stamps
  <2> QED BY Zenon, <2>3, <2>4, <2>5, <2>6 DEF IInv
<1>3. ASSUME NEW known, client.token = 0 \/ mem.known # << >>,
             known = IF client.token = 0 THEN << 0 >> ELSE mem.known,
             mem' = [mem EXCEPT !.known = known],
             rq' = [NoRequest EXCEPT !.ph = "read", !.since = client.token,
                       !.cur = count + 1, !.room = known[1], !.unread = Extensions],
             client' = client
      PROVE  IInv'
  <2>1. known[1] \in Nat /\ known[1] <= client.token
    BY <1>3 DEF IInv, Window, Stamps
  <2>2. /\ IsRq(rq') /\ rq'.ph = "read" /\ rq'.since = client.token /\ rq'.cur = count + 1
        /\ rq'.room = known[1] /\ rq'.unread = Extensions
    BY Zenon, <1>3 DEF NoRequest, IsRq
  <2>3. IsMem(mem') /\ mem'.last = mem.last /\ mem'.known = known
    BY Zenon, <1>3 DEF IInv, Shape, IsMem
  <2>4. Window'
    BY <1>3, <2>1, <2>2, <2>3 DEF IInv, Stamps, Window
  <2>5. Phases'
    BY Zenon, <1>1, <2>2, SameStreams DEF Phases
  <2>6. Done' = {}
    BY Zenon, <1>1, <2>2, SameStreams DEF Done
  <2>7. {rq'.since, rq'.cur, rq'.room} \subseteq Nat /\ rq'.cur <= count'
        /\ count' \in Nat /\ count <= count'
    BY <1>1, <2>1, <2>2 DEF IInv, Stamps
  <2> QED BY Zenon, <1>1, <1>3, <2>2, <2>3, <2>4, <2>5, <2>6, <2>7, PhaseStep
<1> QED
  BY Zenon, <1>1, <1>2, <1>3 DEF sync_events_v5_route, snake_connection_cached,
     update_snake_sync_request_with_cache

LEMMA ListsInv ==
  ASSUME IInv, handle_lists
  PROVE  IInv'
<1>1. /\ cfg.v5 /\ rq.ph = "read" /\ rq.unread = {}
      /\ UNCHANGED <<count, db, jobs, client, ghost, cfg>>
      /\ mem' = [mem EXCEPT !.known = <<rq.since>>]
      /\ rq' = [rq EXCEPT !.ph = "rooms", !.unread = RoomStreams]
  BY Zenon DEF handle_lists, update_snake_sync_known_rooms
<1>2. /\ IsRq(rq') /\ rq'.ph = "rooms" /\ rq'.since = rq.since /\ rq'.cur = rq.cur
      /\ rq'.room = rq.room /\ rq'.got = rq.got /\ rq'.excused = rq.excused
      /\ rq'.unread = RoomStreams
  BY Zenon, <1>1 DEF IInv, Shape, IsRq
<1>3. IsMem(mem') /\ mem'.last = mem.last /\ mem'.known = <<rq.since>>
  BY Zenon, <1>1 DEF IInv, Shape, IsMem
<1>4. Phases'
  BY Zenon, <1>1, <1>2, SameStreams DEF Phases
<1>5. Done' \subseteq Done
  BY Zenon, <1>1, <1>2, SameStreams DEF Done
<1>6. mem'.known[1] \in Nat /\ mem'.known[1] <= client.token
  BY <1>1, <1>3 DEF IInv, Window, Stamps
<1> QED BY Zenon, <1>1, <1>2, <1>3, <1>4, <1>5, <1>6, GoOn

LEMMA LastStepsInv ==
  ASSUME IInv, HangV5 \/ ResumeV5 \/ AnswerV5
  PROVE  IInv'
<1>1. cfg.v5 /\ UNCHANGED <<count, db, mem, jobs, client, ghost, cfg>>
  BY Zenon DEF HangV5, ResumeV5, AnswerV5
<1>2. /\ IsRq(rq') /\ rq'.since = rq.since /\ rq'.cur = rq.cur /\ rq'.room = rq.room
      /\ rq'.got = rq.got /\ rq'.excused = rq.excused
      /\ \/ rq.ph = "rooms" /\ rq.unread = {} /\ rq'.ph \in {"typing", "wait"}
             /\ rq'.unread = Typings
         \/ rq.ph = "wait" /\ rq'.ph = "typing" /\ rq'.unread = rq.unread
         \/ rq.ph = "typing" /\ rq.unread = {} /\ rq'.ph = "sent" /\ rq'.unread = {}
  BY ZenonT(40) DEF HangV5, ResumeV5, AnswerV5, Typings, IInv, Shape, IsRq
<1>3. Phases'
  BY Zenon, <1>1, <1>2, SameStreams DEF Phases
<1>4. Done' \subseteq Done
  BY Zenon, <1>1, <1>2, SameStreams DEF Done
<1> QED BY Zenon, <1>1, <1>2, <1>3, <1>4, GoOn DEF IInv, Shape, Window

-----------------------------------------------------------------------------
(* The client's and the process's steps.                                   *)

LEMMA ReceiveInv ==
  ASSUME IInv, Receive
  PROVE  IInv'
<1>1. /\ rq.ph = "sent" /\ rq' = NoRequest /\ UNCHANGED <<count, db, mem, jobs, ghost, cfg>>
      /\ client'.token = rq.cur /\ client'.seen = client.seen \cup rq.got
      /\ client'.excused = client.excused \cup rq.excused
      /\ client' = [token |-> client'.token, seen |-> client'.seen,
                    excused |-> client'.excused, state |-> client'.state]
  BY Zenon DEF Receive
<1>2. /\ IsRq(rq') /\ rq'.ph = "idle" /\ rq'.since = 0 /\ rq'.cur = 0 /\ rq'.room = 0
      /\ rq'.unread = {}
  BY Zenon, <1>1 DEF NoRequest, IsRq
<1>3. Rows' = Rows /\ Known' = Known \cup rq.got \cup rq.excused
  BY Zenon, <1>1 DEF Rows, Known
<1>4. Answered \subseteq Done
  BY Zenon, <1>1 DEF IInv, Phases, Done, Answered, Typings
<1>5. NothingMissed'
  BY Zenon, <1>1, <1>3, <1>4, SameStreams DEF IInv, NothingMissed, Covered
<1>6. Covered'
  BY Zenon, <1>2 DEF Covered, Done
<1>7. ToDeviceKept'
  BY Zenon, <1>1, <1>3 DEF IInv, ToDeviceKept
<1>8. client.token <= client'.token /\ client'.token \in Nat /\ client'.token <= count
  BY Zenon, <1>1 DEF IInv, Window, Stamps
<1>9. Window'
  BY <1>1, <1>2, <1>8 DEF IInv, Window, Stamps
<1>10. Phases'
  BY Zenon, <1>1, <1>2, SameStreams DEF Phases
<1>11. Shape' /\ Stamps'
  BY <1>1, <1>2, <1>8 DEF IInv, Shape, Stamps
<1> QED BY Zenon, <1>5, <1>6, <1>7, <1>9, <1>10, <1>11 DEF IInv

LEMMA RestartInv ==
  ASSUME IInv, Restart
  PROVE  IInv'
<1>1. /\ mem' = NoMem /\ jobs' = [j \in Jobs |-> NoJob] /\ rq' = NoRequest
      /\ UNCHANGED <<client, ghost, cfg>>
  BY Zenon DEF Restart
<1>2. PICK n, users : n \in Nat /\ unset_all_presence(n, users)
  BY DEF Restart
<1>3. PICK old, new :
        /\ new = {Row("presence", users[i], count + i) : i \in 1 .. n}
        /\ count' = count + n
        /\ db' = [db EXCEPT !.rows = (@ \ old) \cup new, !.latest = (@ \ old) \cup new]
  BY Zenon, <1>2 DEF unset_all_presence
<1>4. \A r \in new : r.n \in Nat /\ ~ (r.n <= count) /\ r.st # "typing"
  BY <1>2, <1>3 DEF Row, IInv, Stamps
<1>5. IsDb(db') /\ db'.rows \subseteq db.rows \cup new
  BY Zenon, <1>3 DEF IInv, Shape, IsDb
<1>6. /\ IsRq(rq') /\ rq'.ph = "idle" /\ rq'.since = 0 /\ rq'.cur = 0 /\ rq'.room = 0
      /\ rq'.unread = {}
  BY Zenon, <1>1 DEF NoRequest, IsRq
<1>7. IsMem(mem') /\ mem'.last = 0 /\ mem'.known = << >>
  BY Zenon, <1>1 DEF NoMem, IsMem
<1>8. jobs' = [j \in Jobs |-> jobs'[j]] /\ \A j \in Jobs : IsJob(jobs'[j])
  BY Zenon, <1>1 DEF NoJob, IsJob
<1>9. Rows' \subseteq Rows \cup new /\ Known' = Known
  BY Zenon, <1>1, <1>5, <1>7 DEF Rows, Known
<1>10. count' \in Nat /\ count <= count'
  BY <1>2, <1>3 DEF IInv, Stamps
<1>11. \A r \in new : ~ (r.n <= client.token)
  BY <1>4 DEF IInv, Stamps
<1>12. NothingMissed'
  BY Zenon, <1>1, <1>9, <1>11, SameStreams DEF IInv, NothingMissed
<1>13. Covered'
  BY Zenon, <1>6 DEF Covered, Done
<1>14. ToDeviceKept'
  BY Zenon, <1>1, <1>9 DEF IInv, ToDeviceKept
<1>15. Window'
  BY Zenon, <1>6, <1>7 DEF Window
<1>16. Phases'
  BY Zenon, <1>1, <1>6, SameStreams DEF Phases
<1>17. Shape'
  BY Zenon, <1>1, <1>5, <1>6, <1>7, <1>8 DEF IInv, Shape
<1>18. Stamps'
  BY <1>1, <1>4, <1>5, <1>6, <1>7, <1>10 DEF IInv, Stamps
<1> QED BY Zenon, <1>12, <1>13, <1>14, <1>15, <1>16, <1>17, <1>18 DEF IInv

LEMMA InitInv ==
  ASSUME Init
  PROVE  IInv
<1>1. /\ IsRq(rq) /\ rq.ph = "idle" /\ rq.since = 0 /\ rq.cur = 0 /\ rq.room = 0
      /\ rq.unread = {}
  BY Zenon DEF Init, NoRequest, IsRq
<1>2. IsMem(mem) /\ mem.last = 0 /\ mem.known = << >>
  BY Zenon DEF Init, NoMem, IsMem
<1>3. jobs = [j \in Jobs |-> jobs[j]] /\ \A j \in Jobs : IsJob(jobs[j])
  BY Zenon DEF Init, NoJob, IsJob
<1>4. Rows = {} /\ db.rows = {} /\ IsDb(db)
  BY Zenon, <1>2 DEF Init, Rows, IsDb
<1>5. /\ IsGhost(ghost) /\ ghost.removed = {} /\ count = 1
      /\ client = [token |-> client.token, seen |-> client.seen, excused |-> client.excused,
                   state |-> client.state]
      /\ client.token = 0
  BY Zenon DEF Init, IsGhost
<1>6. Shape /\ Stamps /\ Window /\ Phases
  BY <1>1, <1>2, <1>3, <1>4, <1>5 DEF Shape, Stamps, Window, Phases
<1>7. NothingMissed /\ Covered /\ ToDeviceKept
  BY Zenon, <1>4, <1>5 DEF NothingMissed, Covered, ToDeviceKept
<1> QED BY Zenon, <1>6, <1>7 DEF IInv

LEMMA SameInv ==
  ASSUME IInv, UNCHANGED vars
  PROVE  IInv'
<1>1. UNCHANGED <<count, db, mem, jobs, rq, client, ghost, cfg>>
  BY Zenon DEF vars
<1>2. Rows' = Rows /\ Known' = Known /\ Done' = Done
  BY Zenon, <1>1, SameStreams DEF Rows, Known, Done
<1> QED BY Zenon, <1>1, <1>2, SameStreams DEF IInv, Shape, Stamps, Window, Phases, NothingMissed,
           Covered, ToDeviceKept

LEMMA NextInv ==
  ASSUME IInv, [Next]_vars
  PROVE  IInv'
<1>1. CASE Handlers
  BY Zenon, <1>1, ArriveInv, StepInv DEF Handlers
<1>2. CASE SyncV3
  BY Zenon, <1>2, BeginInv, PingInv, BuildInv, ReadStreamInv, TimelineInv, TypingReadInv, HashesInv,
     ReceivedInv, AnswerInv, RetryInv DEF SyncV3
<1>3. CASE SyncV5
  BY Zenon, <1>3, BeginV5Inv, ExtensionInv, RoomsInv, ToDeviceInv, ListsInv, LastStepsInv,
     TypingReadInv DEF SyncV5
<1>4. CASE Receive
  BY Zenon, <1>4, ReceiveInv
<1>5. CASE Lose
  BY Zenon, <1>5, IdleInv DEF Lose
<1>6. CASE Restart
  BY Zenon, <1>6, RestartInv
<1> QED BY Zenon, <1>1, <1>2, <1>3, <1>4, <1>5, <1>6, SameInv DEF Next

-----------------------------------------------------------------------------
(* The invariant holds in every reachable state of every instance.         *)
THEOREM Invariance == Spec => []IInv
  BY InitInv, NextInv, PTL DEF Spec

(* A client's token never passes over an update it does not have, however  *)
(* the handlers' writes, the syncs, lost answers and restarts interleave:  *)
(* a row stamped up to the token was in an answer the client received, or  *)
(* in a gap it announced, or was written behind a sync that had passed it. *)
THEOREM NothingMissedCorrect == Spec => []NothingMissed
<1>1. IInv => NothingMissed
  BY Zenon DEF IInv
<1> QED BY <1>1, Invariance, PTL

(* A to-device message that a sync deletes is one the client has; the      *)
(* initial sync and the messages written behind a sync are the exceptions. *)
THEOREM ToDeviceKeptCorrect == Spec => []ToDeviceKept
<1>1. IInv => ToDeviceKept
  BY Zenon DEF IInv
<1> QED BY <1>1, Invariance, PTL
=============================================================================
