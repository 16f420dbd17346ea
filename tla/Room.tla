-------------------------------- MODULE Room --------------------------------
(***************************************************************************)
(* One room of the server: the handler of incoming events                  *)
(* (service/rooms/event_handler), the sender of local events               *)
(* (service/rooms/timeline), the state of the room                         *)
(* (service/rooms/state, state_compressor), its membership cache           *)
(* (service/rooms/state_cache) and the metadata of its events              *)
(* (service/rooms/pdu_metadata, outlier).                                  *)
(*                                                                         *)
(* Every write to the database is a step of its own, and the server may    *)
(* crash between any two.  Two tasks work on the room: "fed" upgrades the  *)
(* events of a federation transaction, one at a time (mutex_federation),   *)
(* and "loc" builds and appends a local event.  Both change the room under *)
(* the state mutex, but "fed" runs the checks of an event before it takes  *)
(* that mutex.  What the auth rules and state resolution decide is left to *)
(* the constants Allowed and Resolve (see StateRes).                       *)
(***************************************************************************)
EXTENDS StateCompressor

CONSTANTS
  Initial,          \* events of the room when the model starts
  Remote,           \* events other servers send
  Local,            \* events local users send
  Keys,             \* state keys
  NoKey,            \* key of an event that is not a state event
  Users,            \* the keys that are users: their state is a membership
  LocalUsers,       \* users of this server
  KeyOf,            \* [events -> Keys \cup {NoKey}]
  Membership,       \* [membership events -> "join", "invite", "knock", "leave"]
  RemotePrev,       \* [Remote -> SUBSET of the remote and initial events]
  RemoteState,      \* [Remote -> the state /state_ids answers with]
  Fallible,         \* local events whose append fails after the insert
  Allowed(_, _),    \* auth_check of an event against a state
  Resolve(_),       \* state_res::resolve of a set of states
  MaxPrev,          \* most prev_events of a local event (20)
  MaxCrashes        \* bound on the crashes of the model

Events == Initial \cup Remote \cup Local

ASSUME RoomAssumption ==
  /\ Users \subseteq Keys
  /\ LocalUsers \subseteq Users
  /\ NoKey \notin Keys
  /\ KeyOf \in [Events -> Keys \cup {NoKey}]
  /\ \A e \in Remote : RemotePrev[e] \subseteq (Initial \cup Remote) \ {e}
  /\ MaxPrev \in Nat \ {0}

VARIABLES
  timeline,         \* pduid_pdu, eventid_pduid
  outliers,         \* eventid_outlierpdu
  leaves,           \* roomid_pduleaves
  referenced,       \* referencedevents
  soft_failed,      \* softfailedeventids
  prev,             \* the prev_events of the stored events
  event_state,      \* shorteventid_shortstatehash
  hashes,           \* statehash_shortstatehash
  diffs,            \* shortstatehash_statediff
  room_state,       \* roomid_shortstatehash
  member,           \* the membership tables of state_cache
  counted,          \* roomid_joinedcount, roomserverids: who counts as joined
  sent,             \* local events handed to the sending service
  todo,             \* events "fed" has still to upgrade
  task,             \* what the two tasks are doing
  state_mutex,      \* holder of the state mutex of the room
  crashes

db == <<timeline, outliers, leaves, referenced, soft_failed, prev, event_state, hashes, diffs,
        room_state, member, counted, sent>>
vars == <<db, todo, task, state_mutex, crashes>>

----------------------------------------------------------------------------
(* States.                                                                 *)

IsState(e) == KeyOf[e] # NoKey

(* The state after a state event, from the state before it.                *)
After(state, e) ==
  IF IsState(e) THEN {p \in state : p[1] # KeyOf[e]} \cup {<<KeyOf[e], e>>} ELSE state

StateEvents(state) == {p[2] : p \in state}

(* The short state hash of a state that is stored by its content, and of   *)
(* one that append_to_state stores under the next count.                   *)
ByContent(state) == <<"content", state>>
ByCount(e) == <<"count", e>>

RoomState == StateOf(diffs, room_state)

(* update_membership: knocks have no arm of their own.                     *)
MemberAfter(e) ==
  [u \in Users |-> IF KeyOf[e] = u /\ Membership[e] # "knock" THEN Membership[e] ELSE member[u]]

Joined(m) == {u \in Users : m[u] = "join"}

(* server_in_room for this server.                                         *)
InRoom == counted \cap LocalUsers # {}

----------------------------------------------------------------------------
(* What a task does, write by write.                                       *)

(* resolve_state, save_state, force_state and set_room_state of an         *)
(* incoming state event.                                                   *)
ForceSteps == <<"fork_hash", "fork_diff", "members", "fork_state">>

(* set_event_state.                                                        *)
EventStateSteps == <<"at_hash", "at_diff", "event_state">>

(* The soft-fail branch.                                                   *)
SoftSteps == <<"referenced", "soft_mark", "unlock">>

(* append_pdu.                                                             *)
AppendSteps == <<"referenced", "clear", "leaves", "insert", "membership">>

(* upgrade_outlier_to_timeline_pdu from the lock on.                       *)
UpgradeSteps(e, soft) ==
  <<"lock">> \o (IF IsState(e) THEN ForceSteps ELSE << >>) \o EventStateSteps
             \o (IF soft THEN SoftSteps ELSE AppendSteps \o <<"unlock">>)

(* Mutation of BuildSteps: the room takes the new state before the append. *)
BuildStepsEarly(e) ==
  <<"local_event_state">> \o (IF IsState(e) THEN <<"local_diff">> ELSE << >>)
    \o <<"set_room_state">> \o AppendSteps \o <<"send", "unlock">>

(* build_and_append_pdu after the event is created.                        *)
BuildSteps(e) ==
  <<"local_event_state">> \o (IF IsState(e) THEN <<"local_diff">> ELSE << >>) \o AppendSteps
    \o (IF e \in Fallible THEN <<"unlock">> ELSE <<"set_room_state", "send", "unlock">>)

Steps(p) ==
  IF p = "fed" THEN UpgradeSteps(task[p].ev, task[p].soft) ELSE BuildSteps(task[p].ev)

Idle == [pc |-> 0]
Start(e, state, soft) ==
  [pc |-> 1, ev |-> e, at |-> state, soft |-> soft, leaves |-> {}, hash |-> NoHash, existed |-> FALSE]

At(p, step) == task[p].pc # 0 /\ Steps(p)[task[p].pc] = step
Continue(p, t) == task' = [task EXCEPT ![p] = [t EXCEPT !.pc = @ + 1]]
Advance(p) == Continue(p, task[p])
Stop(p) == task' = [task EXCEPT ![p] = Idle]

----------------------------------------------------------------------------
Init ==
  LET state == {<<KeyOf[e], e>> : e \in {x \in Initial : IsState(x)}}
      first == ByContent(state)
  IN  /\ timeline = Initial
      /\ outliers = {}
      /\ leaves = Initial
      /\ referenced = {}
      /\ soft_failed = {}
      /\ prev = [e \in Events |-> IF e \in Remote THEN RemotePrev[e] ELSE {}]
      /\ event_state = [e \in Events |-> IF e \in Initial THEN ByContent({}) ELSE NoHash]
      /\ hashes = {ByContent({}), first}
      /\ diffs = [h \in {ByContent({}), first} |->
                    [parent |-> NoHash, added |-> h[2], removed |-> {}]]
      /\ room_state = first
      /\ member = [u \in Users |->
                     IF \E e \in Initial : KeyOf[e] = u
                     THEN Membership[CHOOSE e \in Initial : KeyOf[e] = u] ELSE "none"]
      /\ counted = Joined(member)
      /\ sent = {}
      /\ todo = << >>
      /\ task = [p \in {"fed", "loc"} |-> Idle]
      /\ state_mutex = "free"
      /\ crashes = 0

----------------------------------------------------------------------------
(* Incoming events.                                                        *)

(* fetch_and_handle_outliers: an outlier is found here; for another event  *)
(* the origin may or may not answer, and the answer may be refused.        *)
FoundHere(x) == prev[x] \cap outliers

(* The sets of missing ancestors fetch_prev ends with.                     *)
FetchedPrevs(e) ==
  {F \in SUBSET (Remote \ (timeline \cup {e})) :
     /\ \A f \in F : \E x \in F \cup {e} : f \in prev[x]
     /\ \A x \in F \cup {e} : FoundHere(x) \ {e} \subseteq F}

(* The orders lexicographical_topological_sort may return (see TopoSort).  *)
Sortings(F) ==
  {q \in [1 .. Cardinality(F) -> F] :
     \A i, j \in 1 .. Cardinality(F) : (i # j => q[i] # q[j]) /\ (q[i] \in prev[q[j]] => i < j)}

(* handle_outlier_pdu: what passes its checks is stored as an outlier.     *)
HandleOutliers(E) == outliers' = outliers \cup E

(* handle_incoming_pdu: an event that is not in the timeline becomes an    *)
(* outlier, and its missing ancestors are upgraded before it.              *)
Receive(e) ==
  /\ task["fed"] = Idle /\ todo = << >>
  /\ e \in Remote \ timeline
  /\ InRoom
  /\ \E F \in FetchedPrevs(e) : \E q \in Sortings(F) :
       /\ HandleOutliers(F \cup {e})
       /\ todo' = q \o <<e>>
  /\ UNCHANGED <<timeline, leaves, referenced, soft_failed, prev, event_state, hashes, diffs,
                 room_state, member, counted, sent, task, state_mutex, crashes>>

(* Mutation of Settled: a soft-failed event is tried again.                *)
SettledTimeline(e) == e \in timeline

(* An event that is in the timeline or soft-failed is not upgraded.        *)
Settled(e) == e \in timeline \cup soft_failed

(* The state after an event that is stored.                                *)
StateAfter(x) == After(StateOf(diffs, event_state[x]), x)

(* state_at_incoming_degree_one and state_at_incoming_resolved: the states *)
(* after the prev_events.  They are collected in a map whose key is the    *)
(* state before, so that one of the prev_events with the same state before *)
(* is kept.                                                                *)
ForkStates(e) ==
  {{StateAfter(x) : x \in K} :
     K \in {K \in SUBSET prev[e] :
              /\ {event_state[x] : x \in K} = {event_state[x] : x \in prev[e]}
              /\ \A x, y \in K : x # y => event_state[x] # event_state[y]}}

PrevStatesKnown(e) ==
  \A x \in prev[e] : x \in timeline \cup outliers /\ event_state[x] # NoHash

(* Step 11 of the checks, against the state before the event, and the      *)
(* soft-fail check against the state of the room at this moment.           *)
AuthCheck(e, at) ==
  task' = IF Allowed(e, at)
          THEN [task EXCEPT !["fed"] = Start(e, at, ~ Allowed(e, RoomState))] ELSE task

(* fetch_state: the origin answers with the state before the event, and    *)
(* its events become outliers.                                             *)
FetchState(e) ==
  /\ AuthCheck(e, RemoteState[e])
  /\ HandleOutliers(StateEvents(RemoteState[e]) \ timeline)

(* upgrade_outlier_to_timeline_pdu up to the lock, for the first event of  *)
(* todo: the state before it and the checks.                               *)
Upgrade ==
  /\ task["fed"] = Idle /\ todo # << >>
  /\ ~ Settled(Head(todo))
  /\ LET e == Head(todo)
     IN  \/ /\ PrevStatesKnown(e)
            /\ \E fork \in ForkStates(e) :
                 AuthCheck(e, Resolve(fork))
            /\ UNCHANGED outliers
         \/ /\ ~ PrevStatesKnown(e)
            /\ FetchState(e)
  /\ todo' = Tail(todo)
  /\ UNCHANGED <<timeline, leaves, referenced, soft_failed, prev, event_state, hashes, diffs,
                 room_state, member, counted, sent, state_mutex, crashes>>

(* The event is settled already, or fetch_state failed, or handle_prev_pdu *)
(* leaves an ancestor alone: it failed lately, or is older than the room.  *)
SkipEvent ==
  /\ task["fed"] = Idle /\ todo # << >>
  /\ Settled(Head(todo)) \/ ~ PrevStatesKnown(Head(todo)) \/ Len(todo) > 1
  /\ todo' = Tail(todo)
  /\ UNCHANGED <<db, task, state_mutex, crashes>>

(* Mutation of MutexFree: the state mutex excludes nobody.                 *)
MutexNone == TRUE

MutexFree == state_mutex = "free"

(* Mutation of Extremities: the extremities of the other branches are gone. *)
ExtremitiesOne(e) == {e}

(* The extremities after the event.                                        *)
Extremities(e) == ((leaves \ prev[e]) \ referenced) \cup {e}

(* ask_policy_server: it may have an event that is not a state event       *)
(* soft-failed.  (So may the redaction of a soft-failed event.)            *)
SoftVerdicts(e, soft) == IF IsState(e) THEN {soft} ELSE {soft, TRUE}

(* The state mutex is taken, the extremities are computed.                 *)
Lock ==
  /\ At("fed", "lock")
  /\ MutexFree
  /\ state_mutex' = "fed"
  /\ \E soft \in SoftVerdicts(task["fed"].ev, task["fed"].soft) :
       Continue("fed", [task["fed"] EXCEPT !.soft = soft, !.leaves = Extremities(task["fed"].ev)])
  /\ UNCHANGED <<db, todo, crashes>>

(* resolve_state and the first half of save_state: the hash of the new     *)
(* state gets a short id.  Also the first half of set_event_state.         *)
Hash(step, state) ==
  /\ At("fed", step)
  /\ hashes' = hashes \cup {ByContent(state)}
  /\ Continue("fed", [task["fed"] EXCEPT !.hash = ByContent(state),
                                         !.existed = ByContent(state) \in hashes])
  /\ UNCHANGED <<timeline, outliers, leaves, referenced, soft_failed, prev, event_state, diffs,
                 room_state, member, counted, sent, todo, state_mutex, crashes>>

ForkHash == Hash("fork_hash", Resolve({RoomState, After(task["fed"].at, task["fed"].ev)}))
AtHash == Hash("at_hash", task["fed"].at)

(* The second half: the difference is stored unless the hash was known.    *)
Diff(step, diff_to_sibling) ==
  /\ At("fed", step)
  /\ LET t == task["fed"]
     IN  diffs' = IF t.existed THEN diffs
                  ELSE SaveState(diffs, t.hash, t.hash[2], room_state, diff_to_sibling)
  /\ Advance("fed")
  /\ UNCHANGED <<timeline, outliers, leaves, referenced, soft_failed, prev, event_state, hashes,
                 room_state, member, counted, sent, todo, state_mutex, crashes>>

ForkDiff == Diff("fork_diff", 2)
AtDiff == Diff("at_diff", 1000000)

(* force_state: the membership events that the new state adds.             *)
Members ==
  /\ At("fed", "members")
  /\ LET t == task["fed"]
         added == IF t.hash = room_state THEN {} ELSE DiffAdded(RoomState, t.hash[2])
         changed == {x \in StateEvents(added) \cap (timeline \cup outliers) :
                       KeyOf[x] \in Users /\ Membership[x] # "knock"}
     IN  member' = [u \in Users |->
                      IF \E x \in changed : KeyOf[x] = u
                      THEN Membership[CHOOSE x \in changed : KeyOf[x] = u] ELSE member[u]]
  /\ counted' = Joined(member')
  /\ Advance("fed")
  /\ UNCHANGED <<timeline, outliers, leaves, referenced, soft_failed, prev, event_state, hashes,
                 diffs, room_state, sent, todo, state_mutex, crashes>>

(* set_room_state, at the end of force_state and of build_and_append_pdu.  *)
SetRoomState(p, step) ==
  /\ At(p, step)
  /\ room_state' = task[p].hash
  /\ Advance(p)
  /\ UNCHANGED <<timeline, outliers, leaves, referenced, soft_failed, prev, event_state, hashes,
                 diffs, member, counted, sent, todo, state_mutex, crashes>>

(* The end of set_event_state.                                             *)
SetEventState ==
  /\ At("fed", "event_state")
  /\ event_state' = [event_state EXCEPT ![task["fed"].ev] = task["fed"].hash]
  /\ Advance("fed")
  /\ UNCHANGED <<timeline, outliers, leaves, referenced, soft_failed, prev, hashes, diffs,
                 room_state, member, counted, sent, todo, state_mutex, crashes>>

(* mark_event_soft_failed.                                                 *)
MarkSoftFailed ==
  /\ At("fed", "soft_mark")
  /\ soft_failed' = soft_failed \cup {task["fed"].ev}
  /\ Advance("fed")
  /\ UNCHANGED <<timeline, outliers, leaves, referenced, prev, event_state, hashes, diffs,
                 room_state, member, counted, sent, todo, state_mutex, crashes>>

----------------------------------------------------------------------------
(* append_pdu, for both tasks.                                             *)

(* mark_as_referenced.                                                     *)
MarkReferenced(p) ==
  /\ At(p, "referenced")
  /\ referenced' = referenced \cup prev[task[p].ev]
  /\ Advance(p)
  /\ UNCHANGED <<timeline, outliers, leaves, soft_failed, prev, event_state, hashes, diffs,
                 room_state, member, counted, sent, todo, state_mutex, crashes>>

(* set_forward_extremities: the old ones are deleted, the new ones put.    *)
SetLeaves(p, step, new) ==
  /\ At(p, step)
  /\ leaves' = new
  /\ Advance(p)
  /\ UNCHANGED <<timeline, outliers, referenced, soft_failed, prev, event_state, hashes, diffs,
                 room_state, member, counted, sent, todo, state_mutex, crashes>>

(* The event is inserted in the timeline and is no outlier any more.       *)
Insert(p) ==
  /\ At(p, "insert")
  /\ timeline' = timeline \cup {task[p].ev}
  /\ outliers' = outliers \ {task[p].ev}
  /\ Advance(p)
  /\ UNCHANGED <<leaves, referenced, soft_failed, prev, event_state, hashes, diffs, room_state,
                 member, counted, sent, todo, state_mutex, crashes>>

(* update_membership for a membership event.                               *)
UpdateMembership(p) ==
  /\ At(p, "membership")
  /\ member' = MemberAfter(task[p].ev)
  /\ counted' = IF KeyOf[task[p].ev] \in Users THEN Joined(member') ELSE counted
  /\ Advance(p)
  /\ UNCHANGED <<timeline, outliers, leaves, referenced, soft_failed, prev, event_state, hashes,
                 diffs, room_state, sent, todo, state_mutex, crashes>>

----------------------------------------------------------------------------
(* Local events.                                                           *)

(* create_hash_and_sign_event, under the state mutex: the prev_events are  *)
(* extremities, MaxPrev of them at most, and the event passes the auth     *)
(* rules against the state of the room.                                    *)
Create(e) ==
  /\ task["loc"] = Idle
  /\ e \in Local \ timeline
  /\ prev[e] = {}
  /\ MutexFree
  /\ Allowed(e, RoomState)
  /\ \E P \in SUBSET leaves :
       /\ Cardinality(P) = IF Cardinality(leaves) < MaxPrev THEN Cardinality(leaves) ELSE MaxPrev
       /\ prev' = [prev EXCEPT ![e] = P]
  /\ state_mutex' = "loc"
  /\ task' = [task EXCEPT !["loc"] = [Start(e, RoomState, FALSE) EXCEPT !.leaves = {e}, !.hash = room_state]]
  /\ UNCHANGED <<timeline, outliers, leaves, referenced, soft_failed, event_state, hashes, diffs,
                 room_state, member, counted, sent, todo, crashes>>

(* append_to_state: the state before the event is the state of the room.   *)
LocalEventState ==
  /\ At("loc", "local_event_state")
  /\ event_state' = [event_state EXCEPT ![task["loc"].ev] = room_state]
  /\ Advance("loc")
  /\ UNCHANGED <<timeline, outliers, leaves, referenced, soft_failed, prev, hashes, diffs,
                 room_state, member, counted, sent, todo, state_mutex, crashes>>

(* append_to_state: the state after it gets a short id of its own.         *)
LocalDiff ==
  /\ At("loc", "local_diff")
  /\ LET e == task["loc"].ev
         before == RoomState
     IN  /\ diffs' = SaveDiff(diffs, ByCount(e), {<<KeyOf[e], e>>},
                              {p \in before : p[1] = KeyOf[e]}, 2, Load(diffs, room_state))
         /\ Continue("loc", [task["loc"] EXCEPT !.hash = ByCount(e)])
  /\ UNCHANGED <<timeline, outliers, leaves, referenced, soft_failed, prev, event_state, hashes,
                 room_state, member, counted, sent, todo, state_mutex, crashes>>

(* send_pdu_servers.                                                       *)
Send ==
  /\ At("loc", "send")
  /\ sent' = sent \cup {task["loc"].ev}
  /\ Advance("loc")
  /\ UNCHANGED <<timeline, outliers, leaves, referenced, soft_failed, prev, event_state, hashes,
                 diffs, room_state, member, counted, todo, state_mutex, crashes>>

----------------------------------------------------------------------------
(* The guard of the state mutex is dropped.                                *)
Unlock(p) ==
  /\ At(p, "unlock")
  /\ state_mutex' = "free"
  /\ Stop(p)
  /\ UNCHANGED <<db, todo, crashes>>

(* The process dies: the database keeps what was written.                  *)
Crash ==
  /\ crashes < MaxCrashes
  /\ task # [p \in {"fed", "loc"} |-> Idle] \/ todo # << >>
  /\ crashes' = crashes + 1
  /\ task' = [p \in {"fed", "loc"} |-> Idle]
  /\ todo' = << >>
  /\ state_mutex' = "free"
  /\ UNCHANGED db

AppendStep(p) ==
  \/ MarkReferenced(p)
  \/ SetLeaves(p, "clear", {})
  \/ SetLeaves(p, "leaves", task[p].leaves)
  \/ Insert(p)
  \/ UpdateMembership(p)
  \/ Unlock(p)

Next ==
  \/ \E e \in Remote : Receive(e)
  \/ Upgrade \/ SkipEvent \/ Lock
  \/ ForkHash \/ ForkDiff \/ Members \/ SetRoomState("fed", "fork_state")
  \/ AtHash \/ AtDiff \/ SetEventState \/ MarkSoftFailed
  \/ \E e \in Local : Create(e)
  \/ LocalEventState \/ LocalDiff \/ SetRoomState("loc", "set_room_state") \/ Send
  \/ \E p \in {"fed", "loc"} : AppendStep(p)
  \/ Crash

Spec == Init /\ [][Next]_vars

----------------------------------------------------------------------------
(* Properties.                                                             *)

Quiet == state_mutex = "free" /\ crashes = 0

RECURSIVE Ancestors(_)
Ancestors(E) == LET P == E \cup UNION {prev[e] : e \in E} IN IF P = E THEN E ELSE Ancestors(P)

(* An event of the state of the room is always stored: build_and_append_pdu *)
(* sets the state of the room only after append_pdu, and an incoming event  *)
(* is an outlier before its state is resolved.  Even a crash between two    *)
(* writes leaves no state that refers to an unknown event.                  *)
StateEventsExist == StateEvents(RoomState) \subseteq timeline \cup outliers

(* A soft-failed event never enters the timeline, however often it is      *)
(* received again and whatever state the room is in by then.               *)
SoftFailedOut == soft_failed \cap timeline = {}

(* No branch of the timeline is forgotten: an event is an ancestor of an   *)
(* extremity, so that the next local event joins it, or one of a           *)
(* soft-failed event, which marks its prev_events as referenced.           *)
BranchKept == Quiet => timeline \subseteq Ancestors(leaves \cup soft_failed)

(* The differences that were merged or stacked give back the states they   *)
(* were saved for.                                                         *)
StatesLoad ==
  crashes = 0 => \A h \in DOMAIN diffs : h[1] = "content" => StateOf(diffs, h) = h[2]

(* The membership cache, from which the joined members, the servers to     *)
(* send to and this server's own presence are read, agrees with the state  *)
(* of the room whenever nobody holds the state mutex.                      *)
MembershipAgrees ==
  Quiet => \A u \in Users :
             member[u] = "join" <=> \E e \in Events : <<u, e>> \in RoomState /\ Membership[e] = "join"

(* Every local event of the timeline was handed to the sending service.    *)
LocalEventsSent == Quiet => timeline \cap Local \subseteq sent
=============================================================================
