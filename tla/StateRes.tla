------------------------------ MODULE StateRes ------------------------------
(***************************************************************************)
(* State resolution (state_res::resolve, versions 2 and 2.1): two branches *)
(* of a room grow apart, each accepting the events its own state           *)
(* authorises, and are merged.                                             *)
(*                                                                         *)
(* The algorithm is a function of the state sets and of the events, so it  *)
(* is a set of operators over the stored events pdus; the steps are those  *)
(* of the room.  An event id is a number: the order in which events are    *)
(* stored, which is also how ids compare.                                  *)
(***************************************************************************)
EXTENDS EventAuth, SequencesExt

CONSTANTS
  Versions,    \* room versions
  Branches,    \* the servers, between which nothing is delivered
  Menu,        \* the events users try to send, without auth and prev
  Times,       \* values of origin_server_ts
  MaxEvents,   \* bound: events sent after the fork
  Setup(_)     \* the events of the room before the fork

VARIABLES
  version,   \* the number of the room version
  pdus,      \* all events, by id
  state,     \* the room state of every branch: <<type, key>> to id
  leaf,      \* the forward extremity of every branch
  merged     \* the resolved state, or None

vars == <<version, pdus, state, leaf, merged>>

v == RoomVersion(version)
Create == 1

----------------------------------------------------------------------------
(* Events and their auth chains.                                           *)

KeyOf(e) == <<e.type, e.key>>
Events(st) == [k \in DOMAIN st |-> pdus[st[k]]]

(* get_auth_events: the ids of the state that authorises the event.        *)
AuthEvents(e, st) == {st[k] : k \in AuthTypes(v, e) \cap DOMAIN st}

(* create_event: the event on top of the branch.                           *)
NewEvent(t, st, prev, id, ts) ==
  t @@ [id |-> id, ts |-> ts, prev |-> prev, auth |-> AuthEvents(t, st)]

(* get_auth_chain: everything the events are authorised by, recursively.   *)
RECURSIVE AuthChain(_)
AuthChain(ids) ==
  LET next == UNION {pdus[i].auth : i \in ids} IN
  IF next = {} THEN {} ELSE next \cup AuthChain(next)

(* event_ids_iter for each of the states, then get_auth_chain_diff: the    *)
(* events in some chains and not in all.                                   *)
ChainsOf(sets) == {AuthChain(Range(st)) : st \in sets}
AuthChainDiff(sets) ==
  {i \in UNION ChainsOf(sets) : \E chain \in ChainsOf(sets) : i \notin chain}

(* separate: what all state sets agree on, and the rest.                   *)
Unconflicted(sets) ==
  LET agreed == {k \in UNION {DOMAIN st : st \in sets} :
                   \A st1, st2 \in sets : k \in DOMAIN st1 /\ k \in DOMAIN st2
                                          /\ st1[k] = st2[k]} IN
  [k \in agreed |-> (CHOOSE st \in sets : TRUE)[k]]

Conflicting(sets) ==
  UNION {Range(st) : st \in sets} \ Range(Unconflicted(sets))

(* calculate_conflicted_subgraph: what the depth first search collects,    *)
(* the events on a path of auth events between two conflicting events.     *)
ConflictedSubgraph(conf) ==
  LET From(i) == {i} \cup AuthChain({i}) IN
  {x \in UNION {From(i) : i \in conf} :
     \E a, b \in conf : a # b /\ x \in From(a) /\ b \in From(x)}

(* Mutation of AllConflicted: the difference of the auth chains is left    *)
(* out.                                                                    *)
AllConflictedNoDiff(sets) == Conflicting(sets)

AllConflicted(sets) ==
  AuthChainDiff(sets) \cup Conflicting(sets)
  \cup (IF version >= 12 THEN ConflictedSubgraph(Conflicting(sets)) ELSE {})

----------------------------------------------------------------------------
(* The order of the power events.                                          *)

IsPowerEvent(e) ==
  \/ e.type \in {"power", "rules", "create"} /\ e.key = ""
  \/ e.type = "member" /\ e.membership \in {"leave", "ban"} /\ e.sender # e.key

(* The power levels an event cites, if any.                                *)
PowerEvents(i) == {a \in pdus[i].auth : KeyOf(pdus[a]) = PowerKey}

(* get_power_level_for_sender: at the time the event was sent.             *)
PowerForSender(i) ==
  IF PowerEvents(i) = {} THEN 0
  ELSE UserPower(pdus[CHOOSE a \in PowerEvents(i) : TRUE].levels, pdus[i].sender)

(* add_event_and_auth_chain_to_graph: the power events and what they are   *)
(* authorised by, within the conflicted events.                            *)
RECURSIVE PowerGraph(_, _)
PowerGraph(ids, all) ==
  LET next == (UNION {pdus[i].auth : i \in ids} \cap all) \ ids IN
  IF next = {} THEN ids ELSE PowerGraph(ids \cup next, all)

(* TieBreaker.                                                             *)
PowerPrecedes(x, y) ==
  \/ PowerForSender(x) > PowerForSender(y)
  \/ /\ PowerForSender(x) = PowerForSender(y)
     /\ pdus[x].ts < pdus[y].ts \/ (pdus[x].ts = pdus[y].ts /\ x < y)

(* Mutation of PowerSort: the power of the sender is not looked at, only   *)
(* the order of the ids.                                                   *)
PowerSortIds(ids, all) == SetToSortSeq(PowerGraph(ids, all), <)

(* lexicographical_topological_sort, whose loop is module TopoSort.        *)
RECURSIVE SortFrom(_, _)
SortFrom(left, all) ==
  LET ready == {i \in left : pdus[i].auth \cap left = {}}
      first == CHOOSE i \in ready : \A j \in ready \ {i} : PowerPrecedes(i, j) IN
  IF left = {} THEN << >> ELSE <<first>> \o SortFrom(left \ {first}, all)

PowerSort(ids, all) == SortFrom(PowerGraph(ids, all), all)

----------------------------------------------------------------------------
(* The order of the other events.                                          *)

(* mainline_sort: the resolved power levels and those they were sent       *)
(* under, the oldest first.                                                *)
RECURSIVE Mainline(_)
Mainline(p) ==
  IF PowerEvents(p) = {} THEN <<p>>
  ELSE Append(Mainline(CHOOSE a \in PowerEvents(p) : TRUE), p)

(* get_mainline_depth: the place of the closest power levels, 0 if none.   *)
RECURSIVE MainlineDepth(_, _)
MainlineDepth(i, mainline) ==
  IF i \in Range(mainline) THEN (CHOOSE d \in 1 .. Len(mainline) : mainline[d] = i) - 1
  ELSE IF PowerEvents(i) = {} THEN 0
  ELSE MainlineDepth(CHOOSE a \in PowerEvents(i) : TRUE, mainline)

MainlineSort(ids, mainline) ==
  LET depth == [i \in ids |-> MainlineDepth(i, mainline)] IN
  SetToSortSeq(ids, LAMBDA x, y :
    \/ depth[x] < depth[y]
    \/ /\ depth[x] = depth[y]
       /\ pdus[x].ts < pdus[y].ts \/ (pdus[x].ts = pdus[y].ts /\ x < y))

----------------------------------------------------------------------------
(* iterative_auth_check: each event is checked against the events it cites *)
(* overridden by what has been resolved so far.                            *)
AuthState(e, st) ==
  LET cited == e.auth \cup (IF v.hashes THEN {Create} ELSE {})
      byKey == [k \in {KeyOf(pdus[a]) : a \in cited} |->
                  pdus[CHOOSE a \in cited : KeyOf(pdus[a]) = k]] IN
  [k \in AuthTypes(v, e) \cap DOMAIN st |-> pdus[st[k]]] @@ byKey

ThirdPartyInvite(st) ==
  LET tpis == {k \in DOMAIN st : k[1] = "tpi"} IN
  IF tpis = {} THEN None ELSE st[CHOOSE k \in tpis : TRUE]

Apply(st, i) ==
  LET e == pdus[i]
      auth == AuthState(e, st) IN
  IF AuthCheck(v, e, ThirdPartyInvite(auth), auth, auth[CreateKey])
  THEN (KeyOf(e) :> i) @@ st ELSE st

IterativeAuthCheck(ids, st) == FoldLeft(Apply, st, ids)

----------------------------------------------------------------------------
Resolve(sets) ==
  LET unconflicted == Unconflicted(sets)
      all == AllConflicted(sets)
      control == PowerSort({i \in all : IsPowerEvent(pdus[i])}, all)
      start == IF version >= 12 THEN << >> ELSE unconflicted
      resolved == IterativeAuthCheck(control, start)
      rest == all \ Range(control)
      mainline == IF PowerKey \in DOMAIN resolved THEN Mainline(resolved[PowerKey])
                  ELSE << >> IN
  IF Conflicting(sets) = {} THEN unconflicted
  ELSE unconflicted @@ IterativeAuthCheck(MainlineSort(rest, mainline), resolved)

----------------------------------------------------------------------------
Init ==
  /\ version \in Versions
  /\ pdus = Setup(version)
  /\ state = [b \in Branches |->
       [k \in {KeyOf(e) : e \in Range(pdus)} |->
          CHOOSE i \in DOMAIN pdus : /\ KeyOf(pdus[i]) = k
                                     /\ \A j \in DOMAIN pdus : KeyOf(pdus[j]) = k => j <= i]]
  /\ leaf = [b \in Branches |-> Len(pdus)]
  /\ merged = None

(* A user sends an event on a branch, whose state must authorise it.       *)
Send(b, t, ts) ==
  LET id == Len(pdus) + 1
      e == NewEvent(t, state[b], {leaf[b]}, id, ts)
      auth == [k \in AuthTypes(v, e) \cap DOMAIN state[b] |-> pdus[state[b][k]]] IN
  /\ merged = None
  /\ id - Len(Setup(version)) <= MaxEvents
  /\ AuthCheck(v, e, None, auth, pdus[Create])
  /\ pdus' = Append(pdus, e)
  /\ state' = [state EXCEPT ![b] = (KeyOf(e) :> id) @@ @]
  /\ leaf' = [leaf EXCEPT ![b] = id]
  /\ UNCHANGED <<version, merged>>

(* resolve_state, state_at_incoming_resolved: the branches meet.           *)
Merge ==
  /\ merged = None
  /\ merged' = Resolve(Range(state))
  /\ UNCHANGED <<version, pdus, state, leaf>>

Next ==
  \/ \E b \in Branches, t \in Menu, ts \in Times : Send(b, t, ts)
  \/ Merge

Spec == Init /\ [][Next]_vars
----------------------------------------------------------------------------
(* Properties.                                                             *)

Fork == Len(Setup(version))
InMerged(k) == merged # None /\ k \in DOMAIN merged

RECURSIVE Past(_)
Past(i) == {i} \cup UNION {Past(j) : j \in pdus[i].prev}

(* A ban in the merged state rests on nothing but the state at the fork    *)
(* and on what its sender did since.                                       *)
BansAlone(ban) ==
  \A a \in AuthChain({ban}) : a > Fork => pdus[a].sender = pdus[ban].sender

Banned(u) == InMerged(Member(u)) /\ pdus[merged[Member(u)]].membership = "ban"

NothingSince(u) ==
  LET ban == merged[Member(u)] IN
  BansAlone(ban) =>
    \A k \in DOMAIN merged : pdus[merged[k]].sender = u => merged[k] \in Past(ban)

(* A ban beats what the banned user does meanwhile on another server: when *)
(* the merged state has the user banned, no event the user sent concurrent *)
(* with the ban is part of it.                                             *)
BanWins == version < 12 => \A u \in Users : Banned(u) => NothingSince(u)

(* The same for room version 12, where the creators have an infinite power *)
(* level without being named in the power levels.                          *)
CreatorBanWins == version >= 12 => \A u \in Users : Banned(u) => NothingSince(u)

(* Nobody rises above the highest level of the room: neither a sequence of *)
(* accepted power levels on a branch nor a merge of two of them gives a    *)
(* user a level that nobody had at the fork.                               *)
Highest(st, u) ==
  \E w \in Users :
    UserPower(pdus[st[PowerKey]].levels, u)
      <= UserPower(pdus[CHOOSE i \in 1 .. Fork : KeyOf(pdus[i]) = PowerKey].levels, w)

NoEscalation ==
  version < 12 => \A u \in Users :
    /\ \A b \in Branches : Highest(state[b], u)
    /\ InMerged(PowerKey) => Highest(merged, u)

(* Resolving with a state the room has left behind does not reset the      *)
(* power levels: they stay those of the branch that moved on.              *)
PowerKept ==
  \A b, c \in Branches :
    merged # None /\ leaf[b] = Fork /\ b # c => merged[PowerKey] = state[c][PowerKey]
=============================================================================
