------------------------- MODULE TransactionsProofs -------------------------
(***************************************************************************)
(* The inbound transactions implement TransactionRegistry, for any number  *)
(* of origins, transactions, requests and tasks.  The invariant ties the   *)
(* map of transactions to the tasks: an active entry has a task at work on *)
(* its key and every task at work has its entry, a cached entry has a task *)
(* whose response is in its channel, and no two active entries have one    *)
(* origin.                                                                 *)
(***************************************************************************)
EXTENDS Transactions, FiniteSetTheorems, TLAPS

AtWork == {"handling", "checking", "finishing"}

(* The map and the tasks.                                                  *)
ActiveLinked ==
  \A k \in Keys : state[k].kind = "active" =>
    /\ state[k].task \in Tasks
    /\ tasks[state[k].task].key = k
    /\ tasks[state[k].task].stage \in AtWork
TaskLinked ==
  \A t \in Tasks : tasks[t].stage \in AtWork =>
    /\ tasks[t].key \in Keys
    /\ state[tasks[t].key].kind = "active"
    /\ state[tasks[t].key].task = t
CachedLinked ==
  \A k \in Keys : state[k].kind = "cached" =>
    /\ state[k].task \in Tasks
    /\ tasks[state[k].task].key = k
    /\ chan[state[k].task] = "ok"

(* A task has put its answer into the channel if and only if it has ended. *)
Channels ==
  \A t \in Tasks :
    /\ chan[t] = "ok" => tasks[t].key \in Keys
    /\ tasks[t].stage = "ended" <=> chan[t] # "empty"

(* A request waits for a task that works, or worked, on its key.           *)
Waiting ==
  \A r \in Requests : req[r].stage = "waiting" =>
    /\ req[r].key \in Keys
    /\ req[r].task \in Tasks
    /\ tasks[req[r].task].key = req[r].key
    /\ tasks[req[r].task].stage # "unused"

Origins ==
  \A j, k \in Keys :
    state[j].kind = "active" /\ state[k].kind = "active" /\ j.origin = k.origin => j = k

IInv ==
  /\ TypeOK
  /\ ActiveLinked
  /\ TaskLinked
  /\ CachedLinked
  /\ Channels
  /\ Waiting
  /\ Origins
  /\ RightResponse

-----------------------------------------------------------------------------
(* The invariant holds at first, and every step keeps it.                  *)

LEMMA InitInv == Init => IInv
  BY TransactionsAssumption, SMTT(30)
     DEF Init, IInv, TypeOK, ActiveLinked, TaskLinked, CachedLinked, Channels, Waiting, Origins,
         RightResponse, Entries, TaskStates, Stages, AtWork, None, Idle, NoReply

(* Steps of the requests, of the clock and of the shutdown.                *)
LEMMA QuietStep ==
  ASSUME IInv, TypeOK', UNCHANGED <<state, tasks, chan>>, Waiting', RightResponse'
  PROVE  IInv'
  BY DEF IInv, ActiveLinked, TaskLinked, CachedLinked, Channels, Origins

LEMMA RepeatInv ==
  ASSUME IInv, NEW r \in Requests, NEW k \in Keys, Repeat(r, k)
  PROVE  IInv'
<1> UNCHANGED <<state, tasks, chan, last_cleanup, clock, running>>
  BY Zenon DEF Repeat
<1> USE DEF IInv
<1>1. CASE state[k].kind = "cached" /\ Answer(r, k, state[k].task, "response")
  <2>1. state[k].task \in Tasks /\ tasks[state[k].task].key = k /\ chan[state[k].task] = "ok"
    BY Zenon, <1>1 DEF CachedLinked
  <2>2. TypeOK'
    BY Zenon, <1>1, <2>1 DEF TypeOK, Answer, Idle
  <2>3. Waiting'
    BY Zenon, <1>1 DEF TypeOK, Waiting, Answer, Idle
  <2>4. RightResponse'
    BY Zenon, <1>1, <2>1 DEF RightResponse, Answer
  <2> QED BY Zenon, <2>2, <2>3, <2>4, QuietStep
<1>2. CASE state[k].kind = "active" /\ Wait(r, k, state[k].task)
  <2>1. /\ state[k].task \in Tasks /\ tasks[state[k].task].key = k
        /\ tasks[state[k].task].stage # "unused"
    BY Zenon, <1>2 DEF ActiveLinked, AtWork
  <2>2. TypeOK'
    BY Zenon, <1>2, <2>1 DEF TypeOK, Wait, NoReply
  <2>3. Waiting'
    BY Zenon, <1>2, <2>1 DEF TypeOK, Waiting, Wait
  <2>4. RightResponse'
    BY Zenon, <1>2 DEF RightResponse, Wait, NoReply
  <2> QED BY Zenon, <2>2, <2>3, <2>4, QuietStep
<1> QED BY Zenon, <1>1, <1>2 DEF Repeat

LEMMA RefuseInv ==
  ASSUME IInv, NEW r \in Requests, NEW k \in Keys, Refuse(r, k)
  PROVE  IInv'
<1> USE DEF IInv, Refuse, Answer
<1>1. TypeOK'
  BY Zenon DEF TypeOK, Idle
<1>2. Waiting'
  BY Zenon DEF TypeOK, Waiting, Idle
<1>3. RightResponse'
  BY Zenon DEF RightResponse
<1> QED BY Zenon, <1>1, <1>2, <1>3, QuietStep

LEMMA WakeInv ==
  ASSUME IInv, NEW r \in Requests, Wake(r)
  PROVE  IInv'
<1> USE DEF IInv, Wake, Answer
<1>1. /\ req[r].task \in Tasks
      /\ tasks[req[r].task].key = req[r].key
      /\ chan[req[r].task] \in {"ok", "err"}
  BY Zenon DEF TypeOK, Waiting, Channels
<1>2. TypeOK'
  BY <1>1 DEF TypeOK, Idle, Result, Waiting
<1>3. Waiting'
  BY Zenon DEF TypeOK, Waiting, Idle
<1>4. RightResponse'
  BY <1>1 DEF RightResponse, Result
<1> QED BY Zenon, <1>2, <1>3, <1>4, QuietStep

LEMMA TimeoutInv ==
  ASSUME IInv, NEW r \in Requests, Timeout(r)
  PROVE  IInv'
<1> USE DEF IInv, Timeout, Answer
<1>1. TypeOK'
  BY Zenon DEF TypeOK, Idle, Waiting
<1>2. Waiting'
  BY Zenon DEF TypeOK, Waiting, Idle
<1>3. RightResponse'
  BY Zenon DEF RightResponse
<1> QED BY Zenon, <1>1, <1>2, <1>3, QuietStep

LEMMA TickInv == IInv /\ Tick => IInv'
<1> SUFFICES ASSUME IInv, Tick PROVE IInv'
  BY Zenon
<1> USE DEF IInv, Tick, Silent
<1>1. clock' \in 0 .. MaxClock
  BY TransactionsAssumption DEF TypeOK
<1>2. TypeOK'
  BY Zenon, <1>1 DEF TypeOK, NoReply
<1>3. Waiting'
  BY Zenon DEF Waiting
<1>4. RightResponse'
  BY Zenon DEF RightResponse, NoReply
<1> QED BY Zenon, <1>2, <1>3, <1>4, QuietStep

LEMMA ShutdownInv == IInv /\ Shutdown => IInv'
<1> SUFFICES ASSUME IInv, Shutdown PROVE IInv'
  BY Zenon
<1> USE DEF IInv, Shutdown, Silent
<1>1. TypeOK'
  BY Zenon DEF TypeOK, NoReply
<1>2. Waiting'
  BY Zenon DEF Waiting
<1>3. RightResponse'
  BY Zenon DEF RightResponse, NoReply
<1> QED BY Zenon, <1>1, <1>2, <1>3, QuietStep

(* The first request for a transaction.                                    *)
LEMMA StartInv ==
  ASSUME IInv, NEW r \in Requests, NEW k \in Keys, Start(r, k)
  PROVE  IInv'
<1> DEFINE t == CHOOSE u \in Tasks : tasks[u].stage = "unused"
<1>0. t \in Tasks /\ tasks[t].stage = "unused"
  <2>1. \E u \in Tasks : tasks[u].stage = "unused"
    BY Zenon DEF Start
  <2> QED BY <2>1, Zenon
<1>1. /\ state[k].kind = "none"
      /\ ~ OriginBusy(k)
      /\ tasks' = [tasks EXCEPT ![t].stage = "handling", ![t].key = k]
      /\ state' = [state EXCEPT ![k] = Active(t)]
      /\ req' = [req EXCEPT ![r] = [stage |-> "waiting", key |-> k, task |-> t]]
      /\ reply' = NoReply
      /\ UNCHANGED <<chan, last_cleanup, clock, running>>
  BY Zenon DEF Start, Wait
<1> HIDE DEF t
<1> USE DEF IInv
<1>2. chan[t] = "empty"
  BY Zenon, <1>0, <1>1 DEF Channels, TypeOK
<1>3. TypeOK'
  <2>1. state' \in [Keys -> Entries]
    BY <1>0, <1>1, TransactionsAssumption DEF TypeOK, Active, Entries
  <2>2. tasks' \in [Tasks -> TaskStates]
    <3>1. tasks[t] \in TaskStates
      BY Zenon, <1>0 DEF TypeOK
    <3>2. [tasks[t] EXCEPT !.stage = "handling", !.key = k] \in TaskStates
      BY Zenon, <3>1 DEF TaskStates, Stages
    <3> QED BY Zenon, <1>0, <1>1, <3>2 DEF TypeOK
  <2>3. req' \in [Requests -> [stage : {"idle", "waiting"}, key : Keys \cup {NoKey},
                              task : Tasks \cup {NoTask}]]
    BY Zenon, <1>0, <1>1 DEF TypeOK
  <2> QED BY Zenon, <1>1, <2>1, <2>2, <2>3 DEF TypeOK, NoReply
<1>4. ActiveLinked'
  BY <1>0, <1>1 DEF TypeOK, ActiveLinked, Active, AtWork
<1>5. TaskLinked'
  BY <1>0, <1>1 DEF TypeOK, TaskLinked, Active, AtWork
<1>6. CachedLinked'
  BY Zenon, <1>0, <1>1, <1>2 DEF TypeOK, CachedLinked, Active
<1>7. Channels'
  BY <1>0, <1>1, <1>2 DEF TypeOK, Channels
<1>8. Waiting'
  BY <1>0, <1>1 DEF TypeOK, Waiting
<1>9. Origins'
  BY <1>0, <1>1 DEF TypeOK, Origins, OriginBusy, ActiveKeys, Active
<1>10. RightResponse'
  BY Zenon, <1>0, <1>1 DEF RightResponse, NoReply
<1> QED BY Zenon, <1>3, <1>4, <1>5, <1>6, <1>7, <1>8, <1>9, <1>10

(* The steps of a task that is at work and stays at work.                  *)
LEMMA WorkInv ==
  ASSUME IInv, NEW t \in Tasks, NEW x \in TaskStates,
         tasks[t].stage \in AtWork, x.stage \in AtWork, x.key = tasks[t].key,
         tasks' = [tasks EXCEPT ![t] = x],
         last_cleanup' \in 0 .. MaxClock,
         UNCHANGED <<state, chan, req, clock, running>>,
         reply' = NoReply
  PROVE  IInv'
<1> USE DEF IInv
<1>1. TypeOK'
  BY Zenon DEF TypeOK, NoReply
<1>2. ActiveLinked'
  BY Zenon DEF TypeOK, ActiveLinked
<1>3. TaskLinked'
  BY Zenon DEF TypeOK, TaskLinked
<1>4. CachedLinked'
  BY DEF TypeOK, CachedLinked
<1>5. Channels'
  BY Zenon DEF TypeOK, Channels, AtWork
<1>6. Waiting'
  BY DEF TypeOK, Waiting, AtWork
<1>7. Origins'
  BY Zenon DEF Origins
<1>8. RightResponse'
  BY Zenon DEF RightResponse, NoReply
<1> QED BY Zenon, <1>1, <1>2, <1>3, <1>4, <1>5, <1>6, <1>7, <1>8

LEMMA HandleOkInv ==
  ASSUME IInv, NEW t \in Tasks, HandleOk(t)
  PROVE  IInv'
<1> DEFINE x == [tasks[t] EXCEPT
                   !.stage = IF clock - last_cleanup >= CleanupInterval THEN "checking"
                             ELSE "finishing",
                   !.now = clock, !.last = last_cleanup]
<1>1. tasks[t] \in TaskStates /\ clock \in 0 .. MaxClock /\ last_cleanup \in 0 .. MaxClock
  BY Zenon DEF IInv, TypeOK
<1>2. x \in TaskStates /\ x.stage \in AtWork /\ x.key = tasks[t].key
  BY Zenon, <1>1 DEF TaskStates, Stages, AtWork
<1>3. tasks' = [tasks EXCEPT ![t] = x]
  BY Zenon DEF HandleOk, IInv, TypeOK
<1>4. /\ tasks[t].stage \in AtWork
      /\ last_cleanup' \in 0 .. MaxClock
      /\ UNCHANGED <<state, chan, req, clock, running>>
      /\ reply' = NoReply
  BY Zenon, <1>1 DEF HandleOk, AtWork, Silent
<1> HIDE DEF x
<1> QED BY Zenon, <1>2, <1>3, <1>4, WorkInv

LEMMA CompareExchangeInv ==
  ASSUME IInv, NEW t \in Tasks, CompareExchange(t)
  PROVE  IInv'
<1> DEFINE x == [tasks[t] EXCEPT !.stage = "finishing", !.cleanup = CasSucceeds(t)]
<1>1. tasks[t] \in TaskStates /\ last_cleanup \in 0 .. MaxClock
  BY Zenon DEF IInv, TypeOK
<1>2. CasSucceeds(t) \in BOOLEAN
  BY Zenon DEF CasSucceeds
<1>3. x \in TaskStates /\ x.stage \in AtWork /\ x.key = tasks[t].key
  BY Zenon, <1>1, <1>2 DEF TaskStates, Stages, AtWork
<1>4. tasks' = [tasks EXCEPT ![t] = x]
  BY Zenon DEF CompareExchange, IInv, TypeOK
<1>5. /\ tasks[t].stage \in AtWork
      /\ last_cleanup' \in 0 .. MaxClock
      /\ UNCHANGED <<state, chan, req, clock, running>>
      /\ reply' = NoReply
  BY Zenon, <1>1 DEF CompareExchange, AtWork, Silent, TaskStates
<1> HIDE DEF x
<1> QED BY Zenon, <1>3, <1>4, <1>5, WorkInv

(* What a cleanup does to the map of transactions: some cached entries go, *)
(* and nothing else.                                                       *)
Trimmed(s, d) ==
  /\ d \in [Keys -> Entries]
  /\ \A k \in Keys : d[k] = s[k] \/ (s[k].kind = "cached" /\ d[k] = None)

LEMMA TrimmedWithout ==
  ASSUME NEW s \in [Keys -> Entries], NEW E, E \subseteq Evictable(s)
  PROVE  Trimmed(s, Without(s, E))
  BY TransactionsAssumption DEF Trimmed, Without, Evictable, None, Entries

LEMMA ClearCacheInv == IInv /\ ClearCache => IInv'
<1> SUFFICES ASSUME IInv, ClearCache PROVE IInv'
  BY Zenon
<1>1. /\ UNCHANGED <<tasks, chan, req, last_cleanup, clock, running>>
      /\ reply' = NoReply
      /\ state' = Without(state, Evictable(state))
  BY Zenon DEF ClearCache, Silent
<1>2. Trimmed(state, state')
  BY Zenon, <1>1, TrimmedWithout DEF IInv, TypeOK
<1> USE DEF IInv
<1>3. TypeOK'
  BY Zenon, <1>1, <1>2 DEF TypeOK, Trimmed, NoReply
<1>4. ActiveLinked'
  BY <1>1, <1>2 DEF ActiveLinked, Trimmed, None
<1>5. TaskLinked'
  BY Zenon, <1>1, <1>2 DEF TaskLinked, Trimmed, None
<1>6. CachedLinked'
  BY <1>1, <1>2 DEF CachedLinked, Trimmed, None
<1>7. Origins'
  BY <1>1, <1>2 DEF Origins, Trimmed, None
<1>8. Channels' /\ Waiting' /\ RightResponse'
  BY Zenon, <1>1 DEF Channels, Waiting, RightResponse, NoReply
<1> QED BY Zenon, <1>3, <1>4, <1>5, <1>6, <1>7, <1>8

LEMMA FinishStep ==
  ASSUME IInv, NEW t \in Tasks, Finish(t)
  PROVE  /\ tasks[t].stage = "finishing"
         /\ tasks[t].key \in Keys
         /\ [state EXCEPT ![tasks[t].key] = Cached(t, clock)] \in [Keys -> Entries]
         /\ Trimmed([state EXCEPT ![tasks[t].key] = Cached(t, clock)], state')
         /\ tasks' = [tasks EXCEPT ![t] = Ended(tasks[t])]
         /\ chan' = [chan EXCEPT ![t] = "ok"]
         /\ UNCHANGED <<req, last_cleanup, clock, running>>
         /\ reply' = NoReply
<1> DEFINE cached == [state EXCEPT ![tasks[t].key] = Cached(t, clock)]
<1>1. tasks[t].stage = "finishing" /\ tasks[t].key \in Keys
  BY Zenon DEF Finish, IInv, TaskLinked, AtWork
<1>2. cached \in [Keys -> Entries]
  BY Zenon, <1>1 DEF IInv, TypeOK, Cached, Entries
<1>3. PICK E \in (IF tasks[t].cleanup THEN {Expired(cached) \cup X : X \in Excess(cached)}
                  ELSE {{}}) : state' = Without(cached, E)
  BY Zenon DEF Finish
<1>4. E \subseteq Evictable(cached)
  <2> HIDE DEF cached
  <2> QED BY <1>3, Zenon DEF Expired, Excess
<1>5. Trimmed(cached, state')
  <2> HIDE DEF cached
  <2> QED BY Zenon, <1>2, <1>3, <1>4, TrimmedWithout
<1> QED BY Zenon, <1>1, <1>2, <1>5 DEF Finish, Silent

LEMMA EndedType ==
  ASSUME NEW x \in TaskStates
  PROVE  Ended(x) \in TaskStates /\ Ended(x).key = x.key /\ Ended(x).stage = "ended"
  BY TransactionsAssumption DEF TaskStates, Ended, Stages

LEMMA FinishInv ==
  ASSUME IInv, NEW t \in Tasks, Finish(t)
  PROVE  IInv'
<1> DEFINE k == tasks[t].key
           x == Ended(tasks[t])
           cached == [state EXCEPT ![k] = Cached(t, clock)]
<1>0. x \in TaskStates /\ x.key = k /\ x.stage = "ended"
  BY Zenon, EndedType DEF IInv, TypeOK
<1>1. /\ tasks[t].stage = "finishing"
      /\ k \in Keys
      /\ cached \in [Keys -> Entries]
      /\ Trimmed(cached, state')
      /\ tasks' = [tasks EXCEPT ![t] = x]
      /\ chan' = [chan EXCEPT ![t] = "ok"]
      /\ UNCHANGED <<req, last_cleanup, clock, running>>
      /\ reply' = NoReply
  BY Zenon, FinishStep
<1>2. state[k].kind = "active" /\ state[k].task = t
  BY Zenon, <1>1 DEF IInv, TaskLinked, AtWork
<1>3. cached[k] = Cached(t, clock) /\ \A j \in Keys \ {k} : cached[j] = state[j]
  BY Zenon, <1>1 DEF IInv, TypeOK
<1> HIDE DEF x, cached
<1> USE DEF IInv
<1>4. TypeOK'
  BY Zenon, <1>0, <1>1 DEF TypeOK, Trimmed, NoReply
<1>5. ActiveLinked'
  BY <1>0, <1>1, <1>2, <1>3 DEF TypeOK, ActiveLinked, Trimmed, Cached, None
<1>6. TaskLinked'
  BY SMTT(30), <1>0, <1>1, <1>2, <1>3 DEF TypeOK, TaskLinked, Trimmed, Cached, None, AtWork
<1>7. CachedLinked'
  BY <1>0, <1>1, <1>2, <1>3 DEF TypeOK, CachedLinked, Trimmed, Cached, None
<1>8. Channels'
  BY Zenon, <1>0, <1>1 DEF TypeOK, Channels
<1>9. Waiting'
  BY <1>0, <1>1 DEF TypeOK, Waiting
<1>10. Origins'
  BY <1>1, <1>2, <1>3 DEF Origins, Trimmed, Cached, None
<1>11. RightResponse'
  BY Zenon, <1>1 DEF RightResponse, NoReply
<1> QED BY Zenon, <1>4, <1>5, <1>6, <1>7, <1>8, <1>9, <1>10, <1>11

LEMMA HandleErrInv ==
  ASSUME IInv, NEW t \in Tasks, HandleErr(t)
  PROVE  IInv'
<1> DEFINE x == [tasks[t] EXCEPT !.stage = "failing"]
           k == tasks[t].key
<1>0. x \in TaskStates /\ x.key = k /\ x.stage = "failing"
  <2>1. tasks[t] \in TaskStates
    BY Zenon DEF IInv, TypeOK
  <2> QED BY Zenon, <2>1 DEF TaskStates, Stages
<1>1. /\ tasks[t].stage = "handling"
      /\ tasks' = [tasks EXCEPT ![t] = x]
      /\ UNCHANGED <<req, chan, last_cleanup, clock, running>>
      /\ reply' = NoReply
  BY Zenon DEF HandleErr, Silent, IInv, TypeOK
<1>2. state' = Without(state, {k})
  BY Zenon DEF HandleErr
<1>3. k \in Keys /\ state[k].kind = "active" /\ state[k].task = t
  BY Zenon, <1>1 DEF IInv, TaskLinked, AtWork
<1>4. state' \in [Keys -> Entries]
  BY <1>2, TransactionsAssumption DEF Without, None, Entries, IInv, TypeOK
<1>5. state'[k] = None /\ \A j \in Keys \ {k} : state'[j] = state[j]
  BY Zenon, <1>2, <1>3 DEF Without
<1> HIDE DEF x
<1> USE DEF IInv
<1>6. TypeOK'
  BY Zenon, <1>0, <1>1, <1>4 DEF TypeOK, NoReply
<1>7. ActiveLinked'
  BY <1>0, <1>1, <1>3, <1>5 DEF TypeOK, ActiveLinked, None
<1>8. TaskLinked'
  BY <1>0, <1>1, <1>3, <1>5 DEF TypeOK, TaskLinked, None, AtWork
<1>9. CachedLinked'
  BY <1>0, <1>1, <1>3, <1>5 DEF TypeOK, CachedLinked, None
<1>10. Channels'
  BY Zenon, <1>0, <1>1 DEF TypeOK, Channels
<1>11. Waiting'
  BY Zenon, <1>0, <1>1 DEF TypeOK, Waiting
<1>12. Origins'
  BY <1>3, <1>5 DEF Origins, None
<1>13. RightResponse'
  BY Zenon, <1>1 DEF RightResponse, NoReply
<1> QED BY Zenon, <1>6, <1>7, <1>8, <1>9, <1>10, <1>11, <1>12, <1>13

LEMMA SendErrInv ==
  ASSUME IInv, NEW t \in Tasks, SendErr(t)
  PROVE  IInv'
<1> DEFINE x == Ended(tasks[t])
<1>0. x \in TaskStates /\ x.key = tasks[t].key /\ x.stage = "ended"
  BY Zenon, EndedType DEF IInv, TypeOK
<1>1. /\ tasks[t].stage = "failing"
      /\ tasks' = [tasks EXCEPT ![t] = x]
      /\ chan' = [chan EXCEPT ![t] = "err"]
      /\ UNCHANGED <<state, req, last_cleanup, clock, running>>
      /\ reply' = NoReply
  BY Zenon DEF SendErr, Silent, FailedValue
<1> HIDE DEF x
<1> USE DEF IInv
<1>2. TypeOK'
  BY Zenon, <1>0, <1>1 DEF TypeOK, NoReply
<1>3. ActiveLinked'
  BY Zenon, <1>0, <1>1 DEF TypeOK, ActiveLinked, AtWork
<1>4. TaskLinked'
  BY <1>0, <1>1 DEF TypeOK, TaskLinked, AtWork
<1>5. CachedLinked'
  BY Zenon, <1>0, <1>1 DEF TypeOK, CachedLinked, Channels
<1>6. Channels'
  BY Zenon, <1>0, <1>1 DEF TypeOK, Channels
<1>7. Waiting'
  BY Zenon, <1>0, <1>1 DEF TypeOK, Waiting
<1>8. Origins'
  BY Zenon, <1>1 DEF Origins
<1>9. RightResponse'
  BY Zenon, <1>1 DEF RightResponse, NoReply
<1> QED BY Zenon, <1>2, <1>3, <1>4, <1>5, <1>6, <1>7, <1>8, <1>9

LEMMA NextInv == IInv /\ [Next]_vars => IInv'
<1> SUFFICES ASSUME IInv, [Next]_vars PROVE IInv'
  BY Zenon
<1>1. CASE \E r \in Requests, k \in Keys : Repeat(r, k) \/ Refuse(r, k) \/ Start(r, k)
  BY Zenon, <1>1, RepeatInv, RefuseInv, StartInv
<1>2. CASE \E r \in Requests : Wake(r) \/ Timeout(r)
  BY Zenon, <1>2, WakeInv, TimeoutInv
<1>3. CASE \E t \in Tasks : Process(t)
  BY Zenon, <1>3, HandleOkInv, CompareExchangeInv, FinishInv, HandleErrInv, SendErrInv DEF Process
<1>4. CASE ClearCache \/ Tick \/ Shutdown
  BY Zenon, <1>4, ClearCacheInv, TickInv, ShutdownInv
<1>5. CASE UNCHANGED vars
  BY <1>5 DEF vars, IInv, TypeOK, ActiveLinked, TaskLinked, CachedLinked, Channels, Waiting,
              Origins, RightResponse
<1> QED BY Zenon, <1>1, <1>2, <1>3, <1>4, <1>5 DEF Next

(* The invariant holds in every reachable state of the service.            *)
THEOREM Invariance == Spec => []IInv
  BY InitInv, NextInv, PTL DEF Spec

(* get_or_start_federation_txn refuses a second transaction of an origin   *)
(* while one is active, and this keeps two of them from being handled at   *)
(* the same time, however requests, timeouts, cleanups and the shutdown    *)
(* interleave.                                                             *)
THEOREM OneTaskPerOriginCorrect == Spec => []OneTaskPerOrigin
<1>1. IInv => OneTaskPerOrigin
  BY DEF IInv, OneTaskPerOrigin, TaskLinked, Origins, AtWork
<1> QED BY <1>1, Invariance, PTL

(* wait_for_result never finds a channel closed without a value, and a     *)
(* response, from the cache or from the channel, is that of a task that    *)
(* processed the transaction the request is for.                           *)
THEOREM RightResponseCorrect == Spec => []RightResponse
<1>1. IInv => RightResponse
  BY Zenon DEF IInv
<1> QED BY <1>1, Invariance, PTL

-----------------------------------------------------------------------------
(* The refinement.                                                         *)

(* A step that answers no request with a response, and at most drops       *)
(* cached responses.                                                       *)
LEMMA ForgetStep ==
  ASSUME reply'.answer # "response",
         ActiveKeys' = ActiveKeys, CachedKeys' \subseteq CachedKeys, FinishedKeys' = FinishedKeys
  PROVE  Registry!Next
  BY Zenon DEF Registry!Next, Registry!Forget, Responded

LEMMA RespondStep ==
  ASSUME NEW k \in FinishedKeys, k \in Keys, reply'.answer = "response", reply'.key = k,
         ActiveKeys' = ActiveKeys, CachedKeys' = CachedKeys, FinishedKeys' = FinishedKeys
  PROVE  Registry!Next
<1>1. Registry!Respond(k)
  BY Zenon DEF Registry!Respond, Responded
<1> QED BY Zenon, <1>1 DEF Registry!Next

LEMMA SameKeys ==
  ASSUME UNCHANGED <<state, tasks, chan>>
  PROVE  ActiveKeys' = ActiveKeys /\ CachedKeys' = CachedKeys /\ FinishedKeys' = FinishedKeys
  BY Zenon DEF ActiveKeys, CachedKeys, FinishedKeys

LEMMA RequestStep ==
  ASSUME IInv, NEW r \in Requests, NEW k \in Keys,
         Repeat(r, k) \/ Refuse(r, k) \/ Wake(r) \/ Timeout(r)
  PROVE  Registry!Next
<1> USE SameKeys DEF IInv, TypeOK
<1>1. CASE Repeat(r, k) /\ state[k].kind = "cached"
  <2>1. k \in FinishedKeys
    BY <1>1 DEF CachedLinked, FinishedKeys
  <2>2. reply'.answer = "response" /\ reply'.key = k /\ UNCHANGED <<state, tasks, chan>>
    BY <1>1 DEF Repeat, Answer
  <2> QED BY Zenon, <2>1, <2>2, RespondStep
<1>2. CASE Repeat(r, k) /\ state[k].kind # "cached"
  <2>1. reply'.answer # "response" /\ UNCHANGED <<state, tasks, chan>>
    BY <1>2 DEF Repeat, Wait, NoReply
  <2> QED BY Zenon, <2>1, ForgetStep
<1>3. CASE Refuse(r, k) \/ Timeout(r)
  <2>1. reply'.answer # "response" /\ UNCHANGED <<state, tasks, chan>>
    BY <1>3 DEF Refuse, Timeout, Answer
  <2> QED BY Zenon, <2>1, ForgetStep
<1>4. CASE Wake(r) /\ chan[req[r].task] = "ok"
  <2>1. req[r].key \in Keys /\ req[r].key \in FinishedKeys
    BY <1>4 DEF Wake, Waiting, FinishedKeys
  <2>2. reply'.answer = "response" /\ reply'.key = req[r].key /\ UNCHANGED <<state, tasks, chan>>
    BY <1>4 DEF Wake, Answer, Result
  <2> QED BY Zenon, <2>1, <2>2, RespondStep
<1>5. CASE Wake(r) /\ chan[req[r].task] # "ok"
  <2>1. req[r].task \in Tasks
    BY Zenon, <1>5 DEF Wake, Waiting
  <2>2. reply'.answer # "response" /\ UNCHANGED <<state, tasks, chan>>
    BY <1>5, <2>1 DEF Wake, Answer, Result
  <2> QED BY Zenon, <2>2, ForgetStep
<1> QED BY Zenon, <1>1, <1>2, <1>3, <1>4, <1>5

(* The two counts of the limit: the code first counts all entries, and     *)
(* only when they reach the limit those that are active.                   *)
LEMMA NotOverloaded == ~ Overloaded => Cardinality(ActiveKeys) < MaxActive
<1> DEFINE A == ActiveKeys
           B == ActiveKeys \cup CachedKeys
<1>1. IsFiniteSet(B) /\ A \subseteq B
  <2>1. B \subseteq Keys
    BY Zenon DEF ActiveKeys, CachedKeys
  <2> QED BY Zenon, <2>1, TransactionsAssumption, FS_Subset
<1>2. IsFiniteSet(A) /\ Cardinality(A) <= Cardinality(B)
  BY Zenon, <1>1, FS_Subset
<1>3. Cardinality(A) \in Nat /\ Cardinality(B) \in Nat
  BY Zenon, <1>1, <1>2, FS_CardinalityType
<1> QED BY <1>2, <1>3, TransactionsAssumption DEF Overloaded

LEMMA StartStep ==
  ASSUME IInv, NEW r \in Requests, NEW k \in Keys, Start(r, k)
  PROVE  Registry!Next
<1> DEFINE t == CHOOSE u \in Tasks : tasks[u].stage = "unused"
<1>0. t \in Tasks /\ tasks[t].stage = "unused"
  <2>1. \E u \in Tasks : tasks[u].stage = "unused"
    BY Zenon DEF Start
  <2> QED BY <2>1, Zenon
<1>1. /\ state[k].kind = "none"
      /\ ~ OriginBusy(k)
      /\ ~ Overloaded
      /\ tasks' = [tasks EXCEPT ![t].stage = "handling", ![t].key = k]
      /\ state' = [state EXCEPT ![k] = Active(t)]
      /\ reply' = NoReply
      /\ UNCHANGED chan
  BY Zenon DEF Start, Wait
<1> HIDE DEF t
<1> USE DEF IInv
<1>2. chan[t] = "empty"
  BY Zenon, <1>0 DEF Channels, TypeOK
<1>3. k \notin ActiveKeys \cup CachedKeys /\ \A j \in ActiveKeys : j.origin # k.origin
  BY Zenon, <1>1 DEF ActiveKeys, CachedKeys, OriginBusy
<1>4. ActiveKeys' = ActiveKeys \cup {k} /\ CachedKeys' = CachedKeys
  BY <1>1 DEF ActiveKeys, CachedKeys, Active, TypeOK
<1>5. FinishedKeys' = FinishedKeys
  <2>1. \A u \in Tasks : chan[u] = "ok" => tasks'[u].key = tasks[u].key
    BY Zenon, <1>0, <1>1, <1>2 DEF TypeOK
  <2> QED BY Zenon, <1>1, <2>1 DEF FinishedKeys
<1>6. Responded' = NoKey
  BY Zenon, <1>1 DEF Responded, NoReply
<1>7. Registry!Cardinality(ActiveKeys) < MaxActive
  <2>1. Registry!Cardinality(ActiveKeys) = Cardinality(ActiveKeys)
    BY Zenon DEF Registry!Cardinality, Cardinality
  <2> QED BY Zenon, <1>1, <2>1, NotOverloaded
<1>8. Registry!Start(k)
  BY <1>3, <1>4, <1>5, <1>6, <1>7, Zenon DEF Registry!Start
<1> QED BY Zenon, <1>8 DEF Registry!Next

LEMMA FinishRefines ==
  ASSUME IInv, NEW t \in Tasks, Finish(t)
  PROVE  Registry!Next
<1> DEFINE k == tasks[t].key
           x == Ended(tasks[t])
           cached == [state EXCEPT ![k] = Cached(t, clock)]
<1>0. x.key = k
  BY Zenon, EndedType DEF IInv, TypeOK
<1>1. /\ tasks[t].stage = "finishing"
      /\ k \in Keys
      /\ Trimmed(cached, state')
      /\ tasks' = [tasks EXCEPT ![t] = x]
      /\ chan' = [chan EXCEPT ![t] = "ok"]
      /\ reply' = NoReply
  BY Zenon, FinishStep
<1>2. state[k].kind = "active"
  BY Zenon, <1>1 DEF IInv, TaskLinked, AtWork
<1>3. cached[k].kind = "cached" /\ \A j \in Keys \ {k} : cached[j] = state[j]
  BY Zenon, <1>1 DEF IInv, TypeOK, Cached
<1> HIDE DEF x, cached
<1>4. k \in ActiveKeys /\ ActiveKeys' = ActiveKeys \ {k}
  BY <1>1, <1>2, <1>3 DEF ActiveKeys, Trimmed, None
<1>5. CachedKeys' \subseteq CachedKeys \cup {k}
  BY Zenon, <1>1, <1>3 DEF CachedKeys, Trimmed, None
<1>6. FinishedKeys' = FinishedKeys \cup {k}
  <2>1. \A u \in Tasks : tasks'[u].key = tasks[u].key
    BY Zenon, <1>0, <1>1 DEF IInv, TypeOK
  <2>2. chan'[t] = "ok" /\ \A u \in Tasks \ {t} : chan'[u] = chan[u]
    BY Zenon, <1>1 DEF IInv, TypeOK
  <2> QED BY <2>1, <2>2 DEF FinishedKeys
<1>7. Responded' = NoKey
  BY Zenon, <1>1 DEF Responded, NoReply
<1>8. Registry!Finish(k)
  BY Zenon, <1>4, <1>5, <1>6, <1>7 DEF Registry!Finish
<1> QED BY Zenon, <1>1, <1>8 DEF Registry!Next

LEMMA FailStep ==
  ASSUME IInv, NEW t \in Tasks, HandleErr(t)
  PROVE  Registry!Next
<1> DEFINE k == tasks[t].key
<1>1. tasks[t].stage = "handling" /\ UNCHANGED chan /\ reply' = NoReply
  BY Zenon DEF HandleErr, Silent
<1>2. \A u \in Tasks : tasks'[u].key = tasks[u].key
  BY DEF HandleErr, IInv, TypeOK, TaskStates
<1>3. state' = Without(state, {k})
  BY Zenon DEF HandleErr
<1>4. k \in Keys /\ state[k].kind = "active"
  BY Zenon, <1>1 DEF IInv, TaskLinked, AtWork
<1>5. k \in ActiveKeys /\ ActiveKeys' = ActiveKeys \ {k} /\ CachedKeys' = CachedKeys
  BY Zenon, <1>3, <1>4 DEF ActiveKeys, CachedKeys, Without, None
<1>6. FinishedKeys' = FinishedKeys
  BY Zenon, <1>1, <1>2 DEF FinishedKeys
<1>7. Responded' = NoKey
  BY Zenon, <1>1 DEF Responded, NoReply
<1>8. Registry!Fail(k)
  BY Zenon, <1>5, <1>6, <1>7 DEF Registry!Fail
<1> QED BY Zenon, <1>4, <1>8 DEF Registry!Next

LEMMA TaskStep ==
  ASSUME IInv, NEW t \in Tasks, HandleOk(t) \/ CompareExchange(t) \/ SendErr(t)
  PROVE  Registry!Next
<1>1. \A u \in Tasks : tasks'[u].key = tasks[u].key
  <2>1. tasks \in [Tasks -> TaskStates] /\ Ended(tasks[t]).key = tasks[t].key
    BY Zenon, EndedType DEF IInv, TypeOK
  <2>2. CASE HandleOk(t)
    BY Zenon, <2>1, <2>2 DEF HandleOk, TaskStates
  <2>3. CASE CompareExchange(t)
    BY Zenon, <2>1, <2>3 DEF CompareExchange, TaskStates
  <2>4. CASE SendErr(t)
    BY Zenon, <2>1, <2>4 DEF SendErr
  <2> QED BY Zenon, <2>2, <2>3, <2>4
<1>2. UNCHANGED state /\ reply' = NoReply
  BY Zenon DEF HandleOk, CompareExchange, SendErr, Silent
<1>3. \A u \in Tasks : chan'[u] = "ok" <=> chan[u] = "ok"
  <2>1. tasks[t].stage = "failing" => chan[t] = "empty"
    BY Zenon DEF IInv, TypeOK, Channels
  <2> QED BY Zenon, <2>1 DEF HandleOk, CompareExchange, SendErr, FailedValue, IInv, TypeOK
<1>4. ActiveKeys' = ActiveKeys /\ CachedKeys' = CachedKeys
  BY Zenon, <1>2 DEF ActiveKeys, CachedKeys
<1>5. FinishedKeys' = FinishedKeys
  BY Zenon, <1>1, <1>3 DEF FinishedKeys
<1> QED BY Zenon, <1>2, <1>4, <1>5, ForgetStep DEF NoReply

LEMMA ServerStep ==
  ASSUME IInv, ClearCache \/ Tick \/ Shutdown
  PROVE  Registry!Next
<1>1. reply'.answer # "response" /\ UNCHANGED <<tasks, chan>>
  BY DEF ClearCache, Tick, Shutdown, Silent, NoReply
<1>2. ActiveKeys' = ActiveKeys /\ CachedKeys' \subseteq CachedKeys
  BY DEF ClearCache, Tick, Shutdown, ActiveKeys, CachedKeys, Without, Evictable, None, IInv, TypeOK
<1>3. FinishedKeys' = FinishedKeys
  BY Zenon, <1>1 DEF FinishedKeys
<1> QED BY Zenon, <1>1, <1>2, <1>3, ForgetStep

LEMMA InitRefines == Init => Registry!Init
  BY DEF Init, Registry!Init, ActiveKeys, CachedKeys, FinishedKeys, Responded, None, NoReply

LEMMA StepRefines == IInv /\ [Next]_vars => [Registry!Next]_(Registry!vars)
<1> SUFFICES ASSUME IInv, [Next]_vars PROVE [Registry!Next]_(Registry!vars)
  BY Zenon
<1>1. CASE \E r \in Requests, k \in Keys : Repeat(r, k) \/ Refuse(r, k) \/ Start(r, k)
  BY Zenon, <1>1, RequestStep, StartStep
<1>2. CASE \E r \in Requests : Wake(r) \/ Timeout(r)
  <2>1. PICK r \in Requests : Wake(r) \/ Timeout(r)
    BY Zenon, <1>2
  <2>2. req[r].key \in Keys
    BY Zenon, <2>1 DEF IInv, Waiting, Wake, Timeout
  <2> QED BY Zenon, <2>1, <2>2, RequestStep
<1>3. CASE \E t \in Tasks : Process(t)
  BY Zenon, <1>3, TaskStep, FinishRefines, FailStep DEF Process
<1>4. CASE ClearCache \/ Tick \/ Shutdown
  BY Zenon, <1>4, ServerStep
<1>5. CASE UNCHANGED vars
  <2>1. UNCHANGED <<ActiveKeys, CachedKeys, FinishedKeys, Responded>>
    BY Zenon, <1>5 DEF vars, ActiveKeys, CachedKeys, FinishedKeys, Responded
  <2> QED BY Zenon, <2>1 DEF Registry!vars
<1> QED BY Zenon, <1>1, <1>2, <1>3, <1>4, <1>5 DEF Next

(* The service implements TransactionRegistry: whatever the requests, the  *)
(* tasks and the cleanups do, and in whichever order, each step is one     *)
(* that the registry allows.                                               *)
THEOREM RegistryRefined == Spec => ImplementsRegistry
  BY InitRefines, StepRefines, Invariance, PTL DEF Spec, ImplementsRegistry, Registry!Spec
=============================================================================
