---------------------------- MODULE Transactions ----------------------------
(***************************************************************************)
(* Inbound federation transactions (service/transactions and the route     *)
(* PUT /_matrix/federation/v1/send): a transaction is processed by a task  *)
(* of its own, requests that repeat it join that task or are answered from *)
(* a cache, an origin has one transaction in progress at a time and their  *)
(* total number is limited.                                                *)
(***************************************************************************)
EXTENDS Integers, FiniteSets

CONSTANTS
  Keys,             \* TxnKey: records with an origin and a transaction id
  Requests,         \* concurrent HTTP requests
  Tasks,            \* processing tasks, each used once
  MaxActive,        \* config.max_concurrent_inbound_transactions
  MaxEntries,       \* config.transaction_id_cache_max_entries
  MaxAge,           \* config.transaction_id_cache_max_age_secs
  CleanupInterval,  \* CLEANUP_INTERVAL_SECS
  MaxClock,         \* bound on the clock
  NoKey, NoTask

ASSUME TransactionsAssumption ==
  /\ NoKey \notin Keys
  /\ NoTask \notin Tasks
  /\ IsFiniteSet(Keys)
  /\ MaxActive \in Nat /\ MaxEntries \in Nat /\ MaxAge \in Nat
  /\ CleanupInterval \in Nat /\ MaxClock \in Nat
  /\ CleanupInterval <= MaxClock

VARIABLES
  state,         \* federation_txn_state
  tasks,         \* process_inbound_transaction: where each task is
  chan,          \* per task: the watch channel to the waiting requests
  req,           \* per request: whether it waits, and for what
  reply,         \* history: the answer that the last step gave to a request
  last_cleanup,  \* time of the last cleanup
  clock,         \* system time
  running        \* the server is not shutting down

vars == <<state, tasks, chan, req, reply, last_cleanup, clock, running>>

None         == [kind |-> "none", task |-> NoTask, created |-> 0]
Active(t)    == [kind |-> "active", task |-> t, created |-> 0]
Cached(t, c) == [kind |-> "cached", task |-> t, created |-> c]

Entries == [kind : {"none", "active", "cached"}, task : Tasks \cup {NoTask}, created : 0 .. MaxClock]

Stages == {"unused", "handling", "checking", "finishing", "failing", "ended"}

TaskStates == [key : Keys \cup {NoKey}, stage : Stages, now : 0 .. MaxClock,
               last : 0 .. MaxClock, cleanup : BOOLEAN]

TypeOK ==
  /\ state \in [Keys -> Entries]
  /\ tasks \in [Tasks -> TaskStates]
  /\ chan \in [Tasks -> {"empty", "ok", "err"}]
  /\ req \in [Requests -> [stage : {"idle", "waiting"}, key : Keys \cup {NoKey},
                           task : Tasks \cup {NoTask}]]
  /\ reply \in [key : Keys \cup {NoKey}, task : Tasks \cup {NoTask},
                answer : {"none", "response", "retry", "shutdown", "failed"}]
  /\ last_cleanup \in 0 .. MaxClock
  /\ clock \in 0 .. MaxClock
  /\ running \in BOOLEAN

Idle == [stage |-> "idle", key |-> NoKey, task |-> NoTask]
NoReply == [key |-> NoKey, task |-> NoTask, answer |-> "none"]

(* The clock counts from 1970, so the first cleanup is due at once.        *)
Init ==
  /\ state = [k \in Keys |-> None]
  /\ tasks = [t \in Tasks |-> [key |-> NoKey, stage |-> "unused", now |-> 0, last |-> 0,
                               cleanup |-> FALSE]]
  /\ chan = [t \in Tasks |-> "empty"]
  /\ req = [r \in Requests |-> Idle]
  /\ reply = NoReply
  /\ last_cleanup = 0
  /\ clock = CleanupInterval
  /\ running = TRUE

ActiveKeys == {k \in Keys : state[k].kind = "active"}
CachedKeys == {k \in Keys : state[k].kind = "cached"}

Answer(r, k, t, a) ==
  /\ req' = [req EXCEPT ![r] = Idle]
  /\ reply' = [key |-> k, task |-> t, answer |-> a]
Wait(r, k, t) ==
  /\ req' = [req EXCEPT ![r] = [stage |-> "waiting", key |-> k, task |-> t]]
  /\ reply' = NoReply
Silent == req' = req /\ reply' = NoReply

----------------------------------------------------------------------------
(* get_or_start_federation_txn, called by the route of the request.        *)

Repeat(r, k) ==
  /\ req[r].stage = "idle"
  /\ \/ state[k].kind = "cached" /\ Answer(r, k, state[k].task, "response")
     \/ state[k].kind = "active" /\ Wait(r, k, state[k].task)
  /\ UNCHANGED <<state, tasks, chan, last_cleanup, clock, running>>

(* Mutation of OriginBusy: the check is forgotten.                         *)
OriginNeverBusy(k) == FALSE

OriginBusy(k) == \E j \in ActiveKeys : j.origin = k.origin
Overloaded ==
  /\ Cardinality(ActiveKeys \cup CachedKeys) >= MaxActive
  /\ Cardinality(ActiveKeys) >= MaxActive

Refuse(r, k) ==
  /\ req[r].stage = "idle"
  /\ state[k].kind = "none"
  /\ OriginBusy(k) \/ Overloaded
  /\ Answer(r, k, NoTask, "retry")
  /\ UNCHANGED <<state, tasks, chan, last_cleanup, clock, running>>

(* The first request spawns the task and waits for it like the others.     *)
(* Tasks have no names of their own: any unused one will do.               *)
Start(r, k) ==
  LET t == CHOOSE t \in Tasks : tasks[t].stage = "unused" IN
  /\ req[r].stage = "idle"
  /\ state[k].kind = "none"
  /\ ~OriginBusy(k)
  /\ ~Overloaded
  /\ \E u \in Tasks : tasks[u].stage = "unused"
  /\ tasks' = [tasks EXCEPT ![t].stage = "handling", ![t].key = k]
  /\ state' = [state EXCEPT ![k] = Active(t)]
  /\ Wait(r, k, t)
  /\ UNCHANGED <<chan, last_cleanup, clock, running>>

(* wait_for_result: what the channel holds when it changes or its sender   *)
(* is gone, or the timeout of 50 seconds.                                  *)
Result == [ok |-> "response", err |-> "shutdown", empty |-> "failed"]

Wake(r) ==
  LET t == req[r].task
  IN  /\ req[r].stage = "waiting"
      /\ chan[t] # "empty" \/ tasks[t].stage = "ended"
      /\ Answer(r, req[r].key, t, Result[chan[t]])
      /\ UNCHANGED <<state, tasks, chan, last_cleanup, clock, running>>

Timeout(r) ==
  /\ req[r].stage = "waiting"
  /\ Answer(r, req[r].key, NoTask, "retry")
  /\ UNCHANGED <<state, tasks, chan, last_cleanup, clock, running>>

----------------------------------------------------------------------------
(* process_inbound_transaction.                                            *)

(* A task that has ended; its local variables are gone.                    *)
Ended(x) == [key |-> x.key, stage |-> "ended", now |-> 0, last |-> 0, cleanup |-> FALSE]

(* handle has processed everything.  should_try_cleanup reads the clock    *)
(* and the time of the last cleanup.                                       *)
HandleOk(t) ==
  /\ tasks[t].stage = "handling"
  /\ tasks' = [tasks EXCEPT ![t].stage =
                 IF clock - last_cleanup >= CleanupInterval THEN "checking" ELSE "finishing",
               ![t].now = clock, ![t].last = last_cleanup]
  /\ Silent
  /\ UNCHANGED <<state, chan, last_cleanup, clock, running>>

CasSucceeds(t) == last_cleanup = tasks[t].last

(* Mutation of CompareExchange: a loop that never reads the time again.    *)
CompareExchangeLoop(t) ==
  /\ tasks[t].stage = "checking"
  /\ last_cleanup' = IF CasSucceeds(t) THEN tasks[t].now ELSE last_cleanup
  /\ tasks' = [tasks EXCEPT ![t].stage = IF CasSucceeds(t) THEN "finishing" ELSE @,
                            ![t].cleanup = CasSucceeds(t)]
  /\ Silent
  /\ UNCHANGED <<state, chan, clock, running>>

(* should_try_cleanup: compare_exchange.                                   *)
CompareExchange(t) ==
  /\ tasks[t].stage = "checking"
  /\ last_cleanup' = IF CasSucceeds(t) THEN tasks[t].now ELSE last_cleanup
  /\ tasks' = [tasks EXCEPT ![t].stage = "finishing", ![t].cleanup = CasSucceeds(t)]
  /\ Silent
  /\ UNCHANGED <<state, chan, clock, running>>

(* cleanup_entries_locked: the entries that are too old, then the oldest   *)
(* ones beyond the limit; entries of equal age go in any order.            *)
(* Mutation of Evictable: active transactions count as entries.            *)
EvictableAny(s) == {k \in Keys : s[k].kind # "none"}
Evictable(s) == {k \in Keys : s[k].kind = "cached"}

Expired(s) == {k \in Evictable(s) : s[k].created <= (IF clock > MaxAge THEN clock - MaxAge ELSE 0)}

Excess(s) ==
  LET live == Evictable(s) \ Expired(s)
  IN  {E \in SUBSET live :
         /\ Cardinality(live \ E) = IF Cardinality(live) > MaxEntries THEN MaxEntries
                                    ELSE Cardinality(live)
         /\ \A e \in E, k \in live \ E : s[e].created <= s[k].created}

Without(s, E) == [k \in Keys |-> IF k \in E THEN None ELSE s[k]]

(* finish_federation_txn, under the lock: the entry becomes cached, the    *)
(* waiting requests get the response, and the cache is cleaned up if this  *)
(* task is the one to do it.                                               *)
Finish(t) ==
  LET cached == [state EXCEPT ![tasks[t].key] = Cached(t, clock)]
  IN  /\ tasks[t].stage = "finishing"
      /\ \E E \in IF tasks[t].cleanup THEN {Expired(cached) \cup X : X \in Excess(cached)}
                  ELSE {{}} :
           state' = Without(cached, E)
      /\ chan' = [chan EXCEPT ![t] = "ok"]
      /\ tasks' = [tasks EXCEPT ![t] = Ended(@)]
      /\ Silent
      /\ UNCHANGED <<last_cleanup, clock, running>>

(* The server shuts down while handle is at work: check_running fails and  *)
(* fail_federation_txn removes the entry, then sends the error.            *)
HandleErr(t) ==
  /\ tasks[t].stage = "handling"
  /\ ~running
  /\ tasks' = [tasks EXCEPT ![t].stage = "failing"]
  /\ state' = Without(state, {tasks[t].key})
  /\ Silent
  /\ UNCHANGED <<chan, last_cleanup, clock, running>>

(* Mutation of FailedValue: the sender is dropped without a value.         *)
FailedNoValue == "empty"
FailedValue == "err"

SendErr(t) ==
  /\ tasks[t].stage = "failing"
  /\ chan' = [chan EXCEPT ![t] = FailedValue]
  /\ tasks' = [tasks EXCEPT ![t] = Ended(@)]
  /\ Silent
  /\ UNCHANGED <<state, last_cleanup, clock, running>>

----------------------------------------------------------------------------
(* clear_cache keeps the active transactions.                              *)
ClearCache ==
  /\ CachedKeys # {}
  /\ state' = Without(state, Evictable(state))
  /\ Silent
  /\ UNCHANGED <<tasks, chan, last_cleanup, clock, running>>

Tick ==
  /\ clock < MaxClock
  /\ clock' = clock + 1
  /\ Silent
  /\ UNCHANGED <<state, tasks, chan, last_cleanup, running>>

Shutdown ==
  /\ running
  /\ running' = FALSE
  /\ Silent
  /\ UNCHANGED <<state, tasks, chan, last_cleanup, clock>>

Process(t) == HandleOk(t) \/ CompareExchange(t) \/ Finish(t) \/ HandleErr(t) \/ SendErr(t)

Next ==
  \/ \E r \in Requests, k \in Keys : Repeat(r, k) \/ Refuse(r, k) \/ Start(r, k)
  \/ \E r \in Requests : Wake(r) \/ Timeout(r)
  \/ \E t \in Tasks : Process(t)
  \/ ClearCache
  \/ Tick
  \/ Shutdown

Spec == Init /\ [][Next]_vars

(* The runtime schedules every task and wakes every request whose channel  *)
(* has changed; a transaction is processed in finite time.                 *)
FairSpec ==
  /\ Spec
  /\ \A t \in Tasks : WF_vars(Process(t))
  /\ \A r \in Requests : WF_vars(Wake(r))

----------------------------------------------------------------------------
(* Properties.                                                             *)

(* Two transactions of one origin are never processed at the same time.    *)
OneTaskPerOrigin ==
  \A t, u \in Tasks :
    /\ tasks[t].stage = "handling"
    /\ tasks[u].stage = "handling"
    /\ tasks[t].key.origin = tasks[u].key.origin
    => t = u

(* "No gap where receivers get a closed channel": a request is never left  *)
(* with a channel that was closed without a value, and the response that   *)
(* it gets is that of a task that processed this very transaction to the   *)
(* end.                                                                    *)
RightResponse ==
  /\ reply.answer # "failed"
  /\ reply.answer = "response" =>
       tasks[reply.task].key = reply.key /\ chan[reply.task] = "ok"

(* Every request that waits is answered, without the help of its timeout:  *)
(* whichever tasks race for the cleanup, each one ends.                    *)
Answered == \A r \in Requests : req[r].stage = "waiting" ~> req[r].stage = "idle"

(* What the service promises (TransactionRegistry) is what it does: a      *)
(* repeated, joined, timed out or retried transaction is not processed     *)
(* again while it is active or kept, one of an origin is active at a time, *)
(* and a response is that of a finished transaction.  A transaction is     *)
(* active while its task is at work, kept while its response is in the     *)
(* cache, and finished for ever once a task has put its response into the  *)
(* channel.                                                                *)
FinishedKeys == {tasks[t].key : t \in {t \in Tasks : chan[t] = "ok"}}
Responded == IF reply.answer = "response" THEN reply.key ELSE NoKey

Registry == INSTANCE TransactionRegistry
  WITH active <- ActiveKeys, kept <- CachedKeys, finished <- FinishedKeys, responded <- Responded

ImplementsRegistry == Registry!Spec
=============================================================================
