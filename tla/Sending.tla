------------------------------ MODULE Sending ------------------------------
(***************************************************************************)
(* The outbound queue of the homeserver (service/sending).  Every event    *)
(* for a remote server, an application service or a push gateway becomes a *)
(* row of the database.  A row is first "queued" (servernameevent_data);   *)
(* when its transaction is composed it becomes "active"                    *)
(* (servercurrentevent_data); it is deleted when the transaction succeeds. *)
(* A row is announced to the worker of its destination through a channel.  *)
(*                                                                         *)
(* The database writes of a step become durable in order and with a delay: *)
(* the write-ahead log is flushed by hand, a corked write is not flushed,  *)
(* and any other task's uncorked write flushes whatever has been logged.   *)
(* So "db" is what the process reads, "disk" what a crash leaves behind,   *)
(* and a step that performs several writes may leave on disk the state     *)
(* after any of them.                                                      *)
(***************************************************************************)
EXTENDS Integers, Sequences, FiniteSets, Functions

CONSTANTS
  Federation, Appservices, Pushers, \* the destinations, by kind
  Shards,            \* the sender workers, each with a channel of its own
  ShardOf,           \* shard_id: the worker of a destination
  MaxRow,            \* rows are 1 .. MaxRow, numbered in database key order
  DequeueLimit,      \* DEQUEUE_LIMIT: rows taken when a transaction succeeds
  Netburst,          \* config.startup_netburst
  Keep,              \* config.startup_netburst_keep; -1 keeps everything
  MaxTries,          \* where the counter of failures saturates (u32::MAX)
  MaxCount,          \* bound on the global counter
  MaxFailures,       \* bound on failed transactions
  MaxRestarts        \* bound on crashes and restarts

Dests == Federation \cup Appservices \cup Pushers
Rows  == 1 .. MaxRow
Flush == 0                \* SendingEvent::Flush: the empty queue key

ASSUME SendingAssumption ==
  /\ IsFiniteSet(Federation)
  /\ Federation \cap Appservices = {}
  /\ Federation \cap Pushers = {}
  /\ Appservices \cap Pushers = {}
  /\ ShardOf \in [Dests -> Shards]
  /\ MaxRow \in Nat
  /\ DequeueLimit \in Nat \ {0}
  /\ Netburst \in BOOLEAN
  /\ Keep \in Int
  /\ Keep >= -1
  /\ MaxTries \in Nat \ {0}
  /\ MaxCount \in Nat
  /\ MaxFailures \in Nat
  /\ MaxRestarts \in Nat

VARIABLES
  db,        \* the tables as the process reads them
  disk,      \* the tables as a crash would leave them
  channel,   \* per worker: the announcements not yet received
  status,    \* CurTransactionStatus: what the worker knows of a destination
  futures,   \* per destination: the transactions in flight
  worker,    \* per worker: where the sender task is
  closed,    \* interrupt() has closed the channels
  sent,      \* history: rows ever queued for the destination
  stored,    \* history: rows that have been on disk
  acked,     \* history: rows of transactions that ended Ok
  dropped,   \* history: rows deleted on purpose, undelivered
  failures,  \* number of failed transactions so far
  restarts   \* number of restarts so far

vars == <<db, disk, channel, status, futures, worker, closed,
          sent, stored, acked, dropped, failures, restarts>>

----------------------------------------------------------------------------
(* The tables.                                                             *)

Tables == [queued   : [Dests -> SUBSET Rows],      \* servernameevent_data
           active   : [Dests -> SUBSET Rows],      \* servercurrentevent_data
           educount : [Dests -> 0 .. MaxCount],    \* servername_educount
           count    : 0 .. MaxCount]               \* global "c"

EmptyTables == [queued   |-> [d \in Dests |-> {}],
                active   |-> [d \in Dests |-> {}],
                educount |-> [d \in Dests |-> 0],
                count    |-> 0]

(* The members of S in some order; the sequence q without its i-th element. *)
Listing(S) == CHOOSE q \in [1 .. Cardinality(S) -> S] : IsInjective(q)
Without(q, i) == SubSeq(q, 1, i - 1) \o SubSeq(q, i + 1, Len(q))

UpTo(S, k) == {r \in S : r <= k}
Below(S, k) == {r \in S : r < k}

(* queue_requests: one batch, which is written as a whole.                 *)
Queued(b, ds, r) ==
  [b EXCEPT !.queued = [d \in Dests |-> IF d \in ds THEN @[d] \cup {r} ELSE @[d]]]

(* Mutation of MarkSteps: the row leaves the queue before it is active.    *)
MarkStepsRemoveFirst(b, d, S) ==
  {[b EXCEPT !.active[d] = @ \cup Below(S, k), !.queued[d] = @ \ UpTo(S, k)] : k \in S}

(* mark_as_active: row after row, in key order, is inserted into the       *)
(* active table and then removed from the queue.                           *)
mark_as_active(b, d, S) ==
  [b EXCEPT !.active[d] = @ \cup S, !.queued[d] = @ \ S]

MarkSteps(b, d, S) ==
  {[b EXCEPT !.active[d] = @ \cup UpTo(S, k), !.queued[d] = @ \ Below(S, k)] : k \in S}
    \cup {mark_as_active(b, d, UpTo(S, k)) : k \in S}

delete_all_active_requests_for(b, d) == [b EXCEPT !.active[d] = {}]

DeleteActiveSteps(b, d) ==
  {[b EXCEPT !.active[d] = @ \ UpTo(@, k)] : k \in b.active[d]}

(* delete_all_requests_for: the active rows, then the queued ones.         *)
delete_all_requests_for(b, d) == [b EXCEPT !.active[d] = {}, !.queued[d] = {}]

DeleteAllSteps(b, d) ==
  DeleteActiveSteps(b, d)
    \cup {[b EXCEPT !.active[d] = {}, !.queued[d] = @ \ UpTo(@, k)] : k \in b.queued[d]}

(* The step leaves the tables at "final" after passing through "mids".     *)
Commit(final, mids) ==
  /\ db' = final
  /\ disk' \in {disk, final} \cup mids
  /\ stored' = [d \in Dests |-> stored[d] \cup disk'.queued[d] \cup disk'.active[d]]

----------------------------------------------------------------------------
(* What the worker keeps in memory.                                        *)

Vacant    == [kind |-> "vacant", tries |-> 0, elapsed |-> FALSE]
Running   == [kind |-> "running", tries |-> 0, elapsed |-> FALSE]
Failed(n) == [kind |-> "failed", tries |-> n, elapsed |-> FALSE]
Retrying(n) == [kind |-> "retrying", tries |-> n, elapsed |-> FALSE]

Statuses == [kind : {"vacant", "running", "failed", "retrying"},
             tries : 0 .. MaxTries, elapsed : BOOLEAN]

(* A transaction: its database rows, and whether select_edus found EDUs    *)
(* for it.  Those are not rows: they exist only in the future.             *)
Futures == [rows : SUBSET Rows, edus : BOOLEAN]
NoRequest(f) == f.rows = {} /\ ~f.edus

Msgs == [dest : Dests, row : Rows \cup {Flush}]

TypeOK ==
  /\ db \in Tables
  /\ disk \in Tables
  /\ channel \in [Shards -> Seq(Msgs)]
  /\ status \in [Dests -> Statuses]
  /\ futures \in [Dests -> Seq(Futures)]
  /\ worker \in [Shards -> {"starting", "working", "finishing", "done"}]
  /\ closed \in BOOLEAN
  /\ sent \in [Dests -> SUBSET Rows]
  /\ stored \in [Dests -> SUBSET Rows]
  /\ acked \in [Dests -> SUBSET Rows]
  /\ dropped \in [Dests -> SUBSET Rows]
  /\ failures \in 0 .. MaxFailures
  /\ restarts \in 0 .. MaxRestarts

Init ==
  /\ db = EmptyTables
  /\ disk = EmptyTables
  /\ channel = [s \in Shards |-> << >>]
  /\ status = [d \in Dests |-> Vacant]
  /\ futures = [d \in Dests |-> << >>]
  /\ worker = [s \in Shards |-> "starting"]
  /\ closed = FALSE
  /\ sent = [d \in Dests |-> {}]
  /\ stored = [d \in Dests |-> {}]
  /\ acked = [d \in Dests |-> {}]
  /\ dropped = [d \in Dests |-> {}]
  /\ failures = 0
  /\ restarts = 0

Push(d, f) == futures' = [futures EXCEPT ![d] = Append(@, f)]
Pop(d, i)  == [futures EXCEPT ![d] = Without(@, i)]

SetStatus(d, st) == status' = [status EXCEPT ![d] = st]

(* The top of work_loop: the loop ends once the channel is closed.         *)
LoopTop(s) ==
  worker' = [worker EXCEPT ![s] = IF closed THEN "finishing" ELSE "working"]

----------------------------------------------------------------------------
(* Producers: send_pdu_*, send_edu_*, flush_*, cleanup_events.             *)

(* dispatch: the message goes to the worker's channel; on a closed channel *)
(* the call fails and the row stays queued.                                *)
dispatch(ds, row) ==
  channel' = [s \in Shards |->
     IF closed THEN channel[s]
     ELSE channel[s] \o Listing({[dest |-> d, row |-> row] :
                                    d \in {e \in ds : ShardOf[e] = s}})]

(* send_pdu_servers, send_pdu_push, send_pdu_appservice: the rows of all   *)
(* destinations are inserted in one batch, then announced.                 *)
SendPdu(ds, r) ==
  /\ ds # {}
  /\ \A d \in ds : r \notin sent[d]
  /\ Commit(Queued(db, ds, r), {})
  /\ sent' = [d \in Dests |-> IF d \in ds THEN sent[d] \cup {r} ELSE sent[d]]
  /\ dispatch(ds, r)
  /\ UNCHANGED <<status, futures, worker, closed, acked, dropped, failures, restarts>>

(* send_edu_servers, send_edu_server: as above, and the key of each row is *)
(* a new value of the global counter, which is written first.              *)
SendEdu(ds, r) ==
  /\ ds # {}
  /\ \A d \in ds : r \notin sent[d]
  /\ db.count + Cardinality(ds) <= MaxCount
  /\ LET Counted(n) == [db EXCEPT !.count = @ + n]
     IN  Commit(Queued(Counted(Cardinality(ds)), ds, r),
                {Counted(n) : n \in 1 .. Cardinality(ds)})
  /\ sent' = [d \in Dests |-> IF d \in ds THEN sent[d] \cup {r} ELSE sent[d]]
  /\ dispatch(ds, r)
  /\ UNCHANGED <<status, futures, worker, closed, acked, dropped, failures, restarts>>

(* flush_servers: nothing is stored.  At most one unread flush per         *)
(* destination bounds the channel.                                         *)
FlushServers(d) ==
  /\ ~closed
  /\ [dest |-> d, row |-> Flush] \notin Range(channel[ShardOf[d]])
  /\ dispatch({d}, Flush)
  /\ UNCHANGED <<db, disk, stored, status, futures, worker, closed,
                 sent, acked, dropped, failures, restarts>>

(* A device list, receipt or presence change takes a value of the counter. *)
NextCount ==
  /\ db.count < MaxCount
  /\ Commit([db EXCEPT !.count = @ + 1], {})
  /\ UNCHANGED <<channel, status, futures, worker, closed,
                 sent, acked, dropped, failures, restarts>>

(* cleanup_events: the pusher or the application service was removed.      *)
CleanupEvents(d) ==
  /\ db.active[d] \cup db.queued[d] # {}
  /\ Commit(delete_all_requests_for(db, d), DeleteAllSteps(db, d))
  /\ dropped' = [dropped EXCEPT ![d] = @ \cup db.active[d] \cup db.queued[d]]
  /\ UNCHANGED <<channel, status, futures, worker, closed,
                 sent, acked, failures, restarts>>

----------------------------------------------------------------------------
(* The worker: startup_netburst, then the two branches of work_loop.       *)

(* The rows startup_netburst keeps: the first Keep in key order.           *)
Kept(S) == IF Keep < 0 THEN S ELSE {r \in S : Cardinality(Below(S, r)) < Keep}

DropSteps(b, s) ==
  {[b EXCEPT !.active = [d \in Dests |->
      IF ShardOf[d] = s THEN @[d] \ UpTo(@[d] \ Kept(@[d]), k[d]) ELSE @[d]]] :
    k \in [Dests -> 0 .. MaxRow]}

StartupNetburst(s) ==
  LET final == [db EXCEPT !.active = [d \in Dests |->
                  IF ShardOf[d] = s THEN Kept(@[d]) ELSE @[d]]]
      burst == {d \in Dests : ShardOf[d] = s /\ Netburst /\ final.active[d] # {}}
  IN  /\ worker[s] = "starting"
      /\ Commit(final, DropSteps(db, s))
      /\ dropped' = [d \in Dests |-> dropped[d] \cup (db.active[d] \ final.active[d])]
      /\ status' = [d \in Dests |-> IF d \in burst THEN Running ELSE status[d]]
      /\ futures' = [d \in Dests |->
                       IF d \in burst
                       THEN Append(futures[d], [rows |-> final.active[d], edus |-> FALSE])
                       ELSE futures[d]]
      /\ LoopTop(s)
      /\ UNCHANGED <<channel, closed, sent, acked, failures, restarts>>

(* select_events_current, the three outcomes.                              *)
InBackoff(d) == status[d].kind = "failed" /\ ~status[d].elapsed /\ d \notin Appservices
NotAllowed(d) == status[d].kind \in {"running", "retrying"} \/ InBackoff(d)

(* Mutation of MustRetry: a retry that is in flight is retried again.      *)
MustRetryInFlight(d) == status[d].kind \in {"failed", "retrying"} /\ ~InBackoff(d)
MustRetry(d) == status[d].kind = "failed" /\ ~InBackoff(d)

Receive(s) ==
  /\ worker[s] = "working"
  /\ channel[s] # << >>
  /\ channel' = [channel EXCEPT ![s] = Tail(@)]
  /\ LoopTop(s)
  /\ UNCHANGED <<closed, sent, acked, dropped, failures, restarts>>

(* handle_request: nothing can be done for this destination; the event     *)
(* stays queued.                                                           *)
HandleRequestBusy(s) ==
  /\ Receive(s)
  /\ NotAllowed(Head(channel[s]).dest)
  /\ UNCHANGED <<db, disk, stored, status, futures>>

(* handle_request: the previous transaction is retried from its active     *)
(* rows, the new event stays queued.  With no row left there is no         *)
(* transaction and the status is removed.                                  *)
HandleRequestRetry(s) ==
  /\ Receive(s)
  /\ LET d == Head(channel[s]).dest
         rows == db.active[d]
     IN  /\ MustRetry(d)
         /\ \/ /\ rows # {}
               /\ SetStatus(d, Retrying(status[d].tries))
               /\ Push(d, [rows |-> rows, edus |-> FALSE])
            \/ /\ rows = {}
               /\ SetStatus(d, Vacant)
               /\ UNCHANGED futures
  /\ UNCHANGED <<db, disk, stored>>

(* handle_request: a new transaction.  For a federation destination        *)
(* select_edus looks at the changes after educount and up to the current   *)
(* counter; it advances educount to the last change it saw, whether or not *)
(* that change concerned this server.                                      *)
EduWindow(d) == db.educount[d] .. db.count

HandleRequestNew(s) ==
  /\ Receive(s)
  /\ LET d      == Head(channel[s]).dest
         S      == {Head(channel[s]).row} \ {Flush}
         marked == mark_as_active(db, d, S)
     IN  /\ status[d].kind = "vacant"
         /\ SetStatus(d, Running)
         /\ \E last \in EduWindow(d), edus \in BOOLEAN :
              /\ d \in Federation \/ last = db.educount[d]
              /\ edus => last > db.educount[d]
              /\ Commit([marked EXCEPT !.educount[d] = last],
                        MarkSteps(db, d, S) \cup {marked})
              /\ Push(d, [rows |-> S, edus |-> edus])

(* handle_response_ok: every active row of the destination is deleted,     *)
(* then the next rows of the queue are sent.                               *)
(* Mutations of FirstQueued: the queue is not looked at; one row too many. *)
FirstQueuedNone(S) == {}
FirstQueuedOffByOne(S) == {r \in S : Cardinality(Below(S, r)) <= DequeueLimit}
FirstQueued(S) == {r \in S : Cardinality(Below(S, r)) < DequeueLimit}

HandleResponseOk(d, i) ==
  LET f     == futures[d][i]
      clean == delete_all_active_requests_for(db, d)
      batch == FirstQueued(db.queued[d])
  IN  /\ worker[ShardOf[d]] = "working"
      /\ i \in DOMAIN futures[d]
      /\ acked' = [acked EXCEPT ![d] = @ \cup f.rows]
      /\ Commit(mark_as_active(clean, d, batch),
                DeleteActiveSteps(db, d) \cup MarkSteps(clean, d, batch))
      /\ \/ /\ batch # {}
            /\ futures' = [Pop(d, i) EXCEPT ![d] =
                             Append(@, [rows |-> batch, edus |-> FALSE])]
            /\ UNCHANGED status
         \/ /\ batch = {}
            /\ futures' = Pop(d, i)
            /\ SetStatus(d, Vacant)
      /\ LoopTop(ShardOf[d])
      /\ UNCHANGED <<channel, closed, sent, dropped, failures, restarts>>

(* handle_response_err.  The code panics when the status is Failed; see    *)
(* OneTransaction.                                                         *)
AfterError(st) ==
  CASE st.kind = "running"  -> Failed(1)
    [] st.kind = "retrying" -> Failed(IF st.tries < MaxTries THEN st.tries + 1 ELSE st.tries)
    [] OTHER                -> st

HandleResponseErr(d, i) ==
  /\ worker[ShardOf[d]] = "working"
  /\ i \in DOMAIN futures[d]
  /\ ~NoRequest(futures[d][i])
  /\ failures < MaxFailures
  /\ failures' = failures + 1
  /\ futures' = Pop(d, i)
  /\ SetStatus(d, AfterError(status[d]))
  /\ LoopTop(ShardOf[d])
  /\ UNCHANGED <<db, disk, stored, channel, closed, sent, acked, dropped, restarts>>

(* The time since the last failure exceeds the backoff.                    *)
BackoffElapses(d) ==
  /\ status[d].kind = "failed"
  /\ ~status[d].elapsed
  /\ status' = [status EXCEPT ![d].elapsed = TRUE]
  /\ UNCHANGED <<db, disk, stored, channel, futures, worker, closed,
                 sent, acked, dropped, failures, restarts>>

----------------------------------------------------------------------------
(* Shutdown, crash, restart.                                               *)

(* interrupt() closes the channels; a worker waiting in select! wakes up.  *)
Interrupt ==
  /\ ~closed
  /\ restarts < MaxRestarts
  /\ closed' = TRUE
  /\ UNCHANGED <<db, disk, stored, channel, status, futures, worker,
                 sent, acked, dropped, failures, restarts>>

LeaveLoop(s) ==
  /\ closed
  /\ worker[s] = "working"
  /\ worker' = [worker EXCEPT ![s] = "finishing"]
  /\ UNCHANGED <<db, disk, stored, channel, status, futures, closed,
                 sent, acked, dropped, failures, restarts>>

(* finish_responses: a success deletes the active rows, an error is        *)
(* ignored, the deadline or the last response ends the worker.             *)
FinishOk(d, i) ==
  /\ worker[ShardOf[d]] = "finishing"
  /\ i \in DOMAIN futures[d]
  /\ acked' = [acked EXCEPT ![d] = @ \cup futures[d][i].rows]
  /\ Commit(delete_all_active_requests_for(db, d), DeleteActiveSteps(db, d))
  /\ futures' = Pop(d, i)
  /\ UNCHANGED <<channel, status, worker, closed, sent, dropped, failures, restarts>>

FinishErr(d, i) ==
  /\ worker[ShardOf[d]] = "finishing"
  /\ i \in DOMAIN futures[d]
  /\ ~NoRequest(futures[d][i])
  /\ futures' = Pop(d, i)
  /\ UNCHANGED <<db, disk, stored, channel, status, worker, closed,
                 sent, acked, dropped, failures, restarts>>

FinishEnd(s) ==
  /\ worker[s] = "finishing"
  /\ worker' = [worker EXCEPT ![s] = "done"]
  /\ futures' = [d \in Dests |-> IF ShardOf[d] = s THEN << >> ELSE futures[d]]
  /\ UNCHANGED <<db, disk, stored, channel, status, closed,
                 sent, acked, dropped, failures, restarts>>

Boot ==
  /\ restarts < MaxRestarts
  /\ restarts' = restarts + 1
  /\ channel' = [s \in Shards |-> << >>]
  /\ status' = [d \in Dests |-> Vacant]
  /\ futures' = [d \in Dests |-> << >>]
  /\ worker' = [s \in Shards |-> "starting"]
  /\ closed' = FALSE
  /\ UNCHANGED <<sent, acked, dropped, failures>>

(* All workers have ended: the database is closed, which writes the log    *)
(* out, and the server is started again.                                   *)
Restart ==
  /\ \A s \in Shards : worker[s] = "done"
  /\ Boot
  /\ Commit(db, {})
  /\ disk' = db

(* The process dies: what is on disk is all that is left.                  *)
Crash ==
  /\ Boot
  /\ db' = disk
  /\ UNCHANGED <<disk, stored>>

Respond(d) ==
  \E i \in DOMAIN futures[d] :
    \/ HandleResponseOk(d, i)
    \/ HandleResponseErr(d, i)

Finish(d) ==
  \E i \in DOMAIN futures[d] :
    \/ FinishOk(d, i)
    \/ FinishErr(d, i)

Next ==
  \/ \E ds \in SUBSET Federation, r \in Rows : SendPdu(ds, r)
  \/ \E d \in Appservices \cup Pushers, r \in Rows : SendPdu({d}, r)
  \/ \E ds \in SUBSET Federation, r \in Rows : SendEdu(ds, r)
  \/ \E d \in Federation : FlushServers(d)
  \/ NextCount
  \/ \E d \in Appservices \cup Pushers : CleanupEvents(d)
  \/ \E s \in Shards :
       \/ StartupNetburst(s)
       \/ HandleRequestBusy(s)
       \/ HandleRequestRetry(s)
       \/ HandleRequestNew(s)
       \/ LeaveLoop(s)
       \/ FinishEnd(s)
  \/ \E d \in Dests : Respond(d) \/ Finish(d) \/ BackoffElapses(d)
  \/ Interrupt
  \/ Restart
  \/ Crash

Spec == Init /\ [][Next]_vars

(* A worker that can take a step takes one, and select! picks among the    *)
(* ready branches at random, so neither starves.  A request ends, with an  *)
(* answer or a timeout; failures are bounded, so the last ones succeed.    *)
(* A server that was shut down is started again.  A destination is         *)
(* retried only when something is sent to it: the last conjunct is the     *)
(* continuing traffic (typing, receipts, presence) that flushes it.        *)
Fairness ==
  /\ \A s \in Shards :
       /\ WF_vars(StartupNetburst(s))
       /\ WF_vars(HandleRequestBusy(s) \/ HandleRequestRetry(s) \/ HandleRequestNew(s))
       /\ WF_vars(LeaveLoop(s))
       /\ WF_vars(FinishEnd(s))
  /\ \A d \in Dests : WF_vars(Respond(d)) /\ WF_vars(BackoffElapses(d))
  /\ \A d \in Federation : WF_vars(FlushServers(d))
  /\ WF_vars(Restart)

FairSpec == Spec /\ Fairness

----------------------------------------------------------------------------
(* Properties.                                                             *)

(* A destination never has two transactions in flight, and a worker's      *)
(* status says "running" or "retrying" exactly while one is.  So the panic *)
(* of handle_response_err, "Request that was not even running failed?!",   *)
(* is unreachable.                                                         *)
OneTransaction ==
  \A d \in Dests :
    /\ Len(futures[d]) <= 1
    /\ worker[ShardOf[d]] = "working" =>
         (futures[d] # << >> <=> status[d].kind \in {"running", "retrying"})

(* handle_response_ok and finish_responses delete every active row of the  *)
(* destination, whatever the transaction contained: that is sound because  *)
(* the active rows of a destination with a transaction in flight are all   *)
(* part of that transaction.                                               *)
ActiveCovered ==
  \A d \in Dests :
    futures[d] # << >> => db.active[d] \subseteq UNION {f.rows : f \in Range(futures[d])}

(* A row that has reached the disk stays there, queued or active, until a  *)
(* transaction that contained it has succeeded or it was discarded on      *)
(* purpose: by startup_netburst_keep or with its pusher or appservice.     *)
(* No order of writes, crashes and restarts loses it.                      *)
NothingLost ==
  \A d \in Dests :
    stored[d] \subseteq disk.queued[d] \cup disk.active[d] \cup acked[d] \cup dropped[d]

(* A transaction is retried, and burst after a restart, with all active    *)
(* rows of its destination; there are never more of them than              *)
(* DEQUEUE_LIMIT, which is below the PDU_LIMIT of a transaction.           *)
TransactionLimit ==
  \A d \in Dests :
    /\ Cardinality(db.active[d]) <= DequeueLimit
    /\ Cardinality(disk.active[d]) <= DequeueLimit

(* The selection window of select_edus is never negative (its              *)
(* debug_assert), whatever part of the log a crash has left.               *)
SinceRange ==
  \A b \in {db, disk} : \A d \in Dests : b.educount[d] <= b.count

(* Every row for a remote server that has reached the disk is eventually   *)
(* delivered or discarded, through failures, shutdowns and crashes.        *)
Delivery ==
  \A d \in Federation, r \in Rows :
    r \in disk.queued[d] \cup disk.active[d] ~> r \in acked[d] \cup dropped[d]

=============================================================================
