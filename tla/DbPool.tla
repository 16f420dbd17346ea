------------------------------- MODULE DbPool -------------------------------
(***************************************************************************)
(* The frontend pool of the database: tasks that miss the block cache put  *)
(* a command into a bounded queue and wait on a oneshot channel; threads   *)
(* take the commands, query RocksDB and answer.  Closing the pool closes   *)
(* the queues; the threads serve what is still queued and then leave.      *)
(*                                                                         *)
(* Source: src/src/database/pool.rs, src/src/database/engine/context.rs.   *)
(* The queues are async_channel's and the answers futures' oneshot.        *)
(***************************************************************************)
EXTENDS Integers, Sequences, FiniteSets

CONSTANTS
  Cmds,       \* the commands, one per querying task
  NQueues,    \* hardware queues of the block device, at least one
  NThreads,   \* total_workers of configure()
  QueueCap    \* capacity of a queue

ASSUME PoolAssumption ==
  NQueues \in Nat \ {0} /\ NThreads \in Nat /\ QueueCap \in Nat \ {0}

VARIABLES
  queue,    \* queue[q]: the commands waiting in channel q
  thread,   \* thread[t]: [at |-> wait | work | release | gone | stuck, cmd]
  closed,   \* the channels are closed
  cmd       \* cmd[c]: [at |-> idle | send | recv | answered | failed | dropped, q]

poolVars == <<queue, thread, closed, cmd>>

Channels == 0 .. NQueues - 1
Threads == 0 .. NThreads - 1
NoCmd == "none"

PoolInit ==
  /\ queue = [q \in Channels |-> <<>>]
  /\ thread = [t \in Threads |-> [at |-> "wait", cmd |-> NoCmd]]
  /\ closed = FALSE
  /\ cmd = [c \in Cmds |-> [at |-> "idle", q |-> 0]]

\* spawn_one binds thread id to the receiver of one queue for good.
group(t) == t % NQueues

\* The commands whose Arc<Map> keeps the engine, and so the pool, alive: the
\* ones a channel or a thread holds, whoever still waits for their answer.
HeldCmds ==
  UNION {{queue[q][i] : i \in 1 .. Len(queue[q])} : q \in Channels}
    \cup {thread[t].cmd : t \in {u \in Threads : thread[u].at \in {"work", "release"}}}

Waiting(c) == cmd[c].at \in {"send", "recv"}

-----------------------------------------------------------------------------
\* select_queue: the queue of the core the task happens to run on.
execute(c) ==
  /\ cmd[c].at = "idle"
  /\ \E q \in Channels : cmd' = [cmd EXCEPT ![c] = [at |-> "send", q |-> q]]
  /\ UNCHANGED <<queue, thread, closed>>

\* queue.send(cmd).await: fails on a closed channel, waits on a full one.
Send(c) ==
  LET q == cmd[c].q IN
  /\ cmd[c].at = "send"
  /\ closed \/ Len(queue[q]) < QueueCap
  /\ queue' = IF closed THEN queue ELSE [queue EXCEPT ![q] = Append(@, c)]
  /\ cmd' = [cmd EXCEPT ![c].at = IF closed THEN "failed" ELSE "recv"]
  /\ UNCHANGED <<thread, closed>>

\* worker_wait: a closed channel still yields what it holds.
worker_wait(t) ==
  LET q == group(t) IN
  /\ thread[t].at = "wait"
  /\ \/ /\ queue[q] # <<>>
        /\ thread' = [thread EXCEPT ![t] = [at |-> "work", cmd |-> Head(queue[q])]]
        /\ queue' = [queue EXCEPT ![q] = Tail(@)]
     \/ /\ queue[q] = <<>> /\ closed
        /\ thread' = [thread EXCEPT ![t].at = "gone"]
        /\ UNCHANGED queue
  /\ UNCHANGED <<closed, cmd>>

\* A defect for comparison: the test for a dropped future inverted.
worker_handle_Inverted(t) ==
  LET c == thread[t].cmd IN
  /\ thread[t].at = "work"
  /\ cmd' = [cmd EXCEPT ![c].at = IF @ = "dropped" THEN "answered" ELSE @]
  /\ thread' = [thread EXCEPT ![t].at = "release"]
  /\ UNCHANGED <<queue, closed>>

\* worker_handle, handle_get, handle_batch, handle_iter: nothing is queried for
\* a future that was dropped; otherwise the answer is sent.
worker_handle(t) ==
  LET c == thread[t].cmd IN
  /\ thread[t].at = "work"
  /\ cmd' = [cmd EXCEPT ![c].at = IF @ = "dropped" THEN @ ELSE "answered"]
  /\ thread' = [thread EXCEPT ![t].at = "release"]
  /\ UNCHANGED <<queue, closed>>

\* The command is dropped at the end of handle_*.  When its Arc<Map> was the last
\* reference to the engine, this thread runs the drop of Context, and with it
\* close(), which joins this thread itself: it never gets past that join.
Release(t, last) ==
  /\ thread[t].at = "release"
  /\ thread' = [thread EXCEPT ![t] = [at |-> IF last THEN "stuck" ELSE "wait", cmd |-> NoCmd]]
  /\ closed' = (closed \/ last)
  /\ UNCHANGED <<queue, cmd>>

PoolWorker(t, last) == worker_wait(t) \/ worker_handle(t) \/ Release(t, last)

\* Dropping the futures of some commands.  One still in send() was never queued.
Dropped(cs) ==
  [c \in Cmds |->
    IF c \in cs /\ Waiting(c) THEN [cmd[c] EXCEPT !.at = "dropped"] ELSE cmd[c]]
=============================================================================
