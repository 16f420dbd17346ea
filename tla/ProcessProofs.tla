---------------------------- MODULE ProcessProofs ---------------------------
(***************************************************************************)
(* Proofs about the process.  Its life (Lifecycle): for any number of      *)
(* queues and threads of the database pool, and any number of requests,    *)
(* signals and faults.  Its start (Migrations): for any database that the  *)
(* assumption allows, any users, events, receipts and profile fields, and  *)
(* any number of interrupted starts.                                       *)
(***************************************************************************)
EXTENDS Lifecycle, Migrations, TLAPS

(* The types of the pool.                                                  *)
CmdType == [at : {"idle", "send", "recv", "answered", "failed", "dropped"}, q : Channels]
ThreadType == [at : {"wait", "work", "release", "gone", "stuck"}, cmd : Cmds \cup {NoCmd}]

PoolTypes ==
  /\ queue \in [Channels -> Seq(Cmds)]
  /\ thread \in [Threads -> ThreadType]
  /\ closed \in BOOLEAN
  /\ cmd \in [Cmds -> CmdType]
  /\ \A t \in Threads : thread[t].at \in {"work", "release"} => thread[t].cmd \in Cmds

(* Where the parts of the process stand to each other.                     *)
Stages ==
  /\ worker \in [Services -> {"none", "run", "ok", "error", "panic", "out"}]
  /\ request \in [Requests -> {"none", "run", "answered", "unavailable", "lost"}]
  /\ manager \in {"none", "loop", "delay", "ok", "err"}
  /\ manager = "ok" => \A s \in Services : worker[s] = "out"
  /\ manager = "delay" => delayed \in Services
  /\ main = "migrate" => manager = "none"
  /\ main = "exit" => manager \in {"ok", "err"}
  /\ main \in {"stop", "join", "exit"} => listener \in {"done", "broken"}

(* The pool closes when nothing is left that could use it, and a thread    *)
(* leaves only a pool that is closed.                                      *)
Quiet ==
  /\ main \in {"exit", "down"}
  /\ \A s \in Services : worker[s] # "run"
  /\ \A r \in Requests : request[r] # "run"
ClosedLast ==
  /\ closed => Quiet
  /\ \A t \in Threads : thread[t].at \in {"gone", "stuck"} => closed

(* A command that waits for its answer is in a queue or with a thread.     *)
Queued(c) == \E q \in Channels : \E i \in 1 .. Len(queue[q]) : queue[q][i] = c
AtWork(c) == \E t \in Threads : thread[t].at = "work" /\ thread[t].cmd = c
Kept == \A c \in Cmds : cmd[c].at = "recv" => Queued(c) \/ AtWork(c)

Capacity == \A q \in Channels : Len(queue[q]) <= QueueCap

IInv == PoolTypes /\ Stages /\ ClosedLast /\ Kept /\ Capacity

(* While a request runs, the pool is open, all its threads are there, and  *)
(* the command the request waits for is in a queue or being handled.       *)
PoolServes ==
  \A r \in Requests : request[r] = "run" =>
    /\ ~ closed
    /\ \A t \in Threads : thread[t].at \in {"wait", "work", "release"}
    /\ cmd[r].at = "recv" => Queued(r) \/ AtWork(r)

LEMMA NobodyHolds == (Holders = {} <=> Quiet) /\ (Holders' = {} <=> Quiet')
  BY Zenon DEF Holders, Quiet

-----------------------------------------------------------------------------
(* The pool.                                                               *)

PoolPart == PoolTypes /\ Kept /\ Capacity

LEMMA PoolSame ==
  ASSUME PoolPart, UNCHANGED <<queue, thread, cmd>>, closed' \in BOOLEAN
  PROVE  PoolPart'
  BY DEF PoolPart, PoolTypes, Kept, Capacity, Queued, AtWork

LEMMA GroupType == ASSUME NEW t \in Threads PROVE group(t) \in Channels
  BY PoolAssumption DEF Threads, Channels, group

LEMMA ExecutePart ==
  ASSUME PoolPart, NEW c \in Cmds, execute(c)
  PROVE  PoolPart'
<1>1. PICK q \in Channels : cmd' = [cmd EXCEPT ![c] = [at |-> "send", q |-> q]]
  BY Zenon DEF execute
<1>2. UNCHANGED <<queue, thread, closed>>
  BY Zenon DEF execute
<1>3. cmd' \in [Cmds -> CmdType]
  BY Zenon, <1>1 DEF PoolPart, PoolTypes, CmdType
<1> QED BY <1>1, <1>2, <1>3 DEF PoolPart, PoolTypes, Kept, Capacity, Queued, AtWork

LEMMA SendPart ==
  ASSUME PoolPart, NEW c \in Cmds, Send(c)
  PROVE  PoolPart'
<1> DEFINE q == cmd[c].q
<1>1. q \in Channels /\ queue[q] \in Seq(Cmds)
  BY Zenon DEF PoolPart, PoolTypes, CmdType
<1>2. CASE closed
  <2>1. queue' = queue /\ thread' = thread /\ closed' = closed
        /\ cmd' = [cmd EXCEPT ![c].at = "failed"]
    BY Zenon, <1>2 DEF Send
  <2>2. cmd' \in [Cmds -> CmdType]
    BY Zenon, <2>1 DEF PoolPart, PoolTypes, CmdType
  <2> QED BY <2>1, <2>2 DEF PoolPart, PoolTypes, Kept, Capacity, Queued, AtWork
<1>3. CASE ~ closed
  <2>1. /\ Len(queue[q]) < QueueCap
        /\ queue' = [queue EXCEPT ![q] = Append(queue[q], c)]
        /\ cmd' = [cmd EXCEPT ![c].at = "recv"]
        /\ UNCHANGED <<thread, closed>>
    BY Zenon, <1>3 DEF Send
  <2>2. /\ Append(queue[q], c) \in Seq(Cmds)
        /\ Len(queue[q]) \in Nat
        /\ Len(Append(queue[q], c)) = Len(queue[q]) + 1
        /\ Append(queue[q], c)[Len(queue[q]) + 1] = c
        /\ \A i \in 1 .. Len(queue[q]) : Append(queue[q], c)[i] = queue[q][i]
    BY <1>1
  <2> HIDE DEF q
  <2>3. queue' \in [Channels -> Seq(Cmds)] /\ queue'[q] = Append(queue[q], c)
        /\ \A p \in Channels \ {q} : queue'[p] = queue[p]
    BY Zenon, <1>1, <2>1, <2>2 DEF PoolPart, PoolTypes
  <2>4. cmd' \in [Cmds -> CmdType] /\ \A d \in Cmds \ {c} : cmd'[d] = cmd[d]
    BY Zenon, <2>1 DEF PoolPart, PoolTypes, CmdType
  <2>5. PoolTypes'
    BY Zenon, <2>1, <2>3, <2>4 DEF PoolPart, PoolTypes
  <2>6. Capacity'
    BY <1>1, <2>1, <2>2, <2>3, PoolAssumption DEF PoolPart, Capacity
  <2>7. \A d \in Cmds : Queued(d) => Queued(d)'
    <3> SUFFICES ASSUME NEW d \in Cmds, NEW p \in Channels, NEW i \in 1 .. Len(queue[p]),
                        queue[p][i] = d
                 PROVE  Queued(d)'
      BY Zenon DEF Queued
    <3>1. CASE p # q
      BY Zenon, <2>3, <3>1 DEF Queued
    <3>2. CASE p = q
      <4>1. i \in 1 .. Len(queue'[q]) /\ queue'[q][i] = d
        BY <2>2, <2>3, <3>2
      <4> QED BY Zenon, <1>1, <4>1 DEF Queued
    <3> QED BY Zenon, <3>1, <3>2
  <2>8. Queued(c)'
    <3>1. Len(queue[q]) + 1 \in 1 .. Len(queue'[q])
      BY <2>2, <2>3
    <3> QED BY Zenon, <1>1, <2>2, <2>3, <3>1 DEF Queued
  <2>9. Kept'
    BY Zenon, <2>1, <2>4, <2>7, <2>8 DEF PoolPart, Kept, AtWork
  <2> QED BY Zenon, <2>5, <2>6, <2>9 DEF PoolPart
<1> QED BY Zenon, <1>2, <1>3

LEMMA WaitPart ==
  ASSUME PoolPart, NEW t \in Threads, worker_wait(t)
  PROVE  PoolPart'
<1> DEFINE q == group(t)
<1>1. q \in Channels /\ queue[q] \in Seq(Cmds) /\ thread[t].at = "wait" /\ UNCHANGED <<closed, cmd>>
  BY Zenon, GroupType DEF PoolPart, PoolTypes, worker_wait
<1>2. CASE queue[q] = << >>
  <2>1. thread' = [thread EXCEPT ![t].at = "gone"] /\ UNCHANGED queue
    BY Zenon, <1>2 DEF worker_wait
  <2>2. thread' \in [Threads -> ThreadType]
        /\ \A u \in Threads : thread'[u].at \in {"work", "release"} => thread'[u] = thread[u]
        /\ \A v \in Threads : thread[v].at = "work" => thread'[v] = thread[v]
    BY Zenon, <1>1, <2>1 DEF PoolPart, PoolTypes, ThreadType
  <2>3. PoolTypes' /\ Capacity'
    BY Zenon, <1>1, <2>1, <2>2 DEF PoolPart, PoolTypes, Capacity
  <2>4. Kept'
    BY <1>1, <2>1, <2>2 DEF PoolPart, Kept, Queued, AtWork
  <2> QED BY Zenon, <2>3, <2>4 DEF PoolPart
<1>3. CASE queue[q] # << >>
  <2>0. PICK c \in Cmds : c = Head(queue[q])
    BY <1>1, <1>3
  <2>1. /\ thread' = [thread EXCEPT ![t] = [at |-> "work", cmd |-> c]]
        /\ queue' = [queue EXCEPT ![q] = Tail(queue[q])]
    BY Zenon, <1>3, <2>0 DEF worker_wait
  <2>2. /\ c = queue[q][1] /\ Tail(queue[q]) \in Seq(Cmds)
        /\ Len(queue[q]) \in Nat \ {0} /\ Len(Tail(queue[q])) = Len(queue[q]) - 1
        /\ \A i \in 1 .. Len(queue[q]) - 1 : Tail(queue[q])[i] = queue[q][i + 1]
    BY <1>1, <1>3, <2>0
  <2> HIDE DEF q
  <2>3. queue' \in [Channels -> Seq(Cmds)] /\ queue'[q] = Tail(queue[q])
        /\ \A p \in Channels \ {q} : queue'[p] = queue[p]
    BY Zenon, <1>1, <2>1, <2>2 DEF PoolPart, PoolTypes
  <2>4. thread' \in [Threads -> ThreadType] /\ thread'[t] = [at |-> "work", cmd |-> c]
        /\ \A u \in Threads \ {t} : thread'[u] = thread[u]
    BY Zenon, <2>1, <2>2 DEF PoolPart, PoolTypes, ThreadType
  <2>a. \A u \in Threads : thread'[u].at \in {"work", "release"} => thread'[u].cmd \in Cmds
    BY <2>4 DEF PoolPart, PoolTypes
  <2>5. PoolTypes'
    BY Zenon, <1>1, <2>a, <2>3, <2>4 DEF PoolPart, PoolTypes
  <2>6. Capacity'
    BY <1>1, <2>2, <2>3, PoolAssumption DEF PoolPart, Capacity
  <2>7. \A d \in Cmds : AtWork(d) => AtWork(d)'
    BY Zenon, <1>1, <2>4 DEF AtWork
  <2>8. AtWork(c)'
    BY <2>4 DEF AtWork
  <2>9. \A d \in Cmds : Queued(d) => Queued(d)' \/ d = c
    <3> SUFFICES ASSUME NEW d \in Cmds, NEW p \in Channels, NEW i \in 1 .. Len(queue[p]),
                        queue[p][i] = d, d # c
                 PROVE  Queued(d)'
      BY Zenon DEF Queued
    <3>1. CASE p # q
      BY Zenon, <2>3, <3>1 DEF Queued
    <3>2. CASE p = q
      <4> DEFINE j == i - 1
      <4>1. j \in 1 .. Len(queue[q]) - 1 /\ j + 1 = i
        BY <2>2, <3>2
      <4>2. j \in 1 .. Len(queue'[q]) /\ queue'[q][j] = d
        BY Zenon, <2>2, <2>3, <3>2, <4>1
      <4> QED BY Zenon, <1>1, <4>2 DEF Queued
    <3> QED BY Zenon, <3>1, <3>2
  <2>10. Kept'
    BY Zenon, <1>1, <2>7, <2>8, <2>9 DEF PoolPart, Kept
  <2> QED BY Zenon, <2>5, <2>6, <2>10 DEF PoolPart
<1> QED BY Zenon, <1>2, <1>3

LEMMA HandlePart ==
  ASSUME PoolPart, NEW t \in Threads, worker_handle(t)
  PROVE  PoolPart'
<1>1. PICK c \in Cmds : c = thread[t].cmd
  BY Zenon DEF PoolPart, PoolTypes, worker_handle
<1>2. /\ cmd' = [cmd EXCEPT ![c].at = IF @ = "dropped" THEN @ ELSE "answered"]
      /\ thread' = [thread EXCEPT ![t].at = "release"]
      /\ UNCHANGED <<queue, closed>>
  BY Zenon, <1>1 DEF worker_handle
<1>3. /\ cmd' \in [Cmds -> CmdType] /\ cmd'[c].at # "recv"
      /\ \A d \in Cmds \ {c} : cmd'[d] = cmd[d]
  BY Zenon, <1>2 DEF PoolPart, PoolTypes, CmdType
<1>4. /\ thread' \in [Threads -> ThreadType] /\ thread'[t].cmd = c
      /\ \A u \in Threads \ {t} : thread'[u] = thread[u]
  BY Zenon, <1>1, <1>2 DEF PoolPart, PoolTypes, ThreadType
<1>5. PoolTypes'
  <2>1. \A u \in Threads : thread'[u].at \in {"work", "release"} => thread'[u].cmd \in Cmds
    BY Zenon, <1>4 DEF PoolPart, PoolTypes
  <2> QED BY Zenon, <1>2, <1>3, <1>4, <2>1 DEF PoolPart, PoolTypes
<1>6. \A d \in Cmds \ {c} : (Queued(d) => Queued(d)') /\ (AtWork(d) => AtWork(d)')
  BY Zenon, <1>1, <1>2, <1>4 DEF Queued, AtWork
<1>7. Kept'
  BY Zenon, <1>3, <1>6 DEF PoolPart, Kept
<1>8. Capacity'
  BY Zenon, <1>2 DEF PoolPart, Capacity
<1> QED BY Zenon, <1>5, <1>7, <1>8 DEF PoolPart

LEMMA ReleasePart ==
  ASSUME PoolPart, NEW t \in Threads, NEW last \in BOOLEAN, Release(t, last)
  PROVE  PoolPart'
<1>1. /\ thread[t].at = "release" /\ UNCHANGED <<queue, cmd>>
      /\ thread' = [thread EXCEPT ![t] = [at |-> IF last THEN "stuck" ELSE "wait", cmd |-> NoCmd]]
  BY Zenon DEF Release
<1>2. /\ thread' \in [Threads -> ThreadType]
      /\ \A u \in Threads : thread'[u].at \in {"work", "release"} => thread'[u] = thread[u]
      /\ \A v \in Threads : thread[v].at = "work" => thread'[v] = thread[v]
  BY Zenon, <1>1 DEF PoolPart, PoolTypes, ThreadType
<1>3. closed' \in BOOLEAN
  BY Zenon DEF Release
<1>4. PoolTypes' /\ Capacity'
  BY Zenon, <1>1, <1>2, <1>3 DEF PoolPart, PoolTypes, Capacity
<1>5. Kept'
  BY <1>1, <1>2 DEF PoolPart, Kept, Queued, AtWork
<1> QED BY Zenon, <1>4, <1>5 DEF PoolPart

LEMMA DropPart ==
  ASSUME PoolPart, NEW cs, cmd' = Dropped(cs), UNCHANGED <<queue, thread>>, closed' \in BOOLEAN
  PROVE  PoolPart'
<1>1. /\ cmd' \in [Cmds -> CmdType]
      /\ \A c \in Cmds : cmd'[c].at = "recv" => cmd[c].at = "recv"
  BY Zenon DEF PoolPart, PoolTypes, CmdType, Dropped
<1>2. PoolTypes' /\ Capacity'
  BY Zenon, <1>1 DEF PoolPart, PoolTypes, Capacity
<1>3. Kept'
  BY <1>1 DEF PoolPart, Kept, Queued, AtWork
<1> QED BY Zenon, <1>2, <1>3 DEF PoolPart

-----------------------------------------------------------------------------
(* The steps that leave the pool, the workers and the requests alone.      *)

Around == Stages /\ ClosedLast

LEMMA SameAround ==
  ASSUME Around, UNCHANGED <<thread, closed, worker, manager, delayed, request, main, listener>>
  PROVE  Around'
  BY Zenon DEF Around, Stages, ClosedLast, Quiet

LEMMA QuietSteps ==
  ASSUME IInv,
         \/ OsSignal \/ AdminCommand \/ Announcements
         \/ \E c \in Callers : ShutdownStep(c)
         \/ \E x \in Tasks : WaitLoop(x)
  PROVE  IInv'
<1>1. UNCHANGED <<poolVars, workerVars, request, main, listener>>
  BY Zenon DEF OsSignal, AdminCommand, Announcements, ShutdownStep, WaitLoop
<1>2. PoolPart'
  BY Zenon, <1>1, PoolSame DEF IInv, PoolPart, PoolTypes, poolVars
<1>3. Around'
  BY Zenon, <1>1, SameAround DEF IInv, Around, poolVars, workerVars
<1> QED BY Zenon, <1>2, <1>3 DEF IInv, PoolPart, Around

LEMMA ListenerSteps ==
  ASSUME IInv, HandleShutdown \/ ListenerEnds \/ ListenerFails
  PROVE  IInv'
<1>1. UNCHANGED <<poolVars, workerVars, request, main>>
      /\ (listener \in {"done", "broken"} => listener' = listener)
  BY Zenon DEF HandleShutdown, ListenerEnds, ListenerFails
<1>2. PoolPart'
  BY Zenon, <1>1, PoolSame DEF IInv, PoolPart, PoolTypes, poolVars
<1>3. Around'
  BY Zenon, <1>1 DEF IInv, Around, Stages, ClosedLast, Quiet, poolVars, workerVars
<1> QED BY Zenon, <1>2, <1>3 DEF IInv, PoolPart, Around

-----------------------------------------------------------------------------
(* The steps of the pool's threads and of the requests.                    *)

LEMMA PoolSteps ==
  ASSUME IInv, NEW t \in Threads, Pool(t)
  PROVE  IInv'
<1> DEFINE last == Holders = {} /\ HeldCmds \subseteq {thread[t].cmd}
<1>1. last \in BOOLEAN /\ (last => Quiet)
  BY Zenon, NobodyHolds
<1>2. PoolWorker(t, last) /\ UNCHANGED <<workerVars, listener, request, main>>
  BY Zenon DEF Pool
<1>3. PoolPart
  BY Zenon DEF IInv, PoolPart
<1> HIDE DEF last
<1>4. PoolPart'
  BY Zenon, <1>1, <1>2, <1>3, WaitPart, HandlePart, ReleasePart DEF PoolWorker
<1>5. Stages'
  BY Zenon, <1>2 DEF IInv, Stages, workerVars
<1>6. closed' = closed \/ closed' = (closed \/ last)
  BY Zenon, <1>2 DEF PoolWorker, worker_wait, worker_handle, Release
<1>7. closed' => Quiet'
  BY Zenon, <1>1, <1>2, <1>6 DEF IInv, ClosedLast, Quiet, workerVars
<1>8. \A u \in Threads : thread'[u].at \in {"gone", "stuck"} => closed'
  <2>1. CASE worker_wait(t)
    BY <2>1, <1>3 DEF worker_wait, IInv, ClosedLast, PoolPart, PoolTypes, ThreadType
  <2>2. CASE worker_handle(t)
    BY Zenon, <2>2, <1>3 DEF worker_handle, IInv, ClosedLast, PoolPart, PoolTypes, ThreadType
  <2>3. CASE Release(t, last)
    BY Zenon, <2>3, <1>1, <1>3 DEF Release, IInv, ClosedLast, PoolPart, PoolTypes, ThreadType
  <2> QED BY Zenon, <1>2, <2>1, <2>2, <2>3 DEF PoolWorker
<1> QED BY Zenon, <1>4, <1>5, <1>7, <1>8 DEF IInv, PoolPart, ClosedLast

LEMMA QuerySteps ==
  ASSUME IInv, NEW r \in Requests, Query(r)
  PROVE  IInv'
<1>1. PoolPart'
  BY Zenon, ExecutePart, SendPart DEF IInv, PoolPart, Query, Requests
<1>2. UNCHANGED <<thread, closed, workerVars, listener, request, main>>
  BY Zenon DEF Query, execute, Send
<1>3. Around'
  BY Zenon, <1>2, SameAround DEF IInv, Around, workerVars
<1> QED BY Zenon, <1>1, <1>3 DEF IInv, PoolPart, Around

LEMMA HandleSteps ==
  ASSUME IInv, NEW r \in Requests, Handle(r)
  PROVE  IInv'
<1>1. UNCHANGED <<poolVars, workerVars, listener, main>>
      /\ request' \in [Requests -> {"none", "run", "answered", "unavailable", "lost"}]
  BY Zenon DEF Handle, IInv, Stages
<1>2. PoolPart'
  BY Zenon, <1>1, PoolSame DEF IInv, PoolPart, PoolTypes, poolVars
<1>3. ~ closed
  BY Zenon DEF Handle, IInv, Stages, ClosedLast, Quiet
<1>4. Around'
  BY Zenon, <1>1, <1>3 DEF IInv, Around, Stages, ClosedLast, Quiet, poolVars, workerVars
<1> QED BY Zenon, <1>2, <1>4 DEF IInv, PoolPart, Around

LEMMA EndSteps ==
  ASSUME IInv, NEW r \in Requests, Reply(r) \/ Deadline(r)
  PROVE  IInv'
<1>1. CASE Deadline(r) /\ UNCHANGED <<poolVars, serverVars, workerVars, listener, request, main, bounds>>
  <2>1. PoolPart'
    BY Zenon, <1>1, PoolSame DEF IInv, PoolPart, PoolTypes, poolVars
  <2>2. Around'
    BY Zenon, <1>1, SameAround DEF IInv, Around, poolVars, workerVars
  <2> QED BY Zenon, <2>1, <2>2 DEF IInv, PoolPart, Around
<1>2. ASSUME NEW response \in {"answered", "unavailable"}, RequestEnds(r, response),
             UNCHANGED cmd \/ cmd' = Dropped({r})
      PROVE  IInv'
  <2>1. /\ request' = [request EXCEPT ![r] = response]
        /\ UNCHANGED <<queue, thread, workerVars, listener, main>>
        /\ closed' = (closed \/ Closing) /\ request[r] = "run"
    BY Zenon, <1>2 DEF RequestEnds, DropsContext
  <2>2. PoolPart'
    BY Zenon, <1>2, <2>1, PoolSame, DropPart DEF IInv, PoolPart
  <2>3. Stages'
    BY Zenon, <1>2, <2>1 DEF IInv, Stages, workerVars
  <2>4. closed' => Quiet'
    BY Zenon, <2>1, NobodyHolds DEF IInv, ClosedLast, Quiet, Closing
  <2>5. \A t \in Threads : thread'[t].at \in {"gone", "stuck"} => closed'
    BY Zenon, <2>1 DEF IInv, ClosedLast
  <2> QED BY Zenon, <2>2, <2>3, <2>4, <2>5 DEF IInv, PoolPart, ClosedLast
<1> QED BY Zenon, <1>1, <1>2 DEF Reply, Deadline

-----------------------------------------------------------------------------
(* The steps of the workers, of their manager and of the main task.        *)

LEMMA WorkerSteps ==
  ASSUME IInv, NEW s \in Services, WorkerEnds(s) \/ WorkerFails(s)
  PROVE  IInv'
<1>1. PICK result \in {"ok", "error", "panic"} : Ended(s, result)
  BY Zenon DEF WorkerEnds, WorkerFails
<1>2. /\ worker[s] = "run" /\ worker' = [worker EXCEPT ![s] = result]
      /\ UNCHANGED <<queue, thread, cmd, manager, delayed, listener, request, main>>
      /\ closed' = (closed \/ Closing)
  BY Zenon, <1>1 DEF Ended, WorkerEnds, WorkerFails, DropsContext
<1>3. PoolPart'
  BY Zenon, <1>2, PoolSame DEF IInv, PoolPart
<1>4. Stages'
  BY Zenon, <1>2 DEF IInv, Stages
<1>5. closed' => Quiet'
  BY Zenon, <1>2, NobodyHolds DEF IInv, ClosedLast, Quiet, Closing
<1>6. \A t \in Threads : thread'[t].at \in {"gone", "stuck"} => closed'
  BY Zenon, <1>2 DEF IInv, ClosedLast
<1> QED BY Zenon, <1>3, <1>4, <1>5, <1>6 DEF IInv, PoolPart, ClosedLast

LEMMA ManagerSteps ==
  ASSUME IInv, ManagerStep
  PROVE  IInv'
<1>1. UNCHANGED <<poolVars, listener, request, main>>
  BY Zenon DEF ManagerStep, JoinNone, RestartWorker, JoinNext, managerFrame
<1>2. PoolPart'
  BY Zenon, <1>1, PoolSame DEF IInv, PoolPart, PoolTypes, poolVars
<1>3. CASE JoinNone
  BY Zenon, <1>1, <1>2, <1>3 DEF IInv, PoolPart, Stages, ClosedLast, Quiet, poolVars, JoinNone
<1>4. ASSUME NEW s \in Services, JoinNext(s) PROVE IInv'
  <2>1. /\ worker' = [worker EXCEPT ![s] = "out"]
        /\ manager' \in {"loop", "err", "delay"} /\ manager = "loop"
        /\ manager' = "delay" => delayed' = s
    BY Zenon, <1>4 DEF JoinNext
  <2>2. Stages'
    BY Zenon, <1>1, <1>4, <2>1 DEF IInv, Stages
  <2>3. ClosedLast'
    BY Zenon, <1>1, <2>1 DEF IInv, Stages, ClosedLast, Quiet, poolVars
  <2> QED BY Zenon, <1>2, <2>2, <2>3 DEF IInv, PoolPart
<1>5. CASE RestartWorker
  <2>1. manager = "delay" /\ delayed \in Services /\ main # "down"
    BY Zenon, <1>5 DEF IInv, Stages, RestartWorker, ManagerStep
  <2>2. /\ manager' \in {"loop", "err"}
        /\ worker' = worker \/ worker' = [worker EXCEPT ![delayed] = "run"]
    BY Zenon, <1>5 DEF RestartWorker, Started
  <2>3. main \notin {"migrate", "exit"}
    BY Zenon, <2>1 DEF IInv, Stages
  <2>4. Stages'
    BY Zenon, <1>1, <2>1, <2>2, <2>3 DEF IInv, Stages
  <2>5. ~ closed
    BY Zenon, <2>1, <2>3 DEF IInv, ClosedLast, Quiet
  <2>6. ClosedLast'
    BY Zenon, <1>1, <2>5 DEF IInv, ClosedLast, poolVars
  <2> QED BY Zenon, <1>2, <2>4, <2>6 DEF IInv, PoolPart
<1> QED BY Zenon, <1>3, <1>4, <1>5 DEF ManagerStep

LEMMA StartSteps ==
  ASSUME IInv, Migrate \/ StartupFails \/ StartWorkers \/ Run \/ Running
  PROVE  IInv'
<1>1. UNCHANGED <<queue, thread, closed, cmd, request, delayed>>
      /\ main \in {"migrate", "start", "startup"}
      /\ main' \in {"start", "failed", "startup", "run"}
  BY Zenon DEF Migrate, StartupFails, StartWorkers, Run, Running, mainFrame, poolVars, workerVars, IInv, Stages
<1>2. PoolPart'
  BY Zenon, <1>1, PoolSame DEF IInv, PoolPart, PoolTypes
<1>3. ~ closed
  BY Zenon, <1>1 DEF IInv, ClosedLast, Quiet
<1>4. ClosedLast'
  BY Zenon, <1>1, <1>3 DEF IInv, ClosedLast
<1>5. Stages'
  <2>1. CASE Migrate
    BY Zenon, <1>1, <2>1 DEF Migrate, IInv, Stages
  <2>2. CASE StartupFails \/ Run \/ Running
    <3>1. UNCHANGED <<worker, manager>>
      BY Zenon, <2>2 DEF StartupFails, Run, Running, workerVars
    <3> QED BY Zenon, <1>1, <3>1 DEF IInv, Stages
  <2>3. CASE StartWorkers
    <3>1. PICK s \in Services : worker[s] = "none"
            /\ (worker' = worker \/ worker' = [worker EXCEPT ![s] = "run"])
      BY Zenon, <2>3 DEF StartWorkers, Started
    <3>2. manager' = manager /\ manager # "ok"
      BY Zenon, <2>3, <3>1 DEF StartWorkers, IInv, Stages
    <3> QED BY Zenon, <1>1, <3>1, <3>2 DEF IInv, Stages
  <2> QED BY Zenon, <2>1, <2>2, <2>3
<1> QED BY Zenon, <1>2, <1>4, <1>5 DEF IInv, PoolPart

LEMMA StopSteps ==
  ASSUME IInv, Select \/ Polled \/ Interrupt \/ Stopped
  PROVE  IInv'
<1>1. /\ UNCHANGED <<queue, thread, cmd, request, worker, manager, delayed, listener>>
      /\ main \in {"run", "polled", "stop", "join"}
      /\ main' \in {"stop", "failed", "polled", "join", "exit"}
      /\ closed' = closed \/ closed' = (closed \/ Closing)
  BY Zenon DEF Select, Polled, Interrupt, Stopped, mainFrame, poolVars, workerVars, DropsContext
<1>2. PoolPart'
  BY Zenon, <1>1, PoolSame DEF IInv, PoolPart, PoolTypes
<1>3. ~ closed
  BY Zenon, <1>1 DEF IInv, ClosedLast, Quiet
<1>4. ClosedLast'
  <2>1. closed' => Quiet'
    BY Zenon, <1>1, <1>3, NobodyHolds DEF Closing
  <2>2. \A t \in Threads : thread'[t].at \notin {"gone", "stuck"}
    BY Zenon, <1>1, <1>3 DEF IInv, ClosedLast
  <2> QED BY Zenon, <2>1, <2>2 DEF ClosedLast
<1>5. main' \in {"stop", "join", "exit"} => listener \in {"done", "broken"}
  BY Zenon DEF Select, Polled, Interrupt, Stopped, IInv, Stages
<1>6. main' = "exit" => manager \in {"ok", "err"}
  BY Zenon DEF Select, Polled, Interrupt, Stopped
<1>7. Stages'
  BY Zenon, <1>1, <1>5, <1>6 DEF IInv, Stages
<1> QED BY Zenon, <1>2, <1>4, <1>7 DEF IInv, PoolPart

LEMMA DownSteps ==
  ASSUME IInv, Down
  PROVE  IInv'
<1>1. /\ main' = "down" /\ cmd' = Dropped(Requests)
      /\ UNCHANGED <<queue, thread, manager, delayed, listener>>
      /\ closed' = (closed \/ Closing)
  BY Zenon DEF Down, DropsContext
<1>2. /\ worker' = [s \in Services |-> IF worker[s] = "run" THEN "out" ELSE worker[s]]
      /\ request' = [r \in Requests |-> IF request[r] = "run" THEN "lost" ELSE request[r]]
  BY Zenon DEF Down
<1>3. PoolPart'
  BY Zenon, <1>1, DropPart DEF IInv, PoolPart
<1>4. Stages'
  BY Zenon, <1>1, <1>2 DEF IInv, Stages
<1>5. Quiet'
  BY Zenon, <1>1, <1>2 DEF Quiet
<1>6. ClosedLast'
  BY Zenon, <1>1, <1>5 DEF IInv, ClosedLast
<1> QED BY Zenon, <1>3, <1>4, <1>6 DEF IInv, PoolPart

-----------------------------------------------------------------------------
LEMMA InitInv == Init => IInv
<1> SUFFICES ASSUME Init PROVE IInv
  BY Zenon
<1>1. 0 \in Channels
  BY PoolAssumption DEF Channels
<1>2. PoolTypes
  <2>1. queue \in [Channels -> Seq(Cmds)]
    BY DEF Init, PoolInit
  <2>2. thread \in [Threads -> ThreadType]
    BY Zenon DEF Init, PoolInit, ThreadType
  <2>3. cmd \in [Cmds -> CmdType]
    BY Zenon, <1>1 DEF Init, PoolInit, CmdType
  <2> QED BY Zenon, <2>1, <2>2, <2>3 DEF Init, PoolInit, PoolTypes
<1>3. Stages
  BY Zenon DEF Init, Stages
<1>4. ClosedLast
  BY Zenon DEF Init, PoolInit, ClosedLast
<1>5. Kept
  BY Zenon DEF Init, PoolInit, Kept
<1>6. Capacity
  BY PoolAssumption DEF Init, PoolInit, Capacity
<1> QED BY Zenon, <1>2, <1>3, <1>4, <1>5, <1>6 DEF IInv

LEMMA NextInv == IInv /\ [Next]_vars => IInv'
<1> SUFFICES ASSUME IInv, [Next]_vars PROVE IInv'
  BY Zenon
<1>1. CASE Next
  BY Zenon, <1>1, QuietSteps, ListenerSteps, PoolSteps, QuerySteps, HandleSteps, EndSteps,
     WorkerSteps, ManagerSteps, StartSteps, StopSteps, DownSteps DEF Next, MainStep
<1>2. CASE UNCHANGED vars
  <2>1. UNCHANGED <<poolVars, workerVars, request, main, listener>>
    BY Zenon, <1>2 DEF vars
  <2>2. PoolPart'
    BY Zenon, <2>1, PoolSame DEF IInv, PoolPart, PoolTypes, poolVars
  <2>3. Around'
    BY Zenon, <2>1, SameAround DEF IInv, Around, poolVars, workerVars
  <2> QED BY Zenon, <2>2, <2>3 DEF IInv, PoolPart, Around
<1> QED BY Zenon, <1>1, <1>2

(* IInv holds in every state: Services::start, run, stop, the manager, the *)
(* requests and the threads of the pool preserve it.                       *)
THEOREM Invariance == Spec => []IInv
  BY InitInv, NextInv, PTL DEF Spec

(* When Services is dropped, Manager::stop has joined every worker, unless *)
(* the manager gave up on one.                                             *)
THEOREM NoWorkerLeftCorrect == Spec => []NoWorkerLeft
<1>1. IInv => NoWorkerLeft
  BY Zenon DEF IInv, Stages, NoWorkerLeft
<1> QED BY <1>1, Invariance, PTL

(* While a request runs, the pool is not closed under it (Context::drop),  *)
(* no thread has left it, and the command it awaits has not been lost      *)
(* between Pool::execute and the answer.                                   *)
THEOREM PoolServesCorrect == Spec => []PoolServes
<1>1. IInv => PoolServes
  BY Zenon DEF IInv, PoolTypes, ThreadType, ClosedLast, Quiet, Kept, PoolServes, Requests
<1> QED BY <1>1, Invariance, PTL

-----------------------------------------------------------------------------
(* Migrations.                                                             *)

Tables == DOMAIN TableKeys

(* A write that a migration may issue: it breaks no row of any table.      *)
Fine(x, k, v) ==
  /\ x \in Tables /\ k \in TableKeys[x] /\ v \in TableValues[x] \cup {None}
  /\ x = "rules" => v # "old"
  /\ x \in {"joined", "references"} => k[1] \in {"one", "split"} \/ v = None
  /\ x = "profile" => v # "raw"
  /\ x = "leftstate" => v # "corrupt"
  /\ x = "invites" => v \in {None, "stripped"}
Harmless(w) == Fine(w.table, w.key, w.value)

Writable ==
  {w \in [table : Tables, key : UNION {TableKeys[x] : x \in Tables},
           value : UNION {TableValues[x] \cup {None} : x \in Tables}] : Harmless(w)}
IsWrites(q) == q \in Seq(Writable)

(* The two writes that move the reference of an event.                     *)
PutSplit(e) == W("references", <<"split", e>>, "row")
DropJoint(e) == W("references", <<"joint", e>>, None)
Elsewhere(q) == \A i \in 1 .. Len(q) : q[i].table # "references"
Moves(d, q) == \E e \in d.referenced : q = << PutSplit(e), DropJoint(e) >>
Moved(d, q) == \E e \in d.referenced : q = << DropJoint(e) >> /\ d.tables.references[<<"split", e>>] = "row"

Pending(w) == \/ \E r \in rows : \E i \in 1 .. Len(r.writes) : r.writes[i] = w
              \/ \E i \in 1 .. Len(todo) : todo[i] = w

Types ==
  /\ IsDatabase(db)
  /\ proc \in {"down", "boot", "migrate", "fresh", "up", "refused", "panicked"}
  /\ at \in 1 .. 13 /\ read \in BOOLEAN
  /\ \A r \in rows : IsWrites(r.writes) /\ (Elsewhere(r.writes) \/ Moves(db, r.writes))
  /\ IsWrites(todo) /\ (Elsewhere(todo) \/ Moves(db, todo) \/ Moved(db, todo))

Current == db.markers = Named /\ db.version = DATABASE_VERSION

Phases ==
  /\ proc = "boot" => at = 1
  /\ proc = "boot" \/ (proc = "migrate" /\ ~ read) => ~ read /\ rows = {} /\ todo = << >>
  /\ proc = "fresh" => Current /\ left = {} /\ at <= 12 /\ (at > 1 => "server" \in db.accounts)
  /\ proc = "migrate" => "server" \in db.accounts
  /\ proc = "migrate" => \A i \in 1 .. 12 : i < at /\ Plan[i] \in Named => Plan[i] \in db.markers
  /\ proc = "migrate" /\ read => at <= 12
  /\ proc = "migrate" /\ left # {} => ~ read
  /\ proc = "up" \/ left # {} => Current /\ "server" \in db.accounts

Repaired ==
  /\ MarkedIsFixed
  /\ db.accounts = {} => \A s \in DOMAIN Repairs : Fixed(db, s)
  /\ proc = "migrate" /\ at > 1 => Fixed(db, "v12")
  /\ proc = "migrate" /\ at > 6 => Fixed(db, "references")
  /\ proc = "migrate" /\ read /\ step \in DOMAIN Repairs =>
       \A k \in TableKeys[Repairs[step]] :
         Broken(db, step, k) => \E w : Pending(w) /\ w.table = Repairs[step] /\ w.key = k

MInv == Types /\ Phases /\ Repaired /\ ReferencesKept /\ Settled

-----------------------------------------------------------------------------
(* One write.                                                              *)

SameBut(c, d) ==
  /\ c.version = d.version /\ c.markers = d.markers /\ c.accounts = d.accounts
  /\ c.has_state = d.has_state /\ c.referenced = d.referenced /\ c.member = d.member

LEMMA PutStep ==
  ASSUME NEW d, IsDatabase(d), NEW w, Harmless(w)
  PROVE  /\ IsDatabase(Put(d, w)) /\ SameBut(Put(d, w), d)
         /\ Put(d, w).tables[w.table][w.key] = w.value
         /\ \A x \in Tables : \A k \in TableKeys[x] :
              x # w.table \/ k # w.key => Put(d, w).tables[x][k] = d.tables[x][k]
<1>1. PICK c : c = Put(d, w)
  BY Zenon
<1>2. PICK f : f = [d.tables[w.table] EXCEPT ![w.key] = w.value]
  BY Zenon
<1>3. PICK g : g = [d.tables EXCEPT ![w.table] = f]
  BY Zenon
<1>4. c = [d EXCEPT !.tables = g]
  BY Zenon, <1>1, <1>2, <1>3 DEF Put
<1>5. d.tables[w.table] \in [TableKeys[w.table] -> TableValues[w.table] \cup {None}]
  BY Zenon DEF IsDatabase, Harmless, Fine, Tables
<1>6. /\ f \in [TableKeys[w.table] -> TableValues[w.table] \cup {None}] /\ f[w.key] = w.value
      /\ \A k \in TableKeys[w.table] : k # w.key => f[k] = d.tables[w.table][k]
  BY Zenon, <1>2, <1>5 DEF Harmless, Fine
<1>7. DOMAIN g = Tables /\ g[w.table] = f /\ \A x \in Tables : x # w.table => g[x] = d.tables[x]
  BY Zenon, <1>3 DEF IsDatabase, Harmless, Fine, Tables
<1>8. /\ DOMAIN c = DOMAIN d /\ c.tables = g /\ c.version = d.version /\ c.markers = d.markers
      /\ c.accounts = d.accounts /\ c.has_state = d.has_state /\ c.referenced = d.referenced
      /\ c.member = d.member
  BY <1>4 DEF IsDatabase
<1>9. IsDatabase(c)
  BY Zenon, <1>6, <1>7, <1>8 DEF IsDatabase, Tables
<1>10. SameBut(c, d) /\ c.tables[w.table][w.key] = w.value
  BY Zenon, <1>6, <1>7, <1>8 DEF SameBut
<1>11. ASSUME NEW x \in Tables, NEW k \in TableKeys[x], x # w.table \/ k # w.key
       PROVE  c.tables[x][k] = d.tables[x][k]
  BY SMT, <1>6, <1>7, <1>8, <1>11
<1> QED BY Zenon, <1>1, <1>9, <1>10, <1>11

LEMMA PutFixes ==
  ASSUME NEW d, IsDatabase(d), NEW w, Harmless(w), NEW s \in DOMAIN Repairs,
         NEW k \in TableKeys[Repairs[s]], Broken(Put(d, w), s, k)
  PROVE  Broken(d, s, k) /\ (Repairs[s] # w.table \/ k # w.key)
<1>1. PICK c : c = Put(d, w)
  BY Zenon
<1>2. /\ SameBut(c, d) /\ c.tables[w.table][w.key] = w.value
      /\ \A x \in Tables : \A j \in TableKeys[x] :
           x # w.table \/ j # w.key => c.tables[x][j] = d.tables[x][j]
  BY SMT, <1>1, PutStep
<1>3. Broken(c, s, k)
  BY Zenon, <1>1
<1>4. Repairs[s] \in Tables /\ s \in {"v12", "separator", "references", "profile", "leftstate", "invites"}
  BY SMTT(30) DEF Repairs, Tables, TableKeys
<1>5. Repairs[s] # w.table \/ k # w.key
  BY <1>2, <1>3 DEF Broken, Harmless, Fine, Repairs, None
<1>6. c.tables[Repairs[s]][k] = d.tables[Repairs[s]][k]
  BY Zenon, <1>2, <1>4, <1>5
<1>7. Broken(d, s, k)
  BY <1>2, <1>3, <1>4, <1>6 DEF Broken, SameBut, Repairs, list_local_users
<1> QED BY Zenon, <1>5, <1>7

LEMMA PutKeepsFixed ==
  ASSUME NEW d, IsDatabase(d), NEW w, Harmless(w), NEW s \in DOMAIN Repairs, Fixed(d, s)
  PROVE  Fixed(Put(d, w), s)
BY Zenon, PutFixes DEF Fixed

LEMMA PutKeepsDue ==
  ASSUME NEW d, IsDatabase(d), NEW w, Harmless(w), NEW s
  PROVE  Due(Put(d, w), s) <=> Due(d, s)
BY Zenon, PutStep DEF Due, SameBut

-----------------------------------------------------------------------------
(* The rows of each migration.                                             *)

LEMMA Written ==
  ASSUME NEW x, NEW k, NEW v, Fine(x, k, v)
  PROVE  W(x, k, v) \in Writable /\ W(x, k, v).table = x /\ W(x, k, v).key = k
<1>1. PICK w : w = W(x, k, v)
  BY Zenon
<1>2. w.table = x /\ w.key = k /\ w.value = v
  BY Zenon, <1>1 DEF W
<1>3. w \in [table : Tables, key : UNION {TableKeys[y] : y \in Tables},
              value : UNION {TableValues[y] \cup {None} : y \in Tables}]
  <2>1. k \in UNION {TableKeys[y] : y \in Tables} /\ v \in UNION {TableValues[y] \cup {None} : y \in Tables}
    BY Zenon DEF Fine
  <2> QED BY Zenon, <1>1, <2>1 DEF W, Fine
<1> QED BY Zenon, <1>1, <1>2, <1>3 DEF Writable, Harmless

(* What a migration may do with one row, and that it covers the key k.     *)
GoodRow(d, q) == IsWrites(q) /\ (Elsewhere(q) \/ Moves(d, q))
Covers(q, x, k) == \E i \in 1 .. Len(q) : q[i].table = x /\ q[i].key = k

LEMMA OneWrite ==
  ASSUME NEW d, NEW x, NEW k, NEW v, Fine(x, k, v), x # "references"
  PROVE  GoodRow(d, << W(x, k, v) >>) /\ Covers(<< W(x, k, v) >>, x, k)
<1>1. PICK w : w = W(x, k, v)
  BY Zenon
<1>2. w \in Writable /\ w.table = x /\ w.key = k
  BY <1>1, Written
<1>3. /\ << w >> \in Seq(Writable) /\ 1 \in 1 .. Len(<< w >>) /\ << w >>[1] = w
      /\ \A i \in 1 .. Len(<< w >>) : << w >>[i] = w
  BY <1>2
<1> QED BY Zenon, <1>1, <1>2, <1>3 DEF GoodRow, IsWrites, Elsewhere, Covers

LEMMA TwoWrites ==
  ASSUME NEW d, NEW w, NEW v, w \in Writable, v \in Writable
  PROVE  /\ << w, v >> \in Seq(Writable)
         /\ Covers(<< w, v >>, w.table, w.key) /\ Covers(<< w, v >>, v.table, v.key)
         /\ w.table # "references" /\ v.table # "references" => GoodRow(d, << w, v >>)
<1>1. << w, v >> \in Seq(Writable) /\ Len(<< w, v >>) = 2 /\ << w, v >>[1] = w /\ << w, v >>[2] = v
  OBVIOUS
<1>2. 1 \in 1 .. 2 /\ 2 \in 1 .. 2 /\ \A i \in 1 .. 2 : i = 1 \/ i = 2
  OBVIOUS
<1> QED BY Zenon, <1>1, <1>2 DEF GoodRow, IsWrites, Elsewhere, Covers

LEMMA ThreeWrites ==
  ASSUME NEW d, NEW w, NEW v, NEW u, w \in Writable, v \in Writable, u \in Writable,
         w.table # "references", v.table # "references", u.table # "references"
  PROVE  GoodRow(d, << w, v, u >>)
<1>1. /\ << w, v, u >> \in Seq(Writable) /\ Len(<< w, v, u >>) = 3
      /\ << w, v, u >>[1] = w /\ << w, v, u >>[2] = v /\ << w, v, u >>[3] = u
  OBVIOUS
<1>2. \A i \in 1 .. 3 : i = 1 \/ i = 2 \/ i = 3
  OBVIOUS
<1> QED BY Zenon, <1>1, <1>2 DEF GoodRow, IsWrites, Elsewhere

(* Every row of a migration is good; the rows that are broken are covered. *)
GoodRows(d, s, R) ==
  /\ \A r \in R : GoodRow(d, r.writes)
  /\ s \in DOMAIN Repairs => \A k \in TableKeys[Repairs[s]] : Broken(d, s, k) =>
       \E r \in R : Covers(r.writes, Repairs[s], k)

LEMMA Visited ==
  ASSUME NEW loop, NEW q
  PROVE  Visit(loop, q).writes = q
BY Zenon DEF Visit

LEMMA RulesRows ==
  ASSUME NEW d, IsDatabase(d)
  PROVE  GoodRows(d, "v12", db_lt_12(d)) /\ GoodRows(d, "v13", db_lt_13(d))
<1>1. ASSUME NEW u \in list_local_users(d)
      PROVE  u \in Users /\ d.tables.rules[u] \in {"old", "renamed", "default", None}
  <2>1. u \in Users
    BY Zenon, <1>1 DEF IsDatabase, list_local_users
  <2>2. d.tables["rules"] \in [TableKeys["rules"] -> TableValues["rules"] \cup {None}]
    BY DEF IsDatabase, TableKeys
  <2> QED BY <2>1, <2>2 DEF TableKeys, TableValues
<1>2. ASSUME NEW u \in Users, NEW v \in {"renamed", "default", None}
      PROVE  Fine("rules", u, v)
  BY <1>2 DEF Fine, Tables, TableKeys, TableValues, None
<1>3. ASSUME NEW u \in list_local_users(d), NEW v \in {"renamed", "default", None}
      PROVE  GoodRow(d, << W("rules", u, v) >>) /\ Covers(<< W("rules", u, v) >>, "rules", u)
  BY Zenon, <1>1, <1>2, OneWrite
<1>4. ASSUME NEW r \in db_lt_12(d)
      PROVE  \E u \in list_local_users(d), v \in {"renamed", "default", None} : r.writes = << W("rules", u, v) >>
  <2>1. PICK u \in list_local_users(d) :
          r = Visit(1, << W("rules", u, IF d.tables.rules[u] = "old" THEN "renamed" ELSE d.tables.rules[u]) >>)
    BY Zenon DEF db_lt_12
  <2>2. PICK v \in {"renamed", "default", None} :
          v = IF d.tables.rules[u] = "old" THEN "renamed" ELSE d.tables.rules[u]
    BY Zenon, <1>1
  <2>3. r.writes = << W("rules", u, v) >>
    BY Zenon, <2>1, <2>2, Visited
  <2> QED BY Zenon, <2>3
<1>5. ASSUME NEW r \in db_lt_13(d)
      PROVE  \E u \in list_local_users(d), v \in {"renamed", "default", None} : r.writes = << W("rules", u, v) >>
  <2>1. PICK u \in list_local_users(d) :
          r = Visit(1, << W("rules", u, IF d.tables.rules[u] = None THEN None ELSE "default") >>)
    BY Zenon DEF db_lt_13
  <2>2. PICK v \in {"renamed", "default", None} : v = IF d.tables.rules[u] = None THEN None ELSE "default"
    BY Zenon
  <2>3. r.writes = << W("rules", u, v) >>
    BY Zenon, <2>1, <2>2, Visited
  <2> QED BY Zenon, <2>3
<1>6. ASSUME NEW u \in list_local_users(d)
      PROVE  \E r \in db_lt_12(d), v \in {"renamed", "default", None} : r.writes = << W("rules", u, v) >>
  <2>1. PICK r, v : /\ v = IF d.tables.rules[u] = "old" THEN "renamed" ELSE d.tables.rules[u]
                    /\ r = Visit(1, << W("rules", u, v) >>)
    BY Zenon
  <2>2. r \in db_lt_12(d)
    BY Zenon, <2>1 DEF db_lt_12
  <2>3. v \in {"renamed", "default", None}
    BY Zenon, <1>1, <2>1
  <2>4. r.writes = << W("rules", u, v) >>
    BY Zenon, <2>1, Visited
  <2> QED BY Zenon, <2>2, <2>3, <2>4
<1>7. /\ Repairs["v12"] = "rules" /\ "v12" \in DOMAIN Repairs /\ "v13" \notin DOMAIN Repairs
      /\ \A k : Broken(d, "v12", k) => k \in list_local_users(d)
  BY DEF Repairs, Broken
<1>8. ASSUME NEW R, \A r \in R : \E u \in list_local_users(d), v \in {"renamed", "default", None} :
                                   r.writes = << W("rules", u, v) >>
      PROVE  \A r \in R : GoodRow(d, r.writes)
  BY Zenon, <1>3, <1>8
<1>9. ASSUME NEW k, Broken(d, "v12", k)
      PROVE  \E r \in db_lt_12(d) : Covers(r.writes, "rules", k)
  BY Zenon, <1>3, <1>6, <1>7, <1>9
<1> QED BY Zenon, <1>4, <1>5, <1>7, <1>8, <1>9 DEF GoodRows

LEMMA SeparatorRows ==
  ASSUME NEW d, IsDatabase(d)
  PROVE  GoodRows(d, "separator", fix_bad_double_separator_in_state_cache(d))
<1> DEFINE K == {j \in Rows(d, "joined") : j[1] = "two"}
           q(k) == << W("joined", k, None), W("joined", <<"one", k[2]>>, "row") >>
<1>1. Rows(d, "joined") = {k \in {"one", "two"} \X Users : d.tables.joined[k] # None}
  <2>1. d.tables["joined"] \in [TableKeys["joined"] -> TableValues["joined"] \cup {None}]
    BY ZenonT(40) DEF IsDatabase, TableKeys
  <2> QED BY <2>1 DEF TableKeys, Rows
<1>2. ASSUME NEW k \in K
      PROVE  Fine("joined", k, None) /\ Fine("joined", <<"one", k[2]>>, "row")
  BY <1>1, <1>2 DEF Fine, Tables, TableKeys, TableValues, None
<1>3. ASSUME NEW k \in K
      PROVE  GoodRow(d, q(k)) /\ Covers(q(k), "joined", k)
  <2>1. PICK w, v : w = W("joined", k, None) /\ v = W("joined", <<"one", k[2]>>, "row")
    BY Zenon
  <2>2. w \in Writable /\ v \in Writable /\ w.table = "joined" /\ w.key = k /\ v.table = "joined"
    BY SMT, <1>2, <2>1, Written
  <2> QED BY Zenon, <2>1, <2>2, TwoWrites
<1>4. ASSUME NEW r \in fix_bad_double_separator_in_state_cache(d)
      PROVE  \E k \in K : r.writes = q(k)
  <2>1. PICK k \in K : r = Visit(1, q(k))
    BY Zenon DEF fix_bad_double_separator_in_state_cache
  <2> QED BY Zenon, <2>1, Visited
<1>5. ASSUME NEW k \in K
      PROVE  \E r \in fix_bad_double_separator_in_state_cache(d) : r.writes = q(k)
  <2>1. PICK r : r = Visit(1, q(k))
    BY Zenon
  <2>2. r \in fix_bad_double_separator_in_state_cache(d)
    BY Zenon, <2>1 DEF fix_bad_double_separator_in_state_cache
  <2> QED BY SMT, <2>1, <2>2 DEF Visit
<1>6. /\ Repairs["separator"] = "joined" /\ "separator" \in DOMAIN Repairs
      /\ \A k \in TableKeys["joined"] : Broken(d, "separator", k) => k \in K
  BY <1>1 DEF Repairs, Broken, TableKeys
<1> HIDE DEF q, K
<1> QED BY Zenon, <1>3, <1>4, <1>5, <1>6 DEF GoodRows

LEMMA ReferencesRows ==
  ASSUME NEW d, IsDatabase(d), Referenced(d) = d.referenced
  PROVE  GoodRows(d, "references", fix_referencedevents_missing_sep(d))
<1> DEFINE K == {j \in Rows(d, "references") : j[1] = "joint"}
           q(k) == << W("references", <<"split", k[2]>>, "row"), W("references", k, None) >>
<1>1. Rows(d, "references") = {k \in {"joint", "split"} \X Events : d.tables.references[k] # None}
  <2>1. d.tables["references"] \in [TableKeys["references"] -> TableValues["references"] \cup {None}]
    BY ZenonT(40) DEF IsDatabase, TableKeys
  <2> QED BY <2>1 DEF TableKeys, Rows
<1>2. ASSUME NEW k \in K
      PROVE  /\ Fine("references", k, None) /\ Fine("references", <<"split", k[2]>>, "row")
             /\ k[2] \in d.referenced /\ k = <<"joint", k[2]>>
  <2>1. Fine("references", k, None) /\ Fine("references", <<"split", k[2]>>, "row") /\ k = <<"joint", k[2]>>
    BY <1>1, <1>2 DEF Fine, Tables, TableKeys, TableValues, None
  <2>2. k[2] \in Referenced(d)
    BY Zenon, <1>2 DEF Referenced
  <2> QED BY Zenon, <2>1, <2>2
<1>3. ASSUME NEW k \in K
      PROVE  GoodRow(d, q(k)) /\ Covers(q(k), "references", k)
  <2>1. PICK w, v : v = W("references", k, None) /\ w = W("references", <<"split", k[2]>>, "row")
    BY Zenon
  <2>2. w \in Writable /\ v \in Writable /\ v.table = "references" /\ v.key = k
    BY SMT, <1>2, <2>1, Written
  <2>3. << w, v >> \in Seq(Writable) /\ Covers(<< w, v >>, "references", k)
    BY Zenon, <2>2, TwoWrites
  <2>4. Moves(d, << w, v >>)
    BY Zenon, <1>2, <2>1 DEF Moves, PutSplit, DropJoint
  <2> QED BY Zenon, <2>1, <2>3, <2>4 DEF GoodRow, IsWrites
<1>4. ASSUME NEW r \in fix_referencedevents_missing_sep(d)
      PROVE  \E k \in K : r.writes = q(k)
  <2>1. PICK k \in K : r = Visit(1, q(k))
    BY Zenon DEF fix_referencedevents_missing_sep
  <2> QED BY Zenon, <2>1, Visited
<1>5. ASSUME NEW k \in K
      PROVE  \E r \in fix_referencedevents_missing_sep(d) : r.writes = q(k)
  <2>1. PICK r : r = Visit(1, q(k))
    BY Zenon
  <2>2. r \in fix_referencedevents_missing_sep(d)
    BY Zenon, <2>1 DEF fix_referencedevents_missing_sep
  <2> QED BY SMT, <2>1, <2>2 DEF Visit
<1>6. /\ Repairs["references"] = "references" /\ "references" \in DOMAIN Repairs
      /\ \A k \in TableKeys["references"] : Broken(d, "references", k) => k \in K
  BY <1>1 DEF Repairs, Broken, TableKeys
<1> HIDE DEF q, K
<1> QED BY Zenon, <1>3, <1>4, <1>5, <1>6 DEF GoodRows

LEMMA TableRows ==
  ASSUME NEW d, IsDatabase(d), NEW x \in Tables
  PROVE  /\ Rows(d, x) = {k \in TableKeys[x] : d.tables[x][k] # None}
         /\ \A k \in TableKeys[x] : d.tables[x][k] \in TableValues[x] \cup {None}
<1>1. d.tables[x] \in [TableKeys[x] -> TableValues[x] \cup {None}]
  BY Zenon DEF IsDatabase, Tables
<1> QED BY Zenon, <1>1 DEF Rows

LEMMA JoinedRows ==
  ASSUME NEW d, IsDatabase(d)
  PROVE  GoodRows(d, "joined", retroactively_fix_bad_data_from_roomuserid_joined(d))
<1> DEFINE U == Joined(d, Members(d))
<1>1. U \subseteq Users
  <2>1. "joined" \in Tables /\ TableKeys["joined"] = {"one", "two"} \X Users
    BY DEF Tables, TableKeys
  <2>2. Rows(d, "joined") \subseteq {"one", "two"} \X Users
    BY SMT, <2>1, TableRows
  <2>3. Members(d) \subseteq Users
    BY SMT, <2>2 DEF Members
  <2> QED BY Zenon, <2>3 DEF Joined
<1>2. ASSUME NEW u \in Users
      PROVE  /\ Fine("joined", <<"one", u>>, "row") /\ Fine("joined", <<"one", u>>, None)
             /\ Fine("invites", u, None) /\ Fine("leftstate", u, None) /\ Fine("leftstate", u, "null")
  BY <1>2 DEF Fine, Tables, TableKeys, TableValues, None
<1>3. ASSUME NEW u \in Users
      PROVE  GoodRow(d, mark_as_joined(u)) /\ GoodRow(d, mark_as_left(u))
  <2>1. PICK a, b, c, e, f : /\ a = W("joined", <<"one", u>>, "row") /\ b = W("invites", u, None)
                             /\ c = W("leftstate", u, None) /\ e = W("leftstate", u, "null")
                             /\ f = W("joined", <<"one", u>>, None)
    BY Zenon
  <2>2. a \in Writable /\ a.table = "joined"
    BY SMT, <1>2, <2>1, Written
  <2>3. b \in Writable /\ b.table = "invites"
    BY SMT, <1>2, <2>1, Written
  <2>4. c \in Writable /\ c.table = "leftstate"
    BY SMT, <1>2, <2>1, Written
  <2>5. e \in Writable /\ e.table = "leftstate"
    BY SMT, <1>2, <2>1, Written
  <2>6. f \in Writable /\ f.table = "joined"
    BY SMT, <1>2, <2>1, Written
  <2>7. GoodRow(d, << a, b, c >>) /\ GoodRow(d, << e, f, b >>)
    BY Zenon, <2>2, <2>3, <2>4, <2>5, <2>6, ThreeWrites
  <2> QED BY Zenon, <2>1, <2>7 DEF mark_as_joined, mark_as_left
<1>4. ASSUME NEW r \in retroactively_fix_bad_data_from_roomuserid_joined(d)
      PROVE  GoodRow(d, r.writes)
  <2>1. PICK u \in U : r = Visit(1, mark_as_joined(u)) \/ r = Visit(2, mark_as_left(u))
    BY Zenon DEF retroactively_fix_bad_data_from_roomuserid_joined
  <2>2. r.writes = mark_as_joined(u) \/ r.writes = mark_as_left(u)
    BY Zenon, <2>1, Visited
  <2> QED BY Zenon, <1>1, <1>3, <2>2
<1>5. "joined" \notin DOMAIN Repairs
  BY DEF Repairs
<1> QED BY Zenon, <1>4, <1>5 DEF GoodRows

LEMMA ReceiptsRows ==
  ASSUME NEW d, IsDatabase(d)
  PROVE  GoodRows(d, "receipts", fix_readreceiptid_readreceipt_duplicates(d))
<1>1. ASSUME NEW k \in Rows(d, "receipts")
      PROVE  GoodRow(d, << W("receipts", k, None) >>)
  <2>1. "receipts" \in Tables
    BY DEF Tables, TableKeys
  <2>2. k \in TableKeys["receipts"]
    BY SMT, <1>1, <2>1, TableRows
  <2>3. Fine("receipts", k, None)
    BY <2>1, <2>2 DEF Fine, None
  <2> QED BY Zenon, <2>3, OneWrite
<1>2. ASSUME NEW r \in fix_readreceiptid_readreceipt_duplicates(d)
      PROVE  GoodRow(d, r.writes)
  <2>1. PICK k \in Rows(d, "receipts") : r = Visit(1, << W("receipts", k, None) >>)
    BY SMT DEF fix_readreceiptid_readreceipt_duplicates
  <2> QED BY Zenon, <1>1, <2>1, Visited
<1>3. "receipts" \notin DOMAIN Repairs
  BY DEF Repairs
<1> QED BY Zenon, <1>2, <1>3 DEF GoodRows

LEMMA ProfileRows ==
  ASSUME NEW d, IsDatabase(d)
  PROVE  GoodRows(d, "profile", fix_corrupt_msc4133_fields(d))
<1> DEFINE K == {f \in Rows(d, "profile") : d.tables.profile[f] = "raw"}
           v(k) == IF k = "tz" THEN "json" ELSE None
<1>1. "profile" \in Tables /\ Repairs["profile"] = "profile" /\ "profile" \in DOMAIN Repairs
  BY DEF Tables, TableKeys, Repairs
<1>2. Rows(d, "profile") = {k \in TableKeys["profile"] : d.tables["profile"][k] # None}
  BY SMT, <1>1, TableRows
<1>3. ASSUME NEW k \in K
      PROVE  GoodRow(d, << W("profile", k, v(k)) >>) /\ Covers(<< W("profile", k, v(k)) >>, "profile", k)
  <2>1. Fine("profile", k, v(k))
    BY <1>1, <1>2 DEF Fine, None, TableValues
  <2> QED BY Zenon, <2>1, OneWrite
<1>4. ASSUME NEW r \in fix_corrupt_msc4133_fields(d)
      PROVE  \E k \in K : r.writes = << W("profile", k, v(k)) >>
  <2>1. PICK k \in K : r = Visit(1, << W("profile", k, v(k)) >>)
    BY Zenon DEF fix_corrupt_msc4133_fields
  <2> QED BY Zenon, <2>1, Visited
<1>5. ASSUME NEW k \in K
      PROVE  \E r \in fix_corrupt_msc4133_fields(d) : r.writes = << W("profile", k, v(k)) >>
  <2>1. PICK r : r = Visit(1, << W("profile", k, v(k)) >>)
    BY Zenon
  <2>2. r \in fix_corrupt_msc4133_fields(d)
    BY Zenon, <2>1 DEF fix_corrupt_msc4133_fields
  <2> QED BY Zenon, <2>1, <2>2, Visited
<1>6. ASSUME NEW k \in TableKeys["profile"], Broken(d, "profile", k)
      PROVE  k \in K
  <2>1. d.tables.profile[k] = "raw"
    BY <1>6 DEF Broken
  <2>2. k \in Rows(d, "profile")
    BY <1>2, <1>6, <2>1 DEF None
  <2> QED BY Zenon, <2>1, <2>2
<1> HIDE DEF v, K
<1> QED BY Zenon, <1>1, <1>3, <1>4, <1>5, <1>6 DEF GoodRows

LEMMA LeftRows ==
  ASSUME NEW d, IsDatabase(d)
  PROVE  GoodRows(d, "leftstate", populate_userroomid_leftstate_table(d))
<1> DEFINE K == {u \in Rows(d, "leftstate") : d.has_state /\ d.tables.leftstate[u] = "corrupt"}
           v(k) == IF d.member[k].membership # None THEN "event" ELSE None
<1>1. "leftstate" \in Tables /\ Repairs["leftstate"] = "leftstate" /\ "leftstate" \in DOMAIN Repairs
  BY DEF Tables, TableKeys, Repairs
<1>2. Rows(d, "leftstate") = {k \in TableKeys["leftstate"] : d.tables["leftstate"][k] # None}
  BY SMT, <1>1, TableRows
<1>3. ASSUME NEW k \in K
      PROVE  GoodRow(d, << W("leftstate", k, v(k)) >>) /\ Covers(<< W("leftstate", k, v(k)) >>, "leftstate", k)
  <2>1. Fine("leftstate", k, v(k))
    BY <1>1, <1>2 DEF Fine, None, TableValues
  <2> QED BY Zenon, <2>1, OneWrite
<1>4. ASSUME NEW r \in populate_userroomid_leftstate_table(d)
      PROVE  \E k \in K : r.writes = << W("leftstate", k, v(k)) >>
  <2>1. PICK k \in K : r = Visit(1, << W("leftstate", k, v(k)) >>)
    BY Zenon DEF populate_userroomid_leftstate_table
  <2> QED BY ZenonT(40), <2>1, Visited
<1>5. ASSUME NEW k \in K
      PROVE  \E r \in populate_userroomid_leftstate_table(d) : r.writes = << W("leftstate", k, v(k)) >>
  <2>1. PICK r : r = Visit(1, << W("leftstate", k, v(k)) >>)
    BY Zenon
  <2>2. r \in populate_userroomid_leftstate_table(d)
    BY Zenon, <2>1 DEF populate_userroomid_leftstate_table
  <2> QED BY Zenon, <2>1, <2>2, Visited
<1>6. ASSUME NEW k \in TableKeys["leftstate"], Broken(d, "leftstate", k)
      PROVE  k \in K
  <2>1. d.has_state /\ d.tables.leftstate[k] = "corrupt"
    BY <1>6 DEF Broken
  <2>2. k \in Rows(d, "leftstate")
    BY <1>2, <1>6, <2>1 DEF None
  <2> QED BY Zenon, <2>1, <2>2
<1> HIDE DEF v, K
<1> QED BY Zenon, <1>1, <1>3, <1>4, <1>5, <1>6 DEF GoodRows

LEMMA Joins ==
  ASSUME NEW d, NEW a, NEW b, IsWrites(a), IsWrites(b), Elsewhere(a), Elsewhere(b)
  PROVE  /\ GoodRow(d, a \o b)
         /\ \A x, k : Covers(a, x, k) \/ Covers(b, x, k) => Covers(a \o b, x, k)
<1>1. /\ a \o b \in Seq(Writable) /\ Len(a \o b) = Len(a) + Len(b) /\ Len(a) \in Nat /\ Len(b) \in Nat
      /\ \A i \in 1 .. Len(a \o b) : (a \o b)[i] = IF i <= Len(a) THEN a[i] ELSE b[i - Len(a)]
  BY SMT DEF IsWrites
<1>2. ASSUME NEW i \in 1 .. Len(a \o b)
      PROVE  (a \o b)[i].table # "references"
  <2>1. CASE i <= Len(a)
    BY SMT, <1>1, <2>1 DEF Elsewhere
  <2>2. CASE ~ i <= Len(a)
    BY SMT, <1>1, <2>2 DEF Elsewhere
  <2> QED BY <2>1, <2>2
<1>3. ASSUME NEW x, NEW k, Covers(a, x, k)
      PROVE  Covers(a \o b, x, k)
  <2>1. PICK i \in 1 .. Len(a) : a[i].table = x /\ a[i].key = k
    BY Zenon, <1>3 DEF Covers
  <2>2. i \in 1 .. Len(a \o b) /\ (a \o b)[i] = a[i]
    BY SMT, <1>1
  <2> QED BY Zenon, <2>1, <2>2 DEF Covers
<1>4. ASSUME NEW x, NEW k, Covers(b, x, k)
      PROVE  Covers(a \o b, x, k)
  <2>1. PICK i \in 1 .. Len(b) : b[i].table = x /\ b[i].key = k
    BY Zenon, <1>4 DEF Covers
  <2>2. i + Len(a) \in 1 .. Len(a \o b) /\ (a \o b)[i + Len(a)] = b[i]
    BY SMT, <1>1
  <2> QED BY Zenon, <2>1, <2>2 DEF Covers
<1> QED BY Zenon, <1>1, <1>2, <1>3, <1>4 DEF GoodRow, IsWrites, Elsewhere

LEMMA InvitesRows ==
  ASSUME NEW d, IsDatabase(d)
  PROVE  GoodRows(d, "invites", fix_local_invite_state(d))
<1> DEFINE K == {u \in Rows(d, "invites") : d.tables.invites[u] # "stripped"}
           q(u) == (IF d.tables.invites[u] = "corrupt" THEN << W("invites", u, None) >> ELSE << >>)
                     \o (IF d.member[u] = Member("invite") THEN << W("invites", u, "stripped") >> ELSE << >>)
<1>1. "invites" \in Tables /\ Repairs["invites"] = "invites" /\ "invites" \in DOMAIN Repairs
  BY DEF Tables, TableKeys, Repairs
<1>2. Rows(d, "invites") = {k \in TableKeys["invites"] : d.tables["invites"][k] # None}
  BY SMT, <1>1, TableRows
<1>3. ASSUME NEW u \in K
      PROVE  GoodRow(d, q(u)) /\ (Broken(d, "invites", u) => Covers(q(u), "invites", u))
  <2>1. Fine("invites", u, None) /\ Fine("invites", u, "stripped")
    BY <1>1, <1>2 DEF Fine, None, TableValues
  <2>2. PICK w, v : w = W("invites", u, None) /\ v = W("invites", u, "stripped")
    BY Zenon
  <2>3. /\ w \in Writable /\ w.table = "invites" /\ w.key = u
        /\ v \in Writable /\ v.table = "invites" /\ v.key = u
    BY SMT, <2>1, <2>2, Written
  <2>4. ASSUME NEW x \in Writable, x.table = "invites", x.key = u
        PROVE  IsWrites(<< x >>) /\ Elsewhere(<< x >>) /\ Covers(<< x >>, "invites", u)
    <3>1. << x >> \in Seq(Writable) /\ Len(<< x >>) = 1 /\ << x >>[1] = x /\ 1 \in 1 .. 1 /\ \A i \in 1 .. 1 : i = 1
      OBVIOUS
    <3> QED BY Zenon, <2>4, <3>1 DEF IsWrites, Elsewhere, Covers
  <2>5. IsWrites(<< >>) /\ Elsewhere(<< >>)
    BY DEF IsWrites, Elsewhere
  <2>6. PICK a, b : /\ a = IF d.tables.invites[u] = "corrupt" THEN << w >> ELSE << >>
                    /\ b = IF d.member[u] = Member("invite") THEN << v >> ELSE << >>
    BY Zenon
  <2>7. IsWrites(a) /\ IsWrites(b) /\ Elsewhere(a) /\ Elsewhere(b) /\ q(u) = a \o b
    BY Zenon, <2>2, <2>3, <2>4, <2>5, <2>6
  <2>8. Broken(d, "invites", u) => Covers(a, "invites", u) \/ Covers(b, "invites", u)
    <3>1. Broken(d, "invites", u) => d.tables.invites[u] = "corrupt" \/ d.member[u] = Member("invite")
      BY SMT DEF Broken
    <3> QED BY Zenon, <3>1, <2>3, <2>4, <2>6
  <2>9. GoodRow(d, a \o b) /\ \A x, k : Covers(a, x, k) \/ Covers(b, x, k) => Covers(a \o b, x, k)
    BY Zenon, <2>7, Joins
  <2> HIDE DEF q
  <2> QED BY Zenon, <2>7, <2>8, <2>9
<1>4. ASSUME NEW r \in fix_local_invite_state(d)
      PROVE  \E k \in K : r.writes = q(k)
  <2>1. PICK k \in K : r = Visit(1, q(k))
    BY Zenon DEF fix_local_invite_state
  <2> QED BY Zenon, <2>1, Visited
<1>5. ASSUME NEW k \in K
      PROVE  \E r \in fix_local_invite_state(d) : r.writes = q(k)
  <2>1. PICK r : r = Visit(1, q(k))
    BY Zenon
  <2>2. r \in fix_local_invite_state(d)
    BY Zenon, <2>1 DEF fix_local_invite_state
  <2> QED BY Zenon, <2>1, <2>2, Visited
<1>6. ASSUME NEW k \in TableKeys["invites"], Broken(d, "invites", k)
      PROVE  k \in K
  <2>1. d.tables.invites[k] \in {"corrupt", "empty"}
    BY <1>6 DEF Broken
  <2>2. k \in Rows(d, "invites") /\ d.tables.invites[k] # "stripped"
    BY <1>2, <1>6, <2>1 DEF None
  <2> QED BY Zenon, <2>2
<1> HIDE DEF q, K
<1> QED BY Zenon, <1>1, <1>3, <1>4, <1>5, <1>6 DEF GoodRows

LEMMA ReadRows ==
  ASSUME NEW d, IsDatabase(d), Referenced(d) = d.referenced, NEW i \in 1 .. 12
  PROVE  GoodRows(d, Plan[i], Writes(d, Plan[i]))
<1>1. Plan[i] \in {"v12", "v13", "media", "separator", "joined", "references", "receipts", "v17",
                   "profile", "v18", "leftstate", "invites"}
  BY DEF Plan
<1>2. PICK s : s = Plan[i]
  BY Zenon
<1>3. CASE s \in {"media", "v17", "v18"}
  <2>1. Writes(d, s) = {} /\ s \notin DOMAIN Repairs
    BY <1>3 DEF Writes, Repairs
  <2> QED BY Zenon, <1>2, <2>1 DEF GoodRows
<1>4. CASE s = "v12"
  BY SMT, <1>2, <1>4, RulesRows DEF Writes
<1>5. CASE s = "v13"
  BY SMT, <1>2, <1>5, RulesRows DEF Writes
<1>6. CASE s = "separator"
  BY SMT, <1>2, <1>6, SeparatorRows DEF Writes
<1>7. CASE s = "joined"
  BY SMT, <1>2, <1>7, JoinedRows DEF Writes
<1>8. CASE s = "references"
  BY SMT, <1>2, <1>8, ReferencesRows DEF Writes
<1>9. CASE s = "receipts"
  BY SMT, <1>2, <1>9, ReceiptsRows DEF Writes
<1>10. CASE s = "profile"
  BY SMT, <1>2, <1>10, ProfileRows DEF Writes
<1>11. CASE s = "leftstate"
  BY SMT, <1>2, <1>11, LeftRows DEF Writes
<1>12. CASE s = "invites"
  BY SMT, <1>2, <1>12, InvitesRows DEF Writes
<1> QED BY Zenon, <1>1, <1>2, <1>3, <1>4, <1>5, <1>6, <1>7, <1>8, <1>9, <1>10, <1>11, <1>12

-----------------------------------------------------------------------------
(* What a step does to the database as a whole.                            *)

(* What the repaired rows depend on.                                       *)
SameData(c, d) ==
  /\ c.tables = d.tables /\ c.has_state = d.has_state /\ c.member = d.member
  /\ c.referenced = d.referenced /\ list_local_users(c) = list_local_users(d)

LEMMA SameFixed ==
  ASSUME NEW c, NEW d, SameData(c, d)
  PROVE  /\ \A s : Fixed(c, s) <=> Fixed(d, s)
         /\ \A s, k : Broken(c, s, k) <=> Broken(d, s, k)
         /\ Referenced(c) = Referenced(d)
<1>1. ASSUME NEW s, NEW k PROVE Broken(c, s, k) <=> Broken(d, s, k)
  BY SMT DEF SameData, Broken
<1>2. ASSUME NEW s PROVE Fixed(c, s) <=> Fixed(d, s)
  BY Zenon, <1>1 DEF Fixed
<1>3. Referenced(c) = Referenced(d)
  BY Zenon DEF SameData, Referenced, Rows
<1> QED BY Zenon, <1>1, <1>2, <1>3

LEMMA DoneStep ==
  ASSUME NEW d, IsDatabase(d), NEW i \in 1 .. 12
  PROVE  /\ IsDatabase(Done(d, Plan[i])) /\ SameData(Done(d, Plan[i]), d)
         /\ Done(d, Plan[i]).accounts = d.accounts
         /\ Plan[i] \in Named => /\ Done(d, Plan[i]).markers = d.markers \cup {Plan[i]}
                                 /\ Done(d, Plan[i]).version = d.version
         /\ Plan[i] \notin Named => /\ Done(d, Plan[i]).markers = d.markers
                                    /\ Done(d, Plan[i]).version = Target[Plan[i]]
<1>1. PICK c : c = Done(d, Plan[i])
  BY Zenon
<1>2. CASE Plan[i] \in Named
  <2>1. c = [d EXCEPT !.markers = @ \cup {Plan[i]}]
    BY Zenon, <1>1, <1>2 DEF Done
  <2>2. /\ DOMAIN c = DOMAIN d /\ c.tables = d.tables /\ c.version = d.version
        /\ c.markers = d.markers \cup {Plan[i]}
        /\ c.accounts = d.accounts /\ c.has_state = d.has_state /\ c.referenced = d.referenced
        /\ c.member = d.member
    BY <2>1 DEF IsDatabase
  <2>3. IsDatabase(c) /\ SameData(c, d)
    BY Zenon, <1>2, <2>2 DEF IsDatabase, SameData, list_local_users
  <2> QED BY Zenon, <1>1, <1>2, <2>2, <2>3
<1>3. CASE Plan[i] \notin Named
  <2>1. c = [d EXCEPT !.version = Target[Plan[i]]]
    BY Zenon, <1>1, <1>3 DEF Done
  <2>2. /\ DOMAIN c = DOMAIN d /\ c.tables = d.tables /\ c.version = Target[Plan[i]]
        /\ c.markers = d.markers
        /\ c.accounts = d.accounts /\ c.has_state = d.has_state /\ c.referenced = d.referenced
        /\ c.member = d.member
    BY <2>1 DEF IsDatabase
  <2>3. Target[Plan[i]] \in Nat
    BY <1>3 DEF Target, Plan, Named
  <2>4. IsDatabase(c) /\ SameData(c, d)
    BY Zenon, <2>2, <2>3 DEF IsDatabase, SameData, list_local_users
  <2> QED BY Zenon, <1>1, <1>3, <2>2, <2>4
<1> QED BY Zenon, <1>2, <1>3

LEMMA CreateStep ==
  ASSUME NEW d, IsDatabase(d), NEW what
  PROVE  /\ IsDatabase(Create(d, what)) /\ SameData(Create(d, what), d)
         /\ d.accounts \subseteq Create(d, what).accounts
         /\ what = "user" => "server" \in Create(d, what).accounts
         /\ Create(d, what).version = d.version /\ Create(d, what).markers = d.markers
<1>1. PICK c : c = Create(d, what)
  BY Zenon
<1>2. CASE what = "user"
  <2>1. c = [d EXCEPT !.accounts = @ \cup {"server"}]
    BY Zenon, <1>1, <1>2 DEF Create
  <2>2. /\ DOMAIN c = DOMAIN d /\ c.tables = d.tables /\ c.version = d.version
        /\ c.markers = d.markers /\ c.accounts = d.accounts \cup {"server"}
        /\ c.has_state = d.has_state /\ c.referenced = d.referenced /\ c.member = d.member
    BY <2>1 DEF IsDatabase
  <2>3. list_local_users(c) = list_local_users(d) /\ c.accounts \subseteq Users \cup {"server"}
    BY <2>2 DEF IsDatabase, list_local_users
  <2>4. IsDatabase(c) /\ SameData(c, d)
    BY Zenon, <2>2, <2>3 DEF IsDatabase, SameData
  <2> QED BY Zenon, <1>1, <2>2, <2>4
<1>3. CASE what # "user"
  <2>1. c = [d EXCEPT !.admin_room = @ \cup {what}]
    BY Zenon, <1>1, <1>3 DEF Create
  <2>2. /\ DOMAIN c = DOMAIN d /\ c.tables = d.tables /\ c.version = d.version
        /\ c.markers = d.markers /\ c.accounts = d.accounts
        /\ c.has_state = d.has_state /\ c.referenced = d.referenced /\ c.member = d.member
    BY <2>1 DEF IsDatabase
  <2>3. IsDatabase(c) /\ SameData(c, d)
    BY Zenon, <2>2 DEF IsDatabase, SameData, list_local_users
  <2> QED BY Zenon, <1>1, <1>3, <2>2, <2>3
<1> QED BY Zenon, <1>2, <1>3

(* A write outside the references moves none of them.                      *)
LEMMA PutElsewhere ==
  ASSUME NEW d, IsDatabase(d), NEW w, Harmless(w), w.table # "references"
  PROVE  /\ Put(d, w).tables.references = d.tables.references
         /\ Referenced(Put(d, w)) = Referenced(d)
<1>1. PICK c : c = Put(d, w)
  BY Zenon
<1>2. c.tables["references"] = d.tables["references"]
  BY <1>1 DEF Put, IsDatabase, Harmless, Fine, Tables
<1> QED BY Zenon, <1>1, <1>2 DEF Referenced, Rows

-----------------------------------------------------------------------------
(* Each action keeps the invariant.                                        *)

LEMMA PlanLength == Len(Plan) = 12 /\ Len(AdminRoom) = 12 /\ AdminRoom[1] = "user"
BY DEF Plan, AdminRoom

LEMMA InitMInv == MigrateInit => MInv
<1> SUFFICES ASSUME MigrateInit PROVE MInv
  OBVIOUS
<1>1. /\ IsDatabase(db) /\ Referenced(db) = db.referenced
      /\ \A s \in DOMAIN Repairs : ~ Due(db, s) \/ db.accounts = {} => Fixed(db, s)
  BY Zenon, DatabasesAssumption DEF MigrateInit
<1>2. IsWrites(<< >>) /\ Elsewhere(<< >>)
  BY DEF IsWrites, Elsewhere
<1>3. proc = "down" /\ at = 1 /\ at \in 1 .. 13 /\ read = FALSE /\ rows = {} /\ todo = << >> /\ left = {}
  BY DEF MigrateInit
<1>4. Types
  BY Zenon, <1>1, <1>2, <1>3 DEF Types
<1>5. Phases
  BY <1>3 DEF Phases
<1>6. Repaired
  BY <1>1, <1>3 DEF Repaired, MarkedIsFixed
<1>7. ReferencesKept /\ Settled
  BY <1>1, <1>3 DEF ReferencesKept, Settled
<1> QED BY Zenon, <1>4, <1>5, <1>6, <1>7 DEF MInv

(* The database and the rows to visit are as before.                       *)
LEMMA SameTypes ==
  ASSUME Types, UNCHANGED <<db, rows, todo>>, at' \in 1 .. 13, read' \in BOOLEAN,
         proc' \in {"down", "boot", "migrate", "fresh", "up", "refused", "panicked"}
  PROVE  Types'
BY Zenon DEF Types, Moves, Moved

LEMMA StartKeeps == MInv /\ Start => MInv'
<1> SUFFICES ASSUME MInv, Start PROVE MInv'
  OBVIOUS
<1> USE DEF MInv
<1>1. IsWrites(<< >>) /\ Elsewhere(<< >>)
  BY DEF IsWrites, Elsewhere
<1>2. /\ proc # "up" /\ proc' = "boot" /\ at' = 1 /\ 1 \in 1 .. 13 /\ read' = FALSE /\ rows' = {}
      /\ todo' = << >> /\ db' = db /\ left' = left
  BY DEF Start
<1>3. Types'
  BY Zenon, <1>1, <1>2 DEF Types
<1>4. Phases'
  BY <1>2 DEF Phases, Current
<1>5. Repaired'
  BY <1>2 DEF Repaired, MarkedIsFixed
<1>6. ReferencesKept' /\ Settled'
  BY <1>2 DEF ReferencesKept, Settled
<1> QED BY Zenon, <1>3, <1>4, <1>5, <1>6

LEMMA CrashKeeps == MInv /\ Crash => MInv'
<1> SUFFICES ASSUME MInv, Crash PROVE MInv'
  OBVIOUS
<1> USE DEF MInv
<1>1. /\ proc' = "down" /\ left' = (IF proc = "up" THEN {db.tables} ELSE left)
      /\ UNCHANGED <<db, at, read, rows, todo>>
  BY DEF Crash
<1>2. Types'
  BY Zenon, <1>1, SameTypes DEF Types
<1>3. Phases'
  BY <1>1 DEF Phases, Current
<1>4. Repaired'
  BY <1>1 DEF Repaired, MarkedIsFixed
<1>5. ReferencesKept' /\ Settled'
  BY <1>1 DEF ReferencesKept, Settled
<1> QED BY Zenon, <1>2, <1>3, <1>4, <1>5

LEMMA FreshFailsKeeps == MInv /\ FreshFails => MInv'
<1> SUFFICES ASSUME MInv, FreshFails PROVE MInv'
  OBVIOUS
<1> USE DEF MInv
<1>1. proc # "up" /\ proc' = "refused" /\ UNCHANGED <<db, at, read, rows, todo, left>>
  BY DEF FreshFails
<1>2. Types'
  BY Zenon, <1>1, SameTypes DEF Types
<1>3. Phases'
  BY <1>1 DEF Phases, Current
<1>4. Repaired'
  BY <1>1 DEF Repaired, MarkedIsFixed
<1>5. ReferencesKept' /\ Settled'
  BY <1>1 DEF ReferencesKept, Settled
<1> QED BY Zenon, <1>2, <1>3, <1>4, <1>5

LEMMA AssertVersionKeeps == MInv /\ AssertVersion => MInv'
<1> SUFFICES ASSUME MInv, AssertVersion PROVE MInv'
  OBVIOUS
<1> USE DEF MInv
<1>1. /\ proc = "migrate" /\ proc' = (IF db.version = DATABASE_VERSION THEN "up" ELSE "panicked")
      /\ UNCHANGED <<db, at, read, rows, todo, left>> /\ at > 12
  BY PlanLength DEF AssertVersion
<1>2. Types'
  BY Zenon, <1>1, SameTypes DEF Types
<1>3. db.markers = Named
  <2>1. ASSUME NEW m \in Named PROVE \E i \in 1 .. 12 : Plan[i] = m
    BY DEF Plan, Named
  <2>2. ASSUME NEW i \in 1 .. 12 PROVE i < at
    BY <1>1 DEF Types
  <2>3. Named \subseteq db.markers
    BY Zenon, <1>1, <2>1, <2>2 DEF Phases
  <2> QED BY ZenonT(40), <2>3 DEF Types, IsDatabase
<1>4. Phases'
  BY <1>1, <1>3 DEF Phases, Current
<1>5. Repaired'
  BY <1>1 DEF Repaired, MarkedIsFixed
<1>6. ReferencesKept' /\ Settled'
  BY <1>1 DEF ReferencesKept, Settled
<1> QED BY Zenon, <1>2, <1>4, <1>5, <1>6

(* Another database with the same data keeps the rows to visit as they are.*)
LEMMA DataTypes ==
  ASSUME Types, IsDatabase(db'), SameData(db', db), UNCHANGED <<rows, todo>>,
         at' \in 1 .. 13, read' \in BOOLEAN,
         proc' \in {"down", "boot", "migrate", "fresh", "up", "refused", "panicked"}
  PROVE  Types'
BY Zenon DEF Types, Moves, Moved, SameData

LEMMA MigrationsKeeps == MInv /\ migrations => MInv'
<1> SUFFICES ASSUME MInv, migrations PROVE MInv'
  OBVIOUS
<1> USE DEF MInv
<1>1. proc = "boot" /\ UNCHANGED <<at, read, rows, todo, left>> /\ at = 1 /\ ~ read /\ rows = {} /\ todo = << >>
  BY Zenon DEF migrations, Phases
<1>2. CASE db.accounts = {}
  <2>1. proc' = "fresh" /\ db' = [db EXCEPT !.version = DATABASE_VERSION, !.markers = Named]
    BY <1>2 DEF migrations
  <2>2. /\ DOMAIN db' = DOMAIN db /\ db'.tables = db.tables /\ db'.version = 18
        /\ db'.markers = Named /\ db'.accounts = db.accounts /\ db'.has_state = db.has_state
        /\ db'.referenced = db.referenced /\ db'.member = db.member
    BY <2>1 DEF IsDatabase, Types, DATABASE_VERSION
  <2>3. 18 \in Nat
    OBVIOUS
  <2>4. IsDatabase(db') /\ SameData(db', db)
    BY Zenon, <2>2, <2>3 DEF IsDatabase, SameData, list_local_users, Types
  <2>5. Types'
    BY Zenon, <1>1, <2>1, <2>4, DataTypes DEF Types
  <2>6. left = {}
    BY Zenon, <1>2 DEF Phases
  <2>7. Phases'
    BY <1>1, <2>1, <2>2, <2>6 DEF Phases, Current, DATABASE_VERSION
  <2>8. \A s \in DOMAIN Repairs : Fixed(db', s)
    BY Zenon, <1>2, <2>4, SameFixed DEF Repaired
  <2>9. Repaired'
    BY Zenon, <2>1, <2>8 DEF Repaired, MarkedIsFixed
  <2>10. ReferencesKept'
    BY Zenon, <2>2, <2>4, SameFixed DEF ReferencesKept
  <2>11. Settled'
    BY Zenon, <1>1, <2>6 DEF Settled
  <2> QED BY Zenon, <2>5, <2>7, <2>9, <2>10, <2>11
<1>3. CASE db.accounts # {}
  <2>1. /\ proc' = (IF "server" \in db.accounts /\ db.version >= 11 THEN "migrate" ELSE "refused")
        /\ db' = db
    BY <1>3 DEF migrations
  <2>2. Types'
    BY Zenon, <1>1, <2>1, SameTypes DEF Types
  <2>3. Phases'
    BY SMTT(30), <1>1, <2>1 DEF Phases, Current
  <2>4. Repaired'
    BY <1>1, <2>1 DEF Repaired, MarkedIsFixed
  <2>5. ReferencesKept' /\ Settled'
    BY <1>1, <2>1 DEF ReferencesKept, Settled
  <2> QED BY Zenon, <2>2, <2>3, <2>4, <2>5
<1> QED BY Zenon, <1>2, <1>3

LEMMA FreshKeeps == MInv /\ fresh => MInv'
<1> SUFFICES ASSUME MInv, fresh PROVE MInv'
  OBVIOUS
<1> USE DEF MInv
<1>1. /\ proc = "fresh" /\ db' = Create(db, AdminRoom[at]) /\ UNCHANGED <<read, rows, todo, left>>
      /\ IF at < 12 THEN at' = at + 1 /\ proc' = proc ELSE proc' = "up" /\ at' = at
  BY Zenon, PlanLength DEF fresh
<1>2. /\ IsDatabase(db') /\ SameData(db', db) /\ db.accounts \subseteq db'.accounts
      /\ AdminRoom[at] = "user" => "server" \in db'.accounts
      /\ db'.version = db.version /\ db'.markers = db.markers
  BY Zenon, <1>1, CreateStep DEF Types
<1>3. at \in 1 .. 12 /\ at' \in 1 .. 13 /\ proc' \in {"fresh", "up"} /\ (at = 1 => AdminRoom[at] = "user")
  BY <1>1, PlanLength DEF Types, Phases
<1>4. Types'
  BY Zenon, <1>1, <1>2, <1>3, DataTypes DEF Types
<1>5. "server" \in db'.accounts
  BY SMTT(30), <1>1, <1>2, <1>3 DEF Phases
<1>6. Current /\ Current' /\ left = {} /\ at' <= 12
  BY SMTT(30), <1>1, <1>2, <1>3 DEF Phases, Current
<1>7. Phases'
  BY <1>1, <1>3, <1>5, <1>6 DEF Phases
<1>8. \A s : Due(db', s) <=> Due(db, s)
  BY Zenon, <1>2 DEF Due
<1>9. Repaired'
  BY Zenon, <1>2, <1>3, <1>5, <1>8, SameFixed DEF Repaired, MarkedIsFixed
<1>10. ReferencesKept'
  BY Zenon, <1>2, SameFixed DEF ReferencesKept, SameData
<1>11. Settled'
  BY Zenon, <1>1, <1>6 DEF Settled
<1> QED BY Zenon, <1>4, <1>7, <1>9, <1>10, <1>11

LEMMA SkipKeeps == MInv /\ Skip => MInv'
<1> SUFFICES ASSUME MInv, Skip PROVE MInv'
  OBVIOUS
<1> USE DEF MInv
<1>1. /\ proc = "migrate" /\ at <= 12 /\ ~ read /\ ~ Due(db, Plan[at]) /\ at' = at + 1
      /\ UNCHANGED <<db, proc, read, rows, todo, left>>
  BY PlanLength DEF Skip, step
<1>2. at \in 1 .. 12 /\ at' \in 1 .. 13
  BY <1>1 DEF Types
<1>3. Types'
  BY Zenon, <1>1, <1>2, SameTypes DEF Types
<1>4. Plan[at] \in Named => Plan[at] \in db.markers
  BY Zenon, <1>1 DEF Due
<1>5. Phases'
  <2>1. \A i \in 1 .. 12 : i < at' => i < at \/ i = at
    BY <1>1, <1>2
  <2>2. \A i \in 1 .. 12 : i < at' /\ Plan[i] \in Named => Plan[i] \in db'.markers
    BY Zenon, <1>1, <1>4, <2>1 DEF Phases
  <2> QED BY Zenon, <1>1, <2>2 DEF Phases, Current
<1>6. (at' > 1 => Fixed(db, "v12")) /\ (at' > 6 => Fixed(db, "references"))
  <2>1. Plan[1] = "v12" /\ Plan[6] = "references" /\ "v12" \in DOMAIN Repairs /\ "references" \in DOMAIN Repairs
    BY DEF Plan, Repairs
  <2>2. (at' > 1 => at > 1 \/ at = 1) /\ (at' > 6 => at > 6 \/ at = 6)
    BY <1>1, <1>2
  <2> QED BY Zenon, <1>1, <2>1, <2>2 DEF Repaired, MarkedIsFixed
<1>7. Repaired'
  BY Zenon, <1>1, <1>6 DEF Repaired, MarkedIsFixed
<1>8. ReferencesKept' /\ Settled'
  BY Zenon, <1>1 DEF ReferencesKept, Settled
<1> QED BY Zenon, <1>3, <1>5, <1>7, <1>8

LEMMA CurrentNotDue ==
  ASSUME Current, NEW i \in 1 .. 12
  PROVE  ~ Due(db, Plan[i])
<1>1. Plan[i] \in Named => ~ Due(db, Plan[i])
  BY SMT DEF Current, Due, DATABASE_VERSION
<1>2. Plan[i] \notin Named => Target[Plan[i]] <= 18
  BY DEF Plan, Named, Target
<1>3. Plan[i] \notin Named => Target[Plan[i]] \in Nat
  BY DEF Plan, Named, Target
<1> QED BY <1>1, <1>2, <1>3 DEF Current, Due, DATABASE_VERSION

LEMMA ReadKeeps == MInv /\ Read => MInv'
<1> SUFFICES ASSUME MInv, Read PROVE MInv'
  OBVIOUS
<1> USE DEF MInv
<1>1. /\ proc = "migrate" /\ at <= 12 /\ ~ read /\ Due(db, Plan[at]) /\ read' = TRUE
      /\ rows' = Writes(db, Plan[at]) /\ UNCHANGED <<db, proc, at, todo, left>>
  BY PlanLength DEF Read, step
<1>2. at \in 1 .. 12
  BY <1>1 DEF Types
<1>3. GoodRows(db, Plan[at], rows')
  BY Zenon, <1>1, <1>2, ReadRows DEF Types, ReferencesKept
<1>4. \A r \in rows' : IsWrites(r.writes) /\ (Elsewhere(r.writes) \/ Moves(db', r.writes))
  BY Zenon, <1>1, <1>3 DEF GoodRows, GoodRow
<1>5. Types'
  BY Zenon, <1>1, <1>4 DEF Types
<1>6. left = {}
  BY Zenon, <1>1, <1>2, CurrentNotDue DEF Phases
<1>7. Phases'
  BY Zenon, <1>1, <1>6 DEF Phases, Current
<1>8. ASSUME step' \in DOMAIN Repairs, NEW k \in TableKeys[Repairs[step']], Broken(db', step', k)
      PROVE  \E w : Pending(w)' /\ w.table = Repairs[step'] /\ w.key = k
  <2>1. step' = Plan[at]
    BY Zenon, <1>1 DEF step
  <2>2. PICK r \in rows' : Covers(r.writes, Repairs[step'], k)
    BY Zenon, <1>1, <1>3, <1>8, <2>1 DEF GoodRows
  <2>3. PICK i \in 1 .. Len(r.writes) : r.writes[i].table = Repairs[step'] /\ r.writes[i].key = k
    BY Zenon, <2>2 DEF Covers
  <2>4. Pending(r.writes[i])'
    BY Zenon DEF Pending
  <2> QED BY Zenon, <2>3, <2>4
<1>9. Repaired'
  BY Zenon, <1>1, <1>8 DEF Repaired, MarkedIsFixed
<1>10. ReferencesKept' /\ Settled'
  BY Zenon, <1>1 DEF ReferencesKept, Settled
<1> QED BY Zenon, <1>5, <1>7, <1>9, <1>10

LEMMA NextRowKeeps == MInv /\ NextRow => MInv'
<1> SUFFICES ASSUME MInv, NextRow PROVE MInv'
  OBVIOUS
<1> USE DEF MInv
<1>1. proc = "migrate" /\ todo = << >> /\ UNCHANGED <<db, proc, at, read, left>>
  BY Zenon DEF NextRow
<1>2. PICK r \in rows : todo' = r.writes /\ rows' = rows \ {r}
  BY Zenon DEF NextRow
<1>3. read
  BY Zenon, <1>1, <1>2 DEF Phases
<1>4. Types'
  <2>1. \A x \in rows' : x \in rows
    BY Zenon, <1>2
  <2>2. IsWrites(r.writes) /\ (Elsewhere(r.writes) \/ Moves(db, r.writes))
    BY Zenon, <1>2 DEF Types
  <2>3. \A x \in rows' : IsWrites(x.writes) /\ (Elsewhere(x.writes) \/ Moves(db', x.writes))
    BY Zenon, <1>1, <2>1 DEF Types
  <2>4. IsWrites(todo') /\ (Elsewhere(todo') \/ Moves(db', todo'))
    BY Zenon, <1>1, <1>2, <2>2
  <2> QED BY Zenon, <1>1, <2>3, <2>4 DEF Types
<1>5. Phases'
  BY Zenon, <1>1, <1>3 DEF Phases, Current
<1>6. ASSUME NEW w, Pending(w) PROVE Pending(w)'
  <2>1. \A i \in 1 .. Len(todo) : FALSE
    BY <1>1
  <2>2. PICK x \in rows : \E i \in 1 .. Len(x.writes) : x.writes[i] = w
    BY Zenon, <1>6, <2>1 DEF Pending
  <2>3. x = r \/ x \in rows'
    BY Zenon, <1>2
  <2> QED BY Zenon, <1>2, <2>2, <2>3 DEF Pending
<1>7. step' = step
  BY Zenon, <1>1 DEF step
<1>8. Repaired'
  BY Zenon, <1>1, <1>6, <1>7 DEF Repaired, MarkedIsFixed
<1>9. ReferencesKept' /\ Settled'
  BY Zenon, <1>1 DEF ReferencesKept, Settled
<1> QED BY Zenon, <1>4, <1>5, <1>8, <1>9

LEMMA MarkKeeps == MInv /\ Mark => MInv'
<1> SUFFICES ASSUME MInv, Mark PROVE MInv'
  OBVIOUS
<1> USE DEF MInv
<1>1. /\ proc = "migrate" /\ read /\ rows = {} /\ todo = << >> /\ db' = Done(db, Plan[at])
      /\ at' = at + 1 /\ read' = FALSE /\ UNCHANGED <<proc, rows, todo, left>> /\ step = Plan[at]
  BY Zenon DEF Mark, step
<1>2. at \in 1 .. 12 /\ at' \in 1 .. 13 /\ left = {}
  BY <1>1 DEF Types, Phases
<1>3. /\ IsDatabase(db') /\ SameData(db', db) /\ db'.accounts = db.accounts
      /\ Plan[at] \in Named => db'.markers = db.markers \cup {Plan[at]} /\ db'.version = db.version
      /\ Plan[at] \notin Named => db'.markers = db.markers /\ db'.version = Target[Plan[at]]
  BY ZenonT(40), <1>1, <1>2, DoneStep DEF Types
<1>4. Types'
  BY Zenon, <1>1, <1>2, <1>3, DataTypes DEF Types
<1>5. Phases'
  <2>1. \A i \in 1 .. 12 : i < at' => i < at \/ i = at
    BY <1>1, <1>2
  <2>2. db.markers \subseteq db'.markers /\ (Plan[at] \in Named => Plan[at] \in db'.markers)
    BY Zenon, <1>3
  <2>3. \A i \in 1 .. 12 : i < at' /\ Plan[i] \in Named => Plan[i] \in db'.markers
    BY Zenon, <1>1, <2>1, <2>2 DEF Phases
  <2> QED BY Zenon, <1>1, <1>2, <1>3, <2>3 DEF Phases, Current
<1>6. Plan[at] \in DOMAIN Repairs => Fixed(db, Plan[at])
  <2>1. \A w : ~ Pending(w)
    BY <1>1 DEF Pending
  <2> QED BY Zenon, <1>1, <2>1 DEF Repaired, Fixed
<1>7. (at' > 1 => Fixed(db, "v12")) /\ (at' > 6 => Fixed(db, "references"))
  <2>1. Plan[1] = "v12" /\ Plan[6] = "references" /\ "v12" \in DOMAIN Repairs /\ "references" \in DOMAIN Repairs
    BY DEF Plan, Repairs
  <2>2. (at' > 1 => at > 1 \/ at = 1) /\ (at' > 6 => at > 6 \/ at = 6)
    BY <1>1, <1>2
  <2>3. at = 1 => Fixed(db, "v12")
    BY Zenon, <1>6, <2>1
  <2>4. at = 6 => Fixed(db, "references")
    BY Zenon, <1>6, <2>1
  <2>5. (at > 1 => Fixed(db, "v12")) /\ (at > 6 => Fixed(db, "references"))
    BY Zenon, <1>1 DEF Repaired
  <2> QED BY Zenon, <2>2, <2>3, <2>4, <2>5
<1>8. ASSUME NEW s \in DOMAIN Repairs, ~ Due(db', s)
      PROVE  Fixed(db, s)
  <2>1. CASE s = Plan[at]
    BY Zenon, <1>6, <2>1
  <2>2. CASE s = "v12"
    <3>1. at' > 1
      BY <1>1, <1>2
    <3> QED BY Zenon, <1>7, <2>2, <3>1
  <2>3. CASE s = "references" /\ Plan[at] # "references"
    <3>1. s \in db.markers /\ db'.version >= 17
      BY <1>3, <1>8, <2>3 DEF Due, Named, IsDatabase
    <3>2. CASE Plan[at] \in Named
      <4>1. ~ Due(db, s)
        BY <1>3, <2>3, <3>1, <3>2 DEF Due, Named, IsDatabase, Types
      <4> QED BY ZenonT(40), <4>1 DEF Repaired, MarkedIsFixed
    <3>3. CASE Plan[at] \notin Named
      <4>1. Target[Plan[at]] >= 17
        BY <1>3, <3>1, <3>3
      <4>2. at' > 6
        BY SMTT(30), <1>1, <1>2, <3>3, <4>1 DEF Plan, Target, Named
      <4> QED BY Zenon, <1>7, <2>3, <4>2
    <3> QED BY Zenon, <3>2, <3>3
  <2>4. CASE s \in {"separator", "profile", "leftstate", "invites"} /\ s # Plan[at]
    <3>1. s \in db.markers
      BY <1>3, <1>8, <2>4 DEF Due, Named
    <3>2. ~ Due(db, s)
      BY <2>4, <3>1 DEF Due, Named
    <3> QED BY Zenon, <3>2 DEF Repaired, MarkedIsFixed
  <2>5. s \in {"v12", "separator", "references", "profile", "leftstate", "invites"}
    BY DEF Repairs
  <2> QED BY Zenon, <2>1, <2>2, <2>3, <2>4, <2>5
<1>9. Repaired'
  BY Zenon, <1>1, <1>3, <1>7, <1>8, SameFixed DEF Repaired, MarkedIsFixed
<1>10. ReferencesKept'
  BY Zenon, <1>3, SameFixed DEF ReferencesKept, SameData
<1>11. Settled'
  BY Zenon, <1>1, <1>2 DEF Settled
<1> QED BY Zenon, <1>4, <1>5, <1>9, <1>10, <1>11

(* The references when the row of an event is moved.                       *)
LEMMA ReferencedIff ==
  ASSUME NEW d, IsDatabase(d), NEW e
  PROVE  e \in Referenced(d) <=>
           e \in Events /\ \E j \in {"joint", "split"} : d.tables.references[<<j, e>>] # None
<1>1. d.tables["references"] \in [TableKeys["references"] -> TableValues["references"] \cup {None}]
  BY ZenonT(40) DEF IsDatabase, TableKeys
<1>2. TableKeys["references"] = {"joint", "split"} \X Events
  BY DEF TableKeys
<1>3. e \in Referenced(d) <=> \E k \in {"joint", "split"} \X Events : d.tables.references[k] # None /\ k[2] = e
  BY <1>1, <1>2 DEF Referenced, Rows
<1>4. ASSUME NEW k \in {"joint", "split"} \X Events
      PROVE  k = <<k[1], k[2]>> /\ k[1] \in {"joint", "split"} /\ k[2] \in Events
  OBVIOUS
<1>5. ASSUME NEW j \in {"joint", "split"}, e \in Events
      PROVE  <<j, e>> \in {"joint", "split"} \X Events /\ <<j, e>>[2] = e
  BY <1>5
<1> QED BY Zenon, <1>3, <1>4, <1>5

LEMMA PutReference ==
  ASSUME NEW d, IsDatabase(d), NEW e \in d.referenced, Referenced(d) = d.referenced
  PROVE  /\ Harmless(PutSplit(e)) /\ Harmless(DropJoint(e))
         /\ Referenced(Put(d, PutSplit(e))) = Referenced(d)
         /\ Put(d, PutSplit(e)).tables.references[<<"split", e>>] = "row"
         /\ d.tables.references[<<"split", e>>] = "row" => Referenced(Put(d, DropJoint(e))) = Referenced(d)
<1>1. e \in Events /\ "references" \in Tables
  BY DEF IsDatabase, Tables, TableKeys
<1>2. PICK a, b : a = PutSplit(e) /\ b = DropJoint(e)
  BY Zenon
<1>3. /\ a.table = "references" /\ a.key = <<"split", e>> /\ a.value = "row"
      /\ b.table = "references" /\ b.key = <<"joint", e>> /\ b.value = None
  BY SMTT(30), <1>2 DEF PutSplit, DropJoint, W
<1>4. Harmless(a) /\ Harmless(b)
  BY <1>1, <1>3 DEF Harmless, Fine, Tables, TableKeys, TableValues, None
<1>5. PICK c, f : c = Put(d, a) /\ f = Put(d, b)
  BY Zenon
<1>6. /\ IsDatabase(c) /\ c.tables["references"][<<"split", e>>] = "row"
      /\ \A k \in TableKeys["references"] : k # <<"split", e>> => c.tables["references"][k] = d.tables["references"][k]
  <2>1. /\ IsDatabase(c) /\ c.tables[a.table][a.key] = a.value
        /\ \A x \in Tables : \A k \in TableKeys[x] :
             x # a.table \/ k # a.key => c.tables[x][k] = d.tables[x][k]
    BY SMTT(30), <1>4, <1>5, PutStep
  <2> QED BY ZenonT(40), <1>1, <1>3, <2>1
<1>7. /\ IsDatabase(f) /\ f.tables["references"][<<"joint", e>>] = None
      /\ \A k \in TableKeys["references"] : k # <<"joint", e>> => f.tables["references"][k] = d.tables["references"][k]
  <2>1. /\ IsDatabase(f) /\ f.tables[b.table][b.key] = b.value
        /\ \A x \in Tables : \A k \in TableKeys[x] :
             x # b.table \/ k # b.key => f.tables[x][k] = d.tables[x][k]
    BY SMTT(30), <1>4, <1>5, PutStep
  <2> QED BY Zenon, <1>1, <1>3, <2>1
<1>8. \A x \in Events, j \in {"joint", "split"} : <<j, x>> \in TableKeys["references"]
  BY DEF TableKeys
<1>9. ASSUME NEW x \in Events, NEW j, NEW i, <<j, x>> = <<i, e>> PROVE x = e
  BY <1>9
<1>10. <<"joint", e>> # <<"split", e>> /\ "row" # None
  BY DEF None
<1>11. ASSUME NEW x PROVE x \in Referenced(c) <=> x \in Referenced(d)
  <2>1. CASE x = e
    BY Zenon, <1>1, <1>6, <1>10, <2>1, ReferencedIff
  <2>2. CASE x # e
    <3>1. ASSUME NEW j \in {"joint", "split"}, x \in Events
          PROVE  c.tables["references"][<<j, x>>] = d.tables["references"][<<j, x>>]
      BY Zenon, <1>6, <1>8, <1>9, <2>2, <3>1
    <3>2. x \in Events => \A j \in {"joint", "split"} : c.tables.references[<<j, x>>] = d.tables.references[<<j, x>>]
      BY Zenon, <3>1
    <3>3. x \in Referenced(d) <=>
            x \in Events /\ \E j \in {"joint", "split"} : d.tables.references[<<j, x>>] # None
      BY Zenon, ReferencedIff
    <3>4. x \in Referenced(c) <=>
            x \in Events /\ \E j \in {"joint", "split"} : c.tables.references[<<j, x>>] # None
      BY Zenon, <1>6, ReferencedIff
    <3> QED BY Zenon, <3>2, <3>3, <3>4
  <2> QED BY Zenon, <2>1, <2>2
<1>12. ASSUME NEW x, d.tables.references[<<"split", e>>] = "row"
       PROVE  x \in Referenced(f) <=> x \in Referenced(d)
  <2>1. CASE x = e
    <3>1. <<"split", e>> \in TableKeys["references"]
      BY Zenon, <1>1, <1>8
    <3>2. f.tables["references"][<<"split", e>>] = "row"
      BY Zenon, <1>7, <1>10, <1>12, <3>1
    <3> QED BY Zenon, <1>1, <1>7, <1>10, <2>1, <3>2, ReferencedIff
  <2>2. CASE x # e
    <3>1. ASSUME NEW j \in {"joint", "split"}, x \in Events
          PROVE  f.tables["references"][<<j, x>>] = d.tables["references"][<<j, x>>]
      BY Zenon, <1>7, <1>8, <1>9, <2>2, <3>1
    <3>2. x \in Events => \A j \in {"joint", "split"} : f.tables.references[<<j, x>>] = d.tables.references[<<j, x>>]
      BY Zenon, <3>1
    <3>3. x \in Referenced(d) <=>
            x \in Events /\ \E j \in {"joint", "split"} : d.tables.references[<<j, x>>] # None
      BY Zenon, ReferencedIff
    <3>4. x \in Referenced(f) <=>
            x \in Events /\ \E j \in {"joint", "split"} : f.tables.references[<<j, x>>] # None
      BY Zenon, <1>7, ReferencedIff
    <3> QED BY Zenon, <3>2, <3>3, <3>4
  <2> QED BY Zenon, <2>1, <2>2
<1> QED BY ZenonT(40), <1>2, <1>4, <1>5, <1>6, <1>11, <1>12

LEMMA HeadAndTail ==
  ASSUME NEW q, IsWrites(q), q # << >>
  PROVE  /\ Head(q) \in Writable /\ Harmless(Head(q)) /\ IsWrites(Tail(q))
         /\ \E i \in 1 .. Len(q) : q[i] = Head(q)
         /\ \A j \in 1 .. Len(Tail(q)) : \E i \in 1 .. Len(q) : q[i] = Tail(q)[j]
         /\ \A i \in 1 .. Len(q) : q[i] = Head(q) \/ \E j \in 1 .. Len(Tail(q)) : Tail(q)[j] = q[i]
<1>1. /\ q \in Seq(Writable) /\ Len(q) \in Nat \ {0} /\ Head(q) = q[1] /\ q[1] \in Writable
      /\ Tail(q) \in Seq(Writable) /\ Len(Tail(q)) = Len(q) - 1
      /\ \A j \in 1 .. Len(Tail(q)) : Tail(q)[j] = q[j + 1]
  BY SMT DEF IsWrites
<1>2. ASSUME NEW i \in 1 .. Len(q)
      PROVE  q[i] = Head(q) \/ \E j \in 1 .. Len(Tail(q)) : Tail(q)[j] = q[i]
  <2>1. i = 1 \/ (i - 1 \in 1 .. Len(Tail(q)) /\ (i - 1) + 1 = i)
    BY SMT, <1>1
  <2> QED BY Zenon, <1>1, <2>1
<1>3. ASSUME NEW j \in 1 .. Len(Tail(q))
      PROVE  \E i \in 1 .. Len(q) : q[i] = Tail(q)[j]
  <2>1. j + 1 \in 1 .. Len(q)
    BY SMT, <1>1
  <2> QED BY Zenon, <1>1, <2>1
<1>4. 1 \in 1 .. Len(q)
  BY SMT, <1>1
<1> QED BY Zenon, <1>1, <1>2, <1>3, <1>4 DEF Writable, IsWrites

LEMMA IssueReferences ==
  ASSUME Types, ReferencesKept, todo # << >>
  PROVE  /\ Referenced(Put(db, Head(todo))) = db.referenced
         /\ Elsewhere(Tail(todo)) \/ Moved(Put(db, Head(todo)), Tail(todo))
<1>1. Harmless(Head(todo)) /\ IsDatabase(db) /\ IsWrites(todo) /\ Referenced(db) = db.referenced
  BY Zenon, HeadAndTail DEF Types, ReferencesKept
<1>2. CASE Elsewhere(todo)
  <2>1. Head(todo).table # "references" /\ Elsewhere(Tail(todo))
    <3>1. PICK i \in 1 .. Len(todo) : todo[i] = Head(todo)
      BY Zenon, <1>1, HeadAndTail
    <3>2. ASSUME NEW j \in 1 .. Len(Tail(todo)) PROVE Tail(todo)[j].table # "references"
      <4>1. PICK k \in 1 .. Len(todo) : todo[k] = Tail(todo)[j]
        BY Zenon, <1>1, HeadAndTail
      <4> QED BY SMT, <1>2, <4>1 DEF Elsewhere
    <3>3. Head(todo).table # "references"
      BY SMT, <1>2, <3>1 DEF Elsewhere
    <3> QED BY Zenon, <3>2, <3>3 DEF Elsewhere
  <2> QED BY Zenon, <1>1, <2>1, PutElsewhere
<1>3. CASE Moves(db, todo)
  <2>1. PICK e \in db.referenced : todo = << PutSplit(e), DropJoint(e) >>
    BY Zenon, <1>3 DEF Moves
  <2>2. Head(todo) = PutSplit(e) /\ Tail(todo) = << DropJoint(e) >>
    BY SMT, <2>1
  <2>3. PICK c : c = Put(db, PutSplit(e))
    BY Zenon
  <2>4. /\ Harmless(PutSplit(e)) /\ Referenced(c) = Referenced(db)
        /\ c.tables.references[<<"split", e>>] = "row"
    BY Zenon, <1>1, <2>3, PutReference
  <2>5. c.referenced = db.referenced
    BY Zenon, <1>1, <2>3, <2>4, PutStep DEF SameBut
  <2>6. Moved(c, Tail(todo))
    BY Zenon, <2>2, <2>4, <2>5 DEF Moved
  <2> QED BY Zenon, <1>1, <2>2, <2>3, <2>4, <2>6
<1>4. CASE Moved(db, todo)
  <2>1. PICK e \in db.referenced :
          todo = << DropJoint(e) >> /\ db.tables.references[<<"split", e>>] = "row"
    BY Zenon, <1>4 DEF Moved
  <2>2. Head(todo) = DropJoint(e) /\ Tail(todo) = << >>
    BY SMT, <2>1
  <2>3. Elsewhere(<< >>)
    BY DEF Elsewhere
  <2> QED BY Zenon, <1>1, <2>1, <2>2, <2>3, PutReference
<1> QED BY Zenon, <1>2, <1>3, <1>4 DEF Types

LEMMA IssueKeeps == MInv /\ Issue => MInv'
<1> SUFFICES ASSUME MInv, Issue PROVE MInv'
  OBVIOUS
<1> USE DEF MInv
<1>1. proc = "migrate" /\ todo # << >> /\ UNCHANGED <<at, read, rows, left>>
  BY Zenon DEF Issue
<1>2. read /\ left = {}
  BY Zenon, <1>1 DEF Phases
<1>3. CASE Panics(Head(todo))
  <2>1. proc' = "panicked" /\ UNCHANGED <<db, todo>>
    BY Zenon, <1>3 DEF Issue
  <2>2. Types'
    BY Zenon, <1>1, <2>1, SameTypes DEF Types
  <2>3. Phases'
    BY SMTT(30), <1>1, <1>2, <2>1 DEF Phases, Current
  <2>4. Repaired'
    BY ZenonT(40), <1>1, <2>1 DEF Repaired, MarkedIsFixed
  <2>5. ReferencesKept' /\ Settled'
    BY Zenon, <1>1, <1>2, <2>1 DEF ReferencesKept, Settled
  <2> QED BY Zenon, <2>2, <2>3, <2>4, <2>5
<1>4. CASE ~ Panics(Head(todo))
  <2>1. db' = Put(db, Head(todo)) /\ todo' = Tail(todo) /\ proc' = proc
    BY Zenon, <1>4 DEF Issue
  <2>2. IsDatabase(db) /\ IsWrites(todo) /\ Harmless(Head(todo)) /\ IsWrites(todo')
    BY Zenon, <1>1, <2>1, HeadAndTail DEF Types
  <2>3. IsDatabase(db') /\ SameBut(db', db)
    BY Zenon, <2>1, <2>2, PutStep
  <2>4. Referenced(db') = db.referenced /\ (Elsewhere(todo') \/ Moved(db', todo'))
    BY Zenon, <1>1, <2>1, IssueReferences
  <2>5. Types'
    <3>1. \A q : Moves(db, q) => Moves(db', q)
      BY Zenon, <2>3 DEF Moves, SameBut
    <3> QED BY Zenon, <1>1, <2>1, <2>2, <2>3, <2>4, <3>1 DEF Types
  <2>6. Phases'
    BY Zenon, <1>1, <1>2, <2>1, <2>3 DEF Phases, Current, SameBut
  <2>7. \A s \in DOMAIN Repairs : (Fixed(db, s) => Fixed(db', s)) /\ (Due(db', s) <=> Due(db, s))
    BY Zenon, <2>1, <2>2, PutKeepsFixed, PutKeepsDue
  <2>8. ASSUME step' \in DOMAIN Repairs, NEW k \in TableKeys[Repairs[step']], Broken(db', step', k)
        PROVE  \E w : Pending(w)' /\ w.table = Repairs[step'] /\ w.key = k
    <3>1. step' = step
      BY Zenon, <1>1 DEF step
    <3>2. Broken(db, step, k) /\ (Repairs[step] # Head(todo).table \/ k # Head(todo).key)
      BY Zenon, <2>1, <2>2, <2>8, <3>1, PutFixes
    <3>3. PICK w : Pending(w) /\ w.table = Repairs[step] /\ w.key = k
      BY Zenon, <1>1, <1>2, <2>8, <3>1, <3>2 DEF Repaired
    <3>4. w # Head(todo)
      BY Zenon, <3>2, <3>3
    <3>5. Pending(w)'
      <4>1. CASE \E r \in rows : \E i \in 1 .. Len(r.writes) : r.writes[i] = w
        BY Zenon, <1>1, <4>1 DEF Pending
      <4>2. CASE \E i \in 1 .. Len(todo) : todo[i] = w
        <5>1. PICK i \in 1 .. Len(todo) : todo[i] = w
          BY Zenon, <4>2
        <5>2. \E j \in 1 .. Len(Tail(todo)) : Tail(todo)[j] = todo[i]
          BY Zenon, <1>1, <2>2, <3>4, <5>1, HeadAndTail
        <5> QED BY Zenon, <2>1, <5>1, <5>2 DEF Pending
      <4> QED BY Zenon, <3>3, <4>1, <4>2 DEF Pending
    <3> QED BY Zenon, <3>1, <3>3, <3>5
  <2>9. Repaired'
    <3>1. MarkedIsFixed' /\ (db'.accounts = {} => \A s \in DOMAIN Repairs : Fixed(db', s))
      BY ZenonT(40), <2>3, <2>7 DEF Repaired, MarkedIsFixed, SameBut
    <3>2. "v12" \in DOMAIN Repairs /\ "references" \in DOMAIN Repairs
      BY DEF Repairs
    <3>3. (at' > 1 => Fixed(db', "v12")) /\ (at' > 6 => Fixed(db', "references"))
      <4>1. at > 1 => Fixed(db, "v12")
        BY Zenon, <1>1 DEF Repaired
      <4>2. at > 6 => Fixed(db, "references")
        BY Zenon, <1>1 DEF Repaired
      <4>3. (Fixed(db, "v12") => Fixed(db', "v12")) /\ (Fixed(db, "references") => Fixed(db', "references"))
        BY Zenon, <2>7, <3>2
      <4> QED BY Zenon, <1>1, <4>1, <4>2, <4>3
    <3> QED BY Zenon, <2>8, <3>1, <3>3 DEF Repaired
  <2>10. ReferencesKept'
    BY Zenon, <2>3, <2>4 DEF ReferencesKept, SameBut
  <2>11. Settled'
    BY Zenon, <1>1, <1>2 DEF Settled
  <2> QED BY Zenon, <2>5, <2>6, <2>9, <2>10, <2>11
<1> QED BY Zenon, <1>3, <1>4

(* A user of the room joins while the server is up.                        *)
Unharmed(c, d) ==
  /\ IsDatabase(c) /\ c.version = d.version /\ c.markers = d.markers /\ c.accounts = d.accounts
  /\ c.referenced = d.referenced /\ c.tables.references = d.tables.references
  /\ Referenced(c) = Referenced(d) /\ \A s \in DOMAIN Repairs : Fixed(d, s) => Fixed(c, s)

LEMMA JoinStep ==
  ASSUME NEW d, IsDatabase(d), NEW u \in Users
  PROVE  Unharmed([d EXCEPT !.member[u] = Member("join")], d)
<1> DEFINE c == [d EXCEPT !.member[u] = Member("join")]
<1>1. /\ DOMAIN c = DOMAIN d /\ c.tables = d.tables /\ c.version = d.version /\ c.markers = d.markers
      /\ c.accounts = d.accounts /\ c.has_state = d.has_state /\ c.referenced = d.referenced
      /\ c.member = [d.member EXCEPT ![u] = Member("join")]
  BY DEF IsDatabase
<1> HIDE DEF c
<1>2. DOMAIN c.member = Users
  BY Zenon, <1>1 DEF IsDatabase
<1>3. IsDatabase(c)
  BY Zenon, <1>1, <1>2 DEF IsDatabase
<1>4. ASSUME NEW k, c.member[k] = Member("invite"), k \in Users PROVE d.member[k] = Member("invite")
  <2>1. Member("join") # Member("invite")
    BY DEF Member
  <2>2. c.member[k] = IF k = u THEN Member("join") ELSE d.member[k]
    BY Zenon, <1>1, <1>4 DEF IsDatabase
  <2> QED BY Zenon, <1>4, <2>1, <2>2
<1>5. ASSUME NEW s \in DOMAIN Repairs, NEW k \in TableKeys[Repairs[s]], Broken(c, s, k)
      PROVE  Broken(d, s, k)
  <2>1. list_local_users(c) = list_local_users(d)
    BY Zenon, <1>1 DEF list_local_users
  <2>2. CASE s = "invites"
    <3>1. k \in Users
      BY SMTT(30), <1>5, <2>2 DEF Repairs, TableKeys
    <3>2. c.tables.invites[k] = "corrupt" \/ (c.tables.invites[k] = "empty" /\ c.member[k] = Member("invite"))
      BY SMTT(30), <1>5, <2>2 DEF Broken
    <3> QED BY Zenon, <1>1, <1>4, <2>2, <3>1, <3>2 DEF Broken
  <2>3. CASE s # "invites"
    BY SMT, <1>1, <1>5, <2>1, <2>3 DEF Broken
  <2> QED BY Zenon, <2>2, <2>3
<1>6. Referenced(c) = Referenced(d)
  BY Zenon, <1>1 DEF Referenced, Rows
<1> HIDE DEF c
<1>7. Unharmed(c, d)
  BY Zenon, <1>1, <1>3, <1>5, <1>6 DEF Fixed, Unharmed
<1> QED BY Zenon, <1>7 DEF c

LEMMA PutKeeps ==
  ASSUME NEW d, IsDatabase(d), NEW w, Harmless(w), w.table # "references"
  PROVE  Unharmed(Put(d, w), d)
<1>1. IsDatabase(Put(d, w)) /\ SameBut(Put(d, w), d)
  BY Zenon, PutStep
<1>2. Put(d, w).tables.references = d.tables.references /\ Referenced(Put(d, w)) = Referenced(d)
  BY Zenon, PutElsewhere
<1>3. \A s \in DOMAIN Repairs : Fixed(d, s) => Fixed(Put(d, w), s)
  BY Zenon, PutKeepsFixed
<1> QED BY Zenon, <1>1, <1>2, <1>3 DEF SameBut, Unharmed

LEMMA UseStep ==
  ASSUME Types, proc = "up", Use
  PROVE  Unharmed(db', db)
<1>1. PICK u \in Users :
        LET w == mark_as_joined(u)
        IN  db' = Put(Put(Put([db EXCEPT !.member[u] = Member("join")], w[1]), w[2]), w[3])
  BY Zenon DEF Use, Types, IsDatabase
<1>2. PICK a, b, c : a = W("joined", <<"one", u>>, "row") /\ b = W("invites", u, None) /\ c = W("leftstate", u, None)
  BY Zenon
<1>3. mark_as_joined(u)[1] = a /\ mark_as_joined(u)[2] = b /\ mark_as_joined(u)[3] = c
  BY SMTT(30), <1>2 DEF mark_as_joined
<1>4. /\ Harmless(a) /\ a.table # "references" /\ Harmless(b) /\ b.table # "references"
      /\ Harmless(c) /\ c.table # "references"
  <2>1. Fine("joined", <<"one", u>>, "row") /\ Fine("invites", u, None) /\ Fine("leftstate", u, None)
    BY DEF Fine, Tables, TableKeys, TableValues, None
  <2>2. /\ a \in Writable /\ a.table = "joined" /\ b \in Writable /\ b.table = "invites"
        /\ c \in Writable /\ c.table = "leftstate"
    BY SMT, <1>2, <2>1, Written
  <2> QED BY SMTT(30), <2>2 DEF Writable
<1>5. PICK x, y, z : x = [db EXCEPT !.member[u] = Member("join")] /\ y = Put(x, a) /\ z = Put(y, b)
  BY Zenon
<1>6. db' = Put(z, c)
  <2>1. db' = Put(Put(Put([db EXCEPT !.member[u] = Member("join")], mark_as_joined(u)[1]),
                      mark_as_joined(u)[2]), mark_as_joined(u)[3])
    BY SMT, <1>1
  <2> QED BY SMT, <1>3, <1>5, <2>1
<1>7. Unharmed(x, db)
  BY Zenon, <1>5, JoinStep DEF Types
<1>8. Unharmed(y, x)
  <2>1. IsDatabase(x)
    BY Zenon, <1>7 DEF Unharmed
  <2> QED BY Zenon, <1>4, <1>5, <2>1, PutKeeps
<1>9. Unharmed(z, y)
  <2>1. IsDatabase(y)
    BY Zenon, <1>8 DEF Unharmed
  <2> QED BY Zenon, <1>4, <1>5, <2>1, PutKeeps
<1>10. Unharmed(db', z)
  <2>1. IsDatabase(z)
    BY Zenon, <1>9 DEF Unharmed
  <2> QED BY Zenon, <1>4, <1>6, <2>1, PutKeeps
<1> QED BY Zenon, <1>7, <1>8, <1>9, <1>10 DEF Unharmed

LEMMA UseKeeps == MInv /\ Use => MInv'
<1> SUFFICES ASSUME MInv, Use PROVE MInv'
  OBVIOUS
<1> USE DEF MInv
<1>1. proc = "up" /\ UNCHANGED <<proc, at, read, rows, todo, left>>
  BY Zenon DEF Use
<1>2. /\ IsDatabase(db') /\ db'.version = db.version /\ db'.markers = db.markers
      /\ db'.accounts = db.accounts /\ db'.referenced = db.referenced
      /\ db'.tables.references = db.tables.references /\ Referenced(db') = Referenced(db)
      /\ \A s \in DOMAIN Repairs : Fixed(db, s) => Fixed(db', s)
  BY Zenon, <1>1, UseStep DEF Unharmed
<1>3. Types'
  <2>1. \A q : (Moves(db, q) => Moves(db', q)) /\ (Moved(db, q) => Moved(db', q))
    BY ZenonT(40), <1>2 DEF Moves, Moved
  <2> QED BY Zenon, <1>1, <1>2, <2>1 DEF Types
<1>4. Phases'
  BY <1>1, <1>2 DEF Phases, Current
<1>5. Repaired'
  <2>1. \A s : Due(db', s) <=> Due(db, s)
    BY Zenon, <1>2 DEF Due
  <2>2. proc' # "migrate"
    BY <1>1
  <2> QED BY Zenon, <1>2, <2>1, <2>2 DEF Repaired, MarkedIsFixed
<1>6. ReferencesKept'
  BY Zenon, <1>2 DEF ReferencesKept
<1>7. Settled'
  BY Zenon, <1>1 DEF Settled
<1> QED BY Zenon, <1>3, <1>4, <1>5, <1>6, <1>7

LEMMA StepKeeps == MInv /\ [MigrateNext]_migrate_vars => MInv'
<1>1. MInv /\ MigrateNext => MInv'
  BY Zenon, StartKeeps, CrashKeeps, FreshFailsKeeps, UseKeeps, MigrationsKeeps, FreshKeeps, SkipKeeps,
     ReadKeeps, NextRowKeeps, IssueKeeps, MarkKeeps, AssertVersionKeeps DEF MigrateNext, Step
<1>2. ASSUME MInv, UNCHANGED migrate_vars PROVE MInv'
  <2>1. UNCHANGED <<db, proc, at, read, rows, todo, left>>
    BY Zenon, <1>2 DEF migrate_vars
  <2>2. Types'
    BY Zenon, <1>2, <2>1, SameTypes DEF MInv, Types
  <2>3. Phases' /\ ReferencesKept' /\ Settled'
    BY Zenon, <1>2, <2>1 DEF MInv, Phases, Current, ReferencesKept, Settled
  <2>4. Repaired'
    BY Zenon, <1>2, <2>1 DEF MInv, Repaired, MarkedIsFixed, Pending, step
  <2> QED BY Zenon, <2>2, <2>3, <2>4 DEF MInv
<1> QED BY Zenon, <1>1, <1>2

(* The inductive invariant of the starts: while a step of the plan runs,   *)
(* every row it found broken still has its write before it; no write of a  *)
(* migration breaks a row; and once a server was up, nothing is due.       *)
THEOREM MigrationInvariance == MigrateSpec => []MInv
<1>1. MigrateInit => MInv
  BY InitMInv
<1>2. MInv /\ [MigrateNext]_migrate_vars => MInv'
  BY StepKeeps
<1> QED BY <1>1, <1>2, PTL DEF MigrateSpec

(* Wherever starts are interrupted, a marker or a version on disk means    *)
(* that no row its migration is there to fix is left.                      *)
THEOREM MarkedIsFixedCorrect == MigrateSpec => []MarkedIsFixed
<1>1. MInv => MarkedIsFixed
  BY Zenon DEF MInv, Repaired
<1> QED BY <1>1, MigrationInvariance, PTL

(* The references between events are all there at every point of a start   *)
(* that may be interrupted, while their rows are moved.                    *)
THEOREM ReferencesKeptCorrect == MigrateSpec => []ReferencesKept
<1>1. MInv => ReferencesKept
  BY Zenon DEF MInv
<1> QED BY <1>1, MigrationInvariance, PTL

(* After a server was up once, no later start writes to its tables.        *)
THEOREM SettledCorrect == MigrateSpec => []Settled
<1>1. MInv => Settled
  BY Zenon DEF MInv
<1> QED BY <1>1, MigrationInvariance, PTL
=============================================================================
