----------------------------- MODULE Lifecycle ------------------------------
(***************************************************************************)
(* From process start to process end: the main task starts the services,   *)
(* runs the listener beside the service manager, and stops them; the       *)
(* manager joins and restarts the services' workers; operating-system      *)
(* signals, an admin command and a failed manager ask for the shutdown     *)
(* through Server::shutdown; requests run as tasks of their own and query  *)
(* the database through the pool.                                          *)
(*                                                                         *)
(* Source: src/src/main/mod.rs, src/src/main/signal.rs,                    *)
(* src/src/core/server.rs, src/src/router/run.rs,                          *)
(* src/src/router/request.rs, src/src/router/serve/, and                   *)
(* src/src/service/{services,manager}.rs with the workers of config,       *)
(* admin and announcements.                                                *)
(***************************************************************************)
EXTENDS DbPool

CONSTANT
  Loads         \* what a run consists of: the services with a worker, the requests,
                \* and bounds on the signals and commands sent and on the faults

Requests == Cmds
\* mailer stands for the workers that do one thing and return.
Services == {"config", "admin", "announcements", "mailer"}
Callers == {"os", "admin", "main"}
Tasks == {"signal", "config", "admin", "announcements"} \cup Requests

VARIABLES
  stopping, restarting,   \* the flags of Server
  call,         \* call[c]: caller c inside Server::shutdown or restart
  pos,          \* pos[x]: where task x stands in its waiting loop
  worker,       \* worker[s]: none | run | ok | error | panic | out
  manager,      \* none | loop | delay | ok | err
  delayed,      \* the service whose restart the manager is delaying
  listener,     \* none | serving | draining | done
  request,      \* request[r]: none | run | answered | unavailable | lost
  main,         \* migrate | start | run | polled | stop | join | exit | failed | down
  interrupted,  \* the channels of the workers are closed
  accepted,     \* history: some shutdown() returned Ok
  signals, faults   \* how many may still come

serverVars == <<stopping, restarting, call, accepted>>
workerVars == <<worker, manager, delayed, interrupted>>
bounds == <<signals, faults>>
vars == <<poolVars, serverVars, workerVars, pos, listener, request, main, bounds>>

idle == [at |-> "idle", restart |-> FALSE]

Init ==
  /\ PoolInit
  /\ stopping = FALSE /\ restarting = FALSE /\ accepted = FALSE
  /\ call = [c \in Callers |-> idle]
  /\ pos = [x \in Tasks |-> "none"]
  /\ manager = "none" /\ delayed = NoCmd /\ interrupted = FALSE
  /\ listener = "none" /\ main = "migrate"
  /\ \E l \in Loads :
       /\ worker = [s \in Services |-> IF s \in l.services THEN "none" ELSE "out"]
       /\ request = [r \in Requests |-> IF r \in l.requests THEN "none" ELSE "answered"]
       /\ signals = l.signals /\ faults = l.faults

running == ~stopping

\* The services map is a BTreeMap: workers start in the order of their names.
Order == <<"admin", "announcements", "config", "mailer">>

\* Who keeps Services or the engine alive, besides commands of the pool.
Holders ==
  (IF main \in {"exit", "down"} THEN {} ELSE {"main"})
    \cup {s \in Services : worker[s] = "run"}
    \cup {r \in Requests : request[r] = "run"}

\* The last holder to go drops Context, which closes the pool.
Closing == Holders' = {} /\ HeldCmds = {}

-----------------------------------------------------------------------------
\* Server::signal: a broadcast send.  It fails when nobody is subscribed.
\* Every receiver waiting in a loop of subscribe().recv() goes on to look at
\* the flag again; the admin worker keeps its subscription.
Receivers == {x \in Tasks : pos[x] = "wait"}
Woken == [x \in Tasks |-> IF x \in Receivers \ {"admin"} THEN "check" ELSE pos[x]]

\* Entering Server::shutdown, or Server::restart which swaps its flag first.
Call(c, restart) ==
  /\ call[c].at = "idle"
  /\ IF restart
       THEN /\ ~restarting
            /\ restarting' = TRUE
       ELSE UNCHANGED restarting
  /\ call' = [call EXCEPT ![c] = [at |-> "swap", restart |-> restart]]
  /\ UNCHANGED <<stopping, accepted>>

\* shutdown: swap the flag, report a shutdown already in progress.
SwapStopping(c) ==
  /\ call[c].at = "swap"
  /\ stopping' = TRUE
  /\ IF stopping
       THEN /\ call' = [call EXCEPT ![c] = idle]
            /\ restarting' = (restarting /\ ~call[c].restart)
       ELSE /\ call' = [call EXCEPT ![c].at = "send"]
            /\ UNCHANGED restarting
  /\ UNCHANGED <<accepted, pos>>

\* shutdown: send the signal, take the flags back when the send fails.
SendSignal(c) ==
  /\ call[c].at = "send"
  /\ call' = [call EXCEPT ![c] = idle]
  /\ IF Receivers # {}
       THEN /\ pos' = Woken
            /\ accepted' = TRUE
            /\ UNCHANGED <<stopping, restarting>>
       ELSE /\ stopping' = FALSE
            /\ restarting' = (restarting /\ ~call[c].restart)
            /\ UNCHANGED <<accepted, pos>>

ShutdownStep(c) ==
  /\ main # "down"
  /\ SwapStopping(c) \/ SendSignal(c)
  /\ UNCHANGED <<poolVars, workerVars, listener, request, main, bounds>>

\* main/signal.rs: SIGTERM, SIGQUIT and SIGINT shut down, the others are relayed.
OsSignal ==
  /\ signals > 0 /\ main # "down" /\ call["os"].at = "idle"
  /\ signals' = signals - 1
  /\ \/ Call("os", FALSE) /\ UNCHANGED pos
     \/ pos' = Woken /\ UNCHANGED serverVars
  /\ UNCHANGED <<poolVars, workerVars, listener, request, main, faults>>

\* The admin worker runs "server restart" or "server shutdown".
AdminCommand ==
  /\ worker["admin"] = "run" /\ pos["admin"] = "wait" /\ main # "down"
  /\ signals > 0
  /\ signals' = signals - 1
  /\ \E restart \in BOOLEAN : Call("admin", restart)
  /\ UNCHANGED <<poolVars, workerVars, pos, listener, request, main, faults>>

\* One step of while running() { subscribe().recv().await }: what the loop does
\* once it sees the flag is up to the task.
LoopStep(x) ==
  \/ /\ pos[x] = "check" /\ running
     /\ pos' = [pos EXCEPT ![x] = "subscribe"]
  \/ /\ pos[x] = "subscribe"
     /\ pos' = [pos EXCEPT ![x] = "wait"]

WaitLoop(x) ==
  /\ LoopStep(x)
  /\ UNCHANGED <<poolVars, serverVars, workerVars, listener, request, main, bounds>>

-----------------------------------------------------------------------------
(* The workers and their manager *)

\* What an action that lets go of Services or of a service does to the pool.
DropsContext == closed' = (closed \/ Closing)

Started(s) ==
  /\ worker' = [worker EXCEPT ![s] = "run"]
  /\ pos' = IF s \in Tasks
              THEN [pos EXCEPT ![s] = CASE s = "config" -> "check"
                                        [] s = "admin" -> "subscribe"
                                        [] OTHER -> "busy"]
              ELSE pos

Ended(s, result) ==
  /\ worker[s] = "run"
  /\ worker' = [worker EXCEPT ![s] = result]
  /\ pos' = IF s \in Tasks THEN [pos EXCEPT ![s] = "none"] ELSE pos

\* The worker functions return: config at its flag test, admin on the closed
\* command channel, announcements on the notification, the others when done.
WorkerEnds(s) ==
  /\ CASE s = "config" -> pos[s] = "check" /\ stopping
       [] s = "admin" -> pos[s] = "wait" /\ interrupted /\ call["admin"].at = "idle"
       [] s = "announcements" -> pos[s] = "notified"
       [] OTHER -> TRUE
  /\ Ended(s, "ok")
  /\ UNCHANGED <<queue, thread, cmd, serverVars, manager, delayed, interrupted,
                 listener, request, main, bounds>>
  /\ DropsContext

\* worker(): a panic is caught and returned like an error.
WorkerFails(s) ==
  /\ faults > 0
  /\ faults' = faults - 1
  /\ Ended(s, "panic") \/ (s = "mailer" /\ Ended(s, "error"))
  /\ call' = IF s = "admin" THEN [call EXCEPT !["admin"] = idle] ELSE call
  /\ UNCHANGED <<queue, thread, cmd, stopping, restarting, accepted, manager, delayed,
                 interrupted, listener, request, main, signals>>
  /\ DropsContext

\* The announcements worker alternates between its check and its select.
Announcements ==
  /\ worker["announcements"] = "run"
  /\ \/ pos["announcements"] = "busy" /\ pos' = [pos EXCEPT !["announcements"] = "tick"]
     \/ pos["announcements"] = "tick" /\ pos' = [pos EXCEPT !["announcements"] = "busy"]
  /\ UNCHANGED <<poolVars, serverVars, workerVars, listener, request, main, bounds>>

managerFrame == <<poolVars, serverVars, interrupted, listener, request, main, bounds>>

\* Manager::worker with handle_result, handle_finished and handle_error.  start()
\* holds the lock on the workers until all are started.
JoinNext(s) ==
  /\ manager = "loop" /\ main # "start"
  /\ worker[s] \in {"ok", "error", "panic"}
  /\ worker' = [worker EXCEPT ![s] = "out"]
  /\ manager' = CASE worker[s] = "ok" \/ stopping -> "loop"
                  [] worker[s] = "error" -> "err"
                  [] OTHER -> "delay"
  /\ delayed' = IF manager' = "delay" THEN s ELSE delayed
  /\ UNCHANGED <<pos, managerFrame>>

\* join_next() of an empty set: the loop ends.
JoinNone ==
  /\ manager = "loop" /\ main # "start"
  /\ \A s \in Services : worker[s] = "out"
  /\ manager' = "ok"
  /\ UNCHANGED <<pos, worker, delayed, managerFrame>>

\* handle_error after its delay: start_worker, which refuses during a shutdown.
RestartWorker ==
  /\ manager = "delay"
  /\ IF running
       THEN Started(delayed) /\ manager' = "loop"
       ELSE manager' = "err" /\ UNCHANGED <<worker, pos>>
  /\ delayed' = NoCmd
  /\ UNCHANGED managerFrame

-----------------------------------------------------------------------------
(* The main task *)

mainFrame == <<queue, thread, cmd, serverVars, bounds>>

\* Services::start: the migrations, then the manager's task is spawned.
Migrate ==
  /\ main = "migrate"
  /\ main' = "start" /\ manager' = "loop"
  /\ UNCHANGED <<mainFrame, closed, worker, delayed, interrupted, pos, listener, request>>

\* Opening the database, building a service, a migration, or a startup admin
\* command fails: async_main returns the error and never comes to stop().
StartupFails ==
  /\ main \in {"migrate", "startup"} /\ faults > 0
  /\ faults' = faults - 1
  /\ main' = "failed"
  /\ UNCHANGED <<poolVars, serverVars, workerVars, pos, listener, request, signals>>

\* Manager::start: one start_worker per service.
StartWorkers ==
  /\ main = "start"
  /\ \E s \in Services :
       /\ worker[s] = "none"
       /\ \A i, j \in 1 .. Len(Order) :
            Order[j] = s /\ i < j => worker[Order[i]] # "none"
       /\ IF running
            THEN Started(s) /\ UNCHANGED main
            ELSE main' = "failed" /\ UNCHANGED <<worker, pos>>
  /\ UNCHANGED <<mainFrame, closed, manager, delayed, interrupted, listener, request>>

\* run: the signal task and the listener are spawned.
Run ==
  /\ main = "start" /\ \A s \in Services : worker[s] # "none"
  /\ main' = "startup" /\ listener' = "serving"
  /\ pos' = [pos EXCEPT !["signal"] = "check"]
  /\ UNCHANGED <<mainFrame, closed, workerVars, request>>

\* startup_execute is over; the select of run() begins.
Running ==
  /\ main = "startup"
  /\ main' = "run"
  /\ UNCHANGED <<mainFrame, closed, workerVars, pos, listener, request>>

\* The select: the listener's result, or the end of the manager.  In the second
\* case handle_services_poll first asks for a shutdown and awaits the listener.
Select ==
  /\ main = "run"
  /\ \/ /\ listener \in {"done", "broken"}
        /\ main' = IF listener = "done" THEN "stop" ELSE "failed"
        /\ pos' = [pos EXCEPT !["signal"] = "none"]
        /\ UNCHANGED serverVars
     \/ /\ manager \in {"ok", "err"}
        /\ main' = "polled"
        /\ IF running THEN Call("main", FALSE) ELSE UNCHANGED serverVars
        /\ UNCHANGED pos
  /\ UNCHANGED <<poolVars, workerVars, listener, request, bounds>>

Polled ==
  /\ main = "polled" /\ call["main"].at = "idle"
  /\ listener \in {"done", "broken"}
  /\ main' = IF manager = "ok" THEN "stop" ELSE "failed"
  /\ pos' = [pos EXCEPT !["signal"] = "none"]
  /\ UNCHANGED <<mainFrame, closed, workerVars, listener, request>>

\* A defect for comparison: the channels are not closed.
Interrupt_Quiet ==
  /\ main = "stop"
  /\ main' = "join" /\ interrupted' = FALSE
  /\ pos' = [pos EXCEPT !["announcements"] = IF @ = "tick" THEN "notified" ELSE @]
  /\ UNCHANGED <<mainFrame, closed, worker, manager, delayed, listener, request>>

\* Services::stop: interrupt() closes channels, which lasts, and notifies the
\* announcements worker, which reaches it only inside its select.
Interrupt ==
  /\ main = "stop"
  /\ main' = "join" /\ interrupted' = TRUE
  /\ pos' = [pos EXCEPT !["announcements"] = IF @ = "tick" THEN "notified" ELSE @]
  /\ UNCHANGED <<mainFrame, closed, worker, manager, delayed, listener, request>>

\* A defect for comparison: stop() does not wait for the manager.
Stopped_Early ==
  /\ main = "join"
  /\ main' = "exit"
  /\ UNCHANGED <<mainFrame, workerVars, pos, listener, request>>
  /\ DropsContext

\* Manager::stop awaits the manager, whatever it returns; then Services is dropped.
Stopped ==
  /\ main = "join" /\ manager \in {"ok", "err"}
  /\ main' = "exit"
  /\ UNCHANGED <<mainFrame, workerVars, pos, listener, request>>
  /\ DropsContext

\* runtime::shutdown, or the drop of the runtime after an error: the tasks that
\* are left are dropped where they wait.
Down ==
  /\ main \in {"exit", "failed"}
  /\ main' = "down"
  /\ pos' = [x \in Tasks |-> "none"]
  /\ call' = [c \in Callers |-> idle]
  /\ worker' = [s \in Services |-> IF worker[s] = "run" THEN "out" ELSE worker[s]]
  /\ request' = [r \in Requests |-> IF request[r] = "run" THEN "lost" ELSE request[r]]
  /\ cmd' = Dropped(Requests)
  /\ UNCHANGED <<queue, thread, stopping, restarting, accepted, manager, delayed,
                 interrupted, listener, bounds>>
  /\ DropsContext

-----------------------------------------------------------------------------
(* The listener and the requests *)

\* handle_shutdown, once the signal task is past until_shutdown: no more
\* connections, and a deadline for the ones that are open.
HandleShutdown ==
  /\ pos["signal"] = "check" /\ stopping
  /\ pos' = [pos EXCEPT !["signal"] = "none"]
  /\ listener' = IF listener = "serving" THEN "draining" ELSE listener
  /\ UNCHANGED <<poolVars, serverVars, workerVars, request, main, bounds>>

\* serve returns when every connection is closed or the deadline has passed.
ListenerEnds ==
  /\ listener = "draining"
  /\ listener' = "done"
  /\ UNCHANGED <<poolVars, serverVars, workerVars, pos, request, main, bounds>>

\* The address cannot be bound, or TLS is not set up: serve returns an error.
ListenerFails ==
  /\ listener = "serving" /\ faults > 0
  /\ faults' = faults - 1
  /\ listener' = "broken"
  /\ UNCHANGED <<poolVars, serverVars, workerVars, pos, request, main, signals>>

\* request::handle: refused once the server is stopping, else a task is spawned.
Handle(r) ==
  /\ listener \in {"serving", "draining"} /\ main # "down"
  /\ request[r] = "none"
  /\ request' = [request EXCEPT ![r] = IF running THEN "run" ELSE "unavailable"]
  /\ pos' = [pos EXCEPT ![r] = IF running THEN "check" ELSE @]
  /\ UNCHANGED <<poolVars, serverVars, workerVars, listener, main, bounds>>

\* execute: the handler queries the database.
Query(r) ==
  /\ request[r] = "run"
  /\ execute(r) \/ Send(r)
  /\ UNCHANGED <<serverVars, workerVars, pos, listener, request, main, bounds>>

RequestEnds(r, response) ==
  /\ request[r] = "run"
  /\ request' = [request EXCEPT ![r] = response]
  /\ pos' = [pos EXCEPT ![r] = "none"]
  /\ UNCHANGED <<queue, thread, serverVars, workerVars, listener, main, bounds>>
  /\ DropsContext

Reply(r) ==
  /\ cmd[r].at \in {"answered", "failed"}
  /\ UNCHANGED cmd
  /\ RequestEnds(r, "answered")

\* The other branch of handle's select: until_shutdown, then a sleep.
Deadline(r) ==
  \/ /\ pos[r] = "check" /\ stopping
     /\ pos' = [pos EXCEPT ![r] = "sleep"]
     /\ UNCHANGED <<poolVars, serverVars, workerVars, listener, request, main, bounds>>
  \/ /\ pos[r] = "sleep"
     /\ cmd' = Dropped({r})
     /\ RequestEnds(r, "unavailable")

Pool(t) ==
  /\ PoolWorker(t, Holders = {} /\ HeldCmds \subseteq {thread[t].cmd})
  /\ UNCHANGED <<serverVars, workerVars, pos, listener, request, main, bounds>>
-----------------------------------------------------------------------------
MainStep == Migrate \/ StartWorkers \/ Run \/ Running \/ Select \/ Polled \/ Interrupt
              \/ Stopped \/ Down

ManagerStep == main # "down" /\ (JoinNone \/ RestartWorker \/ \E s \in Services : JoinNext(s))

Next ==
  \/ MainStep \/ StartupFails \/ ManagerStep \/ OsSignal \/ AdminCommand \/ Announcements
  \/ \E c \in Callers : ShutdownStep(c)
  \/ \E x \in Tasks : WaitLoop(x)
  \/ \E s \in Services : WorkerEnds(s) \/ WorkerFails(s)
  \/ HandleShutdown \/ ListenerEnds \/ ListenerFails
  \/ \E r \in Requests : Handle(r) \/ Query(r) \/ Reply(r) \/ Deadline(r)
  \/ \E t \in Threads : Pool(t)

\* Spawned tasks and threads are scheduled, and deadlines pass.  One condition per
\* task or thread; a request has two, its handler and the other half of its select.
Fairness ==
  /\ WF_vars(MainStep) /\ WF_vars(ManagerStep) /\ WF_vars(ListenerEnds)
  /\ WF_vars(WaitLoop("signal") \/ HandleShutdown)
  /\ \A c \in Callers : WF_vars(ShutdownStep(c))
  /\ WF_vars(Announcements \/ WorkerEnds("announcements"))
  /\ WF_vars(WorkerEnds("mailer"))
  /\ \A s \in {"config", "admin"} : WF_vars(WaitLoop(s) \/ WorkerEnds(s))
  /\ \A r \in Requests : WF_vars(Query(r) \/ Reply(r))
  /\ \A r \in Requests : WF_vars(WaitLoop(r) \/ Deadline(r))
  /\ \A t \in Threads : WF_vars(Pool(t))

Spec == Init /\ [][Next]_vars /\ Fairness

-----------------------------------------------------------------------------
\* Tasks that a request for shutdown did not reach: a loop that looked at the flag
\* before the swap and subscribed after the send (run.rs and config/mod.rs), or the
\* announcements worker when it was inside check() at the notification.
Deaf ==
  \/ \E x \in {"signal", "config"} : accepted /\ pos[x] = "wait"
  \/ interrupted /\ worker["announcements"] = "run"

\* Every accepted shutdown ends the process: once shutdown() has returned Ok, the
\* listener drains, the workers are interrupted and joined, and main comes down,
\* whatever was failing or restarting meanwhile.  The only exceptions are the tasks
\* the signal does not reach, for as long as they stay so.
ShutdownCompletes == <>[]Deaf \/ (accepted ~> main = "down")

\* stop() has joined every worker before Services is dropped ("Wait for all
\* completions before dropping", run.rs), unless the manager gave up on a worker
\* that panicked right before the shutdown.
NoWorkerLeft ==
  main = "exit" /\ manager # "err" => \A s \in Services : worker[s] # "run"

\* Every request that was let in is answered or turned away, also when the
\* shutdown signal passes its task by: the pool answers whatever it accepted.
RequestsEnd == \A r \in Requests : request[r] = "run" ~> request[r] # "run"

=============================================================================
