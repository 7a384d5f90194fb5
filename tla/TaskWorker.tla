---------------------------- MODULE TaskWorker ----------------------------
(***************************************************************************)
(* RuntimeTaskWorker on each of several daemons that share one task queue  *)
(* (one daemon on SQLite, one per machine in shared Postgres mode).        *)
(*                                                                         *)
(* A worker is three coroutines: the run loop, whose task processing is    *)
(* `loop`; the monitor around the processing (_process_task_with_          *)
(* reconciliation), `mon`; and the reconciliation pass, `pass`, which the  *)
(* run loop, the periodic loop and the monitor all run, one at a time.     *)
(* Each await of a queue call is a step of its own: whatever the others do *)
(* may happen between a read and the call that relies on it.               *)
(***************************************************************************)
EXTENDS TaskQueue

CONSTANTS
  Daemon,
  Recurring,      \* the ids of one autonomous recurring task name
  Bound,          \* bound: how many of each event of the environment happen
  NoAttempt, NoPass

ASSUME WorkerAssumption ==
  /\ Recurring \subseteq Task
  /\ Daemon \cap {"none", "gone"} = {}
  /\ Bound \in [{"crash", "stop", "cancel", "spawn", "pause", "missing", "fault"} -> Nat]

VARIABLES
  phase,     \* the daemon process: "down", "seed" (bootstrap), "up", "stopping"
  loop,      \* where the run loop and the processing of its task are
  mon,       \* where the monitor of the processing is
  held,      \* the TaskRecord being processed, with the result of its last call
  seen,      \* the epoch _recover_unexpected_task_error has read
  pass,      \* the reconciliation pass in progress and the rows it has listed
  sweep,     \* the running tasks stop() has listed and not yet cancelled
  pid,       \* the subprocess of each execution attempt: none, the daemon it
             \* runs beside, or gone
  left       \* what remains of Bound

workerVars == <<phase, loop, mon, held, seen, pass, sweep, pid, left>>
vars == <<tasks, runs, phase, loop, mon, held, seen, pass, sweep, pid, left>>

----------------------------------------------------------------------------
Attempts == 1..(IF MaxRetries = 0 THEN 1 ELSE MaxRetries)
Held == [task : Task, epoch : Nat, result : Status]
Listed == [task : Task, epoch : Nat, cancel : BOOLEAN, stale : BOOLEAN]
Passes == [by : {"loop", "periodic", "monitor"}, rows : SUBSET Listed]

ASSUME NothingAssumption == NoAttempt \notin Held /\ NoPass \notin Passes

\* In the run loop between two tasks; inside _process_task; where it ends.
Between == {"boot", "poll", "turn", "claiming", "claimed", "unexpected", "failcurrent"}
Inside == {"start", "handler", "okcheck", "errcheck", "intcheck", "complete",
           "pause", "fail", "finalize", "interrupt", "missing", "settle",
           "settlelast", "follow", "insert"}
Loop == Between \cup Inside \cup {"done", "raised", "dead", "off"}

\* "off": no processing.  "gather...": the processing was cancelled and the
\* monitor waits for it: to go on, with an error of its own, or to stop.
Mon == {"off", "wait", "touch", "pass", "recheck", "gather", "gathererr", "gatherstop"}
Cancelled == {"gather", "gathererr", "gatherstop"}

WorkerInit ==
  /\ Init
  /\ phase = [d \in Daemon |-> "down"]
  /\ loop = [d \in Daemon |-> "off"]
  /\ mon = [d \in Daemon |-> "off"]
  /\ held = [d \in Daemon |-> NoAttempt]
  /\ seen = [d \in Daemon |-> 0]
  /\ pass = [d \in Daemon |-> NoPass]
  /\ sweep = [d \in Daemon |-> {}]
  /\ pid = [t \in Task |-> [e \in Attempts |-> "none"]]
  /\ left = Bound

----------------------------------------------------------------------------
(* Helpers *)

Goto(d, pc) == loop' = [loop EXCEPT ![d] = pc]
Rest(d, pc) ==
  /\ Goto(d, pc)
  /\ held' = [held EXCEPT ![d] = NoAttempt]
  /\ seen' = [seen EXCEPT ![d] = 0]

Spend(event) == left[event] > 0 /\ left' = [left EXCEPT ![event] = @ - 1]

MyTask(d) == held[d].task
MyEpoch(d) == held[d].epoch
Mine(d) == RunningFor(MyTask(d), MyEpoch(d))

\* The attempt is in _owned_task_attempts from the start of its processing.
Owned(d, t, e) ==
  /\ mon[d] # "off"
  /\ t = MyTask(d) /\ e = MyEpoch(d)

PassBy(d, by) == pass[d] # NoPass /\ pass[d].by = by

OpenRecurring == {t \in Recurring : tasks[t].status \in Open}

\* enqueue_unique of the recurring task, delayed by its interval: after the
\* search for an open one, the insert.  (No row when the bound is reached.)
InsertRecurring ==
  \/ \E t \in Recurring, p \in Priority : Enqueue(t, p, FALSE)
  \/ /\ \A t \in Recurring : tasks[t].status # "absent"
     /\ UNCHANGED queueVars

\* A fenced call of the processing: when the row is no longer running at the
\* attempt's epoch the call raises and the processing ends with the error.
Call(d, operation, next) ==
  \/ /\ operation
     /\ Goto(d, next)
     /\ held' = [held EXCEPT ![d].result = tasks'[MyTask(d)].status]
  \/ /\ ~Mine(d)
     /\ Goto(d, "raised")
     /\ UNCHANGED <<queueVars, held>>

----------------------------------------------------------------------------
(* _run_loop *)

\* The test of _stop_event: the turn goes on to its claim_next whatever
\* happens to the event meanwhile.
BeginTurn(d) ==
  /\ phase[d] = "up" /\ loop[d] = "poll"
  /\ Goto(d, "turn")
  /\ UNCHANGED <<queueVars, phase, mon, held, seen, pass, sweep, pid, left>>

\* _recover_abandoned_tasks before its time comes: no pass in this turn.
SkipPass(d) ==
  /\ loop[d] = "turn" /\ ~PassBy(d, "loop")
  /\ Goto(d, "claiming")
  /\ UNCHANGED <<queueVars, phase, mon, held, seen, pass, sweep, pid, left>>

LoopEnds(d) ==
  /\ phase[d] = "stopping" /\ loop[d] = "poll"
  /\ Goto(d, "off")
  /\ UNCHANGED <<queueVars, phase, mon, held, seen, pass, sweep, pid, left>>

Claim(d) ==
  /\ loop[d] = "claiming"
  /\ \/ \E t \in Task :
          /\ ClaimNext(t)
          /\ held' = [held EXCEPT ![d] = [task |-> t, epoch |-> tasks'[t].epoch,
                                          result |-> "running"]]
          /\ Goto(d, "claimed")
     \/ /\ ~\E t \in Task : Claimable(t)
        /\ Goto(d, "poll")
        /\ UNCHANGED <<queueVars, held>>
  /\ UNCHANGED <<phase, mon, seen, pass, sweep, pid, left>>

\* The claim has returned to the loop: the attempt is owned and monitored.
StartProcessing(d) ==
  /\ loop[d] = "claimed"
  /\ Goto(d, "start")
  /\ mon' = [mon EXCEPT ![d] = "wait"]
  /\ UNCHANGED <<queueVars, phase, held, seen, pass, sweep, pid, left>>

\* The processing is over and so is its monitor.
ProcessingEnds(d) ==
  /\ loop[d] \in {"done", "raised"}
  /\ mon[d] \in {"off", "wait"} \cup Cancelled
  /\ CASE mon[d] = "gatherstop" -> Rest(d, "off")
       [] \/ mon[d] = "gathererr"
          \/ mon[d] = "wait" /\ loop[d] = "raised" -> Goto(d, "unexpected")
                                                    /\ UNCHANGED <<held, seen>>
       [] OTHER -> Rest(d, "poll")
  /\ mon' = [mon EXCEPT ![d] = "off"]
  /\ UNCHANGED <<queueVars, phase, pass, sweep, pid, left>>

\* _recover_unexpected_task_error: the row as it is now ...
Unexpected(d) ==
  /\ loop[d] = "unexpected"
  /\ IF tasks[MyTask(d)].status = "running"
     THEN /\ seen' = [seen EXCEPT ![d] = tasks[MyTask(d)].epoch]
          /\ Goto(d, "failcurrent")
          /\ UNCHANGED held
     ELSE Rest(d, "poll")
  /\ UNCHANGED <<queueVars, phase, mon, pass, sweep, pid, left>>

\* ... is failed at the epoch it was read with, current.execution_epoch.
FailCurrent(d) ==
  /\ loop[d] = "failcurrent"
  /\ \/ /\ \E ready \in BOOLEAN : Fail(MyTask(d), seen[d], ready)
        /\ held' = [held EXCEPT ![d].result = tasks'[MyTask(d)].status]
        /\ Goto(d, "settle")
        /\ UNCHANGED seen
     \/ /\ ~RunningFor(MyTask(d), seen[d])
        /\ Rest(d, "poll")
        /\ UNCHANGED queueVars
  /\ UNCHANGED <<phase, mon, pass, sweep, pid, left>>

----------------------------------------------------------------------------
(* _process_task *)

\* No handler, a paused recurring task, or the preflight and the handler.
\* The preflight marks the row only if it finds it running for the attempt;
\* the mark raises if that has changed in between.
Start(d) ==
  /\ loop[d] = "start"
  /\ \/ /\ Spend("missing")
        /\ Goto(d, "missing")
        /\ UNCHANGED queueVars
     \/ /\ MyTask(d) \in Recurring /\ Spend("pause")
        /\ Goto(d, "pause")
        /\ UNCHANGED queueVars
     \/ /\ MyTask(d) \in Recurring /\ SetRunningProcess(MyTask(d), MyEpoch(d), "none")
        /\ Goto(d, "handler")
        /\ UNCHANGED left
     \/ /\ MyTask(d) \in Recurring /\ ~Mine(d)
        /\ Goto(d, "handler") \/ Goto(d, "raised")
        /\ UNCHANGED <<queueVars, left>>
     \/ /\ MyTask(d) \notin Recurring
        /\ Goto(d, "handler")
        /\ UNCHANGED <<queueVars, left>>
  /\ UNCHANGED <<phase, mon, held, seen, pass, sweep, pid>>

\* The provider starts a subprocess for the attempt (start_attempt).
HandlerSpawns(d) ==
  /\ loop[d] = "handler" /\ Spend("spawn")
  /\ pid[MyTask(d)][MyEpoch(d)] = "none"
  /\ pid' = [pid EXCEPT ![MyTask(d)][MyEpoch(d)] = d]
  /\ UNCHANGED <<queueVars, phase, loop, mon, held, seen, pass, sweep>>

\* A heartbeat of the provider (_safe_task_queue_update drops the error of a
\* row that is no longer the attempt's).
HandlerBeats(d) ==
  /\ loop[d] = "handler"
  /\ TouchRunningTask(MyTask(d), MyEpoch(d))
  /\ UNCHANGED workerVars

\* The handler returns, or raises.
HandlerEnds(d) ==
  /\ loop[d] = "handler"
  /\ Goto(d, "okcheck") \/ Goto(d, "errcheck")
  /\ UNCHANGED <<queueVars, phase, mon, held, seen, pass, sweep, pid, left>>

\* is_cancellation_requested looks at the row whatever its epoch.  The
\* handler that was cancelled looks at its status and at _stop_event as well.
CheckCancellation(d) ==
  /\ LET requested == tasks[MyTask(d)].cancel
     IN  \/ /\ loop[d] \in {"okcheck", "errcheck"} /\ requested
            /\ Goto(d, "finalize")
         \/ /\ loop[d] = "okcheck" /\ ~requested
            /\ Goto(d, "complete")
         \/ /\ loop[d] = "errcheck" /\ ~requested
            /\ Goto(d, "fail")
         \/ /\ loop[d] = "intcheck"
            /\ Goto(d, IF tasks[MyTask(d)].status # "running" THEN "done"
                       ELSE IF requested \/ phase[d] = "stopping" THEN "finalize"
                       ELSE "interrupt")
  /\ UNCHANGED <<queueVars, phase, mon, held, seen, pass, sweep, pid, left>>

\* Mutant of Finish: complete without the epoch of the attempt.
FinishUnfenced(d) ==
  /\ loop[d] = "complete"
  /\ Call(d, Complete(MyTask(d), NoEpoch), "settle")
  /\ UNCHANGED <<phase, mon, seen, pass, sweep, pid, left>>

\* The call that ends the attempt.
Finish(d) ==
  /\ LET t == MyTask(d)
         e == MyEpoch(d)
     IN  \/ loop[d] = "complete" /\ Call(d, Complete(t, e), "settle")
         \/ loop[d] = "pause" /\ Call(d, Complete(t, e), "settlelast")
         \/ loop[d] = "fail" /\ Call(d, \E ready \in BOOLEAN : Fail(t, e, ready), "settle")
         \/ loop[d] = "finalize" /\ Call(d, FinalizeCancellation(t, e), "settlelast")
         \/ loop[d] = "interrupt" /\ Call(d, FailPermanently(t, e), "settlelast")
         \/ loop[d] = "missing" /\ Call(d, FailPermanently(t, e), "done")
  /\ UNCHANGED <<phase, mon, seen, pass, sweep, pid, left>>

\* _reconcile_terminal_task_state: attempts, conversations and leases, none
\* of which is part of this module.
Settle(d) ==
  /\ \/ loop[d] = "settle" /\ Goto(d, "follow")
     \/ loop[d] = "settlelast" /\ Goto(d, "done")
  /\ UNCHANGED <<queueVars, phase, mon, held, seen, pass, sweep, pid, left>>

\* _schedule_follow_up of a recurring task: find_open_task, then the insert.
FollowUp(d) ==
  /\ loop[d] = "follow"
  /\ IF /\ MyTask(d) \in Recurring /\ held[d].result \in {"completed", "failed"}
        /\ OpenRecurring = {}
     THEN Goto(d, "insert")
     ELSE Goto(d, "done")
  /\ UNCHANGED <<queueVars, phase, mon, held, seen, pass, sweep, pid, left>>

InsertFollowUp(d) ==
  /\ loop[d] = "insert"
  /\ InsertRecurring
  /\ Goto(d, "done")
  /\ UNCHANGED <<phase, mon, held, seen, pass, sweep, pid, left>>

----------------------------------------------------------------------------
(* _process_task_with_reconciliation *)

\* processing_task.cancel(): only the handler's own cleanup still runs.
Interrupt(d, how) ==
  /\ mon' = [mon EXCEPT ![d] = how]
  /\ Goto(d, IF loop[d] = "handler" THEN "intcheck"
             ELSE IF loop[d] \in Inside THEN "done" ELSE loop[d])

\* The wait times out (read), and the row is read again after the pass.
MonitorRead(d) ==
  /\ \/ mon[d] = "wait" /\ loop[d] \in Inside
     \/ mon[d] = "recheck"
  /\ IF Mine(d)
     THEN /\ mon' = [mon EXCEPT ![d] = IF @ = "wait" THEN "touch" ELSE "wait"]
          /\ UNCHANGED loop
     ELSE Interrupt(d, "gather")
  /\ UNCHANGED <<queueVars, phase, held, seen, pass, sweep, pid, left>>

MonitorTouch(d) ==
  /\ mon[d] = "touch"
  /\ \/ /\ TouchRunningTask(MyTask(d), MyEpoch(d))
        /\ mon' = [mon EXCEPT ![d] = "pass"]
        /\ UNCHANGED loop
     \/ /\ ~Mine(d)
        /\ Interrupt(d, "gathererr")
        /\ UNCHANGED queueVars
  /\ UNCHANGED <<phase, held, seen, pass, sweep, pid, left>>

\* _next_abandoned_recovery_at is not reached: no pass this time.
MonitorSkipsPass(d) ==
  /\ mon[d] = "pass"
  /\ ~PassBy(d, "monitor")
  /\ mon' = [mon EXCEPT ![d] = "recheck"]
  /\ UNCHANGED <<queueVars, phase, loop, held, seen, pass, sweep, pid, left>>

----------------------------------------------------------------------------
(* _run_reconciliation_pass, which holds _reconciliation_lock *)

\* Mutant of PassRows: the worker's own attempts are listed like any other.
PassRowsOwnToo(d, by) ==
  {[task |-> t, epoch |-> tasks[t].epoch, cancel |-> tasks[t].cancel,
    stale |-> tasks[t].stale] : t \in {u \in Task : tasks[u].status = "running"}}

\* _recover_running_tasks: the running rows but the attempts of this worker,
\* except that the monitor includes its own once it has a subprocess.
PassRows(d, by) ==
  LET listed == {t \in Task :
        /\ tasks[t].status = "running"
        /\ Owned(d, t, tasks[t].epoch) =>
             by = "monitor" /\ pid[t][tasks[t].epoch] # "none"}
  IN  {[task |-> t, epoch |-> tasks[t].epoch, cancel |-> tasks[t].cancel,
        stale |-> tasks[t].stale] : t \in listed}

\* Who called the pass goes on.
PassReturns(d, by) ==
  /\ loop' = [loop EXCEPT ![d] = IF by # "loop" THEN @
                                 ELSE IF @ = "boot" THEN "poll" ELSE "claiming"]
  /\ mon' = [mon EXCEPT ![d] = IF by = "monitor" THEN "recheck" ELSE @]

\* An error in the pass: the periodic loop logs it, the monitor fails with
\* it, and nothing in the run loop catches it.
PassRaises(d) ==
  /\ pass' = [pass EXCEPT ![d] = NoPass]
  /\ \/ PassBy(d, "periodic") /\ UNCHANGED <<loop, mon>>
     \/ PassBy(d, "monitor") /\ Interrupt(d, "gathererr")
     \/ PassBy(d, "loop") /\ Goto(d, "dead") /\ UNCHANGED mon

PassStart(d, by) ==
  /\ pass[d] = NoPass
  /\ CASE by = "loop" -> loop[d] \in {"boot", "turn"}
       [] by = "periodic" -> phase[d] = "up" /\ PassRows(d, by) # {}
       [] by = "monitor" -> mon[d] = "pass"
  /\ IF PassRows(d, by) = {}
     THEN PassReturns(d, by) /\ UNCHANGED pass
     ELSE /\ pass' = [pass EXCEPT ![d] = [by |-> by, rows |-> PassRows(d, by)]]
          /\ UNCHANGED <<loop, mon>>
  /\ UNCHANGED <<queueVars, phase, held, seen, sweep, pid, left>>

\* _is_process_alive asks about a pid of this machine: of an attempt that
\* runs beside another daemon it may say anything.
Alive(d, t, e) ==
  CASE pid[t][e] = "gone" -> {FALSE}
    [] pid[t][e] = d -> {TRUE}
    [] OTHER -> BOOLEAN

\* Mutant of Plan: only an attempt that had a subprocess is ever recovered.
PlanNeedsProcess(row, hasProcess, alive) ==
  IF ~hasProcess \/ alive \/ ~row.stale THEN "leave"
  ELSE IF row.cancel THEN "finalize" ELSE "fail"

\* _classify_running_task_recovery of a listed row
Plan(row, hasProcess, alive) ==
  IF hasProcess /\ (alive \/ ~row.stale) THEN "leave"
  ELSE IF row.cancel THEN "finalize"
  ELSE IF row.stale THEN "fail" ELSE "leave"

\* _recover_running_task of one row: the attempt's pid is read, the plan made
\* from the row as it was listed, and applied to the row as it is now.
PassApply(d) ==
  /\ pass[d] # NoPass
  /\ \E row \in pass[d].rows :
       LET t == row.task
           hasProcess == pid[t][row.epoch] # "none"
           rest == pass[d].rows \ {row}
           Advance == IF rest = {}
                      THEN /\ pass' = [pass EXCEPT ![d] = NoPass]
                           /\ PassReturns(d, pass[d].by)
                      ELSE /\ pass' = [pass EXCEPT ![d].rows = rest]
                           /\ UNCHANGED <<loop, mon>>
       IN  \E alive \in Alive(d, t, row.epoch) :
             \/ Plan(row, hasProcess, alive) = "leave" /\ UNCHANGED queueVars /\ Advance
             \/ /\ Plan(row, hasProcess, alive) = "finalize"
                /\ FinalizeCancellation(t, row.epoch)
                /\ Advance
             \/ /\ Plan(row, hasProcess, alive) = "fail"
                /\ \E ready \in BOOLEAN : Fail(t, row.epoch, ready)
                /\ Advance
             \/ /\ Plan(row, hasProcess, alive) # "leave"
                /\ ~RunningFor(t, row.epoch)
                /\ PassRaises(d)
                /\ UNCHANGED queueVars
  /\ UNCHANGED <<phase, held, seen, sweep, pid, left>>

----------------------------------------------------------------------------
(* start and stop of the daemon, and the end of its process *)

\* bootstrap_background_tasks: a recurring task if none is open (the search
\* and the insert are two calls), then start().
Restart(d) ==
  /\ phase[d] = "down"
  /\ IF OpenRecurring = {} /\ Recurring # {}
     THEN /\ phase' = [phase EXCEPT ![d] = "seed"]
          /\ UNCHANGED loop
     ELSE /\ phase' = [phase EXCEPT ![d] = "up"]
          /\ Goto(d, "boot")
  /\ UNCHANGED <<queueVars, mon, held, seen, pass, sweep, pid, left>>

Seed(d) ==
  /\ phase[d] = "seed"
  /\ InsertRecurring
  /\ phase' = [phase EXCEPT ![d] = "up"]
  /\ Goto(d, "boot")
  /\ UNCHANGED <<mon, held, seen, pass, sweep, pid, left>>

\* stop(): the event, and the running rows (of every daemon).
StopBegin(d) ==
  /\ phase[d] = "up" /\ Spend("stop")
  /\ phase' = [phase EXCEPT ![d] = "stopping"]
  /\ sweep' = [sweep EXCEPT ![d] = {t \in Task : tasks[t].status = "running"}]
  /\ UNCHANGED <<queueVars, loop, mon, held, seen, pass, pid>>

\* Mutant of StopSweep: the running rows are cancelled on the spot.
StopSweepCancelsRows(d) ==
  /\ \E t \in sweep[d] :
       /\ SetRow(t, [tasks[t] EXCEPT !.status = "cancelled"])
       /\ sweep' = [sweep EXCEPT ![d] = @ \ {t}]
  /\ UNCHANGED <<runs, phase, loop, mon, held, seen, pass, pid, left>>

\* request_cancel on each of them, whatever has become of it; the ValueError
\* of a terminal one is dropped.
StopSweep(d) ==
  /\ \E t \in sweep[d] :
       /\ \/ RequestCancel(t)
          \/ tasks[t].status \in Terminal /\ UNCHANGED queueVars
       /\ sweep' = [sweep EXCEPT ![d] = @ \ {t}]
  /\ UNCHANGED <<phase, loop, mon, held, seen, pass, pid, left>>

\* The grace period is over: both runners are cancelled.
StopTimeout(d) ==
  /\ phase[d] = "stopping" /\ sweep[d] = {}
  /\ loop[d] \notin {"off", "dead"} /\ mon[d] # "gatherstop"
  /\ pass' = [pass EXCEPT ![d] = NoPass]
  /\ IF mon[d] # "off"
     THEN Interrupt(d, "gatherstop") /\ UNCHANGED <<held, seen>>
     ELSE Rest(d, "off") /\ UNCHANGED mon
  /\ UNCHANGED <<queueVars, phase, sweep, pid, left>>

StopDone(d) ==
  /\ phase[d] = "stopping" /\ sweep[d] = {}
  /\ loop[d] \in {"off", "dead"} /\ pass[d] = NoPass
  /\ phase' = [phase EXCEPT ![d] = "down"]
  /\ Rest(d, "off")
  /\ UNCHANGED <<queueVars, mon, pass, sweep, pid, left>>

\* The process is gone with everything it kept in memory.
Crash(d) ==
  /\ phase[d] # "down" /\ Spend("crash")
  /\ phase' = [phase EXCEPT ![d] = "down"]
  /\ Rest(d, "off")
  /\ mon' = [mon EXCEPT ![d] = "off"]
  /\ pass' = [pass EXCEPT ![d] = NoPass]
  /\ sweep' = [sweep EXCEPT ![d] = {}]
  /\ UNCHANGED <<queueVars, pid>>

----------------------------------------------------------------------------
(* The rest of the world *)

\* The call of the store that a coroutine awaits raises (a locked database, a
\* lost connection).
StoreFault(d) ==
  /\ Spend("fault")
  /\ \/ /\ loop[d] \in {"claiming", "unexpected", "failcurrent"}
        /\ Rest(d, "poll")
        /\ UNCHANGED <<mon, pass>>
     \/ /\ loop[d] \in Inside \ {"handler"}
        /\ IF mon[d] = "off" THEN Rest(d, "dead")
                             ELSE Goto(d, "raised") /\ UNCHANGED <<held, seen>>
        /\ UNCHANGED <<mon, pass>>
     \/ /\ loop[d] \in {"boot", "turn"} /\ pass[d] = NoPass
        /\ Goto(d, "dead")
        /\ UNCHANGED <<mon, held, seen, pass>>
     \/ /\ pass[d] # NoPass
        /\ PassRaises(d)
        /\ UNCHANGED <<held, seen>>
     \/ /\ \/ mon[d] = "wait" /\ loop[d] \in Inside
           \/ mon[d] \in {"touch", "recheck"}
        /\ Interrupt(d, "gathererr")
        /\ UNCHANGED <<held, seen, pass>>
  /\ UNCHANGED <<queueVars, phase, sweep, pid>>

ClientEnqueues(t) ==
  /\ t \notin Recurring
  /\ \E p \in Priority, ready \in BOOLEAN : Enqueue(t, p, ready)
  /\ UNCHANGED workerVars

ClientCancels(t) ==
  /\ Spend("cancel")
  /\ RequestCancel(t)
  /\ UNCHANGED <<phase, loop, mon, held, seen, pass, sweep, pid>>

SubprocessExits(t) ==
  /\ \E e \in Attempts : /\ pid[t][e] \in Daemon
                         /\ pid' = [pid EXCEPT ![t][e] = "gone"]
  /\ UNCHANGED <<queueVars, phase, loop, mon, held, seen, pass, sweep, left>>

\* The stale threshold is a minute: it does not pass between the return of
\* claim_next and the next statement of the loop.
TimePasses(t) ==
  /\ \/ BecomeReady(t)
     \/ /\ \A d \in Daemon : loop[d] = "claimed" => MyTask(d) # t
        /\ GoStale(t)
  /\ UNCHANGED workerVars

----------------------------------------------------------------------------
LoopStep(d) ==
  \/ BeginTurn(d) \/ SkipPass(d) \/ LoopEnds(d) \/ Claim(d) \/ StartProcessing(d)
  \/ ProcessingEnds(d) \/ Unexpected(d) \/ FailCurrent(d)

ProcessingStep(d) ==
  \/ Start(d) \/ HandlerEnds(d) \/ CheckCancellation(d) \/ Finish(d) \/ Settle(d)
  \/ FollowUp(d) \/ InsertFollowUp(d)

MonitorStep(d) == MonitorRead(d) \/ MonitorTouch(d) \/ MonitorSkipsPass(d)

PassStep(d) == (\E by \in {"loop", "periodic", "monitor"} : PassStart(d, by)) \/ PassApply(d)

DaemonStep(d) ==
  \/ LoopStep(d) \/ ProcessingStep(d) \/ MonitorStep(d) \/ PassStep(d)
  \/ HandlerSpawns(d) \/ HandlerBeats(d)
  \/ Restart(d) \/ Seed(d) \/ StopBegin(d) \/ StopSweep(d) \/ StopTimeout(d) \/ StopDone(d)
  \/ Crash(d) \/ StoreFault(d)

World(t) == ClientEnqueues(t) \/ ClientCancels(t) \/ SubprocessExits(t) \/ TimePasses(t)

WorkerNext == (\E d \in Daemon : DaemonStep(d)) \/ (\E t \in Task : World(t))

WorkerSpec == WorkerInit /\ [][WorkerNext]_vars

\* The event loop runs every coroutine that can go on, a handler returns, a
\* daemon that is down is started again by the next client, a subprocess
\* ends, and time passes.  Nobody has to stop, cancel, crash or fail.
Fairness ==
  /\ \A d \in Daemon :
       /\ WF_vars(LoopStep(d))
       /\ WF_vars(ProcessingStep(d))
       /\ WF_vars(MonitorTouch(d) \/ MonitorSkipsPass(d) \/ (mon[d] = "recheck" /\ MonitorRead(d)))
       /\ WF_vars(PassApply(d))
       /\ WF_vars(PassStart(d, "periodic"))
       /\ WF_vars(loop[d] = "boot" /\ PassStart(d, "loop"))
       /\ WF_vars(Restart(d) \/ Seed(d) \/ StopSweep(d) \/ StopDone(d))
  /\ \A t \in Task : WF_vars(SubprocessExits(t)) /\ WF_vars(TimePasses(t))

FairWorkerSpec == WorkerSpec /\ Fairness

----------------------------------------------------------------------------
(* Properties *)

\* Two daemons never process the same attempt: claim_next gives every claim
\* an epoch of its own, also when a recovery takes the task from a daemon
\* that is still processing it.
AttemptsExclusive ==
  \A c, d \in Daemon :
    held[c] # NoAttempt /\ held[d] # NoAttempt /\ c # d =>
      MyTask(c) # MyTask(d) \/ MyEpoch(c) # MyEpoch(d)

\* The run loop catches no exception of the pass it awaits (only the periodic
\* loop does), so one raise ends the worker for good.  While one daemon has
\* the store for itself nothing but an error of the store raises there: what
\* the pass has listed is still running at the same attempt when its turn
\* comes, whatever clients, a stop, a crash before it or the worker's other
\* coroutines do meanwhile.
RunLoopSurvives ==
  \A d \in Daemon :
    Daemon = {d} /\ loop[d] = "dead" => left["fault"] < Bound["fault"]

\* What a worker settles is the outcome of its own attempt: when it goes on to
\* reconcile attempts and leases, and to the follow-up, task_runs records that
\* outcome for the epoch it was given, whatever stopped, recovered or claimed
\* the task in between.
SettlesOwnAttempt ==
  \A d \in Daemon :
    mon[d] # "off" /\ loop[d] \in {"settle", "settlelast", "follow", "insert"} =>
      [attempt |-> MyEpoch(d),
       outcome |-> IF held[d].result = "pending" THEN "retry" ELSE held[d].result]
        \in {runs[MyTask(d)][i] : i \in 1..Len(runs[MyTask(d)])}

\* With the calls this worker makes, every attempt but the last uses up a
\* retry: a task is claimed at most max(1, max_retries) times, through all
\* crashes, recoveries and shutdowns.
ClaimsBounded == \A t \in Task : tasks[t].epoch \in {0} \cup Attempts

\* A pass of a daemon fails an attempt that the same daemon is processing
\* only when the subprocess of the attempt is gone: the worker does not take
\* a slow handler of its own for an abandoned one.
OwnAttemptKept ==
  [][\A d \in Daemon :
       /\ mon[d] # "off" /\ loop[d] \in {"start", "handler"} /\ Mine(d)
       /\ PassApply(d)
       /\ tasks'[MyTask(d)].status \in {"pending", "failed"}
       => pid[MyTask(d)][MyEpoch(d)] = "gone"]_vars

\* Every task that is enqueued ends: orphans of a crash are recovered, retries
\* run out, cancelled attempts are finalized.
EveryTaskEnds ==
  \A t \in Task : tasks[t].status \in Open ~> tasks[t].status \in Terminal
============================================================================
