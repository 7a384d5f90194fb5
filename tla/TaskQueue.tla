----------------------------- MODULE TaskQueue -----------------------------
(***************************************************************************)
(* The durable task queue: the tables `tasks` and `task_runs` and the      *)
(* operations of SQLiteTaskQueue (PostgresTaskQueue has the same ones).    *)
(* Every operation is one transaction.  The callers are not modelled here: *)
(* any operation may be called at any time, with the execution epoch of    *)
(* any attempt or with none.  A call that the code answers with ValueError *)
(* changes nothing, so it is no step of this specification.                *)
(*                                                                         *)
(* Time is abstracted to the two comparisons the code makes with it:       *)
(* `ready` is available_at <= now, and `stale` says that the last activity *)
(* of a running row is older than the abandonment threshold.               *)
(***************************************************************************)
EXTENDS Integers, Sequences, FiniteSets

CONSTANTS
  Task,         \* task ids that may be inserted
  Cleanup,      \* the ids whose task_name is in BACKGROUND_CLEANUP_TASK_NAMES
  Priority,     \* the values of the priority column
  MaxRetries,   \* the max_retries column
  MaxEpoch,     \* bound: no retry_running_task from this epoch on
  NoEpoch       \* execution_epoch=None: the call is not fenced

ASSUME TaskAssumption == IsFiniteSet(Task) /\ Cleanup \subseteq Task
ASSUME PriorityAssumption == Priority \subseteq Int /\ Priority # {}
ASSUME RetriesAssumption == MaxRetries \in Nat
ASSUME EpochAssumption == MaxEpoch \in Nat /\ NoEpoch \notin Nat

VARIABLES
  tasks,        \* the rows of the table tasks, by id
  runs          \* the rows of the table task_runs of each task, oldest first

queueVars == <<tasks, runs>>

----------------------------------------------------------------------------
Open == {"pending", "running"}
Terminal == {"completed", "failed", "cancelled"}
Status == Open \cup Terminal \cup {"absent"}
Outcome == {"completed", "failed", "retry", "cancelled"}

\* The columns that the operations read or write.  proc stands for
\* subprocess_pid: NULL, the pid of a live process, or of one that is gone.
Row == [status   : Status,
        epoch    : Nat,             \* execution_epoch
        retries  : Nat,             \* retries_count
        priority : Priority,
        created  : Nat,             \* rank of created_at
        ready    : BOOLEAN,         \* available_at <= now
        stale    : BOOLEAN,         \* no recent updated_at
        proc     : {"none", "live", "gone"},
        cancel   : BOOLEAN]         \* cancellation_requested_at IS NOT NULL

\* A task_runs row.  attempt stands for started_at: the claim it dates from,
\* or 0 when the row was written for a task that was not running.
Run == [attempt : Nat, outcome : Outcome]

Fresh(p, c, ready) ==
  [status |-> "pending", epoch |-> 0, retries |-> 0, priority |-> p,
   created |-> c, ready |-> ready, stale |-> FALSE, proc |-> "none",
   cancel |-> FALSE]

Absent == [Fresh(CHOOSE p \in Priority : TRUE, 0, FALSE) EXCEPT !.status = "absent"]

Init == /\ tasks = [t \in Task |-> Absent]
        /\ runs = [t \in Task |-> <<>>]

----------------------------------------------------------------------------
(* Helpers *)

SetRow(t, row) == tasks' = [tasks EXCEPT ![t] = row]

\* WHERE id = ? AND status = 'running' [AND execution_epoch = ?]
RunningFor(t, e) ==
  /\ tasks[t].status = "running"
  /\ e \in {NoEpoch, tasks[t].epoch}

\* _insert_task_run, in the transaction of the transition it records.
LogRun(t, attempt, outcome) ==
  runs' = [runs EXCEPT ![t] = Append(@, [attempt |-> attempt, outcome |-> outcome])]

\* A transition out of 'running': the row and its task_runs entry.
EndAttempt(t, e, row, outcome) ==
  /\ RunningFor(t, e)
  /\ SetRow(t, row)
  /\ LogRun(t, tasks[t].epoch, outcome)

\* Mutant of LaneFree: a lane for every family instead of a shared one.
LaneFreePerFamily(t) == t \in Cleanup => tasks[t].status # "running"

\* The background-cleanup lane admits t: t is no cleanup task, or none runs.
LaneFree(t) ==
  t \in Cleanup => \A u \in Cleanup : tasks[u].status # "running"

Claimable(t) ==
  /\ tasks[t].status = "pending"
  /\ tasks[t].ready
  /\ LaneFree(t)

\* ORDER BY priority ASC, created_at ASC
Before(t, u) ==
  \/ tasks[t].priority < tasks[u].priority
  \/ tasks[t].priority = tasks[u].priority /\ tasks[t].created < tasks[u].created

----------------------------------------------------------------------------
(* The operations *)

\* enqueue.  The rank of created_at is the number of rows inserted so far.
Enqueue(t, p, ready) ==
  /\ tasks[t].status = "absent"
  /\ SetRow(t, Fresh(p, Cardinality({u \in Task : tasks[u].status # "absent"}), ready))
  /\ UNCHANGED runs

\* Mutant of ClaimRow: the attempt after a retry reuses the epoch.
ClaimRowReusesEpoch(r) ==
  [r EXCEPT !.status = "running", !.epoch = IF r.retries = 0 THEN @ + 1 ELSE @,
            !.stale = FALSE]

ClaimRow(r) ==
  [r EXCEPT !.status = "running", !.epoch = @ + 1, !.stale = FALSE]

ClaimNext(t) ==
  /\ Claimable(t)
  /\ \A u \in Task : Claimable(u) => ~Before(u, t)
  /\ SetRow(t, ClaimRow(tasks[t]))
  /\ UNCHANGED runs

\* complete.  The cancellation columns keep their value.
Complete(t, e) ==
  EndAttempt(t, e, [tasks[t] EXCEPT !.status = "completed", !.proc = "none"], "completed")

\* Mutants of FailRow: the budget compared with >, and the request kept.
FailRowOffByOne(r, ready) ==
  LET terminal == r.retries + 1 > MaxRetries
  IN  [r EXCEPT !.status = IF terminal THEN "failed" ELSE "pending",
                !.retries = @ + 1, !.ready = terminal \/ ready,
                !.proc = "none", !.cancel = FALSE]

FailRowKeepsRequest(r, ready) ==
  LET terminal == r.retries + 1 >= MaxRetries
  IN  [r EXCEPT !.status = IF terminal THEN "failed" ELSE "pending",
                !.retries = @ + 1, !.ready = terminal \/ ready, !.proc = "none"]

\* fail.  A request to cancel the attempt that failed is dropped with it.
FailRow(r, ready) ==
  LET terminal == r.retries + 1 >= MaxRetries
  IN  [r EXCEPT !.status = IF terminal THEN "failed" ELSE "pending",
                !.retries = @ + 1, !.ready = terminal \/ ready,
                !.proc = "none", !.cancel = FALSE]

\* Mutant of Fail: every failure is logged as a retry.
FailLogsRetry(t, e, ready) ==
  EndAttempt(t, e, FailRow(tasks[t], ready), "retry")

\* ready is FALSE for a retry that is delayed.
Fail(t, e, ready) ==
  LET row == FailRow(tasks[t], ready)
  IN  EndAttempt(t, e, row, IF row.status = "failed" THEN "failed" ELSE "retry")

\* Mutant of FailPermanently: no task_runs row.
FailPermanentlyUnlogged(t, e) ==
  /\ RunningFor(t, e)
  /\ SetRow(t, [tasks[t] EXCEPT !.status = "failed", !.retries = MaxRetries,
                                !.ready = TRUE, !.proc = "none"])
  /\ UNCHANGED runs

\* fail_permanently
FailPermanently(t, e) ==
  EndAttempt(t, e, [tasks[t] EXCEPT !.status = "failed", !.retries = MaxRetries,
                                    !.ready = TRUE, !.proc = "none"], "failed")

\* retry_running_task: back to pending without counting a retry.
RetryRunningTask(t, e, ready) ==
  /\ tasks[t].epoch < MaxEpoch
  /\ EndAttempt(t, e, [tasks[t] EXCEPT !.status = "pending", !.ready = ready,
                                       !.proc = "none", !.cancel = FALSE], "retry")

\* set_running_process and, with pid = "none", clear_running_process
SetRunningProcess(t, e, pid) ==
  /\ RunningFor(t, e)
  /\ SetRow(t, [tasks[t] EXCEPT !.proc = pid, !.stale = FALSE])
  /\ UNCHANGED runs

\* touch_running_task
TouchRunningTask(t, e) ==
  /\ RunningFor(t, e)
  /\ SetRow(t, [tasks[t] EXCEPT !.stale = FALSE])
  /\ UNCHANGED runs

\* request_cancel: a pending task is cancelled here, a running one is marked.
RequestCancel(t) ==
  \/ /\ tasks[t].status = "pending"
     /\ SetRow(t, [tasks[t] EXCEPT !.status = "cancelled", !.proc = "none"])
     /\ LogRun(t, 0, "cancelled")
  \/ /\ tasks[t].status = "running"
     /\ SetRow(t, [tasks[t] EXCEPT !.cancel = TRUE, !.stale = FALSE])
     /\ UNCHANGED runs

\* finalize_cancellation: whether or not a cancellation was requested.
FinalizeCancellation(t, e) ==
  EndAttempt(t, e, [tasks[t] EXCEPT !.status = "cancelled", !.proc = "none"], "cancelled")

\* update_pending_task
UpdatePendingTask(t, p, ready) ==
  /\ tasks[t].status = "pending"
  /\ SetRow(t, [tasks[t] EXCEPT !.priority = p, !.ready = ready])
  /\ UNCHANGED runs

\* _mutate_running_task_data: the payload changes, which no operation of the
\* queue looks at, and updated_at moves.
MutateRunningTaskData(t) ==
  /\ tasks[t].status \in Open
  /\ SetRow(t, [tasks[t] EXCEPT !.stale = FALSE])
  /\ UNCHANGED runs

----------------------------------------------------------------------------
(* The environment: the clock, and the provider's subprocess *)

BecomeReady(t) ==
  /\ tasks[t].status = "pending" /\ ~tasks[t].ready
  /\ SetRow(t, [tasks[t] EXCEPT !.ready = TRUE])
  /\ UNCHANGED runs

GoStale(t) ==
  /\ tasks[t].status = "running" /\ ~tasks[t].stale
  /\ SetRow(t, [tasks[t] EXCEPT !.stale = TRUE])
  /\ UNCHANGED runs

\* _is_process_alive turns false.
ProcessExits(t) ==
  /\ tasks[t].proc = "live"
  /\ SetRow(t, [tasks[t] EXCEPT !.proc = "gone"])
  /\ UNCHANGED runs

----------------------------------------------------------------------------
\* The epochs a caller can present: none, or that of an attempt of the task.
CallEpoch(t) == {NoEpoch} \cup 1..tasks[t].epoch

Operation(t) ==
  \/ \E p \in Priority, ready \in BOOLEAN :
       Enqueue(t, p, ready) \/ UpdatePendingTask(t, p, ready)
  \/ ClaimNext(t)
  \/ RequestCancel(t)
  \/ MutateRunningTaskData(t)
  \/ \E e \in CallEpoch(t) :
       \/ Complete(t, e)
       \/ \E ready \in BOOLEAN : Fail(t, e, ready) \/ RetryRunningTask(t, e, ready)
       \/ FailPermanently(t, e)
       \/ \E pid \in {"none", "live"} : SetRunningProcess(t, e, pid)
       \/ TouchRunningTask(t, e)
       \/ FinalizeCancellation(t, e)

Environment(t) == BecomeReady(t) \/ GoStale(t) \/ ProcessExits(t)

Next == \E t \in Task : Operation(t) \/ Environment(t)

Spec == Init /\ [][Next]_queueVars

----------------------------------------------------------------------------
(* Properties *)

\* The columns of tasks and task_runs have their types.
TypeOK == /\ tasks \in [Task -> Row]
          /\ runs \in [Task -> Seq(Run)]

\* At most one maintenance task of any family runs at a time: claim_next
\* checks the lane and takes the row in one transaction, whatever retries,
\* cancellations and recoveries put rows back to pending meanwhile.
OneCleanupRunning ==
  \A t, u \in Cleanup :
    tasks[t].status = "running" /\ tasks[u].status = "running" => t = u

\* The task_runs rows `log` account for the attempts of row r: one for every
\* attempt that has ended, none for the one that runs, and besides these only
\* one for a task that was cancelled while it was pending.
AccountsFor(log, r) ==
  LET ended == {e \in 1..r.epoch : r.status = "running" => e # r.epoch}
  IN  /\ \A e \in ended : \E i \in 1..Len(log) : log[i].attempt = e
      /\ \A i \in 1..Len(log) :
           \/ log[i].attempt \in ended
           \/ log[i].attempt = 0 /\ r.status = "cancelled"
      /\ \A i, j \in 1..Len(log) : log[i].attempt = log[j].attempt => i = j

\* Every attempt of every task is logged in task_runs exactly once, whichever
\* of the worker, a recovery pass or a cancellation ended it (the dashboard
\* counts attempts and failures from this table alone).
EveryAttemptLoggedOnce == \A t \in Task : AccountsFor(runs[t], tasks[t])

\* The newest task_runs row of a terminal task tells the status of its row:
\* the last status summarize_task_runs reports is the task's.
LogAgreesWithStatus ==
  \A t \in Task :
    tasks[t].status \in Terminal =>
      /\ runs[t] # <<>>
      /\ runs[t][Len(runs[t])].outcome = tasks[t].status

\* A task that may run again has retries left: fail never requeues a task
\* whose retry budget is used up.
RetryBudget ==
  \A t \in Task :
    /\ tasks[t].status \in Open => tasks[t].retries < MaxRetries \/ tasks[t].retries = 0
    /\ tasks[t].retries <= MaxRetries \/ tasks[t].retries = 1

\* A request to cancel one attempt never reaches the next: a pending row
\* carries none, so no attempt starts out cancelled.
RequestEndsWithAttempt ==
  \A t \in Task : tasks[t].status = "pending" => ~tasks[t].cancel

\* No operation moves a row out of a terminal status or reuses its attempt.
TerminalIsFinal ==
  [][\A t \in Task : tasks[t].status \in Terminal =>
       /\ tasks'[t].status = tasks[t].status
       /\ tasks'[t].epoch = tasks[t].epoch
       /\ runs'[t] = runs[t]]_queueVars

PhaseOf(status) ==
  CASE status = "absent" -> "absent"
    [] status = "pending" -> "waiting"
    [] status = "running" -> "held"
    [] OTHER -> "closed"

Contract == INSTANCE TaskContract WITH
  phase <- [t \in Task |-> PhaseOf(tasks[t].status)],
  attempt <- [t \in Task |-> tasks[t].epoch],
  failures <- [t \in Task |-> tasks[t].retries],
  history <- [t \in Task |-> [i \in DOMAIN runs[t] |-> runs[t][i].attempt]]

\* The queue keeps the contract of TaskContract: whatever priorities, delays,
\* process columns and calls without an epoch do to a row, every operation
\* submits, grants, ends or withdraws one task or changes nothing of it.
ImplementsContract == Contract!Spec
============================================================================
