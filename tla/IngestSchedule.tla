--------------------------- MODULE IngestSchedule --------------------------
(***************************************************************************)
(* How thoughts that wait in the System 1 journal get an ingest task.      *)
(* schedule_system1_ingest counts the pending thoughts, looks for an open  *)
(* ingest task, and then changes or inserts one, in transactions of their  *)
(* own, which record_thought calls, the outbox flush, the worker's         *)
(* follow-up and the start of the daemon run at the same time.             *)
(*                                                                         *)
(* The worker and the ingest handler (modules TaskWorker and Ingest) are   *)
(* seen from the outside: a run claims thoughts, uses them or gives them   *)
(* back, and the task completes, is retried, is cancelled or fails for     *)
(* good.  The reconciliation pass gives back what tasks that do not run    *)
(* have claimed, and schedules nothing.  When a task is available (the     *)
(* debounce below SYSTEM1_INGEST_THRESHOLD, rate limits and suppression    *)
(* windows set available_at) is left open: it waits, and may be claimed.   *)
(***************************************************************************)
EXTENDS Integers, Sequences, FiniteSets

CONSTANTS
  Thought,      \* the thoughts that may be recorded
  Caller,       \* what runs schedule_system1_ingest besides worker and start
  Worker, Boot, \* the worker's follow-up, and bootstrap_background_tasks
  IngestTask,   \* bound: ids of ingest tasks that are open at a time
  NoTask        \* no open task was found

ASSUME ScheduleAssumption ==
  /\ NoTask \notin IngestTask /\ IngestTask # {}
  /\ Worker # Boot /\ {Worker, Boot} \cap Caller = {}

VARIABLES
  pending,      \* thoughts with a pending row in the journal
  claims,       \* thoughts each open task has claimed; NoTask: closed tasks
  kept,         \* thoughts with a recoverable row: used, and kept for two days
  purged,       \* history: thoughts whose row was deleted after that time
  ingest,       \* the state of every ingest task
  step,         \* where each scheduler is
  working,      \* the ingest tasks that the worker of this daemon processes
  lapsed        \* history: since the last schedule that ended well one was lost,
                \* or thoughts came back from a closed task

journalVars == <<claims, kept, purged>>
scheduleVars == <<pending, journalVars, ingest, step, working, lapsed>>

Scheduler == Caller \cup {Worker, Boot}
Active == {"count", "find", "unique", "update", "insert"}

\* A scheduler: what it does next, and the open task it has found.
Step == [at : Active \cup {"off", "done", "raised"}, task : IngestTask \cup {NoTask}]

Off == [at |-> "off", task |-> NoTask]

ScheduleInit ==
  /\ pending = {}
  /\ claims = [k \in IngestTask \cup {NoTask} |-> {}]
  /\ kept = {} /\ purged = {}
  /\ ingest = [k \in IngestTask |-> "none"]
  /\ step = [p \in Scheduler |-> Off]
  /\ working = {}
  /\ lapsed = FALSE

OpenTasks == {k \in IngestTask : ingest[k] # "none"}

Claimed == UNION {claims[k] : k \in IngestTask \cup {NoTask}}

\* The thoughts that have a row in the journal.
Journal == pending \cup Claimed \cup kept

Begun == [Off EXCEPT !.at = "count"]

Leave(p, at) == step' = [step EXCEPT ![p] = [Off EXCEPT !.at = at]]

\* A schedule has returned or raised; worker and start go on either way.
Ends(p, at) == Leave(p, IF p \in Caller THEN at ELSE "off")

----------------------------------------------------------------------------
(* schedule_system1_ingest and schedule_system1_ingest_continuation        *)

\* The pending thoughts are counted.
Count(p) ==
  /\ step[p].at = "count"
  /\ IF pending = {} THEN Ends(p, "done") ELSE Leave(p, "find")
  /\ UNCHANGED <<pending, journalVars, ingest, working, lapsed>>

\* An open task was found: a running one is left alone, a waiting one is put to
\* the new time, unless it was enqueued by hand or nothing would change.
Found(p, k) ==
  /\ \/ Ends(p, "done")
     \/ ingest[k] = "waiting" /\ step' = [step EXCEPT ![p].at = "update", ![p].task = k]
  /\ lapsed' = FALSE

\* find_open_task_any_workspace, and if there is none find_open_task in
\* enqueue_unique, which looks again before it inserts.
Find(p) ==
  /\ step[p].at \in {"find", "unique"}
  /\ \/ /\ OpenTasks = {}
        /\ step' = [step EXCEPT ![p].at = IF @ = "find" THEN "unique" ELSE "insert"]
        /\ UNCHANGED lapsed
     \/ \E k \in OpenTasks : Found(p, k)
  /\ UNCHANGED <<pending, journalVars, ingest, working>>

\* update_pending_task: ValueError when the task was claimed or closed meanwhile.
Update(p) ==
  /\ step[p].at = "update"
  /\ Ends(p, IF ingest[step[p].task] = "waiting" THEN "done" ELSE "raised")
  /\ UNCHANGED <<pending, journalVars, ingest, working, lapsed>>

\* The enqueue of enqueue_unique.  With all ids in use (the bound) one more
\* task is not told from those that are open.
Insert(p) ==
  /\ step[p].at = "insert"
  /\ \/ \E k \in IngestTask \ OpenTasks : ingest' = [ingest EXCEPT ![k] = "waiting"]
     \/ OpenTasks = IngestTask /\ UNCHANGED ingest
  /\ Ends(p, "done")
  /\ lapsed' = FALSE
  /\ UNCHANGED <<pending, journalVars, working>>

\* A statement fails and schedule_system1_ingest raises, or the monitor cancels
\* the worker's follow-up with its task.
ScheduleFails(p) ==
  /\ step[p].at \in Active
  /\ Ends(p, "raised")
  /\ lapsed' = TRUE
  /\ UNCHANGED <<pending, journalVars, ingest, working>>

Schedule(p) == Count(p) \/ Find(p) \/ Update(p) \/ Insert(p)

----------------------------------------------------------------------------
(* The worker, seen from the outside *)

\* available_at has come.  One task at a time; the last follow-up has returned.
Claim(k) ==
  /\ ingest[k] = "waiting" /\ working = {} /\ step[Worker].at = "off"
  /\ ingest' = [ingest EXCEPT ![k] = "running"]
  /\ working' = {k}
  /\ UNCHANGED <<pending, journalVars, step, lapsed>>

\* claim_pending: the handler takes a batch.
TakeBatch(k, batch) ==
  /\ k \in working /\ batch \subseteq pending /\ batch # {}
  /\ pending' = pending \ batch
  /\ claims' = [claims EXCEPT ![k] = @ \cup batch]
  /\ UNCHANGED <<kept, purged, ingest, step, working, lapsed>>

\* move_claimed_entry_ids_to_recoverable: thoughts that were used.
KeepClaims(k, used) ==
  /\ k \in working /\ used \subseteq claims[k] /\ used # {}
  /\ claims' = [claims EXCEPT ![k] = @ \ used]
  /\ kept' = kept \cup used
  /\ UNCHANGED <<pending, purged, ingest, step, working, lapsed>>

\* release_claimed_entry_ids: thoughts that were not, or all of a run that fails.
ReleaseClaims(k, back) ==
  /\ k \in working /\ back \subseteq claims[k] /\ back # {}
  /\ claims' = [claims EXCEPT ![k] = @ \ back]
  /\ pending' = pending \cup back
  /\ UNCHANGED <<kept, purged, ingest, step, working, lapsed>>

\* The task leaves the queue; what it has claimed stays claimed.
Close(k) ==
  /\ ingest' = [ingest EXCEPT ![k] = "none"]
  /\ claims' = [claims EXCEPT ![NoTask] = @ \cup claims[k], ![k] = {}]

\* complete; _schedule_follow_up comes next and schedules the next task.
Completes(k) ==
  /\ k \in working
  /\ Close(k)
  /\ working' = {}
  /\ step' = [step EXCEPT ![Worker] = Begun]
  /\ UNCHANGED <<pending, kept, purged, lapsed>>

\* The attempt fails and the task waits for the retry, or it fails for good or
\* is cancelled, which has no follow-up.  A task left running by a crash is
\* recovered so.
Fails(k) ==
  /\ ingest[k] = "running"
  /\ \/ /\ ingest' = [ingest EXCEPT ![k] = "waiting"]
        /\ UNCHANGED <<claims, lapsed>>
     \/ Close(k) /\ lapsed' = TRUE
  /\ working' = working \ {k}
  /\ UNCHANGED <<pending, kept, purged, step>>

\* request_cancel of a task that waits.
CancelTask(k) ==
  /\ ingest[k] = "waiting"
  /\ Close(k)
  /\ lapsed' = TRUE
  /\ UNCHANGED <<pending, kept, purged, step, working>>

\* release_orphaned_claims selects the claims of tasks that do not run, and then
\* updates those that are still claimed, whoever has them by then (its task may
\* have been claimed again): here it may meet any claim.  Nobody schedules an
\* ingest for what comes back.
SweepRelease(some) ==
  /\ some # {} /\ some \subseteq Claimed
  /\ pending' = pending \cup some
  /\ claims' = [k \in DOMAIN claims |-> claims[k] \ some]
  /\ lapsed' = (lapsed \/ some \cap claims[NoTask] # {})
  /\ UNCHANGED <<kept, purged, ingest, step, working>>

\* purge_expired_recoverable of the housekeeping task.
Purge(n) ==
  /\ n \in kept
  /\ kept' = kept \ {n}
  /\ purged' = purged \cup {n}
  /\ UNCHANGED <<pending, claims, ingest, step, working, lapsed>>

ScheduleNext ==
  \/ \E p \in Scheduler : Schedule(p) \/ ScheduleFails(p)
  \/ \E k \in IngestTask :
       \/ Claim(k) \/ Completes(k) \/ Fails(k) \/ CancelTask(k)
       \/ \E batch \in SUBSET pending : TakeBatch(k, batch)
       \/ \E some \in SUBSET claims[k] : KeepClaims(k, some) \/ ReleaseClaims(k, some)
  \/ \E some \in SUBSET Claimed : SweepRelease(some)
  \/ \E n \in Thought : Purge(n)

----------------------------------------------------------------------------
ScheduleTypeOK ==
  /\ pending \subseteq Thought
  /\ claims \in [IngestTask \cup {NoTask} -> SUBSET Thought]
  /\ kept \subseteq Thought /\ purged \subseteq Thought
  /\ ingest \in [IngestTask -> {"none", "waiting", "running"}]
  /\ step \in [Scheduler -> Step]
  /\ working \subseteq IngestTask
  /\ lapsed \in BOOLEAN
============================================================================
