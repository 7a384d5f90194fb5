--------------------------- MODULE PostgresQueue ---------------------------
(***************************************************************************)
(* PostgresTaskQueue: the same operations as TaskQueue, but every call is  *)
(* a READ COMMITTED transaction of its own session, whose statements       *)
(* interleave with those of the others.  A claim locks the row it selects  *)
(* (FOR UPDATE SKIP LOCKED) and takes an advisory lock for a maintenance   *)
(* task before it selects again; a settle reads the row without a lock and *)
(* updates it under a guard that the server evaluates on the newest        *)
(* version once the row lock is free.  An UPDATE, the task_runs row and    *)
(* the COMMIT are one step: until the commit the others see the old row    *)
(* and wait for the lock.                                                  *)
(*                                                                         *)
(* available_at and priority are abstracted: a claim may select any        *)
(* pending row that is not locked (SKIP LOCKED gives no order anyhow).     *)
(* The columns that only the recovery of the worker reads are left out.    *)
(***************************************************************************)
EXTENDS Integers, Sequences, FiniteSets

CONSTANTS
  Task,         \* task ids that may be inserted
  Cleanup,      \* the ids whose task_name is in BACKGROUND_CLEANUP_TASK_NAMES
  MaxRetries,   \* the max_retries column
  MaxEpoch,     \* bound: no attempt is given back from this epoch on
  Session,      \* database sessions: one call each at a time
  NoSession,    \* nobody holds the lock
  NoTask,       \* a session without a transaction
  NoEpoch       \* execution_epoch=None: the call is not fenced

ASSUME TaskAssumption == IsFiniteSet(Task) /\ Cleanup \subseteq Task
ASSUME RetriesAssumption == MaxRetries \in Nat
ASSUME EpochAssumption == MaxEpoch \in Nat /\ NoEpoch \notin Nat
ASSUME SessionAssumption == NoSession \notin Session /\ NoTask \notin Task

VARIABLES
  rows,         \* the rows of tasks, newest committed version
  runs,         \* the attempts in the rows of task_runs, by task
  lock,         \* the session that holds the lock of each row
  lane,         \* the session that holds the advisory lock of the lane
  tx            \* the open transaction of each session

vars == <<rows, runs, lock, lane, tx>>

----------------------------------------------------------------------------
Terminal == {"completed", "failed", "cancelled"}
Status == {"absent", "pending", "running"} \cup Terminal
Row == [status  : Status,
        epoch   : Nat,
        retries : Nat,
        cancel  : BOOLEAN]        \* cancellation_requested_at IS NOT NULL

\* The calls that end an attempt; the ones that the recovery of the queue and
\* the drain of legacy tasks make without an epoch.
Settlement == {"complete", "fail", "fail_permanently", "retry", "finalize"}
Unfenced == {"fail", "fail_permanently", "finalize"}

\* A transaction: what it waits for or does next, the task it works on, and
\* for a settle or a cancel the arguments of the call and the row it read.
Tx == [at    : {"idle", "wantLane", "inLane", "chosen", "settle", "cancel", "wantRow", "mutate"},
       task  : Task \cup {NoTask},
       call  : Settlement,
       epoch : Nat \cup {NoEpoch},
       read  : [status : Status, epoch : Nat, retries : Nat]]

Absent == [status |-> "absent", epoch |-> 0, retries |-> 0, cancel |-> FALSE]

\* The columns of a row that a later statement of the transaction uses.
Read(r) == [status |-> r.status, epoch |-> r.epoch, retries |-> r.retries]

Idle == [at |-> "idle", task |-> NoTask, call |-> "complete",
         epoch |-> NoEpoch, read |-> Read(Absent)]

Init == /\ rows = [t \in Task |-> Absent]
        /\ runs = [t \in Task |-> <<>>]
        /\ lock = [t \in Task |-> NoSession]
        /\ lane = NoSession
        /\ tx = [s \in Session |-> Idle]

----------------------------------------------------------------------------
(* Locks *)

Goto(s, at, t) == tx' = [tx EXCEPT ![s].at = at, ![s].task = t]

\* COMMIT and ROLLBACK release every lock of the session.
Release(s) ==
  /\ lock' = [t \in Task |-> IF lock[t] = s THEN NoSession ELSE lock[t]]
  /\ lane' = IF lane = s THEN NoSession ELSE lane
  /\ tx' = [tx EXCEPT ![s] = Idle]

\* A row lock is free for s, or its own.
Unlocked(s, t) == lock[t] \in {NoSession, s}

----------------------------------------------------------------------------
(* enqueue: one INSERT *)
Enqueue(t) ==
  /\ rows[t].status = "absent"
  /\ rows' = [rows EXCEPT ![t].status = "pending"]
  /\ UNCHANGED <<runs, lock, lane, tx>>

----------------------------------------------------------------------------
(* claim_next *)

\* The WHERE clause of the claim query and SKIP LOCKED.
Candidate(s, t) ==
  /\ rows[t].status = "pending"
  /\ t \in Cleanup => \A u \in Cleanup : rows[u].status # "running"
  /\ Unlocked(s, t)

\* The first query.  A call that finds no row changes nothing.
ClaimSelect(s, t) ==
  /\ tx[s].at = "idle" /\ Candidate(s, t)
  /\ lock' = [lock EXCEPT ![t] = s]
  /\ Goto(s, IF t \in Cleanup THEN "wantLane" ELSE "chosen", t)
  /\ UNCHANGED <<rows, runs, lane>>

\* Mutant of TakeLane: the row selected before the wait is taken after it.
TakeLaneNoSecondQuery(s) ==
  /\ tx[s].at = "wantLane" /\ lane = NoSession
  /\ lane' = s
  /\ Goto(s, "chosen", tx[s].task)
  /\ UNCHANGED <<rows, runs, lock>>

\* pg_advisory_xact_lock: waits for the session that holds it.
TakeLane(s) ==
  /\ tx[s].at = "wantLane" /\ lane = NoSession
  /\ lane' = s
  /\ Goto(s, "inLane", tx[s].task)
  /\ UNCHANGED <<rows, runs, lock>>

\* Mutant of Requery: without SKIP LOCKED it waits for the row of another claim.
RequeryWaits(s) ==
  /\ tx[s].at = "inLane"
  /\ \/ \E t \in Task :
          /\ rows[t].status = "pending"
          /\ IF Unlocked(s, t)
             THEN lock' = [lock EXCEPT ![t] = s] /\ Goto(s, "chosen", t)
             ELSE UNCHANGED lock /\ Goto(s, "wantRow", t)
          /\ UNCHANGED lane
     \/ ~Candidate(s, tx[s].task) /\ Release(s)
  /\ UNCHANGED <<rows, runs>>

\* The second query: any candidate, the row locked first among them; when that
\* row is a candidate no more, perhaps none, and the transaction commits.
Requery(s) ==
  /\ tx[s].at = "inLane"
  /\ \/ \E t \in Task :
          /\ Candidate(s, t)
          /\ lock' = [lock EXCEPT ![t] = s]
          /\ Goto(s, "chosen", t)
          /\ UNCHANGED lane
     \/ ~Candidate(s, tx[s].task) /\ Release(s)
  /\ UNCHANGED <<rows, runs>>

\* UPDATE ... WHERE id = ? AND status = 'pending', COMMIT
ClaimCommit(s) ==
  LET t == tx[s].task
  IN  /\ tx[s].at = "chosen"
      /\ rows' = IF rows[t].status = "pending"
                 THEN [rows EXCEPT ![t].status = "running", ![t].epoch = @ + 1]
                 ELSE rows
      /\ Release(s)
      /\ UNCHANGED runs

----------------------------------------------------------------------------
(* complete, fail, fail_permanently, retry_running_task and                *)
(* finalize_cancellation                                                   *)

\* WHERE id = ? AND status = 'running' [AND execution_epoch = ?]
RunningFor(r, e) == r.status = "running" /\ e \in {NoEpoch, r.epoch}

\* _get_running_task_row, without FOR UPDATE.
ReadRunning(s, t, call, e) ==
  /\ tx[s].at = "idle"
  /\ RunningFor(rows[t], e)
  /\ e = NoEpoch => call \in Unfenced
  /\ call = "retry" => rows[t].epoch < MaxEpoch
  /\ tx' = [tx EXCEPT ![s] = [at |-> "settle", task |-> t, call |-> call,
                              epoch |-> e, read |-> Read(rows[t])]]
  /\ UNCHANGED <<rows, runs, lock, lane>>

\* The SET clause of each call, for the row r of which the columns `read` were
\* read.
Completed(r) == [r EXCEPT !.status = "completed"]

Failed(r, read) ==
  [r EXCEPT !.status = IF read.retries + 1 >= MaxRetries THEN "failed" ELSE "pending",
            !.retries = read.retries + 1, !.cancel = FALSE]

FailedPermanently(r) == [r EXCEPT !.status = "failed", !.retries = MaxRetries]

GivenBack(r) == [r EXCEPT !.status = "pending", !.cancel = FALSE]

Cancelled(r) == [r EXCEPT !.status = "cancelled"]

Settled(r, read, call) ==
  CASE call = "complete" -> Completed(r)
    [] call = "fail" -> Failed(r, read)
    [] call = "fail_permanently" -> FailedPermanently(r)
    [] call = "retry" -> GivenBack(r)
    [] call = "finalize" -> Cancelled(r)

\* Mutant of Settle: the UPDATE has no guard and ends an ended attempt.
SettleUnguarded(s) ==
  LET t == tx[s].task
  IN  /\ tx[s].at = "settle" /\ Unlocked(s, t)
      /\ rows' = [rows EXCEPT ![t] = Settled(@, tx[s].read, tx[s].call)]
      /\ runs' = [runs EXCEPT ![t] = Append(@, tx[s].read.epoch)]
      /\ Release(s)

\* The guarded UPDATE, once the row lock is free, and the task_runs row, which
\* dates from the row that was read; a row that no longer matches is left
\* alone (ROLLBACK, ValueError).
Settle(s) ==
  LET t == tx[s].task
      done == RunningFor(rows[t], tx[s].epoch)
  IN  /\ tx[s].at = "settle" /\ Unlocked(s, t)
      /\ rows' = IF done THEN [rows EXCEPT ![t] = Settled(@, tx[s].read, tx[s].call)] ELSE rows
      /\ runs' = IF done THEN [runs EXCEPT ![t] = Append(@, tx[s].read.epoch)] ELSE runs
      /\ Release(s)

----------------------------------------------------------------------------
(* request_cancel *)

\* The row is read without a lock; a terminal task is not cancellable.
ReadCancel(s, t) ==
  /\ tx[s].at = "idle"
  /\ rows[t].status \in {"pending", "running"}
  /\ tx' = [tx EXCEPT ![s] = [Idle EXCEPT !.at = "cancel", !.task = t, !.read = Read(rows[t])]]
  /\ UNCHANGED <<rows, runs, lock, lane>>

\* The UPDATE asks for the status that was read: a pending row is cancelled, a
\* running one is marked, and a row that changed sides meanwhile is left alone.
Cancel(s) ==
  LET t == tx[s].task
      same == rows[t].status = tx[s].read.status
  IN  /\ tx[s].at = "cancel" /\ Unlocked(s, t)
      /\ IF same /\ rows[t].status = "pending"
         THEN /\ rows' = [rows EXCEPT ![t].status = "cancelled"]
              /\ runs' = [runs EXCEPT ![t] = Append(@, 0)]
         ELSE /\ rows' = IF same THEN [rows EXCEPT ![t].cancel = TRUE] ELSE rows
              /\ UNCHANGED runs
      /\ Release(s)

----------------------------------------------------------------------------
(* _mutate_running_task_data: SELECT ... FOR UPDATE, which waits; the      *)
(* payload that the second statement writes is not modelled                *)

MutateAsk(s, t) ==
  /\ tx[s].at = "idle"
  /\ rows[t].status \in {"pending", "running"}
  /\ Goto(s, "wantRow", t)
  /\ UNCHANGED <<rows, runs, lock, lane>>

\* The lock is free; a row that has been settled meanwhile is returned no more.
MutateLock(s) ==
  LET t == tx[s].task
  IN  /\ tx[s].at = "wantRow" /\ Unlocked(s, t)
      /\ IF rows[t].status \in {"pending", "running"}
         THEN /\ lock' = [lock EXCEPT ![t] = s]
              /\ Goto(s, "mutate", t)
              /\ UNCHANGED lane
         ELSE Release(s)
      /\ UNCHANGED <<rows, runs>>

MutateCommit(s) ==
  /\ tx[s].at = "mutate"
  /\ Release(s)
  /\ UNCHANGED <<rows, runs>>

----------------------------------------------------------------------------
\* lock_timeout, statement_timeout or a lost connection: the lease rolls the
\* transaction back before the connection returns to the pool.
Abort(s) ==
  /\ tx[s].at # "idle"
  /\ Release(s)
  /\ UNCHANGED <<rows, runs>>

Claim(s) ==
  \/ \E t \in Task : ClaimSelect(s, t)
  \/ TakeLane(s)
  \/ Requery(s)
  \/ ClaimCommit(s)

Call(s) ==
  \/ \E t \in Task :
       \/ \E call \in Settlement, e \in {NoEpoch, rows[t].epoch} : ReadRunning(s, t, call, e)
       \/ ReadCancel(s, t)
       \/ MutateAsk(s, t)
  \/ Settle(s)
  \/ Cancel(s)
  \/ MutateLock(s)
  \/ MutateCommit(s)

Next == \/ \E t \in Task : Enqueue(t)
        \/ \E s \in Session : Claim(s) \/ Call(s) \/ Abort(s)

Spec == Init /\ [][Next]_vars

----------------------------------------------------------------------------
(* Properties *)

\* The rows, the locks and the transactions of the sessions have their types.
TypeOK == /\ rows \in [Task -> Row]
          /\ runs \in [Task -> Seq(Nat)]
          /\ lock \in [Task -> Session \cup {NoSession}]
          /\ lane \in Session \cup {NoSession}
          /\ tx \in [Session -> Tx]

\* Every attempt that ended has one row in task_runs, and so has a task that
\* was cancelled while pending, however the settles of several callers
\* overlap: the second one finds its guard false and rolls back.
OneRunPerAttempt ==
  \A t \in Task :
    LET r == rows[t]
    IN  \/ Len(runs[t]) = IF r.status = "running" THEN r.epoch - 1 ELSE r.epoch
        \/ r.status = "cancelled" /\ Len(runs[t]) = r.epoch + 1

PhaseOf(status) ==
  CASE status = "absent" -> "absent"
    [] status = "pending" -> "waiting"
    [] status = "running" -> "held"
    [] OTHER -> "closed"

Contract == INSTANCE TaskContract WITH
  phase <- [t \in Task |-> PhaseOf(rows[t].status)],
  attempt <- [t \in Task |-> rows[t].epoch],
  failures <- [t \in Task |-> rows[t].retries],
  history <- runs

\* A settle without an epoch that read one attempt and ends a later one, which
\* was started between its two statements.
Overrules(s) ==
  /\ tx[s].at = "settle" /\ tx[s].epoch = NoEpoch
  /\ tx[s].read.epoch # rows[tx[s].task].epoch
  /\ Settle(s)

\* The parallel transactions implement the contract of the queue: every step
\* is one of the contract's or none.  The one exception is a settle without
\* an epoch that overrules an attempt it has not read.
ImplementsContract ==
  Contract!Init /\ [][Contract!Next \/ \E s \in Session : Overrules(s)]_(Contract!contractVars)

\* What session s waits for: a row that another one has locked, or the lane.
WaitsForRow(s) == tx[s].at \in {"settle", "cancel", "wantRow"} /\ ~Unlocked(s, tx[s].task)

WaitsForLane(s) == tx[s].at = "wantLane" /\ lane # NoSession

\* No two calls wait for each other, although claims hold row locks while they
\* wait for the lane: whoever has the lane waits for nothing (its second query
\* skips locked rows), and whoever has locked a row waits for no row.  And the
\* lane is free unless a claim is between taking it and its commit: left on a
\* pooled connection by an aborted claim it would end all maintenance.
LockDiscipline ==
  /\ lane # NoSession => tx[lane].at \in {"inLane", "chosen"}
  /\ lane # NoSession => ~WaitsForRow(lane) /\ ~WaitsForLane(lane)
  /\ \A t \in Task : lock[t] # NoSession => ~WaitsForRow(lock[t])
============================================================================
