------------------------- MODULE TaskWorkerProofs -------------------------
(***************************************************************************)
(* The queue and the workers that use it.  Part 1: the task queue is       *)
(* correct for every set of tasks, every retry limit and every sequence of *)
(* calls, fenced by an epoch or not, and implements TaskContract.  Part 2: *)
(* the workers implement the queue: for any number of daemons and tasks,   *)
(* and any number of crashes, stops, cancellations and store faults, the   *)
(* tables only ever change by an operation of TaskQueue, so what is proved *)
(* of the queue holds of the whole system.                                 *)
(***************************************************************************)
EXTENDS TaskWorker, FiniteSetTheorems, SequenceTheorems, TLAPS

(***************************************************************************)
(* PART 1.  THE QUEUE                                                      *)
(***************************************************************************)

----------------------------------------------------------------------------
(* What the operations do to a row *)

\* The row that enqueue inserts.
LEMMA FreshRow ==
  ASSUME NEW p \in Priority, NEW c \in Nat, NEW ready \in BOOLEAN
  PROVE  /\ Fresh(p, c, ready) \in Row
         /\ Fresh(p, c, ready).status = "pending"
         /\ Fresh(p, c, ready).epoch = 0
         /\ Fresh(p, c, ready).retries = 0
         /\ Fresh(p, c, ready).cancel = FALSE
  BY DEF Fresh, Row, Status, Open

\* The rank enqueue gives created_at is a number.
LEMMA RankType ==
  Cardinality({u \in Task : tasks[u].status # "absent"}) \in Nat
  <1>1. IsFiniteSet({u \in Task : tasks[u].status # "absent"})
    BY FS_Subset, TaskAssumption
  <1> QED BY <1>1, FS_CardinalityType

\* A task id that was never enqueued.
LEMMA AbsentRow == Absent \in Row /\ Absent.status = "absent" /\ Absent.epoch = 0 /\ Absent.retries = 0
  <1>1. (CHOOSE p \in Priority : TRUE) \in Priority
    BY PriorityAssumption
  <1> QED BY <1>1 DEF Absent, Fresh, Row, Status

\* What claim_next writes.
LEMMA ClaimRowType ==
  ASSUME NEW r \in Row
  PROVE  /\ ClaimRow(r) \in Row
         /\ ClaimRow(r).status = "running"
         /\ ClaimRow(r).epoch = r.epoch + 1
         /\ ClaimRow(r).retries = r.retries
         /\ ClaimRow(r).cancel = r.cancel
  <1> DEFINE next == r.epoch + 1
  <1>1. ClaimRow(r) = [r EXCEPT !.status = "running", !.epoch = next, !.stale = FALSE]
    BY DEF ClaimRow
  <1>2. next \in Nat /\ "running" \in Status
    BY DEF Row, Status, Open
  <1> HIDE DEF next
  <1>3. ClaimRow(r) \in Row
    BY <1>1, <1>2 DEF Row
  <1>4. /\ ClaimRow(r).status = "running" /\ ClaimRow(r).epoch = next
        /\ ClaimRow(r).retries = r.retries
    BY <1>1 DEF Row
  <1>5. ClaimRow(r).cancel = r.cancel
    BY <1>1 DEF Row
  <1> QED BY <1>3, <1>4, <1>5 DEF next

\* What fail writes: the retry is counted, the request dropped.
LEMMA FailRowType ==
  ASSUME NEW r \in Row, NEW ready \in BOOLEAN
  PROVE  /\ FailRow(r, ready) \in Row
         /\ FailRow(r, ready).epoch = r.epoch
         /\ FailRow(r, ready).retries = r.retries + 1
         /\ FailRow(r, ready).status =
              IF r.retries + 1 >= MaxRetries THEN "failed" ELSE "pending"
         /\ FailRow(r, ready).cancel = FALSE
  <1> DEFINE terminal == r.retries + 1 >= MaxRetries
             st == IF terminal THEN "failed" ELSE "pending"
             rd == terminal \/ ready
  <1>1. FailRow(r, ready) = [r EXCEPT !.status = st, !.retries = r.retries + 1,
                                      !.ready = rd, !.proc = "none", !.cancel = FALSE]
    BY DEF FailRow
  <1>2. st \in Status /\ rd \in BOOLEAN /\ r.retries + 1 \in Nat
    BY RetriesAssumption DEF Row, Status, Open, Terminal
  <1> HIDE DEF st, rd
  <1>3. FailRow(r, ready) \in Row
    BY <1>1, <1>2 DEF Row
  <1>4. FailRow(r, ready).epoch = r.epoch
    BY <1>1 DEF Row
  <1>5. FailRow(r, ready).retries = r.retries + 1
    BY <1>1 DEF Row
  <1>6. FailRow(r, ready).status = st
    BY <1>1 DEF Row
  <1>7. FailRow(r, ready).cancel = FALSE
    BY <1>1 DEF Row
  <1> QED BY <1>3, <1>4, <1>5, <1>6, <1>7 DEF st

----------------------------------------------------------------------------
(* What a step may do: one row changes, in one of five ways.  r is the new  *)
(* row of t.                                                                *)

Inserted(t, r) ==
  /\ tasks[t].status = "absent"
  /\ r.status = "pending" /\ r.epoch = 0 /\ r.retries = 0 /\ r.cancel = FALSE
  /\ runs' = runs

Claimed(t, r) ==
  /\ tasks[t].status = "pending" /\ r.status = "running" /\ LaneFree(t)
  /\ r.epoch = tasks[t].epoch + 1 /\ r.retries = tasks[t].retries
  /\ runs' = runs

\* The attempt ends: the row is terminal, or pending again with a retry left.
Ended(t, r, outcome) ==
  /\ tasks[t].status = "running" /\ r.epoch = tasks[t].epoch
  /\ \/ r.status \in Terminal /\ outcome = r.status
     \/ r.status = "pending" /\ outcome = "retry" /\ r.cancel = FALSE
  /\ \/ r.retries = tasks[t].retries
     \/ /\ r.retries = tasks[t].retries + 1
        /\ r.status = IF r.retries >= MaxRetries THEN "failed" ELSE "pending"
     \/ r.retries = MaxRetries /\ r.status = "failed"
  /\ outcome \in Outcome
  /\ LogRun(t, tasks[t].epoch, outcome)

Dropped(t, r) ==
  /\ tasks[t].status = "pending" /\ r.status = "cancelled"
  /\ r.epoch = tasks[t].epoch /\ r.retries = tasks[t].retries
  /\ LogRun(t, 0, "cancelled")

Kept(t, r) ==
  /\ r.status = tasks[t].status
  /\ r.epoch = tasks[t].epoch /\ r.retries = tasks[t].retries
  /\ r.status = "pending" => r.cancel = tasks[t].cancel
  /\ runs' = runs

RowStep(t, r) ==
  /\ r \in Row
  /\ tasks' = [tasks EXCEPT ![t] = r]
  /\ \/ Inserted(t, r)
     \/ Claimed(t, r)
     \/ \E outcome \in Outcome : Ended(t, r, outcome)
     \/ Dropped(t, r)
     \/ Kept(t, r)

\* Every call that takes effect, and every step of the environment, changes
\* one row in one of the five ways.
LEMMA StepIsRowStep ==
  ASSUME TypeOK, NEW t \in Task, Operation(t) \/ Environment(t)
  PROVE  \E r \in Row : RowStep(t, r)
  <1> DEFINE old == tasks[t]
  <1>0. old \in Row
    BY DEF TypeOK
  <1>1. ASSUME NEW p \in Priority, NEW ready \in BOOLEAN, Enqueue(t, p, ready)
        PROVE  \E r \in Row : RowStep(t, r)
    <2> DEFINE new == Fresh(p, Cardinality({u \in Task : tasks[u].status # "absent"}), ready)
    <2>1. /\ new \in Row /\ new.status = "pending" /\ new.epoch = 0
          /\ new.retries = 0 /\ new.cancel = FALSE
      BY RankType, FreshRow
    <2>2. tasks' = [tasks EXCEPT ![t] = new] /\ runs' = runs /\ old.status = "absent"
      BY <1>1 DEF Enqueue, SetRow
    <2> HIDE DEF new
    <2>3. Inserted(t, new)
      BY <2>1, <2>2 DEF Inserted
    <2> QED BY <2>1, <2>2, <2>3 DEF RowStep
  <1>2. ASSUME NEW p \in Priority, NEW ready \in BOOLEAN, UpdatePendingTask(t, p, ready)
        PROVE  \E r \in Row : RowStep(t, r)
    <2> DEFINE new == [old EXCEPT !.priority = p, !.ready = ready]
    <2>1. tasks' = [tasks EXCEPT ![t] = new] /\ runs' = runs
      BY <1>2 DEF UpdatePendingTask, SetRow
    <2>2. new \in Row /\ Kept(t, new)
      BY <1>0, <2>1 DEF Row, Kept
    <2> QED BY <2>1, <2>2 DEF RowStep
  <1>3. CASE ClaimNext(t)
    <2> DEFINE new == ClaimRow(old)
    <2>1. tasks' = [tasks EXCEPT ![t] = new] /\ runs' = runs
      BY <1>3 DEF ClaimNext, SetRow
    <2>2. /\ new \in Row /\ new.status = "running" /\ new.epoch = old.epoch + 1
          /\ new.retries = old.retries
      BY <1>0, ClaimRowType
    <2>3. Claimed(t, new)
      BY <1>3, <2>1, <2>2 DEF ClaimNext, Claimable, Claimed
    <2> QED BY <2>1, <2>2, <2>3 DEF RowStep
  <1>4. CASE RequestCancel(t)
    <2>1. CASE old.status = "pending"
      <3> DEFINE new == [old EXCEPT !.status = "cancelled", !.proc = "none"]
      <3>1. tasks' = [tasks EXCEPT ![t] = new] /\ LogRun(t, 0, "cancelled")
        BY <1>4, <2>1 DEF RequestCancel, SetRow
      <3>2. new \in Row /\ Dropped(t, new)
        BY <1>0, <2>1, <3>1 DEF Row, Status, Terminal, Dropped
      <3> QED BY <3>1, <3>2 DEF RowStep
    <2>2. CASE old.status = "running"
      <3> DEFINE new == [old EXCEPT !.cancel = TRUE, !.stale = FALSE]
      <3>1. tasks' = [tasks EXCEPT ![t] = new] /\ runs' = runs
        BY <1>4, <2>2 DEF RequestCancel, SetRow
      <3>2. new \in Row /\ Kept(t, new)
        BY <1>0, <2>2, <3>1 DEF Row, Kept
      <3> QED BY <3>1, <3>2 DEF RowStep
    <2> QED BY <1>4, <2>1, <2>2 DEF RequestCancel
  <1>5. CASE MutateRunningTaskData(t)
    <2> DEFINE new == [old EXCEPT !.stale = FALSE]
    <2>1. tasks' = [tasks EXCEPT ![t] = new] /\ runs' = runs
      BY <1>5 DEF MutateRunningTaskData, SetRow
    <2>2. new \in Row /\ Kept(t, new)
      BY <1>0, <2>1 DEF Row, Kept
    <2> QED BY <2>1, <2>2 DEF RowStep
  <1>6. ASSUME NEW e \in CallEpoch(t), Complete(t, e)
        PROVE  \E r \in Row : RowStep(t, r)
    <2> DEFINE new == [old EXCEPT !.status = "completed", !.proc = "none"]
    <2>1. /\ tasks' = [tasks EXCEPT ![t] = new] /\ old.status = "running"
          /\ LogRun(t, old.epoch, "completed")
      BY <1>6 DEF Complete, EndAttempt, SetRow, RunningFor
    <2>2. new \in Row /\ Ended(t, new, "completed")
      BY <1>0, <2>1 DEF Row, Status, Terminal, Outcome, Ended
    <2> QED BY <2>1, <2>2 DEF RowStep, Outcome
  <1>7. ASSUME NEW e \in CallEpoch(t), NEW ready \in BOOLEAN, Fail(t, e, ready)
        PROVE  \E r \in Row : RowStep(t, r)
    <2> DEFINE new == FailRow(old, ready)
               outcome == IF new.status = "failed" THEN "failed" ELSE "retry"
    <2>1. /\ tasks' = [tasks EXCEPT ![t] = new] /\ old.status = "running"
          /\ LogRun(t, old.epoch, outcome)
      BY <1>7 DEF Fail, EndAttempt, SetRow, RunningFor
    <2>2. /\ new \in Row /\ new.epoch = old.epoch /\ new.retries = old.retries + 1
          /\ new.status = IF old.retries + 1 >= MaxRetries THEN "failed" ELSE "pending"
          /\ new.cancel = FALSE
      BY <1>0, FailRowType
    <2>3. old.retries \in Nat /\ MaxRetries \in Nat
      BY <1>0, RetriesAssumption DEF Row
    <2> HIDE DEF new
    <2>4. outcome \in Outcome /\ Ended(t, new, outcome)
      BY <2>1, <2>2, <2>3 DEF Ended, Outcome, Terminal
    <2> QED BY <2>1, <2>2, <2>4 DEF RowStep
  <1>8. ASSUME NEW e \in CallEpoch(t), NEW ready \in BOOLEAN, RetryRunningTask(t, e, ready)
        PROVE  \E r \in Row : RowStep(t, r)
    <2> DEFINE new == [old EXCEPT !.status = "pending", !.ready = ready,
                                  !.proc = "none", !.cancel = FALSE]
    <2>1. /\ tasks' = [tasks EXCEPT ![t] = new] /\ old.status = "running"
          /\ LogRun(t, old.epoch, "retry")
      BY <1>8 DEF RetryRunningTask, EndAttempt, SetRow, RunningFor
    <2>2. new \in Row /\ Ended(t, new, "retry")
      BY <1>0, <2>1 DEF Row, Status, Open, Outcome, Ended
    <2> QED BY <2>1, <2>2 DEF RowStep, Outcome
  <1>9. ASSUME NEW e \in CallEpoch(t), FailPermanently(t, e)
        PROVE  \E r \in Row : RowStep(t, r)
    <2> DEFINE new == [old EXCEPT !.status = "failed", !.retries = MaxRetries,
                                  !.ready = TRUE, !.proc = "none"]
    <2>1. /\ tasks' = [tasks EXCEPT ![t] = new] /\ old.status = "running"
          /\ LogRun(t, old.epoch, "failed")
      BY <1>9 DEF FailPermanently, EndAttempt, SetRow, RunningFor
    <2>2. new \in Row /\ Ended(t, new, "failed")
      BY <1>0, <2>1, RetriesAssumption DEF Row, Status, Terminal, Outcome, Ended
    <2> QED BY <2>1, <2>2 DEF RowStep, Outcome
  <1>10. ASSUME NEW e \in CallEpoch(t), FinalizeCancellation(t, e)
         PROVE  \E r \in Row : RowStep(t, r)
    <2> DEFINE new == [old EXCEPT !.status = "cancelled", !.proc = "none"]
    <2>1. /\ tasks' = [tasks EXCEPT ![t] = new] /\ old.status = "running"
          /\ LogRun(t, old.epoch, "cancelled")
      BY <1>10 DEF FinalizeCancellation, EndAttempt, SetRow, RunningFor
    <2>2. new \in Row /\ Ended(t, new, "cancelled")
      BY <1>0, <2>1 DEF Row, Status, Terminal, Outcome, Ended
    <2> QED BY <2>1, <2>2 DEF RowStep, Outcome
  <1>11. ASSUME NEW e \in CallEpoch(t), NEW proc \in {"none", "live"}, SetRunningProcess(t, e, proc)
         PROVE  \E r \in Row : RowStep(t, r)
    <2> DEFINE new == [old EXCEPT !.proc = proc, !.stale = FALSE]
    <2>1. tasks' = [tasks EXCEPT ![t] = new] /\ runs' = runs
      BY <1>11 DEF SetRunningProcess, SetRow
    <2>2. new \in Row /\ Kept(t, new)
      BY <1>0, <2>1 DEF Row, Kept
    <2> QED BY <2>1, <2>2 DEF RowStep
  <1>12. ASSUME NEW e \in CallEpoch(t), TouchRunningTask(t, e)
         PROVE  \E r \in Row : RowStep(t, r)
    <2> DEFINE new == [old EXCEPT !.stale = FALSE]
    <2>1. tasks' = [tasks EXCEPT ![t] = new] /\ runs' = runs
      BY <1>12 DEF TouchRunningTask, SetRow
    <2>2. new \in Row /\ Kept(t, new)
      BY <1>0, <2>1 DEF Row, Kept
    <2> QED BY <2>1, <2>2 DEF RowStep
  <1>13. CASE Environment(t)
    <2> DEFINE ready == [old EXCEPT !.ready = TRUE]
               stale == [old EXCEPT !.stale = TRUE]
               gone == [old EXCEPT !.proc = "gone"]
    <2>1. /\ runs' = runs
          /\ \E r \in {ready, stale, gone} : tasks' = [tasks EXCEPT ![t] = r]
      BY <1>13 DEF Environment, BecomeReady, GoStale, ProcessExits, SetRow
    <2>2. \A r \in {ready, stale, gone} : r \in Row /\ Kept(t, r)
      BY <1>0, <2>1 DEF Row, Kept
    <2> HIDE DEF ready, stale, gone
    <2> QED BY <2>1, <2>2 DEF RowStep
  <1> QED
    BY <1>1, <1>2, <1>3, <1>4, <1>5, <1>6, <1>7, <1>8, <1>9, <1>10, <1>11, <1>12, <1>13
    DEF Operation

----------------------------------------------------------------------------
(* What a task_runs row adds to the log *)

\* Logging the attempt that ends keeps the account.
LEMMA LogEnded ==
  ASSUME NEW log \in Seq(Run), NEW r \in Row, NEW q \in Row, NEW o \in Outcome,
         AccountsFor(log, r), r.status = "running", r.epoch # 0,
         q.epoch = r.epoch, q.status # "running"
  PROVE  AccountsFor(Append(log, [attempt |-> r.epoch, outcome |-> o]), q)
  <1> DEFINE x == [attempt |-> r.epoch, outcome |-> o]
             new == Append(log, x)
             n == Len(log)
  <1>1. n \in Nat /\ r.epoch \in Nat
    BY DEF Row
  <1>2. Len(new) = n + 1 /\ new[n + 1] = x /\ \A i \in 1..n : new[i] = log[i]
    BY DEF Run, Row
  <1>3. x.attempt = r.epoch
    OBVIOUS
  <1>4. /\ \A e \in 1..r.epoch : e # r.epoch => \E i \in 1..n : log[i].attempt = e
        /\ \A i \in 1..n : log[i].attempt \in 1..r.epoch /\ log[i].attempt # r.epoch
        /\ \A i, j \in 1..n : log[i].attempt = log[j].attempt => i = j
    BY DEF AccountsFor
  <1> HIDE DEF new, n, x
  <1>5. \A e \in 1..r.epoch : \E i \in 1..Len(new) : new[i].attempt = e
    <2> SUFFICES ASSUME NEW e \in 1..r.epoch
                 PROVE  \E i \in 1..Len(new) : new[i].attempt = e
      OBVIOUS
    <2>1. CASE e = r.epoch
      <3>1. n + 1 \in 1..Len(new) /\ new[n + 1].attempt = e
        BY <1>1, <1>2, <1>3, <2>1
      <3> QED BY <3>1
    <2>2. CASE e # r.epoch
      <3>1. PICK i \in 1..n : log[i].attempt = e
        BY <1>4, <2>2
      <3>2. i \in 1..Len(new) /\ new[i].attempt = e
        BY <1>1, <1>2, <3>1
      <3> QED BY <3>2
    <2> QED BY <2>1, <2>2
  <1>6. \A i \in 1..Len(new) : new[i].attempt \in 1..r.epoch
    BY <1>1, <1>2, <1>3, <1>4
  <1>7. \A i, j \in 1..Len(new) : new[i].attempt = new[j].attempt => i = j
    BY <1>1, <1>2, <1>3, <1>4
  <1>8. {e \in 1..q.epoch : q.status = "running" => e # q.epoch} = 1..r.epoch
    OBVIOUS
  <1>9. AccountsFor(new, q)
    BY <1>5, <1>6, <1>7, <1>8 DEF AccountsFor
  <1> QED BY <1>9 DEF new, x

\* So does the row of a task that is cancelled while it is pending.
LEMMA LogDropped ==
  ASSUME NEW log \in Seq(Run), NEW r \in Row, NEW q \in Row,
         AccountsFor(log, r), r.status = "pending",
         q.epoch = r.epoch, q.status = "cancelled"
  PROVE  AccountsFor(Append(log, [attempt |-> 0, outcome |-> "cancelled"]), q)
  <1> DEFINE x == [attempt |-> 0, outcome |-> "cancelled"]
             new == Append(log, x)
             n == Len(log)
  <1>1. n \in Nat /\ r.epoch \in Nat
    BY DEF Row
  <1>2. Len(new) = n + 1 /\ new[n + 1] = x /\ \A i \in 1..n : new[i] = log[i]
    BY DEF Run, Outcome
  <1>3. x.attempt = 0
    OBVIOUS
  <1>4. /\ \A e \in 1..r.epoch : \E i \in 1..n : log[i].attempt = e
        /\ \A i \in 1..n : log[i].attempt \in 1..r.epoch
        /\ \A i, j \in 1..n : log[i].attempt = log[j].attempt => i = j
    BY DEF AccountsFor
  <1> HIDE DEF new, n, x
  <1>5. \A e \in 1..r.epoch : \E i \in 1..Len(new) : new[i].attempt = e
    <2> SUFFICES ASSUME NEW e \in 1..r.epoch
                 PROVE  \E i \in 1..Len(new) : new[i].attempt = e
      OBVIOUS
    <2>1. PICK i \in 1..n : log[i].attempt = e
      BY <1>4
    <2>2. i \in 1..Len(new) /\ new[i].attempt = e
      BY <1>1, <1>2, <2>1
    <2> QED BY <2>2
  <1>6. \A i \in 1..Len(new) : new[i].attempt \in 1..r.epoch \/ new[i].attempt = 0
    BY <1>1, <1>2, <1>3, <1>4
  <1>7. \A i, j \in 1..Len(new) : new[i].attempt = new[j].attempt => i = j
    BY <1>1, <1>2, <1>3, <1>4
  <1>8. {e \in 1..q.epoch : q.status = "running" => e # q.epoch} = 1..r.epoch
    OBVIOUS
  <1>9. AccountsFor(new, q)
    BY <1>5, <1>6, <1>7, <1>8 DEF AccountsFor
  <1> QED BY <1>9 DEF new, x

\* A claim opens an attempt that the log does not mention yet.
LEMMA LogClaimed ==
  ASSUME NEW log \in Seq(Run), NEW r \in Row, NEW q \in Row,
         AccountsFor(log, r), r.status = "pending",
         q.epoch = r.epoch + 1, q.status = "running"
  PROVE  AccountsFor(log, q)
  <1>1. r.epoch \in Nat
    BY DEF Row
  <1>2. {e \in 1..q.epoch : q.status = "running" => e # q.epoch} = 1..r.epoch
    BY <1>1
  <1>3. {e \in 1..r.epoch : r.status = "running" => e # r.epoch} = 1..r.epoch
    OBVIOUS
  <1> QED BY <1>2, <1>3 DEF AccountsFor

----------------------------------------------------------------------------
(* The inductive invariant *)

\* A running row has been claimed, a row not yet inserted has not.
EpochFitsStatus ==
  \A t \in Task : /\ tasks[t].status = "running" => tasks[t].epoch # 0
                  /\ tasks[t].status = "absent" => tasks[t].epoch = 0 /\ tasks[t].retries = 0

QueueInv ==
  /\ TypeOK
  /\ EpochFitsStatus
  /\ OneCleanupRunning
  /\ EveryAttemptLoggedOnce
  /\ LogAgreesWithStatus
  /\ RetryBudget
  /\ RequestEndsWithAttempt

\* The empty tables satisfy the invariant.
LEMMA InitInv == Init => QueueInv
  <1> SUFFICES ASSUME Init PROVE QueueInv
    OBVIOUS
  <1>1. \A t \in Task : /\ tasks[t] = Absent /\ runs[t] = <<>>
                        /\ tasks[t].status = "absent"
                        /\ tasks[t].epoch = 0 /\ tasks[t].retries = 0
    BY AbsentRow DEF Init
  <1>2. TypeOK
    BY AbsentRow DEF Init, TypeOK
  <1>3. EpochFitsStatus /\ OneCleanupRunning /\ LogAgreesWithStatus /\ RequestEndsWithAttempt
    BY <1>1, TaskAssumption
    DEF EpochFitsStatus, OneCleanupRunning, LogAgreesWithStatus, Terminal, RequestEndsWithAttempt
  <1>4. EveryAttemptLoggedOnce
    BY <1>1 DEF EveryAttemptLoggedOnce, AccountsFor
  <1>5. RetryBudget
    BY <1>1, RetriesAssumption DEF RetryBudget
  <1> QED BY <1>2, <1>3, <1>4, <1>5 DEF QueueInv

\* Each of the five ways to change a row preserves the invariant.
LEMMA RowStepInv ==
  ASSUME QueueInv, NEW t \in Task, NEW r \in Row, RowStep(t, r)
  PROVE  QueueInv'
  <1> DEFINE old == tasks[t]
             log == runs[t]
  <1>1. /\ old \in Row /\ log \in Seq(Run) /\ old.epoch \in Nat /\ old.retries \in Nat
        /\ r.epoch \in Nat /\ r.retries \in Nat
    BY DEF QueueInv, TypeOK, Row
  <1>2. tasks' = [tasks EXCEPT ![t] = r] /\ tasks \in [Task -> Row] /\ runs \in [Task -> Seq(Run)]
    BY DEF RowStep, QueueInv, TypeOK
  <1>3. tasks'[t] = r /\ \A u \in Task : u # t => tasks'[u] = tasks[u]
    BY <1>2
  <1>4. \/ runs' = runs /\ (Inserted(t, r) \/ Claimed(t, r) \/ Kept(t, r))
        \/ \E o \in Outcome : /\ Ended(t, r, o)
                              /\ runs' = [runs EXCEPT ![t] = Append(log, [attempt |-> old.epoch, outcome |-> o])]
        \/ /\ Dropped(t, r)
           /\ runs' = [runs EXCEPT ![t] = Append(log, [attempt |-> 0, outcome |-> "cancelled"])]
    BY DEF RowStep, Inserted, Claimed, Kept, Ended, Dropped, LogRun
  <1>5. TypeOK'
    <2>1. \A o \in Outcome : [attempt |-> old.epoch, outcome |-> o] \in Run
      BY <1>1 DEF Run
    <2>2. [attempt |-> 0, outcome |-> "cancelled"] \in Run
      BY DEF Run, Outcome
    <2>3. \A x \in Run : [runs EXCEPT ![t] = Append(log, x)] \in [Task -> Seq(Run)]
      BY <1>1, <1>2
    <2>5. \/ runs' = runs
          \/ \E x \in Run : runs' = [runs EXCEPT ![t] = Append(log, x)]
      BY <1>4, <2>1, <2>2
    <2>6. runs' \in [Task -> Seq(Run)]
      BY <1>2, <2>3, <2>5
    <2>4. tasks' \in [Task -> Row]
      BY <1>2
    <2> QED BY <2>4, <2>6 DEF TypeOK
  <1>6. EpochFitsStatus'
    <2>1. /\ r.status = "running" => r.epoch # 0
          /\ r.status = "absent" => r.epoch = 0 /\ r.retries = 0
      <3>1. /\ old.status = "running" => old.epoch # 0
            /\ old.status = "absent" => old.epoch = 0 /\ old.retries = 0
        BY DEF QueueInv, EpochFitsStatus
      <3>2. CASE Inserted(t, r)
        BY <3>2 DEF Inserted
      <3>3. CASE Claimed(t, r)
        BY <1>1, <3>3 DEF Claimed
      <3>4. CASE Kept(t, r)
        BY <3>1, <3>4 DEF Kept
      <3>5. ASSUME NEW o \in Outcome, Ended(t, r, o)
            PROVE  r.status # "running" /\ r.status # "absent"
        BY <3>5 DEF Ended, Terminal
      <3>6. CASE Dropped(t, r)
        BY <3>6 DEF Dropped
      <3> QED BY <1>4, <3>2, <3>3, <3>4, <3>5, <3>6
    <2> QED BY <1>3, <2>1 DEF QueueInv, EpochFitsStatus
  <1>7. OneCleanupRunning'
    <2>1. r.status = "running" => old.status = "running" \/ LaneFree(t)
      BY <1>4 DEF Inserted, Claimed, Kept, Ended, Dropped, Terminal
    <2> QED BY <1>3, <2>1, TaskAssumption DEF QueueInv, OneCleanupRunning, LaneFree
  <1>8. EveryAttemptLoggedOnce'
    <2>1. AccountsFor(log, old)
      BY DEF QueueInv, EveryAttemptLoggedOnce
    <2>2. AccountsFor(runs'[t], r)
      <3>1. CASE Inserted(t, r)
        <4>1. old.epoch = 0 /\ r.epoch = 0
          BY <3>1 DEF QueueInv, EpochFitsStatus, Inserted
        <4> QED BY <2>1, <3>1, <4>1 DEF AccountsFor, Inserted
      <3>2. CASE Claimed(t, r)
        BY <1>1, <2>1, <3>2, LogClaimed DEF Claimed
      <3>3. CASE Kept(t, r)
        BY <2>1, <3>3 DEF AccountsFor, Kept
      <3>4. ASSUME NEW o \in Outcome, Ended(t, r, o)
            PROVE  AccountsFor(runs'[t], r)
        <4>1. runs'[t] = Append(log, [attempt |-> old.epoch, outcome |-> o])
          BY <1>2, <3>4 DEF Ended, LogRun
        <4>2. old.status = "running" /\ old.epoch # 0 /\ r.epoch = old.epoch /\ r.status # "running"
          BY <3>4 DEF QueueInv, EpochFitsStatus, Ended, Terminal
        <4> QED BY <1>1, <2>1, <4>1, <4>2, LogEnded
      <3>5. CASE Dropped(t, r)
        <4>1. runs'[t] = Append(log, [attempt |-> 0, outcome |-> "cancelled"])
          BY <1>2, <3>5 DEF Dropped, LogRun
        <4> QED BY <1>1, <2>1, <3>5, <4>1, LogDropped DEF Dropped
      <3> QED BY <1>4, <3>1, <3>2, <3>3, <3>4, <3>5
    <2>3. \A u \in Task : u # t => runs'[u] = runs[u]
      BY <1>2, <1>4
    <2> QED BY <1>3, <2>2, <2>3 DEF QueueInv, EveryAttemptLoggedOnce
  <1>9. LogAgreesWithStatus'
    <2>1. r.status \in Terminal => runs'[t] # <<>> /\ runs'[t][Len(runs'[t])].outcome = r.status
      <3>1. CASE Inserted(t, r) \/ Claimed(t, r) \/ Kept(t, r)
        BY <3>1 DEF QueueInv, LogAgreesWithStatus, Terminal, Inserted, Claimed, Kept
      <3>2. ASSUME NEW o \in Outcome, Ended(t, r, o)
            PROVE  r.status \in Terminal =>
                     runs'[t] # <<>> /\ runs'[t][Len(runs'[t])].outcome = r.status
        <4>1. runs'[t] = Append(log, [attempt |-> old.epoch, outcome |-> o])
          BY <1>2, <3>2 DEF Ended, LogRun
        <4>2. r.status \in Terminal => o = r.status
          BY <3>2 DEF Ended, Terminal
        <4> QED BY <1>1, <4>1, <4>2 DEF Run
      <3>3. CASE Dropped(t, r)
        <4>1. runs'[t] = Append(log, [attempt |-> 0, outcome |-> "cancelled"])
          BY <1>2, <3>3 DEF Dropped, LogRun
        <4>2. r.status = "cancelled"
          BY <3>3 DEF Dropped
        <4> DEFINE x == [attempt |-> 0, outcome |-> "cancelled"]
        <4>3. x \in Run /\ x.outcome = "cancelled"
          BY DEF Run, Outcome
        <4> HIDE DEF x
        <4>4. Append(log, x) # <<>> /\ Append(log, x)[Len(Append(log, x))] = x
          BY <1>1, <4>3
        <4> QED BY <4>1, <4>2, <4>3, <4>4 DEF x
      <3> QED BY <1>4, <3>1, <3>2, <3>3
    <2>2. \A u \in Task : u # t => runs'[u] = runs[u]
      BY <1>2, <1>4
    <2> QED BY <1>3, <2>1, <2>2 DEF QueueInv, LogAgreesWithStatus
  <1>10. RetryBudget'
    <2>1. /\ r.status \in Open => r.retries < MaxRetries \/ r.retries = 0
          /\ r.retries <= MaxRetries \/ r.retries = 1
      <3>1. /\ old.status \in Open => old.retries < MaxRetries \/ old.retries = 0
            /\ old.retries <= MaxRetries \/ old.retries = 1
        BY DEF QueueInv, RetryBudget
      <3>2. CASE Inserted(t, r)
        BY <3>2, RetriesAssumption DEF Inserted
      <3>3. CASE Claimed(t, r) \/ Kept(t, r) \/ Dropped(t, r)
        BY <3>1, <3>3 DEF Claimed, Kept, Dropped, Open
      <3>4. ASSUME NEW o \in Outcome, Ended(t, r, o)
            PROVE  /\ r.status \in Open => r.retries < MaxRetries \/ r.retries = 0
                   /\ r.retries <= MaxRetries \/ r.retries = 1
        BY <1>1, <3>1, <3>4, RetriesAssumption DEF Ended, Open, Terminal
      <3> QED BY <1>4, <3>2, <3>3, <3>4
    <2> QED BY <1>3, <2>1 DEF QueueInv, RetryBudget
  <1>11. RequestEndsWithAttempt'
    <2>1. r.status = "pending" => ~r.cancel
      BY <1>4 DEF QueueInv, RequestEndsWithAttempt, Terminal, Inserted, Claimed, Kept, Ended, Dropped
    <2> QED BY <1>3, <2>1 DEF QueueInv, RequestEndsWithAttempt
  <1> QED BY <1>5, <1>6, <1>7, <1>8, <1>9, <1>10, <1>11 DEF QueueInv

\* A step that leaves both tables alone preserves it too.
LEMMA StutterInv == QueueInv /\ UNCHANGED queueVars => QueueInv'
  BY DEF QueueInv, queueVars, TypeOK, EpochFitsStatus, OneCleanupRunning,
         EveryAttemptLoggedOnce, LogAgreesWithStatus, RetryBudget, RequestEndsWithAttempt

\* So every step does.
LEMMA NextInv == QueueInv /\ [Next]_queueVars => QueueInv'
  <1>1. ASSUME QueueInv, NEW t \in Task, Operation(t) \/ Environment(t)
        PROVE  QueueInv'
    <2>1. PICK r \in Row : RowStep(t, r)
      BY <1>1, StepIsRowStep DEF QueueInv
    <2> QED BY <1>1, <2>1, RowStepInv
  <1> QED BY <1>1, StutterInv DEF Next

\* Every operation preserves the invariant, whichever call comes when.
THEOREM QueueInvariant == Spec => []QueueInv
  BY InitInv, NextInv, PTL DEF Spec

\* The rows and the log always have the types of their columns.
THEOREM TypeCorrect == Spec => []TypeOK
  BY QueueInvariant, PTL DEF QueueInv

\* The cleanup lane never holds two running maintenance tasks.
THEOREM LaneExclusive == Spec => []OneCleanupRunning
  BY QueueInvariant, PTL DEF QueueInv

\* Every attempt is logged exactly once, however it ends.
THEOREM AttemptsAccounted == Spec => []EveryAttemptLoggedOnce
  BY QueueInvariant, PTL DEF QueueInv

\* The last logged outcome of a terminal task is its status.
THEOREM LogMatchesStatus == Spec => []LogAgreesWithStatus
  BY QueueInvariant, PTL DEF QueueInv

\* No task is open with its retries used up.
THEOREM BudgetRespected == Spec => []RetryBudget
  BY QueueInvariant, PTL DEF QueueInv

\* No attempt starts with the cancellation request of an earlier one.
THEOREM RequestsDoNotLeak == Spec => []RequestEndsWithAttempt
  BY QueueInvariant, PTL DEF QueueInv

\* A terminal task is never changed again, by any sequence of calls.
THEOREM TerminalStays == Spec => TerminalIsFinal
  <1> DEFINE Frozen == \A t \in Task : tasks[t].status \in Terminal =>
                         /\ tasks'[t].status = tasks[t].status
                         /\ tasks'[t].epoch = tasks[t].epoch
                         /\ runs'[t] = runs[t]
  <1>1. QueueInv /\ [Next]_queueVars => [Frozen]_queueVars
    <2>1. ASSUME QueueInv, NEW u \in Task, Operation(u) \/ Environment(u)
          PROVE  Frozen
      <3>1. PICK r \in Row : RowStep(u, r)
        BY <2>1, StepIsRowStep DEF QueueInv
      <3>2. tasks' = [tasks EXCEPT ![u] = r] /\ tasks \in [Task -> Row] /\ runs \in [Task -> Seq(Run)]
        BY <2>1, <3>1 DEF RowStep, QueueInv, TypeOK
      <3>3. \A t \in Task : t # u => tasks'[t] = tasks[t]
        BY <3>2
      <3>4. \A t \in Task : t # u => runs'[t] = runs[t]
        BY <3>1, <3>2 DEF RowStep, Inserted, Claimed, Ended, Dropped, Kept, LogRun
      <3>5. tasks[u].status \in Terminal => Kept(u, r)
        BY <3>1 DEF RowStep, Inserted, Claimed, Ended, Dropped, Terminal
      <3> QED BY <3>2, <3>3, <3>4, <3>5 DEF Kept
    <2> QED BY <2>1 DEF Next
  <1> QED BY <1>1, QueueInvariant, PTL DEF Spec, TerminalIsFinal

----------------------------------------------------------------------------
(* The queue keeps its contract *)

\* The attempts of a log, as the contract's history has them.
AttemptsOf(log) == [i \in DOMAIN log |-> log[i].attempt]

\* It is a sequence of as many numbers.
LEMMA HistoryType ==
  ASSUME NEW log \in Seq(Run)
  PROVE  /\ AttemptsOf(log) \in Seq(Nat) /\ Len(AttemptsOf(log)) = Len(log)
         /\ \A i \in 1..Len(log) : AttemptsOf(log)[i] = log[i].attempt
  <1>1. \A i \in 1..Len(log) : log[i] \in Run
    OBVIOUS
  <1>2. \A i \in 1..Len(log) : log[i].attempt \in Nat
    BY <1>1 DEF Run
  <1> QED BY <1>2 DEF AttemptsOf

\* A row added to the log is an attempt added to the history.
LEMMA HistoryAppend ==
  ASSUME NEW log \in Seq(Run), NEW a \in Nat, NEW o \in Outcome
  PROVE  AttemptsOf(Append(log, [attempt |-> a, outcome |-> o])) = Append(AttemptsOf(log), a)
  <1> DEFINE x == [attempt |-> a, outcome |-> o]
             longer == Append(log, x)
             new == AttemptsOf(longer)
             old == AttemptsOf(log)
  <1>1. x \in Run /\ x.attempt = a
    BY DEF Run
  <1> HIDE DEF x
  <1>2. /\ longer \in Seq(Run) /\ Len(longer) = Len(log) + 1
        /\ \A i \in 1..Len(log) : longer[i] = log[i]
        /\ longer[Len(log) + 1] = x
        /\ Len(log) \in Nat
    BY <1>1, AppendProperties, LenProperties
  <1> HIDE DEF longer
  <1>3. /\ new \in Seq(Nat) /\ Len(new) = Len(log) + 1
        /\ \A i \in 1..(Len(log) + 1) : new[i] = longer[i].attempt
    BY <1>2, HistoryType
  <1>4. /\ old \in Seq(Nat) /\ Len(old) = Len(log)
        /\ \A i \in 1..Len(log) : old[i] = log[i].attempt
    BY HistoryType
  <1> HIDE DEF old, new
  <1>5. /\ Append(old, a) \in Seq(Nat) /\ Len(Append(old, a)) = Len(log) + 1
        /\ \A i \in 1..Len(log) : Append(old, a)[i] = log[i].attempt
        /\ Append(old, a)[Len(log) + 1] = a
    BY <1>4, AppendProperties
  <1>6. ASSUME NEW i \in 1..(Len(log) + 1)
        PROVE  new[i] = Append(old, a)[i]
    <2>1. CASE i = Len(log) + 1
      BY <1>1, <1>2, <1>3, <1>5, <2>1
    <2>2. CASE i \in 1..Len(log)
      BY <1>2, <1>3, <1>5, <2>2
    <2>3. i = Len(log) + 1 \/ i \in 1..Len(log)
      BY <1>2
    <2> QED BY <2>1, <2>2, <2>3
  <1>7. \A i \in 1..Len(new) : new[i] = Append(old, a)[i]
    BY <1>3, <1>6
  <1>8. new = Append(old, a)
    BY <1>3, <1>5, <1>7, SeqEqual
  <1> QED BY <1>8 DEF new, old, longer, x

\* A change of one row is a step of the contract, or none.
LEMMA RowStepKeepsContract ==
  ASSUME TypeOK, EpochFitsStatus, NEW t \in Task, NEW r \in Row, RowStep(t, r)
  PROVE  [Contract!Next]_(Contract!contractVars)
  <1> DEFINE old == tasks[t]
             ph == [u \in Task |-> PhaseOf(tasks[u].status)]
             at == [u \in Task |-> tasks[u].epoch]
             fl == [u \in Task |-> tasks[u].retries]
             hi == [u \in Task |-> [i \in DOMAIN runs[u] |-> runs[u][i].attempt]]
  <1>1. /\ tasks \in [Task -> Row] /\ runs \in [Task -> Seq(Run)]
        /\ old \in Row /\ runs[t] \in Seq(Run)
        /\ tasks' = [tasks EXCEPT ![t] = r]
    BY DEF TypeOK, RowStep
  <1>2. /\ ph' = [ph EXCEPT ![t] = PhaseOf(r.status)]
        /\ at' = [at EXCEPT ![t] = r.epoch]
        /\ fl' = [fl EXCEPT ![t] = r.retries]
    BY <1>1
  <1>3. runs' = runs => hi' = hi
    OBVIOUS
  <1>4. ASSUME NEW a \in Nat, NEW o \in Outcome, LogRun(t, a, o)
        PROVE  hi' = [hi EXCEPT ![t] = Append(@, a)]
    <2>1. runs' = [runs EXCEPT ![t] = Append(runs[t], [attempt |-> a, outcome |-> o])]
      BY <1>4 DEF LogRun
    <2>2. hi'[t] = Append(hi[t], a)
      BY <1>1, <2>1, HistoryAppend DEF AttemptsOf
    <2>3. \A u \in Task : u # t => hi'[u] = hi[u]
      BY <1>1, <2>1
    <2> QED BY <2>2, <2>3
  <1>5. /\ old.epoch \in Nat /\ old.retries \in Nat
        /\ ph[t] = PhaseOf(old.status) /\ at[t] = old.epoch /\ fl[t] = old.retries
    BY <1>1 DEF Row
  <1>6. CASE Inserted(t, r)
    <2>1. ph[t] = "absent" /\ ph' = [ph EXCEPT ![t] = "waiting"] /\ runs' = runs
      BY <1>2, <1>5, <1>6 DEF Inserted, PhaseOf
    <2>2. r.epoch = old.epoch /\ r.retries = old.retries
      BY <1>6 DEF Inserted, EpochFitsStatus
    <2>3. at' = at /\ fl' = fl
      BY <1>2, <1>5, <2>2
    <2>4. Contract!Submit(t)
      BY <1>3, <2>1, <2>3 DEF Contract!Submit
    <2> QED BY <2>4 DEF Contract!Next
  <1>7. CASE Claimed(t, r)
    <2>1. ph[t] = "waiting" /\ ph' = [ph EXCEPT ![t] = "held"] /\ runs' = runs
      BY <1>2, <1>5, <1>7 DEF Claimed, PhaseOf
    <2>2. at' = [at EXCEPT ![t] = @ + 1] /\ fl' = fl
      BY <1>2, <1>5, <1>7 DEF Claimed
    <2>3. t \in Cleanup => \A u \in Cleanup : ph[u] # "held"
      BY <1>7, TaskAssumption DEF Claimed, LaneFree, PhaseOf
    <2>4. Contract!Grant(t)
      BY <1>3, <2>1, <2>2, <2>3 DEF Contract!Grant, Contract!LaneOpen
    <2> QED BY <2>4 DEF Contract!Next
  <1>8. ASSUME NEW o \in Outcome, Ended(t, r, o)
        PROVE  Contract!Next
    <2>1. old.status = "running" /\ r.epoch = old.epoch /\ LogRun(t, old.epoch, o)
      BY <1>8 DEF Ended
    <2>2. ph[t] = "held" /\ at' = at
      BY <1>2, <1>5, <2>1 DEF PhaseOf
    <2>3. hi' = [hi EXCEPT ![t] = Append(@, at[t])]
      BY <1>4, <1>5, <2>1
    <2>4. ph' = [ph EXCEPT ![t] = PhaseOf(r.status)] /\ fl' = [fl EXCEPT ![t] = r.retries]
      BY <1>2
    <2>5. CASE r.retries = old.retries
      <3>1. fl' = [fl EXCEPT ![t] = fl[t]]
        BY <1>5, <2>4, <2>5
      <3>2. CASE PhaseOf(r.status) = "waiting"
        <4>1. Contract!Yield(t)
          BY <2>2, <2>3, <2>4, <3>1, <3>2 DEF Contract!Yield, Contract!End
        <4> QED BY <4>1 DEF Contract!Next
      <3>3. CASE PhaseOf(r.status) = "closed"
        <4>1. Contract!Finish(t)
          BY <2>2, <2>3, <2>4, <3>1, <3>3 DEF Contract!Finish, Contract!End
        <4> QED BY <4>1 DEF Contract!Next
      <3>4. PhaseOf(r.status) \in {"waiting", "closed"}
        BY <1>8 DEF Ended, PhaseOf, Terminal
      <3> QED BY <3>2, <3>3, <3>4
    <2>6. CASE /\ r.retries = old.retries + 1
               /\ r.status = IF r.retries >= MaxRetries THEN "failed" ELSE "pending"
      <3>1. PhaseOf(r.status) = IF fl[t] + 1 >= MaxRetries THEN "closed" ELSE "waiting"
        BY <1>5, <2>6 DEF PhaseOf
      <3>2. fl' = [fl EXCEPT ![t] = fl[t] + 1]
        BY <1>5, <2>4, <2>6
      <3>3. Contract!Fail(t)
        BY <2>2, <2>3, <2>4, <3>1, <3>2 DEF Contract!Fail, Contract!End
      <3> QED BY <3>3 DEF Contract!Next
    <2>7. CASE r.retries = MaxRetries /\ r.status = "failed"
      <3>1. ph' = [ph EXCEPT ![t] = "closed"] /\ fl' = [fl EXCEPT ![t] = MaxRetries]
        BY <2>4, <2>7 DEF PhaseOf
      <3>2. Contract!Finish(t)
        BY <2>2, <2>3, <3>1 DEF Contract!Finish, Contract!End
      <3> QED BY <3>2 DEF Contract!Next
    <2> QED BY <1>8, <2>5, <2>6, <2>7 DEF Ended
  <1>9. CASE Dropped(t, r)
    <2>1. ph[t] = "waiting" /\ ph' = [ph EXCEPT ![t] = "closed"]
      BY <1>2, <1>5, <1>9 DEF Dropped, PhaseOf
    <2>2. at' = at /\ fl' = fl /\ hi' = [hi EXCEPT ![t] = Append(@, 0)]
      BY <1>2, <1>4, <1>5, <1>9 DEF Dropped, Outcome
    <2>3. Contract!Withdraw(t)
      BY <2>1, <2>2 DEF Contract!Withdraw
    <2> QED BY <2>3 DEF Contract!Next
  <1>10. CASE Kept(t, r)
    <2>1. ph' = ph /\ at' = at /\ fl' = fl /\ runs' = runs
      BY <1>2, <1>5, <1>10 DEF Kept
    <2> QED BY <1>3, <2>1 DEF Contract!contractVars
  <1> QED BY <1>6, <1>7, <1>8, <1>9, <1>10 DEF RowStep

\* The initial states map to the contract's.
LEMMA InitKeepsContract == Init => Contract!Init
  BY AbsentRow DEF Init, Contract!Init, PhaseOf

\* The SQLite queue implements the contract of a task queue: whatever is
\* called in whatever order, with an epoch or without, every change of the
\* tables grants, ends or withdraws one task as the contract says.
THEOREM QueueKeepsContract == Spec => ImplementsContract
  <1>1. QueueInv /\ [Next]_queueVars => [Contract!Next]_(Contract!contractVars)
    <2>1. ASSUME QueueInv, NEW t \in Task, Operation(t) \/ Environment(t)
          PROVE  [Contract!Next]_(Contract!contractVars)
      <3>1. PICK r \in Row : RowStep(t, r)
        BY <2>1, StepIsRowStep DEF QueueInv
      <3> QED BY <2>1, <3>1, RowStepKeepsContract DEF QueueInv
    <2>2. UNCHANGED queueVars => UNCHANGED Contract!contractVars
      BY DEF queueVars, Contract!contractVars
    <2> QED BY <2>1, <2>2 DEF Next
  <1> QED BY <1>1, InitKeepsContract, QueueInvariant, PTL DEF Spec, ImplementsContract, Contract!Spec

(***************************************************************************)
(* PART 2.  THE WORKERS                                                    *)
(***************************************************************************)

----------------------------------------------------------------------------
(* Every call of a worker is an operation of the queue *)

\* A call that finds the row running presents an epoch of the task.
LEMMA FencedEpoch ==
  ASSUME QueueInv, NEW t \in Task, NEW e, RunningFor(t, e)
  PROVE  e \in CallEpoch(t)
  <1>1. tasks[t].epoch \in Nat /\ tasks[t].epoch >= 1
    BY DEF QueueInv, TypeOK, Row, EpochFitsStatus, RunningFor, Open, Terminal
  <1> QED BY <1>1 DEF RunningFor, CallEpoch

\* What no call of a worker does: it gives no attempt back without counting it
\* as a failure, and makes no row stale (only the passing of time does).
EveryRetryCounts ==
  \A t \in Task : tasks[t].status = "running" /\ tasks'[t].status = "pending" =>
                    tasks'[t].retries = tasks[t].retries + 1

NoRowAges == \A t \in Task : tasks'[t].stale => tasks[t].stale

WorkerCall == Next /\ EveryRetryCounts /\ NoRowAges

\* The effect of a call is that of the row it writes.
LEMMA RowOfCall ==
  ASSUME TypeOK, NEW t \in Task, NEW r, tasks' = [tasks EXCEPT ![t] = r],
         r.stale => tasks[t].stale,
         tasks[t].status = "running" /\ r.status = "pending" => r.retries = tasks[t].retries + 1
  PROVE  EveryRetryCounts /\ NoRowAges
  <1>1. tasks'[t] = r /\ \A u \in Task : u # t => tasks'[u] = tasks[u]
    BY DEF TypeOK
  <1>2. \A u \in Task : tasks[u] \in Row
    BY DEF TypeOK
  <1>3. EveryRetryCounts
    BY <1>1, <1>2 DEF EveryRetryCounts, Row, Status, Open, Terminal
  <1>4. NoRowAges
    BY <1>1, Zenon DEF NoRowAges
  <1> QED BY <1>3, <1>4

\* A row that a call of fail writes is as stale as it was.
LEMMA FailRowStale ==
  ASSUME NEW r \in Row, NEW ready \in BOOLEAN
  PROVE  FailRow(r, ready).stale = r.stale
  <1> DEFINE terminal == r.retries + 1 >= MaxRetries
             st == IF terminal THEN "failed" ELSE "pending"
             rd == terminal \/ ready
             more == r.retries + 1
  <1>1. FailRow(r, ready) = [r EXCEPT !.status = st, !.retries = more,
                                      !.ready = rd, !.proc = "none", !.cancel = FALSE]
    BY DEF FailRow
  <1> HIDE DEF st, rd, more
  <1> QED BY <1>1 DEF Row

\* The calls that end or touch an attempt.
LEMMA CallIsNext ==
  ASSUME QueueInv, NEW t \in Task, NEW e,
         \/ Complete(t, e) \/ FailPermanently(t, e) \/ FinalizeCancellation(t, e)
         \/ (\E ready \in BOOLEAN : Fail(t, e, ready))
         \/ TouchRunningTask(t, e) \/ SetRunningProcess(t, e, "none")
  PROVE  WorkerCall
  <1>1. RunningFor(t, e)
    BY DEF Complete, FailPermanently, FinalizeCancellation, Fail, TouchRunningTask,
           SetRunningProcess, EndAttempt
  <1>2. e \in CallEpoch(t)
    BY <1>1, FencedEpoch
  <1>3. Operation(t)
    BY <1>2, Zenon DEF Operation
  <1> DEFINE old == tasks[t]
  <1>4. TypeOK /\ old \in Row /\ old.status = "running"
    BY <1>1 DEF QueueInv, TypeOK, RunningFor
  <1>5. ASSUME NEW r \in {[old EXCEPT !.status = "completed", !.proc = "none"],
                          [old EXCEPT !.status = "failed", !.retries = MaxRetries,
                                      !.ready = TRUE, !.proc = "none"],
                          [old EXCEPT !.status = "cancelled", !.proc = "none"],
                          [old EXCEPT !.stale = FALSE],
                          [old EXCEPT !.proc = "none", !.stale = FALSE]}
        PROVE  (r.stale => old.stale) /\ r.status # "pending"
    <2>1. r.status # "pending"
      BY <1>4, <1>5 DEF Row
    <2>2. r.stale = old.stale \/ r.stale = FALSE
      BY <1>4, <1>5 DEF Row
    <2> QED BY <2>1, <2>2
  <1>6. ASSUME NEW r, tasks' = [tasks EXCEPT ![t] = r], r.stale => old.stale, r.status # "pending"
        PROVE  EveryRetryCounts /\ NoRowAges
    BY <1>4, <1>6, RowOfCall
  <1>7. ASSUME NEW ready \in BOOLEAN, Fail(t, e, ready)
        PROVE  EveryRetryCounts /\ NoRowAges
    <2>1. tasks' = [tasks EXCEPT ![t] = FailRow(old, ready)]
      BY <1>7 DEF Fail, EndAttempt, SetRow
    <2>2. FailRow(old, ready).retries = old.retries + 1 /\ FailRow(old, ready).stale = old.stale
      BY <1>4, FailRowType, FailRowStale
    <2> QED BY <1>4, <2>1, <2>2, RowOfCall
  <1>8. CASE \/ Complete(t, e) \/ FailPermanently(t, e) \/ FinalizeCancellation(t, e)
             \/ TouchRunningTask(t, e) \/ SetRunningProcess(t, e, "none")
    <2>1. PICK r \in {[old EXCEPT !.status = "completed", !.proc = "none"],
                      [old EXCEPT !.status = "failed", !.retries = MaxRetries,
                                  !.ready = TRUE, !.proc = "none"],
                      [old EXCEPT !.status = "cancelled", !.proc = "none"],
                      [old EXCEPT !.stale = FALSE],
                      [old EXCEPT !.proc = "none", !.stale = FALSE]} :
               tasks' = [tasks EXCEPT ![t] = r]
      BY <1>8 DEF Complete, FailPermanently, FinalizeCancellation, TouchRunningTask,
                  SetRunningProcess, EndAttempt, SetRow
    <2>2. (r.stale => old.stale) /\ r.status # "pending"
      BY <1>5, <2>1, Zenon
    <2> HIDE DEF old
    <2> QED BY <1>3, <1>6, <2>1, <2>2 DEF Next, WorkerCall
  <1> QED BY <1>3, <1>7, <1>8 DEF Next, WorkerCall

\* The calls that take no epoch.
LEMMA FreeCallIsNext ==
  ASSUME QueueInv, NEW t \in Task,
         \/ RequestCancel(t) \/ ClaimNext(t) \/ BecomeReady(t)
         \/ (\E p \in Priority, ready \in BOOLEAN : Enqueue(t, p, ready))
  PROVE  WorkerCall
  <1>1. Next
    BY Zenon DEF Next, Operation, Environment
  <1> DEFINE old == tasks[t]
  <1>2. TypeOK /\ old \in Row
    BY DEF QueueInv, TypeOK
  <1>3. CASE RequestCancel(t)
    <2>1. PICK r \in {[old EXCEPT !.status = "cancelled", !.proc = "none"],
                      [old EXCEPT !.cancel = TRUE, !.stale = FALSE]} :
            tasks' = [tasks EXCEPT ![t] = r]
      BY <1>3 DEF RequestCancel, SetRow
    <2>2. r.stale = old.stale \/ r.stale = FALSE
      BY <1>2, <2>1 DEF Row
    <2>3. old.status = "running" => r.status # "pending"
      BY <1>2, <2>1 DEF Row
    <2> QED BY <1>1, <1>2, <2>1, <2>2, <2>3, RowOfCall DEF WorkerCall
  <1>4. CASE ClaimNext(t)
    <2>1. tasks' = [tasks EXCEPT ![t] = ClaimRow(old)]
      BY <1>4 DEF ClaimNext, SetRow
    <2>2. ClaimRow(old).stale = FALSE
      BY <1>2 DEF ClaimRow, Row
    <2>3. ClaimRow(old).status = "running"
      BY <1>2, ClaimRowType
    <2> QED BY <1>1, <1>2, <2>1, <2>2, <2>3, RowOfCall DEF WorkerCall
  <1>5. CASE BecomeReady(t)
    <2> DEFINE r == [old EXCEPT !.ready = TRUE]
    <2>1. tasks' = [tasks EXCEPT ![t] = r] /\ old.status = "pending"
      BY <1>5 DEF BecomeReady, SetRow
    <2>2. r.stale = old.stale
      BY <1>2 DEF Row
    <2> HIDE DEF r
    <2> QED BY <1>1, <1>2, <2>1, <2>2, RowOfCall DEF WorkerCall
  <1>6. ASSUME NEW p \in Priority, NEW ready \in BOOLEAN, Enqueue(t, p, ready)
        PROVE  WorkerCall
    <2> DEFINE n == Cardinality({u \in Task : tasks[u].status # "absent"})
               r == Fresh(p, n, ready)
    <2>1. tasks' = [tasks EXCEPT ![t] = r] /\ old.status = "absent"
      BY <1>6 DEF Enqueue, SetRow
    <2> HIDE DEF n
    <2>2. r.stale = FALSE
      BY DEF Fresh
    <2> HIDE DEF r
    <2> QED BY <1>1, <1>2, <2>1, <2>2, RowOfCall DEF WorkerCall
  <1> QED BY <1>3, <1>4, <1>5, <1>6

----------------------------------------------------------------------------
(* The invariant *)

\* Where the run loop has a task in hand.
Busy == Inside \cup {"claimed", "unexpected", "failcurrent", "done", "raised"}

\* The loop has a task in hand where it uses one, only a processing is
\* monitored, who called a pass waits for it, and no loop runs before start():
\* what the steps need to know of the daemon's memory.
MemoryInv ==
  /\ loop \in [Daemon -> Loop]
  /\ mon \in [Daemon -> Mon]
  /\ held \in [Daemon -> Held \cup {NoAttempt}]
  /\ pass \in [Daemon -> Passes \cup {NoPass}]
  /\ sweep \in [Daemon -> SUBSET Task]
  /\ \A d \in Daemon : loop[d] \in Busy => held[d] \in Held
  /\ \A d \in Daemon : mon[d] # "off" => loop[d] \in Inside \cup {"done", "raised"}
  /\ \A d \in Daemon : pass[d] # NoPass =>
       /\ pass[d].by = "loop" => loop[d] \in {"boot", "turn"}
       /\ pass[d].by = "monitor" => mon[d] = "pass"
  /\ phase \in [Daemon -> {"down", "seed", "up", "stopping"}]
  /\ \A d \in Daemon : phase[d] \in {"down", "seed"} => loop[d] = "off"

WorkerInv == QueueInv /\ MemoryInv

\* Before the first daemon is started.
LEMMA WorkerInitInv == WorkerInit => WorkerInv
  <1>1. WorkerInit => QueueInv
    BY InitInv DEF WorkerInit
  <1>2. WorkerInit => MemoryInv
    BY DEF WorkerInit, MemoryInv, Loop, Mon, Busy, Inside, Between
  <1> QED BY <1>1, <1>2 DEF WorkerInv

\* A busy loop has a task.
LEMMA BusyHasTask ==
  ASSUME MemoryInv, NEW d \in Daemon, loop[d] \in Busy
  PROVE  MyTask(d) \in Task /\ MyEpoch(d) \in Nat
  BY DEF MemoryInv, MyTask, MyEpoch, Held

----------------------------------------------------------------------------
(* Each step is a step of the queue or leaves it alone *)

\* The run loop.
LEMMA LoopStepRefines ==
  ASSUME WorkerInv, NEW d \in Daemon, LoopStep(d)
  PROVE  WorkerCall \/ UNCHANGED queueVars
  <1>1. CASE Claim(d)
    BY <1>1, FreeCallIsNext DEF Claim, WorkerInv
  <1>2. CASE FailCurrent(d)
    <2>1. MyTask(d) \in Task
      BY <1>2, BusyHasTask DEF FailCurrent, WorkerInv, Busy
    <2> QED BY <1>2, <2>1, CallIsNext DEF FailCurrent, WorkerInv
  <1> QED
    BY <1>1, <1>2 DEF LoopStep, BeginTurn, SkipPass, LoopEnds, StartProcessing,
                      ProcessingEnds, Unexpected

\* The processing of a task.
LEMMA ProcessingStepRefines ==
  ASSUME WorkerInv, NEW d \in Daemon,
         ProcessingStep(d) \/ HandlerSpawns(d) \/ HandlerBeats(d)
  PROVE  WorkerCall \/ UNCHANGED queueVars
  <1>0. loop[d] \in Busy => MyTask(d) \in Task
    BY BusyHasTask DEF WorkerInv
  <1>1. CASE Start(d)
    <2>1. MyTask(d) \in Task
      BY <1>0, <1>1 DEF Start, Busy, Inside
    <2> QED BY <1>1, <2>1, CallIsNext DEF Start, WorkerInv
  <1>2. CASE Finish(d)
    <2>1. MyTask(d) \in Task
      BY <1>0, <1>2 DEF Finish, Busy, Inside
    <2> QED BY <1>2, <2>1, CallIsNext DEF Finish, Call, WorkerInv
  <1>3. CASE HandlerBeats(d)
    <2>1. MyTask(d) \in Task
      BY <1>0, <1>3 DEF HandlerBeats, Busy, Inside
    <2> QED BY <1>3, <2>1, CallIsNext DEF HandlerBeats, WorkerInv
  <1>4. CASE InsertFollowUp(d)
    <2>1. Recurring \subseteq Task
      BY WorkerAssumption
    <2> QED BY <1>4, <2>1, FreeCallIsNext DEF InsertFollowUp, InsertRecurring, WorkerInv
  <1> QED
    BY <1>1, <1>2, <1>3, <1>4
    DEF ProcessingStep, HandlerSpawns, HandlerEnds, CheckCancellation, Settle, FollowUp

\* The monitor of the processing.
LEMMA MonitorStepRefines ==
  ASSUME WorkerInv, NEW d \in Daemon, MonitorStep(d)
  PROVE  WorkerCall \/ UNCHANGED queueVars
  <1>1. CASE MonitorTouch(d)
    <2>1. loop[d] \in Busy
      BY <1>1 DEF MonitorTouch, WorkerInv, MemoryInv, Busy
    <2>2. MyTask(d) \in Task
      BY <2>1, BusyHasTask DEF WorkerInv
    <2> QED BY <1>1, <2>2, CallIsNext DEF MonitorTouch, WorkerInv
  <1> QED BY <1>1 DEF MonitorStep, MonitorRead, MonitorSkipsPass

\* The reconciliation pass.
LEMMA PassStepRefines ==
  ASSUME WorkerInv, NEW d \in Daemon, PassStep(d)
  PROVE  WorkerCall \/ UNCHANGED queueVars
  <1>1. CASE PassApply(d)
    <2>1. pass[d] \in Passes
      BY <1>1 DEF PassApply, WorkerInv, MemoryInv
    <2>2. \A row \in pass[d].rows : row.task \in Task
      BY <2>1 DEF Passes, Listed
    <2> QED BY <1>1, <2>2, CallIsNext DEF PassApply, WorkerInv
  <1> QED BY <1>1 DEF PassStep, PassStart

\* The life of the daemon.
LEMMA LifeStepRefines ==
  ASSUME WorkerInv, NEW d \in Daemon,
         \/ Restart(d) \/ Seed(d) \/ StopBegin(d) \/ StopSweep(d)
         \/ StopTimeout(d) \/ StopDone(d) \/ Crash(d) \/ StoreFault(d)
  PROVE  WorkerCall \/ UNCHANGED queueVars
  <1>1. CASE Seed(d)
    <2>1. Recurring \subseteq Task
      BY WorkerAssumption
    <2> QED BY <1>1, <2>1, FreeCallIsNext DEF Seed, InsertRecurring, WorkerInv
  <1>2. CASE StopSweep(d)
    <2>1. sweep[d] \subseteq Task
      BY DEF WorkerInv, MemoryInv
    <2> QED BY <1>2, <2>1, FreeCallIsNext DEF StopSweep, WorkerInv
  <1> QED BY <1>1, <1>2 DEF Restart, StopBegin, StopTimeout, StopDone, Crash, StoreFault

\* Clients, subprocesses and the clock.
LEMMA WorldRefines ==
  ASSUME WorkerInv, NEW t \in Task, World(t)
  PROVE  \/ WorkerCall \/ UNCHANGED queueVars
         \/ TimePasses(t) /\ GoStale(t)
  BY FreeCallIsNext
  DEF World, ClientEnqueues, ClientCancels, SubprocessExits, TimePasses, WorkerInv

\* Every step of the system is a call of the queue, leaves it alone, or is the
\* passing of time.
LEMMA StepIsCall ==
  ASSUME WorkerInv, [WorkerNext]_vars
  PROVE  \/ WorkerCall \/ UNCHANGED queueVars
         \/ \E t \in Task : TimePasses(t) /\ GoStale(t)
  <1>1. CASE UNCHANGED vars
    BY <1>1 DEF vars, queueVars
  <1>2. ASSUME NEW d \in Daemon, DaemonStep(d)
        PROVE  WorkerCall \/ UNCHANGED queueVars
    BY <1>2, LoopStepRefines, ProcessingStepRefines, MonitorStepRefines,
       PassStepRefines, LifeStepRefines DEF DaemonStep
  <1> QED BY <1>1, <1>2, WorldRefines DEF WorkerNext

\* Every step of the system is a step of the queue or leaves it alone.
LEMMA StepRefines ==
  ASSUME WorkerInv, [WorkerNext]_vars
  PROVE  [Next]_queueVars
  <1>1. \A t \in Task : GoStale(t) => Next
    BY Zenon DEF Next, Environment
  <1> QED BY <1>1, StepIsCall DEF WorkerCall

----------------------------------------------------------------------------
(* The steps keep the daemon's memory in order *)

\* A status of the next state is a status.
LEMMA StatusAfter ==
  ASSUME WorkerInv, [Next]_queueVars, NEW t \in Task
  PROVE  tasks'[t].status \in Status /\ tasks'[t].epoch \in Nat
  <1>1. QueueInv'
    BY NextInv DEF WorkerInv
  <1> QED BY <1>1 DEF QueueInv, TypeOK, Row

\* The run loop: it takes the task it claims and drops it when it is done.
LEMMA LoopStepMemory ==
  ASSUME WorkerInv, [Next]_queueVars, NEW d \in Daemon, LoopStep(d)
  PROVE  MemoryInv'
  <1> USE DEF MemoryInv, WorkerInv, Goto, Rest
  <1>1. CASE Claim(d)
    <2>1. CASE UNCHANGED held /\ Goto(d, "poll")
      BY <1>1, <2>1 DEF Claim, Loop, Between, Busy, Inside
    <2>2. ASSUME NEW t \in Task,
                 held' = [held EXCEPT ![d] = [task |-> t, epoch |-> tasks'[t].epoch,
                                              result |-> "running"]],
                 Goto(d, "claimed")
          PROVE  MemoryInv'
      <3>1. [task |-> t, epoch |-> tasks'[t].epoch, result |-> "running"] \in Held
        BY StatusAfter DEF Held, Status, Open
      <3> QED BY <1>1, <2>2, <3>1 DEF Claim, Loop, Between, Busy, Inside
    <2> QED BY <1>1, <2>1, <2>2 DEF Claim
  <1>2. CASE FailCurrent(d)
    <2>1. held[d] \in Held
      BY <1>2 DEF FailCurrent, Busy
    <2>2. CASE Rest(d, "poll")
      BY <1>2, <2>2 DEF FailCurrent, Loop, Between, Busy, Inside
    <2>3. CASE held' = [held EXCEPT ![d].result = tasks'[MyTask(d)].status] /\ Goto(d, "settle")
      <3>1. tasks'[MyTask(d)].status \in Status
        BY <2>1, StatusAfter DEF MyTask, Held
      <3>2. [held[d] EXCEPT !.result = tasks'[MyTask(d)].status] \in Held
        BY <2>1, <3>1 DEF Held
      <3> QED BY <1>2, <2>3, <3>2 DEF FailCurrent, Loop, Between, Busy, Inside
    <2> QED BY <1>2, <2>2, <2>3 DEF FailCurrent
  <1>3. CASE ProcessingEnds(d)
    BY <1>3 DEF ProcessingEnds, Cancelled, Loop, Mon, Between, Busy, Inside
  <1>4. CASE Unexpected(d)
    BY <1>4 DEF Unexpected, Loop, Between, Busy, Inside
  <1>5. CASE StartProcessing(d)
    BY <1>5 DEF StartProcessing, Loop, Mon, Between, Busy, Inside
  <1>6. CASE BeginTurn(d) \/ SkipPass(d) \/ LoopEnds(d)
    BY <1>6 DEF BeginTurn, SkipPass, LoopEnds, PassBy, Loop, Between, Busy, Inside
  <1> QED BY <1>1, <1>2, <1>3, <1>4, <1>5, <1>6 DEF LoopStep

\* The processing works on the task in hand until it ends.
LEMMA ProcessingStepMemory ==
  ASSUME WorkerInv, [Next]_queueVars, NEW d \in Daemon,
         ProcessingStep(d) \/ HandlerSpawns(d) \/ HandlerBeats(d)
  PROVE  MemoryInv'
  <1> USE DEF MemoryInv, WorkerInv, Goto
  <1>1. CASE Finish(d)
    <2>1. held[d] \in Held
      BY <1>1 DEF Finish, Busy, Inside
    <2>2. CASE Goto(d, "raised") /\ UNCHANGED held
      BY <1>1, <2>1, <2>2 DEF Finish, Loop, Between, Busy, Inside
    <2>3. ASSUME NEW pc \in {"settle", "settlelast", "done"}, Goto(d, pc),
                 held' = [held EXCEPT ![d].result = tasks'[MyTask(d)].status]
          PROVE  MemoryInv'
      <3>1. tasks'[MyTask(d)].status \in Status
        BY <2>1, StatusAfter DEF MyTask, Held
      <3>2. [held[d] EXCEPT !.result = tasks'[MyTask(d)].status] \in Held
        BY <2>1, <3>1 DEF Held
      <3> QED BY <1>1, <2>3, <3>2 DEF Finish, Loop, Between, Busy, Inside
    <2> QED BY <1>1, <2>2, <2>3 DEF Finish, Call
  <1>2. CASE Start(d)
    BY <1>2 DEF Start, Loop, Between, Busy, Inside
  <1>3. CASE CheckCancellation(d)
    BY <1>3 DEF CheckCancellation, Loop, Between, Busy, Inside
  <1>4. CASE HandlerEnds(d) \/ Settle(d) \/ FollowUp(d) \/ InsertFollowUp(d)
    BY <1>4 DEF HandlerEnds, Settle, FollowUp, InsertFollowUp, Loop, Between, Busy, Inside
  <1>5. CASE HandlerSpawns(d) \/ HandlerBeats(d)
    BY <1>5 DEF HandlerSpawns, HandlerBeats, workerVars
  <1> QED BY <1>1, <1>2, <1>3, <1>4, <1>5 DEF ProcessingStep

\* Whatever cancels it, a processing that was monitored still is one.
LEMMA InterruptMemory ==
  ASSUME MemoryInv, NEW d \in Daemon, NEW how \in Cancelled, mon[d] # "off",
         Interrupt(d, how), UNCHANGED <<held, sweep, phase>>,
         \/ mon[d] # "pass" /\ UNCHANGED pass
         \/ pass' = [pass EXCEPT ![d] = NoPass]
  PROVE  MemoryInv'
  <1>1. loop[d] \in Inside \cup {"done", "raised"}
    BY DEF MemoryInv
  <1>2. PICK pc \in Inside \cup {"done", "raised"} : Goto(d, pc)
    BY <1>1 DEF Interrupt, Goto, Inside
  <1>3. mon' = [mon EXCEPT ![d] = how] /\ how \in Mon
    BY DEF Interrupt, Cancelled, Mon
  <1>4. pass' \in [Daemon -> Passes \cup {NoPass}]
    BY DEF MemoryInv
  <1>5. \A c \in Daemon : pass'[c] # NoPass =>
          /\ pass'[c] = pass[c]
          /\ c = d => pass[d].by \notin {"loop", "monitor"}
    BY <1>1 DEF MemoryInv, Inside
  <1>6. \A c \in Daemon : pass'[c] # NoPass =>
          /\ pass'[c].by = "loop" => loop'[c] \in {"boot", "turn"}
          /\ pass'[c].by = "monitor" => mon'[c] = "pass"
    BY <1>2, <1>3, <1>5 DEF MemoryInv, Goto
  <1>7. phase[d] \notin {"down", "seed"}
    BY <1>1 DEF MemoryInv, Inside
  <1> QED BY <1>1, <1>2, <1>3, <1>4, <1>6, <1>7 DEF MemoryInv, Goto, Loop, Busy

\* The monitor watches, touches or cancels the processing.
LEMMA MonitorStepMemory ==
  ASSUME WorkerInv, NEW d \in Daemon, MonitorStep(d)
  PROVE  MemoryInv'
  <1> USE DEF WorkerInv
  <1>1. mon[d] # "off" /\ UNCHANGED <<held, sweep, pass, phase>>
    BY DEF MonitorStep, MonitorRead, MonitorTouch, MonitorSkipsPass
  <1>2. CASE mon[d] # "pass" /\ (Interrupt(d, "gather") \/ Interrupt(d, "gathererr"))
    BY <1>1, <1>2, InterruptMemory DEF Cancelled
  <1>3. ASSUME NEW pc \in Mon, mon' = [mon EXCEPT ![d] = pc], UNCHANGED loop,
               mon[d] = "pass" => ~PassBy(d, "monitor")
        PROVE  MemoryInv'
    BY <1>1, <1>3 DEF MemoryInv, PassBy
  <1> QED
    BY <1>1, <1>2, <1>3 DEF MonitorStep, MonitorRead, MonitorTouch, MonitorSkipsPass, Mon, MemoryInv

\* What a pass lists are rows of the table.
LEMMA PassRowsType ==
  ASSUME WorkerInv, NEW d \in Daemon, NEW by \in {"loop", "periodic", "monitor"}
  PROVE  [by |-> by, rows |-> PassRows(d, by)] \in Passes
  <1>1. \A t \in Task : /\ tasks[t].epoch \in Nat
                        /\ tasks[t].cancel \in BOOLEAN
                        /\ tasks[t].stale \in BOOLEAN
    BY DEF WorkerInv, QueueInv, TypeOK, Row
  <1>2. PassRows(d, by) \subseteq Listed
    BY <1>1 DEF PassRows, Listed
  <1> QED BY <1>2 DEF Passes


\* A pass that returns lets its caller go on.
LEMMA PassReturnsMemory ==
  ASSUME MemoryInv, NEW d \in Daemon, NEW by \in {"loop", "periodic", "monitor"},
         by = "loop" => loop[d] \in {"boot", "turn"},
         by = "monitor" => mon[d] = "pass",
         PassReturns(d, by), UNCHANGED <<held, sweep, phase>>,
         pass[d] = NoPass \/ pass[d].by = by,
         pass' = [pass EXCEPT ![d] = NoPass]
  PROVE  MemoryInv'
  <1>1. pass' \in [Daemon -> Passes \cup {NoPass}]
    BY DEF MemoryInv
  <1>2. CASE by = "loop"
    <2>1. mon[d] = "off" /\ UNCHANGED mon /\ phase[d] \notin {"down", "seed"}
      BY <1>2 DEF MemoryInv, PassReturns, Inside
    <2>2. PICK pc \in {"poll", "claiming"} : loop' = [loop EXCEPT ![d] = pc]
      BY <1>2 DEF PassReturns, MemoryInv
    <2> QED BY <1>1, <2>1, <2>2 DEF MemoryInv, Loop, Between, Busy, Inside
  <1>3. CASE by = "periodic"
    <2>0. loop' = [loop EXCEPT ![d] = loop[d]] /\ mon' = [mon EXCEPT ![d] = mon[d]]
      BY <1>3 DEF PassReturns
    <2>1. UNCHANGED <<loop, mon>>
      BY <2>0 DEF MemoryInv
    <2> QED BY <1>1, <2>1 DEF MemoryInv
  <1>4. CASE by = "monitor"
    <2>0. loop' = [loop EXCEPT ![d] = loop[d]] /\ mon' = [mon EXCEPT ![d] = "recheck"]
      BY <1>4 DEF PassReturns
    <2>1. UNCHANGED loop /\ mon' = [mon EXCEPT ![d] = "recheck"]
      BY <2>0 DEF MemoryInv
    <2> QED BY <1>1, <1>4, <2>1 DEF MemoryInv, Mon
  <1> QED BY <1>2, <1>3, <1>4

\* So does one that raises, or it ends the run loop.
LEMMA PassRaisesMemory ==
  ASSUME MemoryInv, NEW d \in Daemon, PassRaises(d), UNCHANGED <<held, sweep, phase>>
  PROVE  MemoryInv'
  <1>0. pass' = [pass EXCEPT ![d] = NoPass] /\ pass' \in [Daemon -> Passes \cup {NoPass}]
    BY DEF MemoryInv, PassRaises
  <1>1. CASE UNCHANGED <<loop, mon>>
    BY <1>0, <1>1 DEF MemoryInv
  <1>2. CASE PassBy(d, "monitor") /\ Interrupt(d, "gathererr")
    <2>1. mon[d] # "off"
      BY <1>2 DEF MemoryInv, PassBy
    <2> QED BY <1>0, <1>2, <2>1, InterruptMemory DEF Cancelled
  <1>3. CASE PassBy(d, "loop") /\ Goto(d, "dead") /\ UNCHANGED mon
    <2>1. mon[d] = "off" /\ phase[d] \notin {"down", "seed"}
      BY <1>3 DEF MemoryInv, PassBy, Inside
    <2> QED BY <1>0, <1>3, <2>1 DEF MemoryInv, Goto, Loop, Busy, Inside
  <1> QED BY <1>1, <1>2, <1>3 DEF PassRaises

\* The pass, from its list to the last row.
LEMMA PassStepMemory ==
  ASSUME WorkerInv, NEW d \in Daemon, PassStep(d)
  PROVE  MemoryInv'
  <1> USE DEF WorkerInv
  <1>1. ASSUME NEW by \in {"loop", "periodic", "monitor"}, PassStart(d, by)
        PROVE  MemoryInv'
    <2>1. /\ pass[d] = NoPass /\ UNCHANGED <<held, sweep, phase>>
          /\ by = "loop" => loop[d] \in {"boot", "turn"}
          /\ by = "monitor" => mon[d] = "pass"
      BY <1>1 DEF PassStart
    <2>2. CASE PassReturns(d, by) /\ UNCHANGED pass
      <3>1. pass' = [pass EXCEPT ![d] = NoPass]
        BY <2>1, <2>2 DEF MemoryInv
      <3> QED BY <2>1, <2>2, <3>1, PassReturnsMemory
    <2>3. CASE /\ pass' = [pass EXCEPT ![d] = [by |-> by, rows |-> PassRows(d, by)]]
               /\ UNCHANGED <<loop, mon>>
      <3>1. [by |-> by, rows |-> PassRows(d, by)] \in Passes
        BY PassRowsType
      <3>2. pass' \in [Daemon -> Passes \cup {NoPass}]
        BY <2>3, <3>1 DEF MemoryInv
      <3> QED BY <2>1, <2>3, <3>2 DEF MemoryInv
    <2> QED BY <1>1, <2>2, <2>3 DEF PassStart
  <1>2. CASE PassApply(d)
    <2>1. pass[d] # NoPass /\ pass[d] \in Passes /\ UNCHANGED <<held, sweep, phase>>
      BY <1>2 DEF PassApply, MemoryInv
    <2>2. CASE PassRaises(d)
      BY <2>1, <2>2, PassRaisesMemory
    <2>3. CASE pass' = [pass EXCEPT ![d] = NoPass] /\ PassReturns(d, pass[d].by)
      <3>1. /\ pass[d].by \in {"loop", "periodic", "monitor"}
            /\ pass[d].by = "loop" => loop[d] \in {"boot", "turn"}
            /\ pass[d].by = "monitor" => mon[d] = "pass"
        BY <2>1 DEF MemoryInv, Passes
      <3> QED BY <2>1, <2>3, <3>1, PassReturnsMemory
    <2>4. ASSUME NEW row \in pass[d].rows,
                 pass' = [pass EXCEPT ![d].rows = pass[d].rows \ {row}],
                 UNCHANGED <<loop, mon>>
          PROVE  MemoryInv'
      <3>1. pass' = [pass EXCEPT ![d] = [pass[d] EXCEPT !.rows = pass[d].rows \ {row}]]
        BY <2>4
      <3>2. /\ [pass[d] EXCEPT !.rows = pass[d].rows \ {row}] \in Passes
            /\ [pass[d] EXCEPT !.rows = pass[d].rows \ {row}].by = pass[d].by
        BY <2>1 DEF Passes
      <3>3. pass' \in [Daemon -> Passes \cup {NoPass}]
        BY <3>1, <3>2 DEF MemoryInv
      <3> QED BY <2>1, <2>4, <3>1, <3>2, <3>3 DEF MemoryInv
    <2> QED BY <1>2, <2>2, <2>3, <2>4 DEF PassApply
  <1> QED BY <1>1, <1>2 DEF PassStep

\* Start, stop and crash.
LEMMA LifeStepMemory ==
  ASSUME WorkerInv, NEW d \in Daemon,
         \/ Restart(d) \/ Seed(d) \/ StopBegin(d) \/ StopSweep(d)
         \/ StopTimeout(d) \/ StopDone(d) \/ Crash(d)
  PROVE  MemoryInv'
  <1> USE DEF WorkerInv, Rest, Goto
  <1>1. CASE StopBegin(d) \/ StopSweep(d)
    BY <1>1 DEF MemoryInv, StopBegin, StopSweep
  <1>2. CASE StopTimeout(d)
    <2>1. pass' = [pass EXCEPT ![d] = NoPass] /\ UNCHANGED <<sweep, phase>>
      BY <1>2 DEF StopTimeout
    <2>2. CASE mon[d] # "off"
      BY <1>2, <2>1, <2>2, InterruptMemory DEF StopTimeout, Cancelled
    <2>3. CASE mon[d] = "off"
      BY <1>2, <2>1, <2>3 DEF StopTimeout, MemoryInv, Loop, Busy, Inside
    <2> QED BY <2>2, <2>3
  <1>3. CASE Crash(d)
    BY <1>3 DEF Crash, MemoryInv, Loop, Mon, Busy, Inside
  <1>4. CASE StopDone(d)
    BY <1>4 DEF StopDone, MemoryInv, Loop, Busy, Inside
  <1>5. CASE Restart(d) \/ Seed(d)
    BY <1>5 DEF Restart, Seed, MemoryInv, Loop, Between, Busy, Inside
  <1> QED BY <1>1, <1>2, <1>3, <1>4, <1>5

\* A store error, wherever it strikes.
LEMMA StoreFaultMemory ==
  ASSUME WorkerInv, NEW d \in Daemon, StoreFault(d)
  PROVE  MemoryInv'
  <1> USE DEF WorkerInv, Rest, Goto
  <1>0. UNCHANGED <<sweep, phase>>
    BY DEF StoreFault
  <1>1. CASE loop[d] \in Busy \cup {"claiming"} /\ Rest(d, "poll") /\ mon[d] = "off" /\ UNCHANGED <<mon, pass>>
    BY <1>0, <1>1 DEF MemoryInv, Loop, Between, Busy, Inside
  <1>2. CASE loop[d] \in Inside /\ mon[d] = "off" /\ Rest(d, "dead") /\ UNCHANGED <<mon, pass>>
    BY <1>0, <1>2 DEF MemoryInv, Loop, Busy, Inside
  <1>3. CASE loop[d] \in Inside /\ Goto(d, "raised") /\ UNCHANGED <<mon, held, pass>>
    BY <1>0, <1>3 DEF MemoryInv, Loop, Busy, Inside
  <1>4. CASE loop[d] \in {"boot", "turn"} /\ pass[d] = NoPass /\ Goto(d, "dead") /\ UNCHANGED <<mon, held, pass>>
    BY <1>0, <1>4 DEF MemoryInv, Loop, Busy, Inside
  <1>5. CASE PassRaises(d) /\ UNCHANGED held
    BY <1>0, <1>5, PassRaisesMemory
  <1>6. CASE mon[d] \in {"wait", "touch", "recheck"} /\ Interrupt(d, "gathererr") /\ UNCHANGED <<held, pass>>
    BY <1>0, <1>6, InterruptMemory DEF Cancelled
  <1>7. loop[d] \in {"claiming", "unexpected", "failcurrent"} => mon[d] = "off"
    BY DEF MemoryInv, Inside
  <1> QED BY <1>1, <1>2, <1>3, <1>4, <1>5, <1>6, <1>7 DEF StoreFault, Busy

\* Nobody else touches the memory of a daemon.
LEMMA WorldMemory ==
  ASSUME WorkerInv, NEW t \in Task, World(t)
  PROVE  MemoryInv'
  BY DEF WorkerInv, MemoryInv, World, ClientEnqueues, ClientCancels, SubprocessExits,
         TimePasses, workerVars

\* Every step of the system keeps the invariant.
LEMMA WorkerNextInv == WorkerInv /\ [WorkerNext]_vars => WorkerInv'
  <1> SUFFICES ASSUME WorkerInv, [WorkerNext]_vars
               PROVE  WorkerInv'
    OBVIOUS
  <1>1. [Next]_queueVars
    BY StepRefines
  <1>2. QueueInv'
    BY <1>1, NextInv DEF WorkerInv
  <1>3. CASE UNCHANGED vars
    BY <1>2, <1>3 DEF vars, WorkerInv, MemoryInv
  <1>4. ASSUME NEW d \in Daemon, DaemonStep(d)
        PROVE  MemoryInv'
    BY <1>1, <1>4, LoopStepMemory, ProcessingStepMemory, MonitorStepMemory,
       PassStepMemory, LifeStepMemory, StoreFaultMemory DEF DaemonStep
  <1> QED BY <1>2, <1>3, <1>4, WorldMemory DEF WorkerNext, WorkerInv

\* The loop of every daemon has a task in hand whenever a step uses one, and
\* the tables satisfy the invariant of the queue.
THEOREM WorkerInvariant == WorkerSpec => []WorkerInv
  BY WorkerInitInv, WorkerNextInv, PTL DEF WorkerSpec

\* Link lemma: any number of daemons, crashing, stopping and recovering each
\* other's tasks, do to the tables only what the queue allows, so that the
\* theorems on TaskQueue hold of the running system.
LEMMA WorkersUseQueue == WorkerSpec => Spec
  <1>1. WorkerInit => Init
    BY DEF WorkerInit
  <1>2. WorkerInv /\ [WorkerNext]_vars => [Next]_queueVars
    BY StepRefines
  <1> QED BY <1>1, <1>2, WorkerInvariant, PTL DEF WorkerSpec, Spec

----------------------------------------------------------------------------
(* No two daemons hold the same attempt *)

\* The epoch of a row never goes back, and a claim moves it on.
LEMMA EpochGrows ==
  ASSUME QueueInv, [Next]_queueVars, NEW t \in Task
  PROVE  tasks'[t].epoch >= tasks[t].epoch
  <1>1. \A u \in Task : tasks[u] \in Row /\ tasks[u].epoch \in Nat
    BY DEF QueueInv, TypeOK, Row
  <1>2. CASE UNCHANGED queueVars
    BY <1>1, <1>2 DEF queueVars
  <1>3. ASSUME NEW u \in Task, Operation(u) \/ Environment(u)
        PROVE  tasks'[t].epoch >= tasks[t].epoch
    <2>1. PICK r \in Row : RowStep(u, r)
      BY <1>3, StepIsRowStep DEF QueueInv
    <2>2. tasks' = [tasks EXCEPT ![u] = r] /\ tasks \in [Task -> Row]
      BY <2>1 DEF RowStep, QueueInv, TypeOK
    <2>3. r.epoch >= tasks[u].epoch
      BY <1>1, <2>1 DEF RowStep, Inserted, Claimed, Ended, Dropped, Kept, QueueInv, EpochFitsStatus
    <2> QED BY <1>1, <2>2, <2>3
  <1> QED BY <1>2, <1>3 DEF Next

\* What a daemon holds is an attempt that the table has seen.
HeldInv ==
  /\ \A d \in Daemon : held[d] # NoAttempt => MyEpoch(d) <= tasks[MyTask(d)].epoch
  /\ AttemptsExclusive

\* A step that takes no task only drops what is held, or keeps it.
KeepsHeld(c) ==
  \/ held'[c] = NoAttempt
  \/ /\ held[c] # NoAttempt
     /\ held'[c].task = held[c].task /\ held'[c].epoch = held[c].epoch

\* Of all steps only a claim takes a task.
LEMMA OnlyClaimTakes ==
  ASSUME WorkerInv, [WorkerNext]_vars,
         ~\E d \in Daemon : Claim(d)
  PROVE  \A c \in Daemon : KeepsHeld(c)
  <1>0. held \in [Daemon -> Held \cup {NoAttempt}]
    BY DEF WorkerInv, MemoryInv
  <1>1. ASSUME UNCHANGED held
        PROVE  \A c \in Daemon : KeepsHeld(c)
    BY <1>1 DEF KeepsHeld
  <1>2. ASSUME NEW d \in Daemon, held' = [held EXCEPT ![d] = NoAttempt]
        PROVE  \A c \in Daemon : KeepsHeld(c)
    BY <1>0, <1>2 DEF KeepsHeld
  <1>3. ASSUME NEW d \in Daemon, NEW v, loop[d] \in Busy,
               held' = [held EXCEPT ![d].result = v]
        PROVE  \A c \in Daemon : KeepsHeld(c)
    <2>1. held[d] \in Held /\ held[d] # NoAttempt
      BY <1>3, NothingAssumption DEF WorkerInv, MemoryInv
    <2>2. held'[d].task = held[d].task /\ held'[d].epoch = held[d].epoch
      BY <1>0, <1>3, <2>1 DEF Held
    <2> QED BY <1>0, <1>3, <2>1, <2>2 DEF KeepsHeld
  <1>4. CASE UNCHANGED vars
    BY <1>1, <1>4 DEF vars
  <1>5. ASSUME NEW d \in Daemon, DaemonStep(d)
        PROVE  \A c \in Daemon : KeepsHeld(c)
    <2>1. CASE LoopStep(d)
      <3>1. CASE FailCurrent(d)
        BY <1>2, <1>3, <3>1 DEF FailCurrent, Busy, Rest
      <3>2. CASE ProcessingEnds(d) \/ Unexpected(d)
        BY <1>1, <1>2, <3>2 DEF ProcessingEnds, Unexpected, Rest
      <3> QED
        BY <1>1, <2>1, <3>1, <3>2 DEF LoopStep, BeginTurn, SkipPass, LoopEnds, StartProcessing
    <2>2. CASE ProcessingStep(d)
      <3>1. CASE Finish(d)
        BY <1>1, <1>3, <3>1 DEF Finish, Call, Busy, Inside
      <3> QED
        BY <1>1, <2>2, <3>1 DEF ProcessingStep, Start, HandlerEnds, CheckCancellation,
                                Settle, FollowUp, InsertFollowUp
    <2>3. CASE MonitorStep(d) \/ PassStep(d) \/ HandlerSpawns(d) \/ HandlerBeats(d)
      BY <1>1, <2>3 DEF MonitorStep, MonitorRead, MonitorTouch, MonitorSkipsPass, PassStep,
                        PassStart, PassApply, HandlerSpawns, HandlerBeats, workerVars
    <2>4. CASE Restart(d) \/ Seed(d) \/ StopBegin(d) \/ StopSweep(d)
      BY <1>1, <2>4 DEF Restart, Seed, StopBegin, StopSweep
    <2>5. CASE StopTimeout(d) \/ StopDone(d) \/ Crash(d)
      BY <1>1, <1>2, <2>5 DEF StopTimeout, StopDone, Crash, Rest
    <2>6. CASE StoreFault(d)
      BY <1>1, <1>2, <2>6 DEF StoreFault, Rest
    <2> QED BY <1>5, <2>1, <2>2, <2>3, <2>4, <2>5, <2>6 DEF DaemonStep
  <1>6. ASSUME NEW t \in Task, World(t)
        PROVE  \A c \in Daemon : KeepsHeld(c)
    BY <1>1, <1>6 DEF World, ClientEnqueues, ClientCancels, SubprocessExits, TimePasses, workerVars
  <1> QED BY <1>4, <1>5, <1>6 DEF WorkerNext

\* A claim takes an attempt that nobody can hold yet.
LEMMA ClaimTakesFresh ==
  ASSUME WorkerInv, HeldInv, NEW d \in Daemon, Claim(d), WorkerInv'
  PROVE  HeldInv'
  <1>0. /\ held \in [Daemon -> Held \cup {NoAttempt}]
        /\ \A t \in Task : tasks[t].epoch \in Nat
        /\ tasks \in [Task -> Row]
    BY DEF WorkerInv, MemoryInv, QueueInv, TypeOK, Row
  <1>1. CASE UNCHANGED <<queueVars, held>>
    BY <1>1 DEF HeldInv, AttemptsExclusive, MyTask, MyEpoch, queueVars
  <1>2. ASSUME NEW t \in Task, ClaimNext(t),
               held' = [held EXCEPT ![d] = [task |-> t, epoch |-> tasks'[t].epoch,
                                            result |-> "running"]]
        PROVE  HeldInv'
    <2>1. tasks' = [tasks EXCEPT ![t] = ClaimRow(tasks[t])]
      BY <1>2 DEF ClaimNext, SetRow
    <2>2. ClaimRow(tasks[t]).epoch = tasks[t].epoch + 1
      BY <1>0 DEF ClaimRow, Row
    <2>3. /\ tasks'[t].epoch = tasks[t].epoch + 1
          /\ \A u \in Task : u # t => tasks'[u] = tasks[u]
      BY <1>0, <2>1, <2>2
    <2>4. held'[d].task = t /\ held'[d].epoch = tasks[t].epoch + 1
      BY <1>0, <1>2, <2>3
    <2>5. \A c \in Daemon : c # d => held'[c] = held[c]
      BY <1>0, <1>2
    <2>6. \A c \in Daemon : held[c] # NoAttempt =>
            held[c].task \in Task /\ held[c].epoch \in Nat /\ held[c].epoch <= tasks[held[c].task].epoch
      BY <1>0 DEF HeldInv, MyTask, MyEpoch, Held
    <2>7. ASSUME NEW c \in Daemon, held'[c] # NoAttempt
          PROVE  held'[c].epoch <= tasks'[held'[c].task].epoch
      BY <1>0, <2>3, <2>4, <2>5, <2>6, <2>7
    <2>8. ASSUME NEW c \in Daemon, held'[c] # NoAttempt, c # d
          PROVE  held'[c].task # t \/ held'[c].epoch # tasks[t].epoch + 1
      BY <1>0, <2>5, <2>6, <2>8
    <2>9. ASSUME NEW b \in Daemon, NEW c \in Daemon, held'[b] # NoAttempt,
                 held'[c] # NoAttempt, b # c
          PROVE  held'[b].task # held'[c].task \/ held'[b].epoch # held'[c].epoch
      <3>1. CASE b = d
        BY <2>4, <2>8, <2>9, <3>1
      <3>2. CASE c = d
        BY <2>4, <2>8, <2>9, <3>2
      <3>3. CASE b # d /\ c # d
        BY <2>5, <2>9, <3>3 DEF HeldInv, AttemptsExclusive, MyTask, MyEpoch
      <3> QED BY <3>1, <3>2, <3>3
    <2> QED BY <2>7, <2>9 DEF HeldInv, AttemptsExclusive, MyTask, MyEpoch
  <1> QED BY <1>1, <1>2 DEF Claim

\* What the daemons hold stays apart.
LEMMA HeldNextInv ==
  ASSUME WorkerInv, HeldInv, [WorkerNext]_vars
  PROVE  HeldInv'
  <1>0. WorkerInv' /\ [Next]_queueVars /\ QueueInv
    BY WorkerNextInv, StepRefines DEF WorkerInv
  <1>1. CASE \E d \in Daemon : Claim(d)
    BY <1>0, <1>1, ClaimTakesFresh
  <1>2. CASE ~\E d \in Daemon : Claim(d)
    <2>1. \A c \in Daemon : KeepsHeld(c)
      BY <1>2, OnlyClaimTakes
    <2>2. \A t \in Task : /\ tasks[t].epoch \in Nat /\ tasks'[t].epoch \in Nat
                          /\ tasks'[t].epoch >= tasks[t].epoch
      BY <1>0, EpochGrows DEF WorkerInv, QueueInv, TypeOK, Row
    <2>3. \A c \in Daemon : held[c] # NoAttempt => held[c].task \in Task /\ held[c].epoch \in Nat
      BY DEF WorkerInv, MemoryInv, Held
    <2>4. \A c \in Daemon : held'[c] # NoAttempt => held'[c].epoch <= tasks'[held'[c].task].epoch
      BY <2>1, <2>2, <2>3 DEF HeldInv, KeepsHeld, MyTask, MyEpoch
    <2>5. AttemptsExclusive'
      BY <2>1 DEF HeldInv, AttemptsExclusive, KeepsHeld, MyTask, MyEpoch
    <2> QED BY <2>4, <2>5 DEF HeldInv, MyTask, MyEpoch
  <1> QED BY <1>1, <1>2

\* Two daemons never process the same attempt of a task, however often the
\* task is taken from one of them by the recovery of another.
THEOREM AttemptsStayExclusive == WorkerSpec => []AttemptsExclusive
  <1>1. WorkerInit => HeldInv
    BY DEF WorkerInit, HeldInv, AttemptsExclusive
  <1>2. WorkerInv /\ HeldInv /\ [WorkerNext]_vars => HeldInv'
    BY HeldNextInv
  <1>3. HeldInv => AttemptsExclusive
    BY DEF HeldInv
  <1> QED BY <1>1, <1>2, <1>3, WorkerInvariant, PTL DEF WorkerSpec

----------------------------------------------------------------------------
(* A task is claimed at most max(1, max_retries) times *)

\* The epoch counts the retries, and the attempt that runs.
CountInv ==
  \A t \in Task :
    /\ tasks[t].status = "pending" => tasks[t].epoch = tasks[t].retries
    /\ tasks[t].status = "running" => tasks[t].epoch = tasks[t].retries + 1
    /\ tasks[t].epoch \in {0} \cup Attempts

\* A change of one row that counts its retry keeps the count.
LEMMA RowStepCounts ==
  ASSUME QueueInv, CountInv, EveryRetryCounts, NEW t \in Task, NEW r \in Row, RowStep(t, r)
  PROVE  CountInv'
  <1>1. /\ tasks \in [Task -> Row] /\ tasks[t] \in Row
        /\ tasks'[t] = r /\ \A u \in Task : u # t => tasks'[u] = tasks[u]
    BY DEF RowStep, QueueInv, TypeOK
  <1>2. /\ tasks[t].epoch \in Nat /\ tasks[t].retries \in Nat /\ MaxRetries \in Nat
        /\ r.epoch \in Nat /\ r.retries \in Nat
    BY <1>1, RetriesAssumption DEF Row
  <1>3. /\ r.status = "pending" => r.epoch = r.retries
        /\ r.status = "running" => r.epoch = r.retries + 1
        /\ r.epoch \in {0} \cup Attempts
    <2>1. CASE Inserted(t, r)
      BY <2>1 DEF Inserted
    <2>2. CASE Claimed(t, r)
      <3>1. r.status = "running" /\ r.epoch = r.retries + 1
        BY <1>2, <2>2 DEF Claimed, CountInv
      <3>2. r.retries < MaxRetries \/ r.retries = 0
        BY <2>2 DEF Claimed, QueueInv, RetryBudget, Open
      <3>3. r.epoch \in Attempts
        BY <1>2, <3>1, <3>2 DEF Attempts
      <3> QED BY <3>1, <3>3
    <2>3. ASSUME NEW o \in Outcome, Ended(t, r, o)
          PROVE  /\ r.status = "pending" => r.epoch = r.retries
                 /\ r.status # "running" /\ r.epoch = tasks[t].epoch
      BY <1>1, <1>2, <2>3 DEF Ended, CountInv, EveryRetryCounts, Terminal
    <2>4. CASE Dropped(t, r)
      BY <2>4 DEF Dropped, CountInv
    <2>5. CASE Kept(t, r)
      BY <2>5 DEF Kept, CountInv
    <2> QED BY <2>1, <2>2, <2>3, <2>4, <2>5 DEF RowStep, CountInv
  <1> QED BY <1>1, <1>3 DEF CountInv

\* No step of any daemon loses the count.
LEMMA CountNextInv ==
  ASSUME WorkerInv, CountInv, [WorkerNext]_vars
  PROVE  CountInv'
  <1>1. QueueInv
    BY DEF WorkerInv
  <1>2. CASE UNCHANGED queueVars
    BY <1>2 DEF CountInv, queueVars
  <1>3. CASE WorkerCall
    <2>1. PICK t \in Task : Operation(t) \/ Environment(t)
      BY <1>3 DEF WorkerCall, Next
    <2>2. PICK r \in Row : RowStep(t, r)
      BY <1>1, <2>1, StepIsRowStep DEF QueueInv
    <2> QED BY <1>1, <1>3, <2>2, RowStepCounts DEF WorkerCall
  <1>4. ASSUME NEW t \in Task, GoStale(t)
        PROVE  CountInv'
    <2>1. tasks[t] \in Row /\ tasks \in [Task -> Row]
      BY <1>1 DEF QueueInv, TypeOK
    <2> DEFINE r == [tasks[t] EXCEPT !.stale = TRUE]
    <2>2. tasks' = [tasks EXCEPT ![t] = r]
      BY <1>4 DEF GoStale, SetRow
    <2>3. r.status = tasks[t].status /\ r.epoch = tasks[t].epoch /\ r.retries = tasks[t].retries
      BY <2>1 DEF Row
    <2> HIDE DEF r
    <2>4. tasks'[t] = r /\ \A u \in Task : u # t => tasks'[u] = tasks[u]
      BY <2>1, <2>2
    <2> QED BY <2>3, <2>4 DEF CountInv
  <1> QED BY <1>2, <1>3, <1>4, StepIsCall

\* The count holds of every reachable state.
LEMMA CountInvariant == WorkerSpec => []CountInv
  <1>1. WorkerInit => CountInv
    BY AbsentRow DEF WorkerInit, Init, CountInv
  <1>2. WorkerInv /\ CountInv /\ [WorkerNext]_vars => CountInv'
    BY CountNextInv
  <1> QED BY <1>1, <1>2, WorkerInvariant, PTL DEF WorkerSpec

\* Through all crashes, recoveries by other daemons and shutdowns, a task is
\* claimed at most max(1, max_retries) times.
THEOREM ClaimsStayBounded == WorkerSpec => []ClaimsBounded
  <1>1. CountInv => ClaimsBounded
    BY DEF CountInv, ClaimsBounded
  <1> QED BY <1>1, CountInvariant, PTL

----------------------------------------------------------------------------
(* A worker settles the outcome of its own attempt *)

\* Where the processing has ended its attempt and reconciles what depends on it.
Settling == {"settle", "settlelast", "follow", "insert"}

\* task_runs has the outcome `o` for attempt e of t.
Logged(t, e, o) ==
  \E i \in 1..Len(runs[t]) : runs[t][i] = [attempt |-> e, outcome |-> o]

OutcomeOf(status) == IF status = "pending" THEN "retry" ELSE status

\* task_runs is never rewritten.
LEMMA LogGrows ==
  ASSUME QueueInv, [Next]_queueVars, NEW t \in Task, NEW e, NEW o, Logged(t, e, o)
  PROVE  Logged(t, e, o)'
  <1>1. CASE runs' = runs
    BY <1>1 DEF Logged
  <1>2. ASSUME NEW u \in Task, NEW a \in Nat, NEW x \in Outcome, LogRun(u, a, x)
        PROVE  Logged(t, e, o)'
    <2> DEFINE new == [attempt |-> a, outcome |-> x]
    <2>1. runs' = [runs EXCEPT ![u] = Append(runs[u], new)] /\ runs \in [Task -> Seq(Run)]
      BY <1>2 DEF LogRun, QueueInv, TypeOK
    <2>2. CASE u # t
      BY <2>1, <2>2 DEF Logged
    <2>3. CASE u = t
      <3>1. PICK i \in 1..Len(runs[t]) : runs[t][i] = [attempt |-> e, outcome |-> o]
        BY DEF Logged
      <3>2. runs[t] \in Seq(Run) /\ new \in Run /\ runs'[t] = Append(runs[t], new)
        BY <2>1, <2>3 DEF Run
      <3> HIDE DEF new
      <3>3. i \in 1..Len(runs'[t]) /\ runs'[t][i] = runs[t][i]
        BY <3>1, <3>2
      <3> QED BY <3>1, <3>3 DEF Logged
    <2> QED BY <2>2, <2>3
  <1>3. ASSUME NEW u \in Task, Operation(u) \/ Environment(u)
        PROVE  Logged(t, e, o)'
    <2>1. PICK r \in Row : RowStep(u, r)
      BY <1>3, StepIsRowStep DEF QueueInv
    <2>2. tasks[u].epoch \in Nat
      BY DEF QueueInv, TypeOK, Row
    <2> QED BY <1>1, <1>2, <2>1, <2>2 DEF RowStep, Inserted, Claimed, Ended, Dropped, Kept, Outcome
  <1> QED BY <1>1, <1>3 DEF Next, queueVars

\* A call of Finish that takes effect logs the attempt it was made for, with
\* the status the row has afterwards.
LEMMA EndIsLogged ==
  ASSUME QueueInv, NEW t \in Task, NEW e \in Nat,
         \/ Complete(t, e) \/ FailPermanently(t, e) \/ FinalizeCancellation(t, e)
         \/ (\E ready \in BOOLEAN : Fail(t, e, ready))
  PROVE  \E o \in Outcome : o = OutcomeOf(tasks'[t].status) /\ Logged(t, e, o)'
  <1> DEFINE old == tasks[t]
  <1>1. RunningFor(t, e)
    BY DEF Complete, FailPermanently, FinalizeCancellation, Fail, EndAttempt
  <1>2. e = old.epoch /\ old \in Row /\ tasks \in [Task -> Row] /\ runs \in [Task -> Seq(Run)]
    BY <1>1, EpochAssumption DEF RunningFor, QueueInv, TypeOK
  <1>3. ASSUME NEW o \in Outcome, LogRun(t, old.epoch, o)
        PROVE  Logged(t, e, o)'
    <2> DEFINE new == [attempt |-> old.epoch, outcome |-> o]
    <2>1. new \in Run /\ runs[t] \in Seq(Run) /\ runs'[t] = Append(runs[t], new)
      BY <1>2, <1>3 DEF LogRun, Run
    <2>2. new = [attempt |-> e, outcome |-> o]
      BY <1>2
    <2> HIDE DEF new
    <2>3. Len(runs'[t]) \in 1..Len(runs'[t]) /\ runs'[t][Len(runs'[t])] = new
      BY <2>1
    <2> QED BY <2>2, <2>3 DEF Logged
  <1>4. ASSUME NEW r, NEW o \in Outcome, tasks' = [tasks EXCEPT ![t] = r], LogRun(t, old.epoch, o),
               o = OutcomeOf(r.status)
        PROVE  \E p \in Outcome : p = OutcomeOf(tasks'[t].status) /\ Logged(t, e, p)'
    <2>1. tasks'[t] = r
      BY <1>2, <1>4
    <2> QED BY <1>3, <1>4, <2>1
  <1>5. CASE Complete(t, e)
    <2> DEFINE r == [old EXCEPT !.status = "completed", !.proc = "none"]
    <2>1. tasks' = [tasks EXCEPT ![t] = r] /\ LogRun(t, old.epoch, "completed")
      BY <1>5 DEF Complete, EndAttempt, SetRow
    <2>2. r.status = "completed"
      BY <1>2 DEF Row
    <2> HIDE DEF r
    <2> QED BY <1>4, <2>1, <2>2 DEF Outcome, OutcomeOf
  <1>6. CASE FailPermanently(t, e)
    <2> DEFINE r == [old EXCEPT !.status = "failed", !.retries = MaxRetries,
                                !.ready = TRUE, !.proc = "none"]
    <2>1. tasks' = [tasks EXCEPT ![t] = r] /\ LogRun(t, old.epoch, "failed")
      BY <1>6 DEF FailPermanently, EndAttempt, SetRow
    <2>2. r.status = "failed"
      BY <1>2 DEF Row
    <2> HIDE DEF r
    <2> QED BY <1>4, <2>1, <2>2 DEF Outcome, OutcomeOf
  <1>7. CASE FinalizeCancellation(t, e)
    <2> DEFINE r == [old EXCEPT !.status = "cancelled", !.proc = "none"]
    <2>1. tasks' = [tasks EXCEPT ![t] = r] /\ LogRun(t, old.epoch, "cancelled")
      BY <1>7 DEF FinalizeCancellation, EndAttempt, SetRow
    <2>2. r.status = "cancelled"
      BY <1>2 DEF Row
    <2> HIDE DEF r
    <2> QED BY <1>4, <2>1, <2>2 DEF Outcome, OutcomeOf
  <1>8. ASSUME NEW ready \in BOOLEAN, Fail(t, e, ready)
        PROVE  \E p \in Outcome : p = OutcomeOf(tasks'[t].status) /\ Logged(t, e, p)'
    <2> DEFINE r == FailRow(old, ready)
               o == IF r.status = "failed" THEN "failed" ELSE "retry"
    <2>1. tasks' = [tasks EXCEPT ![t] = r] /\ LogRun(t, old.epoch, o)
      BY <1>8 DEF Fail, EndAttempt, SetRow
    <2>2. r.status \in {"failed", "pending"}
      BY <1>2, FailRowType
    <2> HIDE DEF r
    <2>3. o \in Outcome /\ o = OutcomeOf(r.status)
      BY <2>2 DEF Outcome, OutcomeOf
    <2> QED BY <1>4, <2>1, <2>3
  <1> QED BY <1>5, <1>6, <1>7, <1>8

\* A daemon that settles after the step did so before, for the same attempt.
SettledBefore(c) ==
  mon'[c] # "off" /\ loop'[c] \in Settling =>
    mon[c] # "off" /\ loop[c] \in Settling /\ held'[c] = held[c]

\* The step changes the memory of daemon d alone.
Private(d) ==
  \A c \in Daemon : c # d => loop'[c] = loop[c] /\ mon'[c] = mon[c] /\ held'[c] = held[c]

\* A step of one daemon leaves what the run loops and monitors of the others
\* hold alone.
LEMMA StepIsPrivate ==
  ASSUME WorkerInv, NEW d \in Daemon, DaemonStep(d)
  PROVE  Private(d)
  <1> USE DEF Private, Goto, Rest
  <1>0. /\ loop \in [Daemon -> Loop] /\ mon \in [Daemon -> Mon]
        /\ held \in [Daemon -> Held \cup {NoAttempt}]
    BY DEF WorkerInv, MemoryInv
  <1>1. CASE LoopStep(d)
    BY <1>0, <1>1 DEF LoopStep, BeginTurn, SkipPass, LoopEnds, Claim, StartProcessing,
                      ProcessingEnds, Unexpected, FailCurrent
  <1>2. CASE ProcessingStep(d)
    BY <1>0, <1>2 DEF ProcessingStep, Start, HandlerEnds, CheckCancellation, Finish, Call, Settle,
                      FollowUp, InsertFollowUp
  <1>3. CASE MonitorStep(d) \/ HandlerSpawns(d) \/ HandlerBeats(d)
    BY <1>0, <1>3 DEF MonitorStep, MonitorRead, MonitorTouch, MonitorSkipsPass, Interrupt,
                      HandlerSpawns, HandlerBeats, workerVars
  <1>4. CASE PassStep(d)
    BY <1>0, <1>4 DEF PassStep, PassStart, PassApply, PassReturns, PassRaises, Interrupt
  <1>5. CASE Restart(d) \/ Seed(d) \/ StopBegin(d) \/ StopSweep(d)
    BY <1>0, <1>5 DEF Restart, Seed, StopBegin, StopSweep
  <1>6. CASE StopTimeout(d) \/ StopDone(d) \/ Crash(d)
    BY <1>0, <1>6 DEF StopTimeout, StopDone, Crash, Interrupt
  <1>7. CASE StoreFault(d)
    BY <1>0, <1>7 DEF StoreFault, PassRaises, Interrupt
  <1> QED BY <1>1, <1>2, <1>3, <1>4, <1>5, <1>6, <1>7 DEF DaemonStep

\* Of all steps of a daemon only its own call that ends the attempt makes it
\* settle: a recovery of an unexpected error settles without a monitor.
LEMMA OnlyFinishSettles ==
  ASSUME WorkerInv, NEW d \in Daemon, DaemonStep(d), ~Finish(d)
  PROVE  SettledBefore(d)
  <1> USE DEF SettledBefore, Goto, Rest, Settling
  <1>0. /\ loop \in [Daemon -> Loop] /\ mon \in [Daemon -> Mon]
        /\ held \in [Daemon -> Held \cup {NoAttempt}]
        /\ mon[d] # "off" => loop[d] \in Inside \cup {"done", "raised"}
    BY DEF WorkerInv, MemoryInv
  <1>1. CASE LoopStep(d)
    <2>1. CASE FailCurrent(d)
      BY <1>0, <2>1 DEF FailCurrent, Inside
    <2>2. CASE ProcessingEnds(d)
      BY <1>0, <2>2 DEF ProcessingEnds
    <2> QED BY <1>0, <1>1, <2>1, <2>2 DEF LoopStep, BeginTurn, SkipPass, LoopEnds, Claim,
                                          StartProcessing, Unexpected
  <1>2. CASE ProcessingStep(d)
    BY <1>0, <1>2 DEF ProcessingStep, Start, HandlerEnds, CheckCancellation, Settle,
                      FollowUp, InsertFollowUp
  <1>3. CASE MonitorStep(d) \/ HandlerSpawns(d) \/ HandlerBeats(d)
    BY <1>0, <1>3 DEF MonitorStep, MonitorRead, MonitorTouch, MonitorSkipsPass, Interrupt,
                      HandlerSpawns, HandlerBeats, workerVars, Inside
  <1>4. CASE PassStep(d)
    <2>0. UNCHANGED held
      BY <1>4 DEF PassStep, PassStart, PassApply
    <2>1. ASSUME NEW by \in {"loop", "periodic", "monitor"}, PassReturns(d, by),
                 by = "monitor" => mon[d] = "pass"
          PROVE  SettledBefore(d)
      BY <1>0, <2>0, <2>1 DEF PassReturns
    <2>2. CASE PassRaises(d)
      <3>1. pass[d].by = "monitor" /\ pass[d] # NoPass => mon[d] = "pass"
        BY DEF WorkerInv, MemoryInv
      <3> QED BY <1>0, <2>0, <2>2, <3>1 DEF PassRaises, PassBy, Interrupt, Inside
    <2>3. CASE UNCHANGED <<loop, mon>>
      BY <2>0, <2>3
    <2>4. pass[d] # NoPass =>
            /\ pass[d].by \in {"loop", "periodic", "monitor"}
            /\ pass[d].by = "monitor" => mon[d] = "pass"
      BY DEF WorkerInv, MemoryInv, Passes
    <2>5. CASE PassApply(d)
      BY <2>1, <2>2, <2>3, <2>4, <2>5 DEF PassApply
    <2>6. ASSUME NEW by \in {"loop", "periodic", "monitor"}, PassStart(d, by)
          PROVE  SettledBefore(d)
      BY <2>1, <2>3, <2>6 DEF PassStart
    <2> QED BY <1>4, <2>5, <2>6 DEF PassStep
  <1>5. CASE Restart(d) \/ Seed(d) \/ StopBegin(d) \/ StopSweep(d)
    BY <1>0, <1>5 DEF Restart, Seed, StopBegin, StopSweep
  <1>6. CASE StopTimeout(d) \/ StopDone(d) \/ Crash(d)
    BY <1>0, <1>6 DEF StopTimeout, StopDone, Crash, Interrupt, Inside
  <1>7. CASE StoreFault(d)
    <2>1. pass[d].by = "monitor" /\ pass[d] # NoPass => mon[d] = "pass"
      BY DEF WorkerInv, MemoryInv
    <2> QED BY <1>0, <1>7, <2>1 DEF StoreFault, PassRaises, PassBy, Interrupt, Inside
  <1> QED BY <1>1, <1>2, <1>3, <1>4, <1>5, <1>6, <1>7 DEF DaemonStep

\* The daemon that settles has the outcome of its attempt in task_runs.
SettleInv ==
  \A d \in Daemon : mon[d] # "off" /\ loop[d] \in Settling =>
    Logged(MyTask(d), MyEpoch(d), OutcomeOf(held[d].result))

\* Every step keeps it so.
LEMMA SettleNextInv ==
  ASSUME WorkerInv, SettleInv, [WorkerNext]_vars
  PROVE  SettleInv'
  <1>0. /\ [Next]_queueVars /\ QueueInv /\ loop \in [Daemon -> Loop]
        /\ held \in [Daemon -> Held \cup {NoAttempt}]
    BY StepRefines DEF WorkerInv, MemoryInv
  <1>1. SUFFICES ASSUME NEW c \in Daemon, mon'[c] # "off", loop'[c] \in Settling
                 PROVE  \E h \in Held : /\ h.task = held'[c].task /\ h.epoch = held'[c].epoch
                                        /\ h.result = held'[c].result
                                        /\ Logged(h.task, h.epoch, OutcomeOf(h.result))'
    BY DEF SettleInv, MyTask, MyEpoch, Logged, OutcomeOf
  <1>2. CASE SettledBefore(c)
    <2>1. held'[c] = held[c] /\ mon[c] # "off" /\ loop[c] \in Settling
      BY <1>1, <1>2 DEF SettledBefore
    <2>2. PICK h \in Held : h = held[c]
      BY <2>1 DEF WorkerInv, MemoryInv, Busy, Inside, Settling
    <2>3. h.task \in Task /\ Logged(h.task, h.epoch, OutcomeOf(h.result))
      BY <2>1, <2>2 DEF SettleInv, MyTask, MyEpoch, Held
    <2>4. Logged(h.task, h.epoch, OutcomeOf(h.result))'
      BY <1>0, <2>3, LogGrows
    <2> QED BY <2>1, <2>2, <2>4
  <1>3. CASE Finish(c)
    <2>1. loop[c] \in Busy /\ held[c] \in Held
      BY <1>3 DEF Finish, Busy, Inside, WorkerInv, MemoryInv
    <2>2. PICK t \in Task, e \in Nat : t = MyTask(c) /\ e = MyEpoch(c)
      BY <2>1 DEF Held, MyTask, MyEpoch
    <2>3. /\ \/ Complete(t, e) \/ FailPermanently(t, e) \/ FinalizeCancellation(t, e)
             \/ (\E ready \in BOOLEAN : Fail(t, e, ready))
          /\ held' = [held EXCEPT ![c].result = tasks'[t].status]
      BY <1>0, <1>1, <1>3, <2>2 DEF Finish, Call, Goto, Settling
    <2>4. PICK o \in Outcome : o = OutcomeOf(tasks'[t].status) /\ Logged(t, e, o)'
      BY <1>0, <2>3, EndIsLogged
    <2>5. PICK st \in Status : st = tasks'[t].status
      BY <1>0, StatusAfter
    <2>6. /\ held'[c].task = t /\ held'[c].epoch = e
          /\ held'[c].result = st
      BY <1>0, <2>1, <2>2, <2>3, <2>5 DEF Held, MyTask, MyEpoch
    <2> DEFINE h == [task |-> t, epoch |-> e, result |-> st]
    <2>7. h \in Held /\ h.task = t /\ h.epoch = e /\ h.result = st
      BY DEF Held
    <2>8. Logged(t, e, OutcomeOf(st))'
      BY <2>4, <2>5
    <2>9. Logged(h.task, h.epoch, OutcomeOf(h.result))'
      BY <2>7, <2>8
    <2> HIDE DEF h
    <2> QED BY <2>6, <2>7, <2>9
  <1>4. CASE UNCHANGED vars
    BY <1>2, <1>1, <1>4 DEF SettledBefore, vars
  <1>5. ASSUME NEW d \in Daemon, DaemonStep(d)
        PROVE  SettledBefore(c) \/ Finish(c)
    <2>1. CASE c = d
      BY <1>5, <2>1, OnlyFinishSettles
    <2>2. CASE c # d
      BY <1>5, <2>2, StepIsPrivate DEF Private, SettledBefore
    <2> QED BY <2>1, <2>2
  <1>6. ASSUME NEW t \in Task, World(t)
        PROVE  SettledBefore(c)
    BY <1>6 DEF World, ClientEnqueues, ClientCancels, SubprocessExits, TimePasses, workerVars, SettledBefore
  <1> QED BY <1>2, <1>3, <1>4, <1>5, <1>6 DEF WorkerNext

\* When a worker goes on to reconcile attempts and leases and to schedule the
\* follow-up, task_runs has recorded the outcome it acts on for the very epoch
\* it was given, whoever stopped, recovered or claimed the task in between.
THEOREM WorkersSettleTheirOwn == WorkerSpec => []SettlesOwnAttempt
  <1>1. WorkerInit => SettleInv
    BY DEF WorkerInit, SettleInv
  <1>2. WorkerInv /\ SettleInv /\ [WorkerNext]_vars => SettleInv'
    BY SettleNextInv
  <1>3. SettleInv => SettlesOwnAttempt
    BY DEF SettleInv, SettlesOwnAttempt, Settling, Logged, OutcomeOf
  <1> QED BY <1>1, <1>2, <1>3, WorkerInvariant, PTL DEF WorkerSpec

----------------------------------------------------------------------------
(* A worker does not take its own attempt for an abandoned one *)

\* The attempt of d is claimed or monitored.
Guarded(d) == loop[d] = "claimed" \/ mon[d] # "off"

\* A subprocess belongs to an attempt that was claimed, and to the daemon that
\* holds the attempt.
PidInv ==
  /\ pid \in [Task -> [Attempts -> Daemon \cup {"none", "gone"}]]
  /\ \A t \in Task, e \in Attempts : pid[t][e] # "none" => e <= tasks[t].epoch
  /\ \A d \in Daemon : held[d] # NoAttempt =>
       MyEpoch(d) \in Attempts /\ pid[MyTask(d)][MyEpoch(d)] \in {"none", "gone", d}

\* What a pass has listed was claimed before; of the daemon's own attempt it
\* listed a row with a subprocess, or one that was not stale.
ListedInv(d) ==
  pass[d] # NoPass =>
    \A row \in pass[d].rows :
      /\ row.epoch <= tasks[row.task].epoch
      /\ Guarded(d) /\ row.task = MyTask(d) /\ row.epoch = MyEpoch(d) =>
           pid[row.task][row.epoch] # "none" \/ ~row.stale

\* The row of an attempt whose claim has just returned is not stale.
ClaimedInv(d) ==
  loop[d] = "claimed" /\ tasks[MyTask(d)].epoch = MyEpoch(d) => ~tasks[MyTask(d)].stale

OwnInv == PidInv /\ \A d \in Daemon : ListedInv(d) /\ ClaimedInv(d)

\* A daemon that has an attempt in hand after a step had it before, or has
\* claimed it in the step.
HadBefore(c) ==
  /\ loop'[c] = "claimed" => loop[c] = "claimed"
  /\ (loop'[c] = "claimed" \/ mon'[c] # "off") => Guarded(c)

\* Only a claim brings an attempt into hand.
LEMMA OnlyClaimGuards ==
  ASSUME WorkerInv, NEW d \in Daemon, DaemonStep(d), ~Claim(d)
  PROVE  HadBefore(d)
  <1> USE DEF HadBefore, Guarded, Goto, Rest
  <1>0. /\ loop \in [Daemon -> Loop] /\ mon \in [Daemon -> Mon]
        /\ mon[d] # "off" => loop[d] \in Inside \cup {"done", "raised"}
        /\ pass[d].by = "monitor" /\ pass[d] # NoPass => mon[d] = "pass"
    BY DEF WorkerInv, MemoryInv
  <1>1. CASE LoopStep(d)
    <2>1. CASE ProcessingEnds(d)
      BY <1>0, <2>1 DEF ProcessingEnds
    <2> QED BY <1>0, <1>1, <2>1 DEF LoopStep, BeginTurn, SkipPass, LoopEnds,
                                    StartProcessing, Unexpected, FailCurrent
  <1>2. CASE ProcessingStep(d)
    BY <1>0, <1>2 DEF ProcessingStep, Start, HandlerEnds, CheckCancellation, Finish, Call, Settle,
                      FollowUp, InsertFollowUp
  <1>3. CASE MonitorStep(d) \/ HandlerSpawns(d) \/ HandlerBeats(d)
    BY <1>0, <1>3 DEF MonitorStep, MonitorRead, MonitorTouch, MonitorSkipsPass, Interrupt,
                      HandlerSpawns, HandlerBeats, workerVars, Inside
  <1>4. CASE PassStep(d)
    <2>1. ASSUME NEW by \in {"loop", "periodic", "monitor"}, PassReturns(d, by),
                 by = "monitor" => mon[d] = "pass"
          PROVE  HadBefore(d)
      BY <1>0, <2>1 DEF PassReturns
    <2>2. CASE PassRaises(d)
      BY <1>0, <2>2 DEF PassRaises, PassBy, Interrupt, Inside
    <2>3. CASE UNCHANGED <<loop, mon>>
      BY <2>3
    <2>4. pass[d] # NoPass =>
            /\ pass[d].by \in {"loop", "periodic", "monitor"}
            /\ pass[d].by = "monitor" => mon[d] = "pass"
      BY DEF WorkerInv, MemoryInv, Passes
    <2>5. CASE PassApply(d)
      BY <2>1, <2>2, <2>3, <2>4, <2>5 DEF PassApply
    <2>6. ASSUME NEW by \in {"loop", "periodic", "monitor"}, PassStart(d, by)
          PROVE  HadBefore(d)
      BY <2>1, <2>3, <2>6 DEF PassStart
    <2> QED BY <1>4, <2>5, <2>6 DEF PassStep
  <1>5. CASE Restart(d) \/ Seed(d) \/ StopBegin(d) \/ StopSweep(d)
    BY <1>0, <1>5 DEF Restart, Seed, StopBegin, StopSweep
  <1>6. CASE StopTimeout(d) \/ StopDone(d) \/ Crash(d)
    BY <1>0, <1>6 DEF StopTimeout, StopDone, Crash, Interrupt, Inside
  <1>7. CASE StoreFault(d)
    BY <1>0, <1>7 DEF StoreFault, PassRaises, PassBy, Interrupt, Inside
  <1> QED BY <1>1, <1>2, <1>3, <1>4, <1>5, <1>6, <1>7 DEF DaemonStep

\* The pass of c is over, goes on with fewer rows, or has just listed its rows.
PassMoves(c) ==
  \/ pass'[c] = NoPass
  \/ pass[c] # NoPass /\ pass'[c].rows \subseteq pass[c].rows
  \/ /\ \E by \in {"loop", "periodic", "monitor"} : pass'[c].rows = PassRows(c, by)
     /\ UNCHANGED <<queueVars, loop, mon, held, pid>>

\* No step adds a row to a pass that has listed its rows.
LEMMA PassesMove ==
  ASSUME WorkerInv, [WorkerNext]_vars
  PROVE  \A c \in Daemon : PassMoves(c)
  <1>0. pass \in [Daemon -> Passes \cup {NoPass}]
    BY DEF WorkerInv, MemoryInv
  <1>1. ASSUME UNCHANGED pass
        PROVE  \A c \in Daemon : PassMoves(c)
    BY <1>1 DEF PassMoves
  <1>2. ASSUME NEW d \in Daemon, pass' = [pass EXCEPT ![d] = NoPass]
        PROVE  \A c \in Daemon : PassMoves(c)
    BY <1>0, <1>2 DEF PassMoves
  <1>3. ASSUME NEW d \in Daemon, PassApply(d)
        PROVE  \A c \in Daemon : PassMoves(c)
    <2>1. pass[d] \in Passes /\ pass[d] # NoPass
      BY <1>0, <1>3 DEF PassApply
    <2>2. ASSUME NEW row \in pass[d].rows, pass' = [pass EXCEPT ![d].rows = pass[d].rows \ {row}]
          PROVE  \A c \in Daemon : PassMoves(c)
      <3>1. pass'[d].rows = pass[d].rows \ {row} /\ \A c \in Daemon : c # d => pass'[c] = pass[c]
        BY <1>0, <2>1, <2>2 DEF Passes
      <3> QED BY <2>1, <3>1 DEF PassMoves
    <2> QED BY <1>2, <1>3, <2>2 DEF PassApply, PassRaises
  <1>4. ASSUME NEW d \in Daemon, NEW by \in {"loop", "periodic", "monitor"}, PassStart(d, by)
        PROVE  \A c \in Daemon : PassMoves(c)
    <2>1. CASE pass' = [pass EXCEPT ![d] = [by |-> by, rows |-> PassRows(d, by)]] /\ UNCHANGED <<loop, mon>>
      <3>1. /\ pass'[d].rows = PassRows(d, by)
            /\ \A c \in Daemon : c # d => pass'[c] = pass[c]
            /\ UNCHANGED <<queueVars, loop, mon, held, pid>>
        BY <1>0, <1>4, <2>1 DEF PassStart
      <3> QED BY <3>1 DEF PassMoves
    <2> QED BY <1>1, <1>4, <2>1 DEF PassStart
  <1>5. CASE UNCHANGED vars
    BY <1>1, <1>5 DEF vars
  <1>6. ASSUME NEW d \in Daemon, DaemonStep(d)
        PROVE  \A c \in Daemon : PassMoves(c)
    <2>1. CASE LoopStep(d) \/ ProcessingStep(d)
      BY <1>1, <2>1 DEF LoopStep, BeginTurn, SkipPass, LoopEnds, Claim, StartProcessing,
                        ProcessingEnds, Unexpected, FailCurrent, ProcessingStep, Start, HandlerEnds,
                        CheckCancellation, Finish, Settle, FollowUp, InsertFollowUp
    <2>2. CASE MonitorStep(d) \/ HandlerSpawns(d) \/ HandlerBeats(d)
      BY <1>1, <2>2 DEF MonitorStep, MonitorRead, MonitorTouch, MonitorSkipsPass,
                        HandlerSpawns, HandlerBeats, workerVars
    <2>3. CASE PassStep(d)
      BY <1>3, <1>4, <2>3 DEF PassStep
    <2>4. CASE Restart(d) \/ Seed(d) \/ StopBegin(d) \/ StopSweep(d) \/ StopDone(d)
      BY <1>1, <2>4 DEF Restart, Seed, StopBegin, StopSweep, StopDone
    <2>5. CASE StopTimeout(d) \/ Crash(d)
      BY <1>2, <2>5 DEF StopTimeout, Crash
    <2>6. CASE StoreFault(d)
      BY <1>1, <1>2, <2>6 DEF StoreFault, PassRaises
    <2> QED BY <1>6, <2>1, <2>2, <2>3, <2>4, <2>5, <2>6 DEF DaemonStep
  <1>7. ASSUME NEW t \in Task, World(t)
        PROVE  \A c \in Daemon : PassMoves(c)
    BY <1>1, <1>7 DEF World, ClientEnqueues, ClientCancels, SubprocessExits, TimePasses, workerVars
  <1> QED BY <1>5, <1>6, <1>7 DEF WorkerNext

\* A subprocess starts for the attempt of the daemon that starts it, or ends.
PidMoves(t, e) ==
  \/ pid'[t][e] = pid[t][e]
  \/ pid'[t][e] = "gone" /\ pid[t][e] # "none"
  \/ \E d \in Daemon : /\ HandlerSpawns(d) /\ pid'[t][e] = d
                       /\ t = MyTask(d) /\ e = MyEpoch(d)

\* No step does anything else to the attempts' subprocesses.
LEMMA PidsMove ==
  ASSUME WorkerInv, PidInv, [WorkerNext]_vars
  PROVE  /\ pid' \in [Task -> [Attempts -> Daemon \cup {"none", "gone"}]]
         /\ \A t \in Task, e \in Attempts : PidMoves(t, e)
  <1>0. pid \in [Task -> [Attempts -> Daemon \cup {"none", "gone"}]]
    BY DEF PidInv
  <1>1. CASE UNCHANGED pid
    BY <1>0, <1>1 DEF PidMoves
  <1>2. ASSUME NEW d \in Daemon, HandlerSpawns(d)
        PROVE  /\ pid' \in [Task -> [Attempts -> Daemon \cup {"none", "gone"}]]
               /\ \A t \in Task, e \in Attempts : PidMoves(t, e)
    <2>1. held[d] \in Held /\ held[d] # NoAttempt
      BY <1>2, NothingAssumption DEF HandlerSpawns, Busy, Inside, WorkerInv, MemoryInv
    <2>2. MyTask(d) \in Task /\ MyEpoch(d) \in Attempts
      BY <2>1 DEF PidInv, MyTask, Held
    <2>3. pid' = [pid EXCEPT ![MyTask(d)][MyEpoch(d)] = d]
      BY <1>2 DEF HandlerSpawns
    <2>4. /\ pid' \in [Task -> [Attempts -> Daemon \cup {"none", "gone"}]]
          /\ pid'[MyTask(d)][MyEpoch(d)] = d
          /\ \A t \in Task, e \in Attempts :
               t # MyTask(d) \/ e # MyEpoch(d) => pid'[t][e] = pid[t][e]
      BY <1>0, <2>2, <2>3
    <2> QED BY <1>2, <2>4 DEF PidMoves
  <1>3. ASSUME NEW u \in Task, SubprocessExits(u)
        PROVE  /\ pid' \in [Task -> [Attempts -> Daemon \cup {"none", "gone"}]]
               /\ \A t \in Task, e \in Attempts : PidMoves(t, e)
    <2>1. PICK x \in Attempts : pid[u][x] \in Daemon /\ pid' = [pid EXCEPT ![u][x] = "gone"]
      BY <1>3 DEF SubprocessExits
    <2>2. /\ pid' \in [Task -> [Attempts -> Daemon \cup {"none", "gone"}]]
          /\ pid'[u][x] = "gone" /\ pid[u][x] # "none"
          /\ \A t \in Task, e \in Attempts : t # u \/ e # x => pid'[t][e] = pid[t][e]
      BY <1>0, <2>1, WorkerAssumption
    <2> QED BY <2>2 DEF PidMoves
  <1>4. ASSUME NEW d \in Daemon, DaemonStep(d)
        PROVE  HandlerSpawns(d) \/ UNCHANGED pid
    <2>1. CASE LoopStep(d) \/ ProcessingStep(d)
      BY <2>1 DEF LoopStep, BeginTurn, SkipPass, LoopEnds, Claim, StartProcessing,
                  ProcessingEnds, Unexpected, FailCurrent, ProcessingStep, Start, HandlerEnds,
                  CheckCancellation, Finish, Settle, FollowUp, InsertFollowUp
    <2>2. CASE MonitorStep(d) \/ PassStep(d) \/ HandlerBeats(d)
      BY <2>2 DEF MonitorStep, MonitorRead, MonitorTouch, MonitorSkipsPass, PassStep, PassStart,
                  PassApply, HandlerBeats, workerVars
    <2>3. CASE \/ Restart(d) \/ Seed(d) \/ StopBegin(d) \/ StopSweep(d)
               \/ StopTimeout(d) \/ StopDone(d) \/ Crash(d) \/ StoreFault(d)
      BY <2>3 DEF Restart, Seed, StopBegin, StopSweep, StopTimeout, StopDone, Crash, StoreFault
    <2> QED BY <1>4, <2>1, <2>2, <2>3 DEF DaemonStep
  <1>5. ASSUME NEW t \in Task, World(t)
        PROVE  SubprocessExits(t) \/ UNCHANGED pid
    BY <1>5 DEF World, ClientEnqueues, ClientCancels, TimePasses, workerVars
  <1>6. UNCHANGED vars => UNCHANGED pid
    BY DEF vars
  <1> QED BY <1>1, <1>2, <1>3, <1>4, <1>5, <1>6 DEF WorkerNext

\* Daemon c claims attempt e of t.
Takes(c, t, e) ==
  /\ loop[c] = "claiming" /\ ClaimNext(t) /\ e = tasks[t].epoch + 1
  /\ held'[c].task = t /\ held'[c].epoch = e
  /\ tasks'[t].epoch = e /\ tasks'[t].stale = FALSE
  /\ UNCHANGED <<pid, pass>>

\* Daemon c has what it had.
Has(c) == KeepsHeld(c) /\ HadBefore(c)

\* In every step each daemon keeps or drops what it has in hand, or takes a
\* fresh attempt.
LEMMA HandStep ==
  ASSUME WorkerInv, [WorkerNext]_vars, NEW c \in Daemon
  PROVE  Has(c) \/ \E t \in Task, e \in Nat : Takes(c, t, e)
  <1>0. /\ held \in [Daemon -> Held \cup {NoAttempt}] /\ loop \in [Daemon -> Loop]
        /\ tasks \in [Task -> Row] /\ \A t \in Task : tasks[t].epoch \in Nat
    BY DEF WorkerInv, MemoryInv, QueueInv, TypeOK, Row
  <1>1. ASSUME held'[c] = held[c], loop'[c] = loop[c], mon'[c] = mon[c]
        PROVE  Has(c)
    BY <1>1 DEF Has, KeepsHeld, HadBefore, Guarded
  <1>2. CASE Claim(c)
    <2>1. CASE Goto(c, "poll") /\ UNCHANGED held
      <3>1. loop'[c] = "poll" /\ mon' = mon
        BY <1>0, <1>2, <2>1 DEF Claim, Goto
      <3> QED BY <2>1, <3>1 DEF Has, KeepsHeld, HadBefore, Guarded
    <2>2. ASSUME NEW t \in Task, ClaimNext(t),
                 held' = [held EXCEPT ![c] = [task |-> t, epoch |-> tasks'[t].epoch,
                                              result |-> "running"]]
          PROVE  \E e \in Nat : Takes(c, t, e)
      <3>1. tasks' = [tasks EXCEPT ![t] = ClaimRow(tasks[t])] /\ tasks[t] \in Row
        BY <1>0, <2>2 DEF ClaimNext, SetRow
      <3>2. ClaimRow(tasks[t]).epoch = tasks[t].epoch + 1
        BY <3>1, ClaimRowType
      <3>3. ClaimRow(tasks[t]).stale = FALSE
        BY <3>1 DEF ClaimRow, Row
      <3>4. tasks'[t].epoch = tasks[t].epoch + 1 /\ tasks'[t].stale = FALSE
        BY <1>0, <3>1, <3>2, <3>3
      <3>5. held'[c].task = t /\ held'[c].epoch = tasks'[t].epoch
        BY <1>0, <2>2
      <3>6. loop[c] = "claiming" /\ UNCHANGED <<pid, pass>>
        BY <1>2 DEF Claim
      <3>7. tasks[t].epoch + 1 \in Nat
        BY <1>0
      <3> QED BY <2>2, <3>4, <3>5, <3>6, <3>7 DEF Takes
    <2> QED BY <1>2, <2>1, <2>2 DEF Claim
  <1>3. ASSUME NEW d \in Daemon, DaemonStep(d), c # d
        PROVE  Has(c)
    BY <1>1, <1>3, StepIsPrivate DEF Private
  <1>4. CASE UNCHANGED vars
    BY <1>1, <1>4 DEF vars
  <1>5. ASSUME NEW t \in Task, World(t)
        PROVE  Has(c)
    BY <1>1, <1>5 DEF World, ClientEnqueues, ClientCancels, SubprocessExits, TimePasses, workerVars
  <1>6. ASSUME DaemonStep(c), ~Claim(c)
        PROVE  Has(c)
    <2>1. HadBefore(c)
      BY <1>6, OnlyClaimGuards
    <2>2. CASE ~\E d \in Daemon : Claim(d)
      BY <2>1, <2>2, OnlyClaimTakes DEF Has
    <2>3. ASSUME NEW d \in Daemon, Claim(d)
          PROVE  Has(c)
      <3>1. DaemonStep(d) /\ c # d
        BY <1>6, <2>3 DEF DaemonStep, LoopStep
      <3> QED BY <1>3, <3>1
    <2> QED BY <2>2, <2>3
  <1> QED BY <1>2, <1>3, <1>4, <1>5, <1>6 DEF WorkerNext

\* The subprocesses stay with the attempts of the daemons that started them.
LEMMA PidNextInv ==
  ASSUME WorkerInv, HeldInv, CountInv, PidInv, [WorkerNext]_vars
  PROVE  PidInv'
  <1>0. /\ [Next]_queueVars /\ QueueInv /\ WorkerInv' /\ CountInv'
        /\ \A t \in Task : tasks[t].epoch \in Nat /\ tasks'[t].epoch \in Nat
        /\ \A t \in Task : tasks'[t].epoch >= tasks[t].epoch
        /\ \A e \in Attempts : e \in Nat /\ e # 0
        /\ held \in [Daemon -> Held \cup {NoAttempt}]
    <2>1. [Next]_queueVars /\ QueueInv /\ WorkerInv' /\ CountInv'
      BY StepRefines, WorkerNextInv, CountNextInv DEF WorkerInv
    <2>2. \A t \in Task : tasks[t].epoch \in Nat /\ tasks'[t].epoch \in Nat
      BY <2>1 DEF WorkerInv, QueueInv, TypeOK, Row
    <2> QED BY <2>1, <2>2, EpochGrows DEF Attempts, WorkerInv, MemoryInv
  <1>1. /\ pid' \in [Task -> [Attempts -> Daemon \cup {"none", "gone"}]]
        /\ \A t \in Task, e \in Attempts : PidMoves(t, e)
    BY PidsMove
  <1>2. ASSUME NEW t \in Task, NEW e \in Attempts, pid'[t][e] # "none"
        PROVE  e <= tasks'[t].epoch
    <2>1. CASE pid[t][e] # "none"
      BY <1>0, <2>1 DEF PidInv
    <2>2. ASSUME NEW d \in Daemon, HandlerSpawns(d), t = MyTask(d), e = MyEpoch(d)
          PROVE  e <= tasks'[t].epoch
      <3>1. held[d] \in Held /\ held[d] # NoAttempt
        BY <2>2, NothingAssumption DEF HandlerSpawns, Busy, Inside, WorkerInv, MemoryInv
      <3>2. e <= tasks[t].epoch
        BY <2>2, <3>1 DEF HeldInv
      <3> QED BY <1>0, <3>2
    <2> QED BY <1>1, <1>2, <2>1, <2>2 DEF PidMoves
  <1>3. ASSUME NEW c \in Daemon, held'[c] # NoAttempt
        PROVE  /\ held'[c].epoch \in Attempts
               /\ pid'[held'[c].task][held'[c].epoch] \in {"none", "gone", c}
    <2>1. CASE Has(c)
      <3>1. /\ held[c] # NoAttempt /\ held[c] \in Held
            /\ held'[c].task = held[c].task /\ held'[c].epoch = held[c].epoch
        BY <1>0, <1>3, <2>1 DEF Has, KeepsHeld
      <3>2. PICK t \in Task, e \in Attempts : t = held[c].task /\ e = held[c].epoch
        BY <3>1 DEF PidInv, MyEpoch, Held
      <3>3. pid[t][e] \in {"none", "gone", c}
        BY <3>1, <3>2 DEF PidInv, MyTask, MyEpoch
      <3>4. ASSUME NEW d \in Daemon, HandlerSpawns(d), t = MyTask(d), e = MyEpoch(d)
            PROVE  d = c
        <4>1. held[d] \in Held /\ held[d] # NoAttempt
          BY <3>4, NothingAssumption DEF HandlerSpawns, Busy, Inside, WorkerInv, MemoryInv
        <4> QED BY <3>1, <3>2, <3>4, <4>1 DEF HeldInv, AttemptsExclusive, MyTask, MyEpoch
      <3>5. PidMoves(t, e)
        BY <1>1
      <3>6. pid'[t][e] \in {"none", "gone", c}
        BY <3>3, <3>4, <3>5 DEF PidMoves
      <3> QED BY <3>1, <3>2, <3>6
    <2>2. ASSUME NEW t \in Task, NEW e \in Nat, Takes(c, t, e)
          PROVE  e \in Attempts /\ pid'[t][e] \in {"none", "gone", c}
      <3>1. e = tasks[t].epoch + 1 /\ tasks'[t].epoch = e /\ pid' = pid
        BY <2>2 DEF Takes
      <3>2. e \in Attempts
        BY <1>0, <3>1 DEF CountInv
      <3>3. pid[t][e] = "none"
        BY <1>0, <3>1, <3>2 DEF PidInv
      <3> QED BY <3>1, <3>2, <3>3
    <2>3. ASSUME NEW t \in Task, NEW e \in Nat, Takes(c, t, e)
          PROVE  held'[c].task = t /\ held'[c].epoch = e
      BY <2>3 DEF Takes
    <2> QED BY <2>1, <2>2, <2>3, HandStep
  <1> QED BY <1>1, <1>2, <1>3 DEF PidInv, MyTask, MyEpoch

\* The row of an attempt whose claim has just returned does not age.
LEMMA ClaimedNextInv ==
  ASSUME WorkerInv, HeldInv, [WorkerNext]_vars, NEW c \in Daemon, ClaimedInv(c)
  PROVE  ClaimedInv(c)'
  <1> SUFFICES ASSUME loop'[c] = "claimed", tasks'[held'[c].task].epoch = held'[c].epoch
               PROVE  ~tasks'[held'[c].task].stale
    BY DEF ClaimedInv, MyTask, MyEpoch
  <1>0. /\ [Next]_queueVars /\ QueueInv /\ WorkerInv'
        /\ held \in [Daemon -> Held \cup {NoAttempt}]
    BY StepRefines, WorkerNextInv DEF WorkerInv, MemoryInv
  <1>1. CASE Has(c)
    <2>1. held'[c] # NoAttempt
      BY <1>0, NothingAssumption DEF WorkerInv, MemoryInv, Busy
    <2>2. /\ loop[c] = "claimed" /\ held[c] # NoAttempt /\ held[c] \in Held
          /\ held'[c].task = held[c].task /\ held'[c].epoch = held[c].epoch
      BY <1>0, <1>1, <2>1 DEF Has, HadBefore, KeepsHeld
    <2>3. PICK t \in Task, e \in Nat : t = held[c].task /\ e = held[c].epoch
      BY <2>2 DEF Held
    <2>4. e <= tasks[t].epoch /\ tasks'[t].epoch = e
      BY <2>2, <2>3 DEF HeldInv, MyTask, MyEpoch
    <2>5. tasks[t].epoch \in Nat /\ tasks'[t].epoch >= tasks[t].epoch
      BY <1>0, EpochGrows DEF QueueInv, TypeOK, Row
    <2>6. tasks[t].epoch = e
      BY <2>4, <2>5
    <2>7. ~tasks[t].stale
      BY <2>2, <2>3, <2>6 DEF ClaimedInv, MyTask, MyEpoch
    <2>8. CASE WorkerCall
      BY <2>2, <2>3, <2>7, <2>8, Zenon DEF WorkerCall, NoRowAges
    <2>9. CASE UNCHANGED queueVars
      BY <2>2, <2>3, <2>7, <2>9 DEF queueVars
    <2>10. ASSUME NEW u \in Task, TimePasses(u), GoStale(u)
           PROVE  ~tasks'[held'[c].task].stale
      <3>1. u # t
        BY <2>2, <2>3, <2>7, <2>10 DEF TimePasses, GoStale, BecomeReady, MyTask
      <3>2. tasks'[t] = tasks[t]
        BY <1>0, <2>10, <3>1 DEF GoStale, SetRow, QueueInv, TypeOK
      <3> QED BY <2>2, <2>3, <2>7, <3>2
    <2> QED BY <2>8, <2>9, <2>10, StepIsCall
  <1>2. ASSUME NEW t \in Task, NEW e \in Nat, Takes(c, t, e)
        PROVE  ~tasks'[held'[c].task].stale
    BY <1>2 DEF Takes
  <1> QED BY <1>1, <1>2, HandStep

\* What the passes have listed stays true of the daemon's own attempt.
LEMMA ListedNextInv ==
  ASSUME WorkerInv, HeldInv, CountInv, OwnInv, [WorkerNext]_vars, NEW c \in Daemon
  PROVE  ListedInv(c)'
  <1> SUFFICES ASSUME pass'[c] # NoPass, NEW row \in pass'[c].rows
               PROVE  /\ row.epoch <= tasks'[row.task].epoch
                      /\ Guarded(c)' /\ row.task = held'[c].task /\ row.epoch = held'[c].epoch =>
                           pid'[row.task][row.epoch] # "none" \/ ~row.stale
    BY DEF ListedInv, MyTask, MyEpoch
  <1>0. /\ [Next]_queueVars /\ QueueInv /\ WorkerInv' /\ PidInv' /\ PidInv
        /\ held \in [Daemon -> Held \cup {NoAttempt}]
        /\ pass' \in [Daemon -> Passes \cup {NoPass}]
        /\ \A t \in Task : tasks[t].epoch \in Nat /\ tasks'[t].epoch \in Nat
    <2>1. [Next]_queueVars /\ QueueInv /\ WorkerInv' /\ PidInv' /\ PidInv
      BY StepRefines, WorkerNextInv, PidNextInv DEF WorkerInv, OwnInv
    <2>2. \A t \in Task : tasks[t].epoch \in Nat /\ tasks'[t].epoch \in Nat
      BY <2>1 DEF WorkerInv, QueueInv, TypeOK, Row
    <2> QED BY <2>1, <2>2 DEF WorkerInv, MemoryInv
  <1>1. \A t \in Task : tasks'[t].epoch >= tasks[t].epoch
    BY <1>0, EpochGrows
  <1>2. row \in Listed /\ row.task \in Task /\ row.epoch \in Nat /\ row.stale \in BOOLEAN
    <2>1. pass'[c] \in Passes
      BY <1>0
    <2>2. row \in Listed
      BY <2>1 DEF Passes
    <2> QED BY <2>2 DEF Listed
  <1>3. Guarded(c)' => held'[c] # NoAttempt
    <2>1. Guarded(c)' => loop'[c] \in Busy
      BY <1>0 DEF Guarded, WorkerInv, MemoryInv, Busy
    <2> QED BY <1>0, <2>1, NothingAssumption DEF WorkerInv, MemoryInv
  <1>4. CASE pass[c] # NoPass /\ row \in pass[c].rows
    <2>1. /\ row.epoch <= tasks[row.task].epoch
          /\ Guarded(c) /\ row.task = held[c].task /\ row.epoch = held[c].epoch =>
               pid[row.task][row.epoch] # "none" \/ ~row.stale
      BY <1>4 DEF OwnInv, ListedInv, MyTask, MyEpoch
    <2>2. row.epoch <= tasks'[row.task].epoch
      BY <1>0, <1>1, <1>2, <2>1
    <2>3. ASSUME Guarded(c)', row.task = held'[c].task, row.epoch = held'[c].epoch
          PROVE  pid'[row.task][row.epoch] # "none" \/ ~row.stale
      <3>1. CASE Has(c)
        <4>1. /\ Guarded(c) /\ held[c] # NoAttempt
              /\ row.task = held[c].task /\ row.epoch = held[c].epoch
          BY <1>3, <2>3, <3>1 DEF Has, HadBefore, KeepsHeld, Guarded
        <4>2. row.epoch \in Attempts
          BY <1>0, <4>1 DEF PidInv, MyEpoch
        <4>3. PidMoves(row.task, row.epoch)
          BY <1>0, <1>2, <4>2, PidsMove
        <4>4. pid[row.task][row.epoch] # "none" => pid'[row.task][row.epoch] # "none"
          BY <4>3, WorkerAssumption DEF PidMoves
        <4> QED BY <2>1, <4>1, <4>4
      <3>2. ASSUME NEW t \in Task, NEW e \in Nat, Takes(c, t, e)
            PROVE  FALSE
        <4>1. row.task = t /\ row.epoch = tasks[t].epoch + 1
          BY <2>3, <3>2 DEF Takes
        <4> QED BY <1>0, <2>1, <4>1
      <3> QED BY <3>1, <3>2, HandStep
    <2> QED BY <2>2, <2>3
  <1>5. ASSUME NEW by \in {"loop", "periodic", "monitor"}, row \in PassRows(c, by),
               UNCHANGED <<queueVars, loop, mon, held, pid>>
        PROVE  /\ row.epoch <= tasks'[row.task].epoch
               /\ Guarded(c)' /\ row.task = held'[c].task /\ row.epoch = held'[c].epoch =>
                    pid'[row.task][row.epoch] # "none" \/ ~row.stale
    <2>1. PICK t \in Task :
            /\ tasks[t].status = "running"
            /\ Owned(c, t, tasks[t].epoch) => by = "monitor" /\ pid[t][tasks[t].epoch] # "none"
            /\ row = [task |-> t, epoch |-> tasks[t].epoch, cancel |-> tasks[t].cancel,
                      stale |-> tasks[t].stale]
      BY <1>5 DEF PassRows
    <2>2. row.task = t /\ row.epoch = tasks[t].epoch /\ row.stale = tasks[t].stale
      BY <2>1
    <2>3. /\ tasks'[t].epoch = tasks[t].epoch /\ held'[c] = held[c] /\ pid' = pid
          /\ Guarded(c)' => Guarded(c)
      BY <1>5 DEF queueVars, Guarded
    <2>4. ASSUME Guarded(c), t = held[c].task, tasks[t].epoch = held[c].epoch
          PROVE  pid[t][tasks[t].epoch] # "none" \/ ~tasks[t].stale
      <3>1. CASE mon[c] # "off"
        BY <2>1, <2>4, <3>1 DEF Owned, MyTask, MyEpoch
      <3>2. CASE loop[c] = "claimed"
        BY <2>4, <3>2 DEF OwnInv, ClaimedInv, MyTask, MyEpoch
      <3> QED BY <2>4, <3>1, <3>2 DEF Guarded
    <2>5. row.epoch <= tasks'[row.task].epoch
      BY <1>0, <2>2, <2>3
    <2> QED BY <2>2, <2>3, <2>4, <2>5
  <1>6. PassMoves(c)
    BY PassesMove
  <1> QED BY <1>4, <1>5, <1>6 DEF PassMoves

\* The invariant of the passes and the subprocesses holds of every reachable
\* state.
LEMMA OwnInvariant == WorkerSpec => []OwnInv
  <1>1. WorkerInit => OwnInv
    BY DEF WorkerInit, OwnInv, PidInv, ListedInv, ClaimedInv
  <1>2. WorkerInit => HeldInv
    BY DEF WorkerInit, HeldInv, AttemptsExclusive
  <1>3. WorkerInv /\ HeldInv /\ [WorkerNext]_vars => HeldInv'
    BY HeldNextInv
  <1>4. ASSUME WorkerInv, HeldInv, CountInv, OwnInv, [WorkerNext]_vars
        PROVE  OwnInv'
    <2>1. PidInv'
      BY <1>4, PidNextInv DEF OwnInv
    <2>2. \A d \in Daemon : ListedInv(d)'
      BY <1>4, ListedNextInv
    <2>3. \A d \in Daemon : ClaimedInv(d)'
      BY <1>4, ClaimedNextInv DEF OwnInv
    <2> QED BY <2>1, <2>2, <2>3 DEF OwnInv
  <1> QED BY <1>1, <1>2, <1>3, <1>4, WorkerInvariant, CountInvariant, PTL DEF WorkerSpec

\* A reconciliation pass fails an attempt that its own daemon is processing
\* only when the subprocess of the attempt is gone, however long the handler
\* takes and however the pass overlaps with the claim.
THEOREM OwnAttemptsKept == WorkerSpec => OwnAttemptKept
  <1>1. ASSUME WorkerInv, OwnInv, NEW d \in Daemon, mon[d] # "off", Mine(d), PassApply(d),
               loop[d] \in {"start", "handler"},
               tasks'[MyTask(d)].status \in {"pending", "failed"}
        PROVE  pid[MyTask(d)][MyEpoch(d)] = "gone"
    <2> DEFINE m == MyTask(d)
    <2>1. held[d] \in Held /\ held[d] # NoAttempt /\ m \in Task /\ MyEpoch(d) \in Nat
      BY <1>1, NothingAssumption DEF Busy, Inside, WorkerInv, MemoryInv, MyTask, MyEpoch, Held
    <2>2. /\ tasks[m].status = "running" /\ tasks[m].epoch = MyEpoch(d)
          /\ tasks \in [Task -> Row]
      BY <1>1, <2>1, EpochAssumption DEF Mine, RunningFor, WorkerInv, QueueInv, TypeOK
    <2>3. tasks'[m].status # "running"
      BY <1>1
    <2>4. pass[d] # NoPass /\ pass[d] \in Passes
      BY <1>1 DEF PassApply, WorkerInv, MemoryInv
    <2>5. \A row \in pass[d].rows : row \in Listed
      BY <2>4 DEF Passes
    <2>6. PICK row \in pass[d].rows : \E alive \in Alive(d, row.task, row.epoch) :
            \/ /\ Plan(row, pid[row.task][row.epoch] # "none", alive) = "finalize"
               /\ FinalizeCancellation(row.task, row.epoch)
            \/ /\ Plan(row, pid[row.task][row.epoch] # "none", alive) = "fail"
               /\ \E ready \in BOOLEAN : Fail(row.task, row.epoch, ready)
      <3>1. ~UNCHANGED queueVars
        BY <2>2, <2>3 DEF queueVars
      <3> QED BY <1>1, <3>1 DEF PassApply
    <2>7. row.task \in Task /\ row.epoch \in Nat /\ row.stale \in BOOLEAN
      BY <2>5 DEF Listed
    <2>8. PICK r : tasks' = [tasks EXCEPT ![row.task] = r]
      BY <2>6 DEF FinalizeCancellation, Fail, EndAttempt, SetRow
    <2>9. row.task = m
      BY <2>1, <2>2, <2>3, <2>7, <2>8
    <2>10. RunningFor(row.task, row.epoch)
      BY <2>6 DEF FinalizeCancellation, Fail, EndAttempt
    <2>11. row.epoch = MyEpoch(d)
      BY <2>2, <2>7, <2>9, <2>10, EpochAssumption DEF RunningFor
    <2>12. pid[row.task][row.epoch] # "none" \/ ~row.stale
      BY <1>1, <2>4, <2>9, <2>11 DEF OwnInv, ListedInv, Guarded
    <2>13. pid[row.task][row.epoch] \in {"none", "gone", d}
      BY <1>1, <2>1, <2>9, <2>11 DEF OwnInv, PidInv
    <2>14. CASE FinalizeCancellation(row.task, row.epoch)
      <3> DEFINE x == [tasks[m] EXCEPT !.status = "cancelled", !.proc = "none"]
      <3>1. tasks' = [tasks EXCEPT ![m] = x]
        BY <2>9, <2>14 DEF FinalizeCancellation, EndAttempt, SetRow
      <3>2. x.status = "cancelled"
        BY <2>1, <2>2 DEF Row
      <3> HIDE DEF x
      <3>3. tasks'[m].status = "cancelled"
        BY <2>1, <2>2, <3>1, <3>2
      <3> QED BY <1>1, <3>3
    <2>15. ASSUME NEW alive \in Alive(d, row.task, row.epoch),
                  Plan(row, pid[row.task][row.epoch] # "none", alive) = "fail"
           PROVE  pid[MyTask(d)][MyEpoch(d)] = "gone"
      <3>1. row.stale /\ ~(pid[row.task][row.epoch] # "none" /\ alive)
        BY <2>15 DEF Plan
      <3>2. pid[row.task][row.epoch] = d => pid[row.task][row.epoch] = "gone" \/ alive = TRUE
        BY <2>15 DEF Alive
      <3> QED BY <2>9, <2>11, <2>12, <2>13, <3>1, <3>2
    <2> QED BY <2>6, <2>14, <2>15
  <1>2. WorkerInv /\ OwnInv /\ [WorkerNext]_vars =>
          [\A d \in Daemon :
             /\ mon[d] # "off" /\ loop[d] \in {"start", "handler"} /\ Mine(d)
             /\ PassApply(d)
             /\ tasks'[MyTask(d)].status \in {"pending", "failed"}
             => pid[MyTask(d)][MyEpoch(d)] = "gone"]_vars
    BY <1>1
  <1> QED BY <1>2, WorkerInvariant, OwnInvariant, PTL DEF WorkerSpec, OwnAttemptKept

----------------------------------------------------------------------------
(* The run loop of a daemon that has the store for itself *)

\* Rows a pass has listed, of attempts that all still run in the table, one of
\* each task.
Current(table, rows) ==
  /\ \A row \in rows : table[row.task].status = "running" /\ table[row.task].epoch = row.epoch
  /\ \A r, s \in rows : r.task = s.task => r = s

\* What remains of the bound on store errors is part of it.
BudgetInv ==
  /\ left \in [{"crash", "stop", "cancel", "spawn", "pause", "missing", "fault"} -> Nat]
  /\ left["fault"] <= Bound["fault"]

\* A pass of the run loop finds what it has listed, and a loop that has ended
\* has met a store error.
SurvivalInv(d) ==
  /\ PassBy(d, "loop") => Current(tasks, pass[d].rows)
  /\ loop[d] = "dead" => left["fault"] < Bound["fault"]

\* No attempt ends and none begins.
AttemptsGoOn ==
  \A t \in Task : tasks[t].status = "running" =>
    tasks'[t].status = "running" /\ tasks'[t].epoch = tasks[t].epoch

\* The calls that leave the attempts alone.
LEMMA CallGoesOn ==
  ASSUME QueueInv, NEW t \in Task,
         \/ RequestCancel(t) \/ BecomeReady(t) \/ GoStale(t)
         \/ \E p \in Priority, ready \in BOOLEAN : Enqueue(t, p, ready)
         \/ UNCHANGED queueVars
  PROVE  AttemptsGoOn
  <1>1. tasks \in [Task -> Row]
    BY DEF QueueInv, TypeOK
  <1>2. CASE UNCHANGED queueVars
    BY <1>2 DEF queueVars, AttemptsGoOn
  <1>3. ASSUME tasks[t].status # "running", NEW r, tasks' = [tasks EXCEPT ![t] = r]
        PROVE  AttemptsGoOn
    BY <1>1, <1>3 DEF AttemptsGoOn
  <1>4. CASE tasks[t].status # "running"
    BY <1>2, <1>3, <1>4 DEF RequestCancel, BecomeReady, GoStale, Enqueue, SetRow
  <1>5. CASE tasks[t].status = "running" /\ ~UNCHANGED queueVars
    <2>1. RequestCancel(t) \/ GoStale(t)
      BY <1>5 DEF BecomeReady, Enqueue
    <2>2. PICK r \in {[tasks[t] EXCEPT !.cancel = TRUE, !.stale = FALSE],
                      [tasks[t] EXCEPT !.stale = TRUE]} : tasks' = [tasks EXCEPT ![t] = r]
      BY <1>5, <2>1 DEF RequestCancel, GoStale, SetRow
    <2>3. r.status = tasks[t].status /\ r.epoch = tasks[t].epoch
      BY <1>1, <2>2 DEF Row
    <2> QED BY <1>1, <1>5, <2>2, <2>3 DEF AttemptsGoOn
  <1> QED BY <1>2, <1>4, <1>5

\* What a step does to the pass of the run loop, and that only a store error
\* ends the loop.
Survives(d) ==
  /\ PassBy(d, "loop")' =>
       \/ PassBy(d, "loop") /\ pass'[d] = pass[d] /\ AttemptsGoOn
       \/ Current(tasks', pass'[d].rows)
  /\ loop'[d] = "dead" => loop[d] = "dead" \/ StoreFault(d)

\* The run loop and the processing do not go on during a pass of the loop.
LEMMA LoopSurvives ==
  ASSUME WorkerInv, NEW d \in Daemon, LoopStep(d) \/ ProcessingStep(d)
  PROVE  Survives(d)
  <1>0. loop \in [Daemon -> Loop] /\ pass \in [Daemon -> Passes \cup {NoPass}]
    BY DEF WorkerInv, MemoryInv
  <1>1. ~PassBy(d, "loop")
    <2>1. CASE loop[d] = "turn"
      BY <2>1 DEF LoopStep, BeginTurn, SkipPass, LoopEnds, Claim, StartProcessing, ProcessingEnds,
                  Unexpected, FailCurrent, ProcessingStep, Start, HandlerEnds, CheckCancellation,
                  Finish, Settle, FollowUp, InsertFollowUp
    <2>2. CASE loop[d] = "boot"
      BY <2>2 DEF LoopStep, BeginTurn, SkipPass, LoopEnds, Claim, StartProcessing, ProcessingEnds,
                  Unexpected, FailCurrent, ProcessingStep, Start, HandlerEnds, CheckCancellation,
                  Finish, Settle, FollowUp, InsertFollowUp
    <2> QED BY <2>1, <2>2 DEF WorkerInv, MemoryInv, PassBy
  <1>2. UNCHANGED pass
    BY DEF LoopStep, BeginTurn, SkipPass, LoopEnds, Claim, StartProcessing, ProcessingEnds,
           Unexpected, FailCurrent, ProcessingStep, Start, HandlerEnds, CheckCancellation,
           Finish, Settle, FollowUp, InsertFollowUp
  <1>3. loop'[d] # "dead"
    <2>1. CASE LoopStep(d)
      BY <1>0, <2>1 DEF LoopStep, BeginTurn, SkipPass, LoopEnds, Claim, StartProcessing,
                        ProcessingEnds, Unexpected, FailCurrent, Goto, Rest
    <2>2. CASE ProcessingStep(d)
      BY <1>0, <2>2 DEF ProcessingStep, Start, HandlerEnds, CheckCancellation, Finish, Call,
                        Settle, FollowUp, InsertFollowUp, Goto
    <2> QED BY <2>1, <2>2
  <1> QED BY <1>1, <1>2, <1>3 DEF Survives, PassBy

\* Nor does the monitor, which has a processing to watch.
LEMMA MonitorSurvives ==
  ASSUME WorkerInv, NEW d \in Daemon, MonitorStep(d) \/ HandlerSpawns(d) \/ HandlerBeats(d)
  PROVE  Survives(d)
  <1>0. loop \in [Daemon -> Loop] /\ pass \in [Daemon -> Passes \cup {NoPass}]
    BY DEF WorkerInv, MemoryInv
  <1>1. mon[d] # "off" \/ loop[d] = "handler"
    BY DEF MonitorStep, MonitorRead, MonitorTouch, MonitorSkipsPass, HandlerSpawns, HandlerBeats
  <1>2. loop[d] \notin {"boot", "turn", "dead"}
    BY <1>1 DEF WorkerInv, MemoryInv, Inside
  <1>3. ~PassBy(d, "loop") /\ UNCHANGED pass
    BY <1>2 DEF WorkerInv, MemoryInv, PassBy, MonitorStep, MonitorRead, MonitorTouch,
                MonitorSkipsPass, HandlerSpawns, HandlerBeats, workerVars
  <1>4. loop'[d] # "dead"
    BY <1>0, <1>2 DEF MonitorStep, MonitorRead, MonitorTouch, MonitorSkipsPass, Interrupt, Goto,
                      HandlerSpawns, HandlerBeats, workerVars
  <1> QED BY <1>3, <1>4 DEF Survives, PassBy

\* A pass that has listed running attempts and finds them as listed does not
\* raise.
LEMMA PassSurvives ==
  ASSUME WorkerInv, NEW d \in Daemon, SurvivalInv(d), PassStep(d)
  PROVE  Survives(d)
  <1>0. loop \in [Daemon -> Loop] /\ pass \in [Daemon -> Passes \cup {NoPass}]
    BY DEF WorkerInv, MemoryInv
  <1>1. ASSUME NEW by \in {"loop", "periodic", "monitor"}, PassReturns(d, by)
        PROVE  loop'[d] = "dead" => loop[d] = "dead"
    BY <1>0, <1>1 DEF PassReturns
  <1>2. ASSUME NEW by \in {"loop", "periodic", "monitor"}, PassStart(d, by)
        PROVE  Survives(d)
    <2>1. pass[d] = NoPass /\ UNCHANGED queueVars
      BY <1>2 DEF PassStart
    <2>2. CASE PassReturns(d, by) /\ UNCHANGED pass
      BY <1>1, <2>1, <2>2 DEF Survives, PassBy
    <2>3. CASE pass' = [pass EXCEPT ![d] = [by |-> by, rows |-> PassRows(d, by)]] /\ UNCHANGED loop
      <3>1. pass'[d].rows = PassRows(d, by) /\ tasks' = tasks
        BY <1>0, <2>1, <2>3 DEF queueVars
      <3>2. Current(tasks, PassRows(d, by))
        BY DEF Current, PassRows
      <3> QED BY <2>3, <3>1, <3>2 DEF Survives
    <2> QED BY <1>2, <2>2, <2>3 DEF PassStart
  <1>3. CASE PassApply(d)
    <2>1. pass[d] \in Passes /\ pass[d] # NoPass /\ pass[d].rows \subseteq Listed
      BY <1>0, <1>3 DEF PassApply, Passes
    <2>2. ASSUME NEW row \in pass[d].rows, PassBy(d, "loop")
          PROVE  RunningFor(row.task, row.epoch)
      BY <2>1, <2>2 DEF SurvivalInv, Current, RunningFor
    <2>3. CASE PassRaises(d) /\ ~PassBy(d, "loop")
      <3>1. pass'[d] = NoPass
        BY <1>0, <2>3 DEF PassRaises
      <3>2. loop'[d] = "dead" => loop[d] = "dead"
        BY <1>0, <2>3 DEF PassRaises, Interrupt, Goto
      <3> QED BY <3>1, <3>2 DEF Survives, PassBy
    <2>4. CASE pass' = [pass EXCEPT ![d] = NoPass] /\ PassReturns(d, pass[d].by)
      <3>1. pass'[d] = NoPass /\ pass[d].by \in {"loop", "periodic", "monitor"}
        BY <1>0, <2>1, <2>4 DEF Passes
      <3> QED BY <1>1, <2>4, <3>1 DEF Survives, PassBy
    <2>5. ASSUME NEW row \in pass[d].rows,
                 pass' = [pass EXCEPT ![d].rows = pass[d].rows \ {row}],
                 UNCHANGED loop,
                 UNCHANGED queueVars \/ FinalizeCancellation(row.task, row.epoch)
                   \/ \E ready \in BOOLEAN : Fail(row.task, row.epoch, ready)
          PROVE  Survives(d)
      <3>1. pass'[d].rows = pass[d].rows \ {row} /\ pass'[d].by = pass[d].by
        BY <1>0, <2>1, <2>5 DEF Passes
      <3>2. \A u \in Task : u # row.task => tasks'[u] = tasks[u]
        BY <2>5 DEF FinalizeCancellation, Fail, EndAttempt, SetRow, queueVars, WorkerInv,
                    QueueInv, TypeOK
      <3>3. PassBy(d, "loop")' => PassBy(d, "loop")
        BY <2>1, <3>1 DEF PassBy
      <3>4. ASSUME PassBy(d, "loop")
            PROVE  Current(tasks', pass[d].rows \ {row})
        <4>1. Current(tasks, pass[d].rows)
          BY <3>4 DEF SurvivalInv
        <4> QED BY <2>1, <2>5, <3>2, <4>1 DEF Current, Listed
      <3> QED BY <2>5, <3>1, <3>3, <3>4 DEF Survives
    <2>6. PICK row \in pass[d].rows :
            \/ /\ \/ UNCHANGED queueVars \/ FinalizeCancellation(row.task, row.epoch)
                  \/ \E ready \in BOOLEAN : Fail(row.task, row.epoch, ready)
               /\ \/ pass' = [pass EXCEPT ![d] = NoPass] /\ PassReturns(d, pass[d].by)
                  \/ pass' = [pass EXCEPT ![d].rows = pass[d].rows \ {row}] /\ UNCHANGED loop
            \/ ~RunningFor(row.task, row.epoch) /\ PassRaises(d)
      BY <1>3, Zenon DEF PassApply
    <2> QED BY <2>2, <2>3, <2>4, <2>5, <2>6
  <1> QED BY <1>2, <1>3 DEF PassStep

\* Start, stop, crash and store errors end a pass or leave the attempts alone.
LEMMA LifeSurvives ==
  ASSUME WorkerInv, NEW d \in Daemon,
         \/ Restart(d) \/ Seed(d) \/ StopBegin(d) \/ StopSweep(d)
         \/ StopTimeout(d) \/ StopDone(d) \/ Crash(d) \/ StoreFault(d)
  PROVE  Survives(d)
  <1>0. loop \in [Daemon -> Loop] /\ pass \in [Daemon -> Passes \cup {NoPass}] /\ QueueInv
    BY DEF WorkerInv, MemoryInv
  <1>1. CASE StopSweep(d)
    <2>1. PICK t \in sweep[d] : RequestCancel(t) \/ UNCHANGED queueVars
      BY <1>1 DEF StopSweep
    <2>2. t \in Task
      BY <2>1 DEF WorkerInv, MemoryInv
    <2>3. AttemptsGoOn
      BY <1>0, <2>1, <2>2, CallGoesOn
    <2> QED BY <1>1, <2>3 DEF StopSweep, Survives, PassBy
  <1>2. CASE StopBegin(d)
    BY <1>0, <1>2, CallGoesOn DEF StopBegin, Survives, PassBy, AttemptsGoOn, queueVars
  <1>3. CASE Restart(d) \/ Seed(d) \/ StopDone(d)
    <2>1. ~PassBy(d, "loop") /\ UNCHANGED pass
      BY <1>3 DEF Restart, Seed, StopDone, WorkerInv, MemoryInv, PassBy
    <2>2. loop'[d] = "dead" => loop[d] = "dead"
      BY <1>0, <1>3 DEF Restart, Seed, StopDone, Rest, Goto
    <2> QED BY <2>1, <2>2 DEF Survives, PassBy
  <1>4. CASE StopTimeout(d) \/ Crash(d)
    <2>1. pass'[d] = NoPass
      BY <1>0, <1>4 DEF StopTimeout, Crash
    <2>2. loop'[d] = "dead" => loop[d] = "dead"
      BY <1>0, <1>4 DEF StopTimeout, Crash, Rest, Goto, Interrupt
    <2> QED BY <2>1, <2>2 DEF Survives, PassBy
  <1>5. CASE StoreFault(d)
    <2>1. PassBy(d, "loop")' => PassBy(d, "loop") /\ pass'[d] = pass[d]
      BY <1>0, <1>5 DEF StoreFault, PassRaises, PassBy
    <2> QED BY <1>5, <2>1 DEF StoreFault, Survives, AttemptsGoOn, queueVars
  <1> QED BY <1>1, <1>2, <1>3, <1>4, <1>5

\* The world, as far as it calls the queue, leaves running attempts alone.
LEMMA WorldSurvives ==
  ASSUME WorkerInv, NEW d \in Daemon, NEW t \in Task, World(t)
  PROVE  Survives(d)
  <1>1. QueueInv /\ UNCHANGED <<loop, pass>>
    BY DEF WorkerInv, World, ClientEnqueues, ClientCancels, SubprocessExits, TimePasses, workerVars
  <1>2. \/ RequestCancel(t) \/ BecomeReady(t) \/ GoStale(t) \/ UNCHANGED queueVars
        \/ \E p \in Priority, ready \in BOOLEAN : Enqueue(t, p, ready)
    BY DEF World, ClientEnqueues, ClientCancels, SubprocessExits, TimePasses
  <1> QED BY <1>1, <1>2, CallGoesOn DEF Survives, PassBy

\* An event of the environment is spent from what remains of its bound, and a
\* store error from the bound on store errors.
LEMMA BudgetNextInv ==
  ASSUME BudgetInv, [WorkerNext]_vars
  PROVE  /\ BudgetInv' /\ left'["fault"] <= left["fault"]
         /\ \A d \in Daemon : StoreFault(d) => left'["fault"] < left["fault"]
  <1> DEFINE Events == {"crash", "stop", "cancel", "spawn", "pause", "missing", "fault"}
  <1>1. UNCHANGED left \/ \E event \in Events : Spend(event)
    <2>1. ASSUME NEW d \in Daemon, DaemonStep(d)
          PROVE  UNCHANGED left \/ \E event \in Events : Spend(event)
      <3>1. CASE LoopStep(d) \/ ProcessingStep(d)
        BY <3>1 DEF LoopStep, BeginTurn, SkipPass, LoopEnds, Claim, StartProcessing,
                    ProcessingEnds, Unexpected, FailCurrent, ProcessingStep, Start, HandlerEnds,
                    CheckCancellation, Finish, Settle, FollowUp, InsertFollowUp
      <3>2. CASE MonitorStep(d) \/ PassStep(d) \/ HandlerSpawns(d) \/ HandlerBeats(d)
        BY <3>2 DEF MonitorStep, MonitorRead, MonitorTouch, MonitorSkipsPass, PassStep, PassStart,
                    PassApply, HandlerSpawns, HandlerBeats, workerVars
      <3>3. CASE \/ Restart(d) \/ Seed(d) \/ StopBegin(d) \/ StopSweep(d)
                 \/ StopTimeout(d) \/ StopDone(d) \/ Crash(d) \/ StoreFault(d)
        BY <3>3 DEF Restart, Seed, StopBegin, StopSweep, StopTimeout, StopDone, Crash, StoreFault
      <3> QED BY <2>1, <3>1, <3>2, <3>3 DEF DaemonStep
    <2>2. ASSUME NEW t \in Task, World(t)
          PROVE  UNCHANGED left \/ \E event \in Events : Spend(event)
      BY <2>2 DEF World, ClientEnqueues, ClientCancels, SubprocessExits, TimePasses, workerVars
    <2> QED BY <2>1, <2>2 DEF WorkerNext, vars
  <1>2. BudgetInv' /\ left'["fault"] <= left["fault"]
    <2>1. CASE UNCHANGED left
      BY <2>1 DEF BudgetInv
    <2>2. ASSUME NEW event \in Events, Spend(event)
          PROVE  BudgetInv' /\ left'["fault"] <= left["fault"]
      <3>1. left' \in [Events -> Nat] /\ left'["fault"] <= left["fault"]
        BY <2>2 DEF BudgetInv, Spend
      <3>2. Bound["fault"] \in Nat
        BY WorkerAssumption
      <3> QED BY <3>1, <3>2 DEF BudgetInv
    <2> QED BY <1>1, <2>1, <2>2
  <1>3. ASSUME NEW d \in Daemon, StoreFault(d)
        PROVE  left'["fault"] < left["fault"]
    BY <1>3 DEF StoreFault, Spend, BudgetInv
  <1> QED BY <1>2, <1>3

\* Every step of the system keeps a run loop alive that has the store for
\* itself.
LEMMA SurvivalNextInv ==
  ASSUME WorkerInv, BudgetInv, NEW d \in Daemon, Daemon = {d}, SurvivalInv(d), [WorkerNext]_vars
  PROVE  SurvivalInv(d)'
  <1>1. /\ BudgetInv' /\ left'["fault"] <= left["fault"]
        /\ StoreFault(d) => left'["fault"] < left["fault"]
    BY BudgetNextInv
  <1>2. Survives(d)
    <2>1. CASE UNCHANGED vars
      BY <2>1 DEF vars, Survives, PassBy, AttemptsGoOn
    <2>2. CASE DaemonStep(d)
      BY <2>2, LoopSurvives, MonitorSurvives, PassSurvives, LifeSurvives DEF DaemonStep
    <2> QED BY <2>1, <2>2, WorldSurvives DEF WorkerNext
  <1>3. loop'[d] = "dead" => left'["fault"] < Bound["fault"]
    <2>1. left["fault"] \in Nat /\ left'["fault"] \in Nat /\ Bound["fault"] \in Nat
          /\ left["fault"] <= Bound["fault"]
      BY <1>1, WorkerAssumption DEF BudgetInv
    <2> QED BY <1>1, <1>2, <2>1 DEF Survives, SurvivalInv
  <1>4. ASSUME PassBy(d, "loop"), pass'[d] = pass[d], AttemptsGoOn
        PROVE  Current(tasks', pass'[d].rows)
    <2>1. pass[d].rows \subseteq Listed
      BY <1>4 DEF WorkerInv, MemoryInv, Passes, PassBy
    <2>2. Current(tasks, pass[d].rows)
      BY <1>4 DEF SurvivalInv
    <2> QED BY <1>4, <2>1, <2>2 DEF AttemptsGoOn, Current, Listed
  <1>5. PassBy(d, "loop")' => Current(tasks', pass'[d].rows)
    BY <1>2, <1>4 DEF Survives
  <1> QED BY <1>3, <1>5 DEF SurvivalInv

\* The run loop of a daemon that has the store for itself never ends unasked,
\* unless the store raises: whatever it has listed for recovery is still there
\* when it comes to it.
THEOREM RunLoopsSurvive == WorkerSpec => []RunLoopSurvives
  <1> DEFINE Alone == \A d \in Daemon : Daemon = {d} => SurvivalInv(d)
  <1>1. WorkerInit => BudgetInv /\ Alone
    BY WorkerAssumption DEF WorkerInit, BudgetInv, SurvivalInv, PassBy
  <1>2. WorkerInv /\ BudgetInv /\ Alone /\ [WorkerNext]_vars => BudgetInv' /\ Alone'
    BY BudgetNextInv, SurvivalNextInv
  <1>3. Alone => RunLoopSurvives
    BY DEF RunLoopSurvives, SurvivalInv
  <1> QED BY <1>1, <1>2, <1>3, WorkerInvariant, PTL DEF WorkerSpec

============================================================================
