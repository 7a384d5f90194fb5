------------------------ MODULE PostgresQueueProofs ------------------------
(***************************************************************************)
(* The transactions of the Postgres queue overlap in every way and still   *)
(* end every attempt once, never wait for each other in a circle, and keep *)
(* the contract of a task queue: for every set of tasks and sessions.      *)
(***************************************************************************)
EXTENDS PostgresQueue, SequenceTheorems, TLAPS

----------------------------------------------------------------------------
(* The inductive invariant *)

\* The stages in which a transaction holds row locks.
Holding == {"wantLane", "inLane", "chosen", "mutate"}

\* What the read of a settle still says about the row: its epoch has not been
\* reached again, and as long as it is the current one nobody has counted a
\* failure.
ReadHolds(x, r) ==
  /\ x.epoch \in {NoEpoch, x.read.epoch}
  /\ x.read.epoch <= r.epoch
  /\ x.read.epoch = r.epoch /\ r.status = "running" => x.read.retries = r.retries

\* What an open transaction knows between its statements.  A claim that is
\* about to commit has its row locked, so the row is pending still, and for
\* a maintenance task it has the lane, so the lane is open still.
TxInv(s) ==
  /\ tx[s].at # "idle" => tx[s].task \in Task
  /\ tx[s].at = "inLane" => lane = s
  /\ tx[s].at = "chosen" => lock[tx[s].task] = s /\ rows[tx[s].task].status = "pending"
  /\ tx[s].at = "chosen" /\ tx[s].task \in Cleanup =>
       lane = s /\ \A u \in Cleanup : rows[u].status # "running"
  /\ tx[s].at = "settle" => ReadHolds(tx[s], rows[tx[s].task])

TxsInv == \A s \in Session : TxInv(s)

\* Locks are held in the stages of a claim or of a mutation only.
LocksInv ==
  /\ \A t \in Task : lock[t] # NoSession => tx[lock[t]].at \in Holding
  /\ lane # NoSession => tx[lane].at \in {"inLane", "chosen"}

PostgresInv == TypeOK /\ TxsInv /\ LocksInv /\ OneRunPerAttempt

----------------------------------------------------------------------------
(* What the SET clauses of the calls write *)

\* The row of a task id that was never enqueued, and the transaction of a
\* session without one.
LEMMA IdleType ==
  /\ Absent \in Row /\ Absent.status = "absent" /\ Absent.epoch = 0 /\ Absent.retries = 0
  /\ Idle \in Tx /\ Idle.at = "idle"
  <1>1. Absent \in Row /\ Absent.status = "absent" /\ Absent.epoch = 0 /\ Absent.retries = 0
    BY DEF Absent, Row, Status
  <1>2. Read(Absent) \in [status : Status, epoch : Nat, retries : Nat]
    BY <1>1 DEF Read, Row
  <1>3. Idle \in Tx /\ Idle.at = "idle"
    BY <1>2 DEF Idle, Tx, Settlement
  <1> QED BY <1>1, <1>3

\* What a settle writes: the epoch stays, and the attempt has ended, as a
\* counted failure, for good or given back.
LEMMA SettledRow ==
  ASSUME NEW r \in Row, NEW read \in [status : Status, epoch : Nat, retries : Nat],
         NEW call \in Settlement
  PROVE  LET n == Settled(r, read, call)
         IN  /\ n \in Row
             /\ n.epoch = r.epoch
             /\ n.status \in {"pending"} \cup Terminal
             /\ \/ n.retries = r.retries
                \/ /\ n.retries = read.retries + 1
                   /\ n.status = IF read.retries + 1 >= MaxRetries THEN "failed" ELSE "pending"
                \/ n.retries = MaxRetries /\ n.status = "failed"
  <1> DEFINE n == Settled(r, read, call)
             more == read.retries + 1
             st == IF more >= MaxRetries THEN "failed" ELSE "pending"
  <1>1. more \in Nat /\ st \in {"pending", "failed"}
    OBVIOUS
  <1>2. CASE call = "complete"
    BY <1>2 DEF Settled, Completed, Row, Status, Terminal
  <1>3. CASE call = "fail"
    <2>1. n = [r EXCEPT !.status = st, !.retries = more, !.cancel = FALSE]
      BY <1>3 DEF Settled, Failed
    <2> HIDE DEF n, st, more
    <2>2. n \in Row /\ n.epoch = r.epoch /\ n.status = st /\ n.retries = more
      BY <1>1, <2>1 DEF Row, Status, Terminal
    <2> QED BY <1>1, <2>2 DEF n, st, more, Terminal
  <1>4. CASE call = "fail_permanently"
    BY <1>4, RetriesAssumption DEF Settled, FailedPermanently, Row, Status, Terminal
  <1>5. CASE call = "retry"
    BY <1>5 DEF Settled, GivenBack, Row, Status, Terminal
  <1>6. CASE call = "finalize"
    BY <1>6 DEF Settled, Cancelled, Row, Status, Terminal
  <1> QED BY <1>2, <1>3, <1>4, <1>5, <1>6 DEF Settlement

----------------------------------------------------------------------------
(* What a step does to the rows *)

\* enqueue inserts t.
Inserted(t, r) ==
  /\ rows[t].status = "absent" /\ r.status = "pending"
  /\ r.epoch = rows[t].epoch /\ r.retries = rows[t].retries
  /\ runs' = runs

\* A claim commits: t was pending, and its lane open.
Claimed(t, r) ==
  /\ rows[t].status = "pending" /\ r.status = "running"
  /\ r.epoch = rows[t].epoch + 1 /\ r.retries = rows[t].retries
  /\ t \in Cleanup => \A u \in Cleanup : rows[u].status # "running"
  /\ runs' = runs

\* A settle that read the columns `read` ends the attempt of t.
Ended(t, r, read) ==
  /\ rows[t].status = "running" /\ r.status \in {"pending"} \cup Terminal
  /\ r.epoch = rows[t].epoch
  /\ \/ r.retries = rows[t].retries
     \/ /\ r.retries = read.retries + 1
        /\ r.status = IF read.retries + 1 >= MaxRetries THEN "failed" ELSE "pending"
     \/ r.retries = MaxRetries /\ r.status = "failed"
  /\ runs' = [runs EXCEPT ![t] = Append(@, read.epoch)]

\* A pending task is cancelled.
Withdrawn(t, r) ==
  /\ rows[t].status = "pending" /\ r.status = "cancelled"
  /\ r.epoch = rows[t].epoch /\ r.retries = rows[t].retries
  /\ runs' = [runs EXCEPT ![t] = Append(@, 0)]

\* A running task is marked.
Marked(t, r) ==
  /\ r.status = rows[t].status
  /\ r.epoch = rows[t].epoch /\ r.retries = rows[t].retries
  /\ runs' = runs

\* Session s writes r to the row of t, which nobody else has locked.
Writes(s, t, r) ==
  /\ rows' = [rows EXCEPT ![t] = r]
  /\ Unlocked(s, t)
  /\ \/ Claimed(t, r) /\ tx[s].at = "chosen" /\ tx[s].task = t
     \/ tx[s].at = "settle" /\ tx[s].task = t /\ Ended(t, r, tx[s].read) /\ Settle(s)
     \/ Withdrawn(t, r)
     \/ Marked(t, r)

\* Every step leaves the tables alone, inserts a task, or is the write of one
\* session to a row that no other session has locked.
LEMMA StepIsWrite ==
  ASSUME TypeOK, TxsInv, Next
  PROVE  \/ UNCHANGED <<rows, runs>>
         \/ \E t \in Task, r \in Row :
              /\ rows' = [rows EXCEPT ![t] = r]
              /\ Inserted(t, r)
              /\ UNCHANGED <<lock, lane, tx>>
         \/ \E s \in Session, t \in Task, r \in Row : Writes(s, t, r) /\ Release(s)
  <1>1. ASSUME NEW t \in Task, Enqueue(t)
        PROVE  \E r \in Row : rows' = [rows EXCEPT ![t] = r] /\ Inserted(t, r)
    <2> DEFINE r == [rows[t] EXCEPT !.status = "pending"]
    <2>1. rows[t] \in Row /\ rows' = [rows EXCEPT ![t] = r] /\ runs' = runs
      BY <1>1 DEF Enqueue, TypeOK
    <2>2. /\ r \in Row /\ r.status = "pending"
          /\ r.epoch = rows[t].epoch /\ r.retries = rows[t].retries
      BY <2>1 DEF Row, Status
    <2>3. rows[t].status = "absent"
      BY <1>1 DEF Enqueue
    <2> HIDE DEF r
    <2> QED BY <2>1, <2>2, <2>3 DEF Inserted
  <1>2. ASSUME NEW s \in Session, ClaimCommit(s)
        PROVE  \E t \in Task, r \in Row : Writes(s, t, r)
    <2> DEFINE t == tx[s].task
               next == rows[t].epoch + 1
               r == [rows[t] EXCEPT !.status = "running", !.epoch = next]
    <2>1. /\ t \in Task /\ tx[s].at = "chosen" /\ rows[t].status = "pending" /\ lock[t] = s
          /\ t \in Cleanup => \A u \in Cleanup : rows[u].status # "running"
      BY <1>2 DEF ClaimCommit, TxsInv, TxInv
    <2>2. rows[t] \in Row /\ rows' = [rows EXCEPT ![t] = r] /\ runs' = runs
      BY <1>2, <2>1 DEF ClaimCommit, TypeOK
    <2>3. next \in Nat
      BY <2>2 DEF Row
    <2> HIDE DEF next
    <2>4. /\ r \in Row /\ r.status = "running"
          /\ r.epoch = next /\ r.retries = rows[t].retries
      BY <2>2, <2>3 DEF Row, Status
    <2> HIDE DEF r, t
    <2>5. Claimed(t, r)
      BY <2>1, <2>2, <2>4 DEF Claimed, next
    <2> QED BY <2>1, <2>2, <2>4, <2>5 DEF Writes, Unlocked, t
  <1>3. ASSUME NEW s \in Session, Settle(s)
        PROVE  UNCHANGED <<rows, runs>> \/ \E t \in Task, r \in Row : Writes(s, t, r)
    <2> DEFINE t == tx[s].task
               r == Settled(rows[t], tx[s].read, tx[s].call)
    <2>1. /\ tx[s].at = "settle" /\ t \in Task /\ Unlocked(s, t)
          /\ tx[s] \in Tx /\ rows[t] \in Row
      BY <1>3 DEF Settle, TxsInv, TxInv, TypeOK
    <2>2. CASE ~RunningFor(rows[t], tx[s].epoch)
      BY <1>3, <2>2 DEF Settle
    <2>3. CASE RunningFor(rows[t], tx[s].epoch)
      <3>1. /\ rows' = [rows EXCEPT ![t] = r] /\ rows[t].status = "running"
            /\ runs' = [runs EXCEPT ![t] = Append(@, tx[s].read.epoch)]
        BY <1>3, <2>3 DEF Settle, RunningFor
      <3>2. tx[s].read \in [status : Status, epoch : Nat, retries : Nat] /\ tx[s].call \in Settlement
        BY <2>1 DEF Tx
      <3>3. r \in Row /\ Ended(t, r, tx[s].read)
        BY <2>1, <3>1, <3>2, SettledRow DEF Ended
      <3> HIDE DEF r
      <3> QED BY <1>3, <2>1, <3>1, <3>3 DEF Writes
    <2> QED BY <2>2, <2>3
  <1>4. ASSUME NEW s \in Session, Cancel(s)
        PROVE  UNCHANGED <<rows, runs>> \/ \E t \in Task, r \in Row : Writes(s, t, r)
    <2> DEFINE t == tx[s].task
               same == rows[t].status = tx[s].read.status
               c == [rows[t] EXCEPT !.status = "cancelled"]
               m == [rows[t] EXCEPT !.cancel = TRUE]
    <2>1. tx[s].at = "cancel" /\ t \in Task /\ Unlocked(s, t) /\ rows[t] \in Row
      BY <1>4 DEF Cancel, TxsInv, TxInv, TypeOK
    <2>2. CASE same /\ rows[t].status = "pending"
      <3>1. rows' = [rows EXCEPT ![t] = c] /\ runs' = [runs EXCEPT ![t] = Append(@, 0)]
        BY <1>4, <2>2 DEF Cancel
      <3>2. c \in Row /\ c.status = "cancelled" /\ c.epoch = rows[t].epoch /\ c.retries = rows[t].retries
        BY <2>1 DEF Row, Status, Terminal
      <3> HIDE DEF c
      <3>3. Withdrawn(t, c)
        BY <2>2, <3>1, <3>2 DEF Withdrawn
      <3> QED BY <2>1, <3>1, <3>2, <3>3 DEF Writes
    <2>3. CASE same /\ rows[t].status # "pending"
      <3>1. rows' = [rows EXCEPT ![t] = m] /\ runs' = runs
        BY <1>4, <2>3 DEF Cancel
      <3>2. /\ m \in Row /\ m.status = rows[t].status
            /\ m.epoch = rows[t].epoch /\ m.retries = rows[t].retries
        BY <2>1 DEF Row
      <3> HIDE DEF m
      <3>3. Marked(t, m)
        BY <3>1, <3>2 DEF Marked
      <3> QED BY <2>1, <3>1, <3>2, <3>3 DEF Writes
    <2>4. CASE ~same
      BY <1>4, <2>4 DEF Cancel
    <2> QED BY <2>2, <2>3, <2>4
  <1>5. ASSUME NEW s \in Session, Claim(s) \/ Call(s) \/ Abort(s)
        PROVE  \/ UNCHANGED <<rows, runs>>
               \/ ClaimCommit(s) \/ Settle(s) \/ Cancel(s)
    BY <1>5 DEF Claim, Call, Abort, ClaimSelect, TakeLane, Requery, ReadRunning, ReadCancel,
                MutateAsk, MutateLock, MutateCommit
  <1>6. \A s \in Session : ClaimCommit(s) \/ Settle(s) \/ Cancel(s) => Release(s)
    BY DEF ClaimCommit, Settle, Cancel
  <1>7. \A t \in Task : Enqueue(t) => UNCHANGED <<lock, lane, tx>>
    BY DEF Enqueue
  <1> QED BY <1>1, <1>2, <1>3, <1>4, <1>5, <1>6, <1>7 DEF Next

----------------------------------------------------------------------------
(* What a step does to the sessions *)

\* Session s opens a transaction that has read a row and holds no lock.
Opens(s, x) ==
  /\ tx[s].at = "idle" /\ x.at \in {"settle", "cancel", "wantRow"} /\ x.task \in Task
  /\ x.at = "settle" => ReadHolds(x, rows[x.task])
  /\ tx' = [tx EXCEPT ![s] = x]
  /\ UNCHANGED <<rows, runs, lock, lane>>

\* Session s locks the row of t.
Locks(s, t, x) ==
  /\ Unlocked(s, t) /\ lock' = [lock EXCEPT ![t] = s]
  /\ x.task = t /\ x.at \in {"wantLane", "chosen", "mutate"}
  /\ x.at # "chosen" => tx[s].at \in {"idle", "wantRow"}
  /\ x.at = "chosen" => rows[t].status = "pending"
  /\ x.at = "chosen" /\ t \in Cleanup =>
       lane = s /\ \A u \in Cleanup : rows[u].status # "running"
  /\ tx' = [tx EXCEPT ![s] = x]
  /\ UNCHANGED <<rows, runs, lane>>

\* Session s takes the lane.
Enters(s, x) ==
  /\ lane = NoSession /\ lane' = s
  /\ tx[s].at = "wantLane" /\ x.at = "inLane" /\ x.task = tx[s].task
  /\ tx' = [tx EXCEPT ![s] = x]
  /\ UNCHANGED <<rows, runs, lock>>

\* The transaction that Goto leaves.
LEMMA GotoTx ==
  ASSUME TypeOK, NEW s \in Session, NEW at \in {"wantLane", "inLane", "chosen", "wantRow", "mutate"},
         NEW t \in Task, Goto(s, at, t)
  PROVE  \E x \in Tx : x.at = at /\ x.task = t /\ tx' = [tx EXCEPT ![s] = x]
  <1> DEFINE x == [tx[s] EXCEPT !.at = at, !.task = t]
  <1>1. tx[s] \in Tx /\ tx' = [tx EXCEPT ![s] = x]
    BY DEF TypeOK, Goto
  <1>2. x \in Tx /\ x.at = at /\ x.task = t
    BY <1>1 DEF Tx
  <1> QED BY <1>1, <1>2

\* Every step inserts a task, ends a transaction, or moves one to its next
\* statement.
LEMMA StepIsMove ==
  ASSUME TypeOK, TxsInv, Next
  PROVE  \/ UNCHANGED <<lock, lane, tx>>
         \/ \E s \in Session : Release(s)
         \/ \E s \in Session, x \in Tx : Opens(s, x) \/ Enters(s, x)
         \/ \E s \in Session, t \in Task, x \in Tx : Locks(s, t, x)
  <1>1. ASSUME NEW s \in Session, NEW t \in Task, ClaimSelect(s, t)
        PROVE  \E x \in Tx : Locks(s, t, x)
    <2> DEFINE at == IF t \in Cleanup THEN "wantLane" ELSE "chosen"
    <2>1. at \in {"wantLane", "inLane", "chosen", "wantRow", "mutate"} /\ Goto(s, at, t)
      BY <1>1 DEF ClaimSelect
    <2>2. PICK x \in Tx : x.at = at /\ x.task = t /\ tx' = [tx EXCEPT ![s] = x]
      BY <2>1, GotoTx
    <2> QED BY <1>1, <2>2 DEF ClaimSelect, Candidate, Locks
  <1>2. ASSUME NEW s \in Session, TakeLane(s)
        PROVE  \E x \in Tx : Enters(s, x)
    <2>1. tx[s].task \in Task /\ Goto(s, "inLane", tx[s].task)
      BY <1>2 DEF TakeLane, TxsInv, TxInv
    <2>2. PICK x \in Tx : x.at = "inLane" /\ x.task = tx[s].task /\ tx' = [tx EXCEPT ![s] = x]
      BY <2>1, GotoTx
    <2> QED BY <1>2, <2>2 DEF TakeLane, Enters
  <1>3. ASSUME NEW s \in Session, Requery(s)
        PROVE  Release(s) \/ \E t \in Task, x \in Tx : Locks(s, t, x)
    <2>1. CASE Release(s)
      BY <2>1
    <2>2. ASSUME NEW t \in Task, Candidate(s, t), lock' = [lock EXCEPT ![t] = s],
                 Goto(s, "chosen", t), UNCHANGED lane
          PROVE  \E x \in Tx : Locks(s, t, x)
      <3>1. PICK x \in Tx : x.at = "chosen" /\ x.task = t /\ tx' = [tx EXCEPT ![s] = x]
        BY <2>2, GotoTx
      <3>2. lane = s /\ UNCHANGED <<rows, runs>>
        BY <1>3 DEF Requery, TxsInv, TxInv
      <3> QED BY <2>2, <3>1, <3>2 DEF Candidate, Locks
    <2> QED BY <1>3, <2>1, <2>2 DEF Requery
  <1>4. ASSUME NEW s \in Session, NEW t \in Task, NEW call \in Settlement,
               NEW e \in {NoEpoch, rows[t].epoch}, ReadRunning(s, t, call, e)
        PROVE  \E x \in Tx : Opens(s, x)
    <2> DEFINE rd == Read(rows[t])
               x == [at |-> "settle", task |-> t, call |-> call, epoch |-> e, read |-> rd]
    <2>1. rows[t] \in Row
      BY DEF TypeOK
    <2>2. /\ rd \in [status : Status, epoch : Nat, retries : Nat] /\ e \in Nat \cup {NoEpoch}
          /\ rd.epoch = rows[t].epoch /\ rd.retries = rows[t].retries /\ rows[t].epoch \in Nat
      BY <2>1 DEF Read, Row
    <2>3. tx' = [tx EXCEPT ![s] = x]
      BY <1>4 DEF ReadRunning
    <2> HIDE DEF rd
    <2>4. x \in Tx /\ x.at = "settle" /\ x.task = t /\ x.epoch = e /\ x.read = rd
      BY <2>2 DEF Tx
    <2> HIDE DEF x
    <2>5. ReadHolds(x, rows[x.task])
      BY <2>2, <2>4 DEF ReadHolds
    <2> QED BY <1>4, <2>3, <2>4, <2>5 DEF ReadRunning, Opens
  <1>5. ASSUME NEW s \in Session, NEW t \in Task, ReadCancel(s, t)
        PROVE  \E x \in Tx : Opens(s, x)
    <2> DEFINE rd == Read(rows[t])
               x == [Idle EXCEPT !.at = "cancel", !.task = t, !.read = rd]
    <2>1. rows[t] \in Row
      BY DEF TypeOK
    <2>2. rd \in [status : Status, epoch : Nat, retries : Nat]
      BY <2>1 DEF Read, Row
    <2>3. tx' = [tx EXCEPT ![s] = x]
      BY <1>5 DEF ReadCancel
    <2> HIDE DEF rd
    <2>4. x \in Tx /\ x.at = "cancel" /\ x.task = t
      BY <2>2, IdleType DEF Tx
    <2> HIDE DEF x
    <2> QED BY <1>5, <2>3, <2>4 DEF ReadCancel, Opens
  <1>6. ASSUME NEW s \in Session, NEW t \in Task, MutateAsk(s, t)
        PROVE  \E x \in Tx : Opens(s, x)
    <2>1. PICK x \in Tx : x.at = "wantRow" /\ x.task = t /\ tx' = [tx EXCEPT ![s] = x]
      BY <1>6, GotoTx DEF MutateAsk
    <2> QED BY <1>6, <2>1 DEF MutateAsk, Opens
  <1>7. ASSUME NEW s \in Session, MutateLock(s)
        PROVE  Release(s) \/ \E t \in Task, x \in Tx : Locks(s, t, x)
    <2> DEFINE t == tx[s].task
    <2>1. t \in Task /\ tx[s].at = "wantRow" /\ Unlocked(s, t) /\ UNCHANGED <<rows, runs>>
      BY <1>7 DEF MutateLock, TxsInv, TxInv
    <2>2. CASE rows[t].status \in {"pending", "running"}
      <3>1. lock' = [lock EXCEPT ![t] = s] /\ Goto(s, "mutate", t) /\ UNCHANGED lane
        BY <1>7, <2>2 DEF MutateLock
      <3>2. PICK x \in Tx : x.at = "mutate" /\ x.task = t /\ tx' = [tx EXCEPT ![s] = x]
        BY <2>1, <3>1, GotoTx
      <3> QED BY <2>1, <3>1, <3>2 DEF Locks
    <2>3. CASE rows[t].status \notin {"pending", "running"}
      BY <1>7, <2>3 DEF MutateLock
    <2> QED BY <2>2, <2>3
  <1>8. ASSUME NEW s \in Session, ClaimCommit(s) \/ Settle(s) \/ Cancel(s) \/ MutateCommit(s) \/ Abort(s)
        PROVE  Release(s)
    BY <1>8 DEF ClaimCommit, Settle, Cancel, MutateCommit, Abort
  <1>9. \A t \in Task : Enqueue(t) => UNCHANGED <<lock, lane, tx>>
    BY DEF Enqueue
  <1> QED BY <1>1, <1>2, <1>3, <1>4, <1>5, <1>6, <1>7, <1>8, <1>9 DEF Next, Claim, Call

----------------------------------------------------------------------------
(* The invariant is inductive *)

\* A row that is written: its epoch never falls, it runs under its old epoch
\* only if it did before, with as many failures counted.
LEMMA WriteKeepsRead ==
  ASSUME TypeOK, NEW t \in Task, NEW r \in Row, rows' = [rows EXCEPT ![t] = r],
         \/ Inserted(t, r) \/ Claimed(t, r) \/ Withdrawn(t, r) \/ Marked(t, r)
         \/ \E read \in [status : Status, epoch : Nat, retries : Nat] : Ended(t, r, read),
         NEW x \in Tx, x.task \in Task, ReadHolds(x, rows[x.task])
  PROVE  ReadHolds(x, rows'[x.task])
  <1>1. /\ rows \in [Task -> Row] /\ rows[t] \in Row /\ rows[x.task] \in Row
    BY DEF TypeOK
  <1>2. CASE x.task # t
    BY <1>1, <1>2
  <1>3. CASE x.task = t
    <2>1. rows'[t] = r /\ x.read.epoch \in Nat /\ rows[t].epoch \in Nat /\ r.epoch \in Nat
      BY <1>1 DEF Row, Tx
    <2>2. /\ rows[t].epoch <= r.epoch
          /\ r.epoch = rows[t].epoch /\ r.status = "running" =>
               rows[t].status = "running" /\ r.retries = rows[t].retries
      BY <2>1 DEF Inserted, Claimed, Withdrawn, Marked, Ended, Terminal
    <2> QED BY <1>3, <2>1, <2>2 DEF ReadHolds
  <1> QED BY <1>2, <1>3

\* The tables keep their types.
LEMMA WriteType ==
  ASSUME TypeOK, NEW t \in Task, NEW r \in Row, rows' = [rows EXCEPT ![t] = r],
         \/ Inserted(t, r) \/ Claimed(t, r) \/ Withdrawn(t, r) \/ Marked(t, r)
         \/ \E read \in [status : Status, epoch : Nat, retries : Nat] : Ended(t, r, read)
  PROVE  rows' \in [Task -> Row] /\ runs' \in [Task -> Seq(Nat)]
  <1>1. rows' \in [Task -> Row]
    BY DEF TypeOK
  <1>2. runs \in [Task -> Seq(Nat)] /\ runs[t] \in Seq(Nat)
    BY DEF TypeOK
  <1>3. CASE runs' = runs
    BY <1>1, <1>2, <1>3
  <1>4. ASSUME NEW a \in Nat, runs' = [runs EXCEPT ![t] = Append(@, a)]
        PROVE  runs' \in [Task -> Seq(Nat)]
    <2>1. Append(runs[t], a) \in Seq(Nat)
      BY <1>2
    <2> QED BY <1>2, <1>4, <2>1
  <1> QED BY <1>1, <1>3, <1>4 DEF Inserted, Claimed, Withdrawn, Marked, Ended

\* Each write keeps the number of task_runs rows in step with the epoch.
LEMMA WriteKeepsRuns ==
  ASSUME TypeOK, OneRunPerAttempt, NEW t \in Task, NEW r \in Row, rows' = [rows EXCEPT ![t] = r],
         \/ Inserted(t, r) \/ Claimed(t, r) \/ Withdrawn(t, r) \/ Marked(t, r)
         \/ \E read \in [status : Status, epoch : Nat, retries : Nat] : Ended(t, r, read)
  PROVE  OneRunPerAttempt'
  <1>1. /\ rows \in [Task -> Row] /\ rows[t] \in Row /\ rows[t].epoch \in Nat /\ rows'[t] = r
        /\ runs \in [Task -> Seq(Nat)] /\ runs[t] \in Seq(Nat) /\ Len(runs[t]) \in Nat
    BY DEF TypeOK, Row
  <1>2. \A u \in Task : u # t => rows'[u] = rows[u] /\ runs'[u] = runs[u]
    BY <1>1 DEF Inserted, Claimed, Withdrawn, Marked, Ended
  <1>3. ASSUME NEW a \in Nat, runs' = [runs EXCEPT ![t] = Append(@, a)]
        PROVE  Len(runs'[t]) = Len(runs[t]) + 1
    BY <1>1, <1>3
  <1>4. \/ Len(runs[t]) = IF rows[t].status = "running" THEN rows[t].epoch - 1 ELSE rows[t].epoch
        \/ rows[t].status = "cancelled" /\ Len(runs[t]) = rows[t].epoch + 1
    BY DEF OneRunPerAttempt
  <1> DEFINE Fits == \/ Len(runs'[t]) = IF r.status = "running" THEN r.epoch - 1 ELSE r.epoch
                     \/ r.status = "cancelled" /\ Len(runs'[t]) = r.epoch + 1
  <1>5. CASE Inserted(t, r) \/ Claimed(t, r) \/ Marked(t, r)
    <2>1. Fits
      BY <1>1, <1>4, <1>5 DEF Inserted, Claimed, Marked
    <2> QED BY <1>1, <1>2, <2>1 DEF OneRunPerAttempt
  <1>6. CASE Withdrawn(t, r)
    <2>1. Fits
      BY <1>1, <1>3, <1>4, <1>6 DEF Withdrawn
    <2> QED BY <1>1, <1>2, <2>1 DEF OneRunPerAttempt
  <1>7. ASSUME NEW read \in [status : Status, epoch : Nat, retries : Nat], Ended(t, r, read)
        PROVE  OneRunPerAttempt'
    <2>1. read.epoch \in Nat
      OBVIOUS
    <2>2. Len(runs'[t]) = Len(runs[t]) + 1 /\ rows[t].status = "running" /\ r.status # "running"
          /\ r.epoch = rows[t].epoch
      BY <1>3, <1>7, <2>1 DEF Ended, Terminal
    <2>3. Fits
      BY <1>1, <1>4, <2>2
    <2> QED BY <1>1, <1>2, <2>3 DEF OneRunPerAttempt
  <1> QED BY <1>5, <1>6, <1>7

\* A transaction that ends leaves the others what they know, whatever it
\* wrote to a row that it alone could write to.
LEMMA ReleaseKeeps ==
  ASSUME TypeOK, TxsInv, LocksInv, NEW s \in Session, Release(s),
         UNCHANGED <<rows, runs>> \/ \E t \in Task, r \in Row : Writes(s, t, r)
  PROVE  /\ lock' \in [Task -> Session \cup {NoSession}]
         /\ lane' \in Session \cup {NoSession}
         /\ tx' \in [Session -> Tx]
         /\ TxsInv' /\ LocksInv'
  <1>1. /\ \A t \in Task : lock'[t] = IF lock[t] = s THEN NoSession ELSE lock[t]
        /\ lane' = IF lane = s THEN NoSession ELSE lane
        /\ tx' \in [Session -> Tx] /\ tx'[s] = Idle
        /\ \A q \in Session : q # s => tx'[q] = tx[q]
    BY IdleType DEF Release, TypeOK
  <1>2. /\ lock' \in [Task -> Session \cup {NoSession}]
        /\ lane' \in Session \cup {NoSession}
    BY DEF Release, TypeOK
  <1>3. LocksInv'
    <2>1. \A t \in Task : lock'[t] # NoSession => lock'[t] = lock[t] /\ lock[t] # s /\ lock[t] \in Session
      BY <1>1 DEF TypeOK
    <2>2. lane' # NoSession => lane' = lane /\ lane # s /\ lane \in Session
      BY <1>1 DEF TypeOK
    <2> QED BY <1>1, <2>1, <2>2 DEF LocksInv
  <1>4. TxInv(s)'
    BY <1>1, IdleType DEF TxInv
  <1>5. ASSUME NEW q \in Session, q # s
        PROVE  TxInv(q)'
    <2>1. TxInv(q) /\ tx'[q] = tx[q] /\ tx[q] \in Tx
      BY <1>1, <1>5 DEF TxsInv, TypeOK
    <2>2. lane = q => lane' = q
      BY <1>1, <1>5
    <2>3. \A t \in Task : lock[t] = q => lock'[t] = q
      BY <1>1, <1>5
    <2>4. CASE UNCHANGED <<rows, runs>>
      BY <2>1, <2>2, <2>3, <2>4 DEF TxInv
    <2>5. ASSUME NEW t \in Task, NEW r \in Row, Writes(s, t, r)
          PROVE  TxInv(q)'
      <3>1. /\ rows \in [Task -> Row] /\ rows' = [rows EXCEPT ![t] = r] /\ rows'[t] = r
            /\ \A u \in Task : u # t => rows'[u] = rows[u]
        BY <2>5 DEF Writes, TypeOK
      <3>2. \/ Inserted(t, r) \/ Claimed(t, r) \/ Withdrawn(t, r) \/ Marked(t, r)
            \/ \E read \in [status : Status, epoch : Nat, retries : Nat] : Ended(t, r, read)
        <4>1. tx[s].read \in [status : Status, epoch : Nat, retries : Nat]
          BY DEF TypeOK, Tx
        <4> QED BY <2>5, <4>1 DEF Writes
      <3>3. tx[q].at = "settle" => ReadHolds(tx[q], rows'[tx[q].task])
        BY <2>1, <3>1, <3>2, WriteKeepsRead DEF TxInv
      <3>4. tx[q].at = "chosen" => tx[q].task # t
        BY <1>5, <2>1, <2>5, SessionAssumption DEF TxInv, Writes, Unlocked
      <3>5. ASSUME tx[q].at = "chosen", tx[q].task \in Cleanup
            PROVE  \A u \in Cleanup : rows'[u].status # "running"
        <4>1. lane = q /\ \A u \in Cleanup : rows[u].status # "running"
          BY <2>1, <3>5 DEF TxInv
        <4>2. t \in Cleanup => ~Claimed(t, r) \/ lane = s
          BY <2>5 DEF Writes, TxsInv, TxInv, Claimed, Inserted, Ended, Withdrawn, Marked, Terminal
        <4>3. t \in Cleanup => r.status # "running"
          BY <1>5, <4>1, <4>2, <3>2 DEF Inserted, Ended, Withdrawn, Marked, Terminal
        <4> QED BY <3>1, <4>1, <4>3, TaskAssumption
      <3> QED BY <2>1, <2>2, <2>3, <3>1, <3>3, <3>4, <3>5 DEF TxInv
    <2> QED BY <2>4, <2>5
  <1>6. TxsInv'
    BY <1>4, <1>5 DEF TxsInv
  <1> QED BY <1>1, <1>2, <1>3, <1>6

\* Opening a transaction locks nothing.
LEMMA OpensKeeps ==
  ASSUME TypeOK, TxsInv, LocksInv, NEW s \in Session, NEW x \in Tx, Opens(s, x)
  PROVE  TypeOK' /\ TxsInv' /\ LocksInv'
  <1>1. /\ tx' \in [Session -> Tx] /\ tx'[s] = x
        /\ \A q \in Session : q # s => tx'[q] = tx[q]
        /\ UNCHANGED <<rows, runs, lock, lane>>
    BY DEF Opens, TypeOK
  <1>2. TypeOK'
    BY <1>1 DEF TypeOK
  <1>3. lane # s /\ \A t \in Task : lock[t] # s
    BY SessionAssumption DEF Opens, LocksInv, Holding
  <1>4. LocksInv'
    BY <1>1, <1>3 DEF LocksInv, TypeOK
  <1>5. TxInv(s)'
    BY <1>1 DEF TxInv, Opens
  <1>6. \A q \in Session : q # s => TxInv(q)'
    BY <1>1 DEF TxsInv, TxInv
  <1> QED BY <1>2, <1>4, <1>5, <1>6 DEF TxsInv

\* The lane is taken by the claim that waits for it.
LEMMA EntersKeeps ==
  ASSUME TypeOK, TxsInv, LocksInv, NEW s \in Session, NEW x \in Tx, Enters(s, x)
  PROVE  TypeOK' /\ TxsInv' /\ LocksInv'
  <1>1. /\ tx' \in [Session -> Tx] /\ tx'[s] = x /\ lane' = s /\ lane = NoSession
        /\ \A q \in Session : q # s => tx'[q] = tx[q]
        /\ UNCHANGED <<rows, runs, lock>>
    BY DEF Enters, TypeOK
  <1>2. TypeOK'
    BY <1>1 DEF TypeOK
  <1>3. LocksInv'
    BY <1>1 DEF LocksInv, TypeOK, Enters, Holding
  <1>4. TxInv(s)'
    BY <1>1 DEF TxInv, TxsInv, Enters
  <1>5. \A q \in Session : q # s => TxInv(q)'
    BY <1>1, SessionAssumption DEF TxsInv, TxInv
  <1> QED BY <1>2, <1>3, <1>4, <1>5 DEF TxsInv

\* A row is locked that nobody else has locked.
LEMMA LocksKeeps ==
  ASSUME TypeOK, TxsInv, LocksInv, NEW s \in Session, NEW t \in Task, NEW x \in Tx, Locks(s, t, x)
  PROVE  TypeOK' /\ TxsInv' /\ LocksInv'
  <1>1. /\ tx' \in [Session -> Tx] /\ tx'[s] = x
        /\ \A q \in Session : q # s => tx'[q] = tx[q]
        /\ lock' \in [Task -> Session \cup {NoSession}] /\ lock'[t] = s
        /\ \A u \in Task : u # t => lock'[u] = lock[u]
        /\ UNCHANGED <<rows, runs, lane>>
    BY DEF Locks, TypeOK
  <1>2. TypeOK'
    BY <1>1 DEF TypeOK
  <1>3. x.at # "chosen" => lane # s
    BY SessionAssumption DEF Locks, LocksInv
  <1>4. LocksInv'
    <2>1. x.at \in Holding
      BY DEF Locks, Holding
    <2>2. \A u \in Task : lock'[u] # NoSession => tx'[lock'[u]].at \in Holding
      BY <1>1, <2>1 DEF LocksInv, TypeOK
    <2>3. lane # NoSession => tx'[lane].at \in {"inLane", "chosen"}
      BY <1>1, <1>3 DEF LocksInv, TypeOK
    <2> QED BY <1>1, <2>2, <2>3 DEF LocksInv
  <1>5. TxInv(s)'
    BY <1>1 DEF TxInv, Locks
  <1>6. ASSUME NEW q \in Session, q # s
        PROVE  TxInv(q)'
    <2>1. \A u \in Task : lock[u] = q => lock'[u] = q
      BY <1>1, <1>6, SessionAssumption DEF Locks, Unlocked
    <2> QED BY <1>1, <1>6, <2>1 DEF TxsInv, TxInv
  <1> QED BY <1>2, <1>4, <1>5, <1>6 DEF TxsInv

\* A task that is inserted is in no transaction that has chosen it.
LEMMA InsertKeeps ==
  ASSUME TypeOK, TxsInv, LocksInv, NEW t \in Task, NEW r \in Row,
         rows' = [rows EXCEPT ![t] = r], Inserted(t, r), UNCHANGED <<lock, lane, tx>>
  PROVE  TypeOK' /\ TxsInv' /\ LocksInv'
  <1>1. /\ rows \in [Task -> Row] /\ rows'[t] = r
        /\ \A u \in Task : u # t => rows'[u] = rows[u]
    BY DEF TypeOK
  <1>2. TypeOK'
    BY WriteType DEF TypeOK
  <1>3. LocksInv'
    BY DEF LocksInv
  <1>4. ASSUME NEW q \in Session
        PROVE  TxInv(q)'
    <2>1. TxInv(q) /\ tx'[q] = tx[q] /\ tx[q] \in Tx
      BY DEF TxsInv, TypeOK
    <2>2. tx[q].at = "settle" => ReadHolds(tx[q], rows'[tx[q].task])
      BY <2>1, WriteKeepsRead DEF TxInv
    <2>3. tx[q].at = "chosen" => tx[q].task # t
      BY <2>1 DEF TxInv, Inserted
    <2>4. (\A u \in Cleanup : rows[u].status # "running") => \A u \in Cleanup : rows'[u].status # "running"
      BY <1>1, TaskAssumption DEF Inserted
    <2> QED BY <1>1, <2>1, <2>2, <2>3, <2>4 DEF TxInv
  <1> QED BY <1>2, <1>3, <1>4 DEF TxsInv

\* Every step keeps the invariant.
LEMMA PostgresInvStep ==
  ASSUME PostgresInv, Next
  PROVE  PostgresInv'
  <1>1. TypeOK /\ TxsInv /\ LocksInv /\ OneRunPerAttempt
    BY DEF PostgresInv
  <1>2. CASE UNCHANGED <<rows, runs>>
    <2>1. OneRunPerAttempt'
      BY <1>1, <1>2 DEF OneRunPerAttempt
    <2>2. CASE UNCHANGED <<lock, lane, tx>>
      BY <1>1, <1>2, <2>1, <2>2 DEF PostgresInv, TypeOK, TxsInv, TxInv, LocksInv
    <2>3. ASSUME NEW s \in Session, Release(s)
          PROVE  PostgresInv'
      BY <1>1, <1>2, <2>1, <2>3, ReleaseKeeps DEF PostgresInv, TypeOK
    <2> QED BY <1>1, <2>1, <2>2, <2>3, StepIsMove, OpensKeeps, EntersKeeps, LocksKeeps DEF PostgresInv
  <1>3. ASSUME NEW t \in Task, NEW r \in Row, rows' = [rows EXCEPT ![t] = r], Inserted(t, r),
               UNCHANGED <<lock, lane, tx>>
        PROVE  PostgresInv'
    BY <1>1, <1>3, InsertKeeps, WriteKeepsRuns DEF PostgresInv
  <1>4. ASSUME NEW s \in Session, NEW t \in Task, NEW r \in Row, Writes(s, t, r), Release(s)
        PROVE  PostgresInv'
    <2>1. /\ rows' = [rows EXCEPT ![t] = r]
          /\ \/ Inserted(t, r) \/ Claimed(t, r) \/ Withdrawn(t, r) \/ Marked(t, r)
             \/ \E read \in [status : Status, epoch : Nat, retries : Nat] : Ended(t, r, read)
      <3>1. tx[s].read \in [status : Status, epoch : Nat, retries : Nat]
        BY <1>1 DEF TypeOK, Tx
      <3> QED BY <1>4, <3>1 DEF Writes
    <2>2. rows' \in [Task -> Row] /\ runs' \in [Task -> Seq(Nat)] /\ OneRunPerAttempt'
      BY <1>1, <2>1, WriteType, WriteKeepsRuns
    <2> QED BY <1>1, <1>4, <2>2, ReleaseKeeps DEF PostgresInv, TypeOK
  <1> QED BY <1>1, <1>2, <1>3, <1>4, StepIsWrite

\* The empty queue.
LEMMA PostgresInvInit == Init => PostgresInv
  <1> SUFFICES ASSUME Init PROVE PostgresInv
    OBVIOUS
  <1>1. TypeOK
    BY IdleType DEF Init, TypeOK
  <1>2. TxsInv /\ LocksInv
    BY IdleType DEF Init, TxsInv, TxInv, LocksInv
  <1>3. OneRunPerAttempt
    BY IdleType DEF Init, OneRunPerAttempt
  <1> QED BY <1>1, <1>2, <1>3 DEF PostgresInv

\* The inductive invariant of the Postgres queue.
THEOREM PostgresInvariant == Spec => []PostgresInv
  <1>1. PostgresInv /\ UNCHANGED vars => PostgresInv'
    BY DEF vars, PostgresInv, TypeOK, TxsInv, TxInv, LocksInv, OneRunPerAttempt
  <1> QED BY <1>1, PostgresInvInit, PostgresInvStep, PTL DEF Spec

\* The rows, locks and transactions of the Postgres queue keep their types.
THEOREM PostgresTypes == Spec => []TypeOK
  BY PostgresInvariant, PTL DEF PostgresInv

\* However the settles and cancels of several sessions overlap, each attempt
\* that ended has one row in task_runs.
THEOREM PostgresRunsOnce == Spec => []OneRunPerAttempt
  BY PostgresInvariant, PTL DEF PostgresInv

\* No circle of sessions that wait for each other's locks ever closes, and
\* the lane is never left locked by a claim that is over.
THEOREM PostgresLocks == Spec => []LockDiscipline
  <1>1. PostgresInv => LockDiscipline
    <2> SUFFICES ASSUME PostgresInv PROVE LockDiscipline
      OBVIOUS
    <2>1. lane # NoSession => tx[lane].at \in {"inLane", "chosen"}
      BY DEF PostgresInv, LocksInv
    <2>2. \A t \in Task : lock[t] # NoSession => tx[lock[t]].at \in Holding
      BY DEF PostgresInv, LocksInv
    <2> QED BY <2>1, <2>2 DEF LockDiscipline, WaitsForRow, WaitsForLane, Holding
  <1> QED BY <1>1, PostgresInvariant, PTL

\* At most one maintenance task runs, in whatever session it was claimed.
OneInLane ==
  \A t, u \in Cleanup : rows[t].status = "running" /\ rows[u].status = "running" => t = u

\* Two claims of maintenance tasks overlap in every way, and the lane still
\* runs one task at a time: the second query under the advisory lock sees the
\* first claim's commit.
THEOREM PostgresLaneExclusive == Spec => []OneInLane
  <1>1. Init => OneInLane
    BY IdleType, TaskAssumption DEF Init, OneInLane
  <1>2. ASSUME PostgresInv, OneInLane, [Next]_vars
        PROVE  OneInLane'
    <2>1. CASE UNCHANGED rows
      BY <1>2, <2>1 DEF OneInLane
    <2>2. ASSUME NEW t \in Task, NEW r \in Row, rows' = [rows EXCEPT ![t] = r],
                 t \in Cleanup /\ r.status = "running" =>
                   \/ rows[t].status = "running"
                   \/ \A u \in Cleanup : rows[u].status # "running"
          PROVE  OneInLane'
      <3>1. rows'[t] = r /\ \A u \in Task : u # t => rows'[u] = rows[u]
        BY <1>2, <2>2 DEF PostgresInv, TypeOK
      <3> QED BY <1>2, <2>2, <3>1, TaskAssumption DEF OneInLane
    <2>3. ASSUME NEW t \in Task, NEW r \in Row, rows' = [rows EXCEPT ![t] = r], Inserted(t, r)
          PROVE  OneInLane'
      BY <2>2, <2>3 DEF Inserted
    <2>4. ASSUME NEW s \in Session, NEW t \in Task, NEW r \in Row, Writes(s, t, r)
          PROVE  OneInLane'
      BY <2>2, <2>4 DEF Writes, Claimed, Ended, Withdrawn, Marked, Terminal
    <2>5. CASE Next
      BY <1>2, <2>1, <2>3, <2>4, <2>5, StepIsWrite DEF PostgresInv
    <2>6. CASE UNCHANGED vars
      BY <2>1, <2>6 DEF vars
    <2> QED BY <1>2, <2>5, <2>6
  <1> QED BY <1>1, <1>2, PostgresInvariant, PTL DEF Spec

----------------------------------------------------------------------------
(* The contract of the queue *)

\* A row that is inserted, claimed, cancelled or marked is a step of the
\* contract, or none; so is the end of the attempt that the settle has read.
LEMMA WriteKeepsContract ==
  ASSUME TypeOK, NEW t \in Task, NEW r \in Row, rows' = [rows EXCEPT ![t] = r],
         NEW read \in [status : Status, epoch : Nat, retries : Nat],
         \/ Inserted(t, r) \/ Claimed(t, r) \/ Withdrawn(t, r) \/ Marked(t, r)
         \/ Ended(t, r, read) /\ read.epoch = rows[t].epoch /\ read.retries = rows[t].retries
  PROVE  [Contract!Next]_(Contract!contractVars)
  <1> DEFINE old == rows[t]
             ph == [u \in Task |-> PhaseOf(rows[u].status)]
             at == [u \in Task |-> rows[u].epoch]
             fl == [u \in Task |-> rows[u].retries]
  <1>1. rows \in [Task -> Row] /\ runs \in [Task -> Seq(Nat)] /\ old \in Row
    BY DEF TypeOK
  <1>2. /\ ph' = [ph EXCEPT ![t] = PhaseOf(r.status)]
        /\ at' = [at EXCEPT ![t] = r.epoch]
        /\ fl' = [fl EXCEPT ![t] = r.retries]
    BY <1>1
  <1>3. /\ old.epoch \in Nat /\ old.retries \in Nat
        /\ ph[t] = PhaseOf(old.status) /\ at[t] = old.epoch /\ fl[t] = old.retries
    BY <1>1 DEF Row
  <1>4. CASE Inserted(t, r)
    <2>1. ph[t] = "absent" /\ ph' = [ph EXCEPT ![t] = "waiting"] /\ runs' = runs
      BY <1>2, <1>3, <1>4 DEF Inserted, PhaseOf
    <2>2. at' = at /\ fl' = fl
      BY <1>2, <1>3, <1>4 DEF Inserted
    <2>3. Contract!Submit(t)
      BY <2>1, <2>2 DEF Contract!Submit
    <2> QED BY <2>3 DEF Contract!Next
  <1>5. CASE Claimed(t, r)
    <2>1. ph[t] = "waiting" /\ ph' = [ph EXCEPT ![t] = "held"] /\ runs' = runs
      BY <1>2, <1>3, <1>5 DEF Claimed, PhaseOf
    <2>2. at' = [at EXCEPT ![t] = @ + 1] /\ fl' = fl
      BY <1>2, <1>3, <1>5 DEF Claimed
    <2>3. t \in Cleanup => \A u \in Cleanup : ph[u] # "held"
      BY <1>5, TaskAssumption DEF Claimed, PhaseOf
    <2>4. Contract!Grant(t)
      BY <2>1, <2>2, <2>3 DEF Contract!Grant, Contract!LaneOpen
    <2> QED BY <2>4 DEF Contract!Next
  <1>6. CASE Withdrawn(t, r)
    <2>1. ph[t] = "waiting" /\ ph' = [ph EXCEPT ![t] = "closed"]
      BY <1>2, <1>3, <1>6 DEF Withdrawn, PhaseOf
    <2>2. at' = at /\ fl' = fl /\ runs' = [runs EXCEPT ![t] = Append(@, 0)]
      BY <1>2, <1>3, <1>6 DEF Withdrawn
    <2>3. Contract!Withdraw(t)
      BY <2>1, <2>2 DEF Contract!Withdraw
    <2> QED BY <2>3 DEF Contract!Next
  <1>7. CASE Marked(t, r)
    <2>1. ph' = ph /\ at' = at /\ fl' = fl /\ runs' = runs
      BY <1>2, <1>3, <1>7 DEF Marked
    <2> QED BY <2>1 DEF Contract!contractVars
  <1>8. CASE Ended(t, r, read) /\ read.epoch = rows[t].epoch /\ read.retries = rows[t].retries
    <2>1. ph[t] = "held" /\ at' = at
      BY <1>2, <1>3, <1>8 DEF Ended, PhaseOf
    <2>2. runs' = [runs EXCEPT ![t] = Append(@, at[t])]
      BY <1>3, <1>8 DEF Ended
    <2>3. CASE r.retries = old.retries
      <3>1. fl' = [fl EXCEPT ![t] = fl[t]]
        BY <1>2, <1>3, <2>3
      <3>2. CASE PhaseOf(r.status) = "waiting"
        <4>1. Contract!Yield(t)
          BY <1>2, <2>1, <2>2, <3>1, <3>2 DEF Contract!Yield, Contract!End
        <4> QED BY <4>1 DEF Contract!Next
      <3>3. CASE PhaseOf(r.status) = "closed"
        <4>1. Contract!Finish(t)
          BY <1>2, <2>1, <2>2, <3>1, <3>3 DEF Contract!Finish, Contract!End
        <4> QED BY <4>1 DEF Contract!Next
      <3>4. PhaseOf(r.status) \in {"waiting", "closed"}
        BY <1>8 DEF Ended, PhaseOf, Terminal
      <3> QED BY <3>2, <3>3, <3>4
    <2>4. CASE /\ r.retries = read.retries + 1
               /\ r.status = IF read.retries + 1 >= MaxRetries THEN "failed" ELSE "pending"
      <3>1. PhaseOf(r.status) = IF fl[t] + 1 >= MaxRetries THEN "closed" ELSE "waiting"
        BY <1>3, <1>8, <2>4 DEF PhaseOf
      <3>2. fl' = [fl EXCEPT ![t] = fl[t] + 1]
        BY <1>2, <1>3, <1>8, <2>4
      <3>3. Contract!Fail(t)
        BY <1>2, <2>1, <2>2, <3>1, <3>2 DEF Contract!Fail, Contract!End
      <3> QED BY <3>3 DEF Contract!Next
    <2>5. CASE r.retries = MaxRetries /\ r.status = "failed"
      <3>1. ph' = [ph EXCEPT ![t] = "closed"] /\ fl' = [fl EXCEPT ![t] = MaxRetries]
        BY <1>2, <2>5 DEF PhaseOf
      <3>2. Contract!Finish(t)
        BY <2>1, <2>2, <3>1 DEF Contract!Finish, Contract!End
      <3> QED BY <3>2 DEF Contract!Next
    <2> QED BY <1>8, <2>3, <2>4, <2>5 DEF Ended
  <1> QED BY <1>4, <1>5, <1>6, <1>7, <1>8

\* A settle that ends another attempt than it has read is one without an
\* epoch; every other step of the sessions is one of the contract, or none.
LEMMA StepKeepsContract ==
  ASSUME TypeOK, TxsInv, Next
  PROVE  [Contract!Next \/ \E s \in Session : Overrules(s)]_(Contract!contractVars)
  <1>1. CASE UNCHANGED <<rows, runs>>
    BY <1>1 DEF Contract!contractVars
  <1>2. ASSUME NEW t \in Task, NEW r \in Row, rows' = [rows EXCEPT ![t] = r], Inserted(t, r)
        PROVE  [Contract!Next]_(Contract!contractVars)
    <2>1. Read(Absent) \in [status : Status, epoch : Nat, retries : Nat]
      BY IdleType DEF Read, Row
    <2> QED BY <1>2, <2>1, WriteKeepsContract
  <1>3. ASSUME NEW s \in Session, NEW t \in Task, NEW r \in Row, Writes(s, t, r)
        PROVE  [Contract!Next]_(Contract!contractVars) \/ Overrules(s)
    <2> DEFINE read == tx[s].read
    <2>1. read \in [status : Status, epoch : Nat, retries : Nat] /\ rows' = [rows EXCEPT ![t] = r]
      BY <1>3 DEF TypeOK, Tx, Writes
    <2>2. CASE Claimed(t, r) \/ Withdrawn(t, r) \/ Marked(t, r)
      BY <2>1, <2>2, WriteKeepsContract
    <2>3. CASE tx[s].at = "settle" /\ tx[s].task = t /\ Ended(t, r, read) /\ Settle(s)
      <3>1. ReadHolds(tx[s], rows[t]) /\ rows[t].status = "running" /\ RunningFor(rows[t], tx[s].epoch)
        <4>1. ReadHolds(tx[s], rows[t]) /\ rows[t].status = "running"
          BY <2>3 DEF TxsInv, TxInv, Ended
        <4>2. runs[t] \in Seq(Nat) /\ runs \in [Task -> Seq(Nat)] /\ read.epoch \in Nat
          BY <2>1 DEF TypeOK
        <4>3. runs' # runs
          BY <2>3, <4>2 DEF Ended
        <4> QED BY <2>3, <4>1, <4>3 DEF Settle
      <3>2. CASE read.epoch = rows[t].epoch
        <4>1. read.retries = rows[t].retries
          BY <3>1, <3>2 DEF ReadHolds
        <4> QED BY <2>1, <2>3, <3>2, <4>1, WriteKeepsContract
      <3>3. CASE read.epoch # rows[t].epoch
        <4>1. tx[s].epoch = NoEpoch
          BY <3>1, <3>3 DEF ReadHolds, RunningFor
        <4> QED BY <2>3, <3>3, <4>1 DEF Overrules
      <3> QED BY <3>2, <3>3
    <2> QED BY <1>3, <2>2, <2>3 DEF Writes
  <1> QED BY <1>1, <1>2, <1>3, StepIsWrite

\* The transactions of the Postgres queue implement the contract of a task
\* queue, whatever their statements overlap with, but for the settles without
\* an epoch that end an attempt which was started after their read.
THEOREM PostgresKeepsContract == Spec => ImplementsContract
  <1>1. Init => Contract!Init
    BY IdleType DEF Init, Contract!Init, PhaseOf
  <1>2. PostgresInv /\ [Next]_vars =>
          [Contract!Next \/ \E s \in Session : Overrules(s)]_(Contract!contractVars)
    <2>1. UNCHANGED vars => UNCHANGED Contract!contractVars
      BY DEF vars, Contract!contractVars
    <2> QED BY <2>1, StepKeepsContract DEF PostgresInv
  <1> QED BY <1>1, <1>2, PostgresInvariant, PTL DEF Spec, ImplementsContract
============================================================================
