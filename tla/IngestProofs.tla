---------------------------- MODULE IngestProofs ----------------------------
(***************************************************************************)
(* For any number of thoughts, tasks, attempts and sweepers, and any bounds *)
(* on crashes, overtaken attempts and failures: the types hold; without    *)
(* enforcement no thought is lost; with it none is written twice, and the  *)
(* receipts agree with the coverage.                                       *)
(***************************************************************************)
EXTENDS Ingest, TLAPS

----------------------------------------------------------------------------
(* The type invariant, in the parts that the steps treat apart *)

JournalOK ==
  /\ status \in [Entry -> Status]
  /\ owner \in [Entry -> Task \cup {NoTask}]
  /\ \A n \in Entry : status[n] = "claimed" <=> owner[n] # NoTask

RowOK ==
  /\ row \in [Task -> {"pending", "running", "ended"}]
  /\ epoch \in [Task -> 0..MaxEpoch]

HandOK ==
  /\ recorded \in [Task -> SUBSET Entry]
  /\ run \in [Task -> [1..MaxEpoch -> Attempt]]

EvidenceOK ==
  /\ receipts \subseteq Action
  /\ coverage \in [Entry -> Action \cup {NoAction}]
  /\ applied \in [Entry -> 0..2]
  /\ ignored \subseteq Entry

RestOK ==
  /\ picked \in [Sweeper -> SUBSET Entry]
  /\ left \in [{"crash", "late", "fault"} -> Nat]

LEMMA TypeParts ==
  IngestTypeOK <=> JournalOK /\ RowOK /\ HandOK /\ EvidenceOK /\ RestOK
  BY Zenon DEF IngestTypeOK, JournalOK, RowOK, HandOK, EvidenceOK, RestOK

\* A transition of some rows keeps the journal well-formed if it names an
\* owner exactly when it claims.
LEMMA SetStatusKeeps ==
  ASSUME JournalOK, NEW S, NEW to \in Status, NEW who \in Task \cup {NoTask},
         to = "claimed" <=> who # NoTask, SetStatus(S, to, who)
  PROVE  JournalOK'
  BY DEF JournalOK, SetStatus

LEMMA JournalStep ==
  ASSUME JournalOK, Next
  PROVE  JournalOK'
  <1> USE DEF Status
  <1>1. UNCHANGED journalVars => JournalOK'
    BY DEF JournalOK, journalVars
  <1>2. ASSUME NEW S, NEW to \in Status \ {"claimed"}, SetStatus(S, to, NoTask)
        PROVE  JournalOK'
    BY <1>2, SetStatusKeeps
  <1>3. ASSUME NEW S, NEW t \in Task, ClaimPending(t, S)
        PROVE  JournalOK'
    BY <1>3, SetStatusKeeps, TaskAssumption DEF ClaimPending
  <1>4. ASSUME NEW S, NEW t \in Task, ReleaseClaimed(t, S) \/ MoveToRecoverable(t, S)
        PROVE  JournalOK'
    BY <1>4, <1>2 DEF ReleaseClaimed, MoveToRecoverable
  <1>5. ASSUME NEW n \in Entry, Record(n) \/ Purge(n)
        PROVE  JournalOK'
    BY <1>5, <1>2 DEF Record, Purge
  <1>6. ASSUME NEW d \in Sweeper, SweepSelect(d) \/ SweepUpdate(d)
        PROVE  JournalOK'
    BY <1>6, <1>1, <1>2 DEF SweepSelect, SweepUpdate
  <1>7. ASSUME NEW t \in Task, TakeTask(t) \/ Recover(t) \/ RecoverTooEarly(t)
        PROVE  JournalOK'
    BY <1>7, <1>1 DEF TakeTask, Recover, RecoverTooEarly, FailRow
  <1>8. ASSUME NEW t \in Task, NEW e \in 1..MaxEpoch,
               \/ Start(t, e) \/ ReadClaimed(t, e) \/ AgentNotes(t, e)
               \/ EndTask(t, e) \/ Raise(t, e) \/ Crash(t, e)
        PROVE  JournalOK'
    BY <1>8, <1>1 DEF Start, ReadClaimed, AgentNotes, EndTask, Raise, Crash
  <1>9. ASSUME NEW t \in Task, NEW e \in 1..MaxEpoch,
               \/ ClaimBatch(t, e) \/ SetAside(t, e) \/ EndBatch(t, e)
               \/ MoveHandled(t, e) \/ ReleaseRest(t, e) \/ ReleaseAndRaise(t, e)
        PROVE  JournalOK'
    BY <1>9, <1>1, <1>3, <1>4
       DEF ClaimBatch, SetAside, EndBatch, MoveHandled, ReleaseRest, ReleaseAndRaise
  <1>10. ASSUME NEW t \in Task, NEW e \in 1..MaxEpoch,
                AgentClaims(t, e) \/ AgentGetsBatch(t, e) \/ AgentEnds(t, e)
         PROVE  JournalOK'
    BY <1>10, <1>1, <1>3, <1>4 DEF AgentClaims, AgentGetsBatch, AgentEnds
  <1>11. ASSUME NEW t \in Task, NEW e \in 1..MaxEpoch, NEW I, NEW X,
                ProcessGroup(t, e, I, X) \/ AgentWrites(t, e, I)
         PROVE  JournalOK'
    BY <1>11, <1>1 DEF ProcessGroup, AgentWrites
  <1>12. ASSUME NEW t \in Task, NEW e \in 1..MaxEpoch, NEW a, Execute(t, e, a)
         PROVE  JournalOK'
    BY <1>12, <1>1, <1>4 DEF Execute
  <1> QED
    BY <1>5, <1>6, <1>7, <1>8, <1>9, <1>10, <1>11, <1>12, Zenon
       DEF Next, Handler, AgentActs

LEMMA RowStep ==
  ASSUME RowOK, HandOK, Next
  PROVE  RowOK'
  <1>1. UNCHANGED taskVars => RowOK'
    BY DEF RowOK, taskVars
  <1>2. ASSUME NEW n \in Entry, Record(n) \/ Purge(n)
        PROVE  RowOK'
    BY <1>2, <1>1 DEF Record, Purge
  <1>3. ASSUME NEW d \in Sweeper, SweepSelect(d) \/ SweepUpdate(d)
        PROVE  RowOK'
    BY <1>3, <1>1 DEF SweepSelect, SweepUpdate
  <1>4. ASSUME NEW t \in Task, TakeTask(t)
        PROVE  RowOK'
    BY <1>4, BoundAssumption DEF TakeTask, RowOK
  <1>5. ASSUME NEW t \in Task, Recover(t) \/ RecoverTooEarly(t)
        PROVE  RowOK'
    BY <1>5 DEF Recover, RecoverTooEarly, FailRow, RowOK
  <1>6. ASSUME NEW t \in Task, NEW e \in 1..MaxEpoch, EndTask(t, e)
        PROVE  RowOK'
    BY <1>6 DEF EndTask, RowOK
  <1>7. ASSUME NEW t \in Task, NEW e \in 1..MaxEpoch,
               \/ Start(t, e) \/ ReadClaimed(t, e) \/ AgentNotes(t, e)
               \/ Raise(t, e) \/ Crash(t, e) \/ ClaimBatch(t, e) \/ SetAside(t, e)
               \/ EndBatch(t, e) \/ MoveHandled(t, e) \/ ReleaseRest(t, e)
               \/ ReleaseAndRaise(t, e) \/ AgentClaims(t, e)
               \/ AgentGetsBatch(t, e) \/ AgentEnds(t, e)
        PROVE  RowOK'
    BY <1>7, <1>1
       DEF Start, ReadClaimed, AgentNotes, Raise, Crash, ClaimBatch, SetAside, EndBatch,
           MoveHandled, ReleaseRest, ReleaseAndRaise, AgentClaims, AgentGetsBatch, AgentEnds
  <1>8. ASSUME NEW t \in Task, NEW e \in 1..MaxEpoch, NEW I, NEW X,
               ProcessGroup(t, e, I, X) \/ AgentWrites(t, e, I) \/ Execute(t, e, X)
        PROVE  RowOK'
    BY <1>8, <1>1 DEF ProcessGroup, AgentWrites, Execute
  <1> QED
    BY <1>2, <1>3, <1>4, <1>5, <1>6, <1>7, <1>8, Zenon DEF Next, Handler, AgentActs

LEMMA AttemptTyped ==
  ASSUME HandOK, NEW t \in Task, NEW e \in 1..MaxEpoch
  PROVE  /\ run[t][e] \in Attempt
         /\ run[t][e].given \subseteq Entry
  <1>1. run[t][e] \in Attempt
    BY DEF HandOK
  <1> QED BY <1>1 DEF Attempt

\* The attempts keep their types when one of them is given an attempt.
LEMMA SetKeeps ==
  ASSUME HandOK, NEW t \in Task, NEW e \in 1..MaxEpoch, NEW r \in Attempt, Set(t, e, r)
  PROVE  run' \in [Task -> [1..MaxEpoch -> Attempt]]
  BY DEF HandOK, Set

LEMMA LeaveKeeps ==
  ASSUME HandOK, NEW t \in Task, NEW e \in 1..MaxEpoch, NEW at \in At, Leave(t, e, at)
  PROVE  run' \in [Task -> [1..MaxEpoch -> Attempt]]
  <1>1. [Idle EXCEPT !.at = at] \in Attempt
    BY DEF Idle, Attempt
  <1> QED BY <1>1, SetKeeps DEF Leave

LEMMA HandStep ==
  ASSUME HandOK, RowOK, Next
  PROVE  HandOK'
  <1> DEFINE Runs == run' \in [Task -> [1..MaxEpoch -> Attempt]]
  <1>1. ASSUME UNCHANGED <<recorded, run>>
        PROVE  HandOK'
    BY <1>1 DEF HandOK
  <1>2. ASSUME UNCHANGED recorded, Runs
        PROVE  HandOK'
    BY <1>2 DEF HandOK
  <1>3. ASSUME NEW t \in Task, NEW e \in 1..MaxEpoch
        PROVE  run[t][e] \in Attempt
    BY <1>3, AttemptTyped
  <1>4. ASSUME NEW n \in Entry, Record(n) \/ Purge(n)
        PROVE  HandOK'
    BY <1>4, <1>1 DEF Record, Purge
  <1>5. ASSUME NEW d \in Sweeper, SweepSelect(d) \/ SweepUpdate(d)
        PROVE  HandOK'
    BY <1>5, <1>1 DEF SweepSelect, SweepUpdate
  <1>6. ASSUME NEW t \in Task, Recover(t) \/ RecoverTooEarly(t)
        PROVE  HandOK'
    BY <1>6, <1>1 DEF Recover, RecoverTooEarly, FailRow
  <1>7. ASSUME NEW t \in Task, TakeTask(t)
        PROVE  HandOK'
    <2>1. epoch'[t] \in 1..MaxEpoch
      BY <1>7, BoundAssumption DEF TakeTask, RowOK
    <2>2. [Idle EXCEPT !.at = "start"] \in Attempt
      BY DEF Idle, Attempt, At
    <2>3. Runs
      BY <1>7, <2>1, <2>2, SetKeeps DEF TakeTask
    <2> QED BY <1>7, <1>2, <2>3 DEF TakeTask
  <1>8. ASSUME NEW t \in Task, NEW e \in 1..MaxEpoch,
               \/ EndTask(t, e) \/ Crash(t, e) \/ Raise(t, e) \/ ReleaseAndRaise(t, e)
               \/ SetAside(t, e)
        PROVE  HandOK'
    <2>1. Runs
      BY <1>8, LeaveKeeps DEF EndTask, Crash, Raise, ReleaseAndRaise, SetAside, At
    <2> QED
      BY <1>8, <1>2, <2>1 DEF EndTask, Crash, Raise, ReleaseAndRaise, SetAside
  <1>9. ASSUME NEW t \in Task, NEW e \in 1..MaxEpoch, Start(t, e)
        PROVE  HandOK'
    <2>1. [run[t][e] EXCEPT !.at = "agent"] \in Attempt
      BY <1>3 DEF Attempt, At
    <2>2. Runs
      BY <1>9, <2>1, LeaveKeeps, SetKeeps DEF Start, GoTo, At
    <2>3. recorded' \in [Task -> SUBSET Entry]
      BY <1>9 DEF Start, HandOK
    <2> QED BY <2>2, <2>3 DEF HandOK
  <1>10. ASSUME NEW t \in Task, NEW e \in 1..MaxEpoch, ClaimBatch(t, e)
         PROVE  HandOK'
    <2> DEFINE S == Oldest(Pending, BatchSize)
    <2>1. S \subseteq Entry
      BY DEF Oldest, Pending
    <2>2. [Idle EXCEPT !.at = "group", !.given = S, !.direct = TRUE] \in Attempt
      BY <2>1 DEF Idle, Attempt, At
    <2>3. Runs
      BY <1>10, <2>2, LeaveKeeps, SetKeeps DEF ClaimBatch, At
    <2> QED BY <1>10, <1>2, <2>3 DEF ClaimBatch
  <1>11. ASSUME NEW t \in Task, NEW e \in 1..MaxEpoch, NEW I, NEW X,
                ProcessGroup(t, e, I, X)
         PROVE  HandOK'
    <2> DEFINE r == run[t][e]
    <2>1. PICK G \in SUBSET r.given :
            /\ I \cup X \subseteq G
            /\ Set(t, e, [r EXCEPT !.given = @ \ G, !.done = @ \cup I \cup X,
                                   !.useful = @ \/ I # {}])
      BY <1>11 DEF ProcessGroup
    <2>2. r \in Attempt
      BY <1>3
    <2>3. [r EXCEPT !.given = @ \ G, !.done = @ \cup I \cup X,
                    !.useful = @ \/ I # {}] \in Attempt
      <3>1. r.given \ G \in SUBSET Entry /\ r.done \cup I \cup X \in SUBSET Entry
        BY <2>1, <2>2 DEF Attempt
      <3>2. (r.useful \/ I # {}) \in BOOLEAN
        BY Zenon
      <3> QED BY <2>2, <3>1, <3>2 DEF Attempt
    <2>4. Runs
      BY <2>1, <2>3, SetKeeps
    <2> QED BY <1>11, <1>2, <2>4 DEF ProcessGroup
  <1>12. ASSUME NEW t \in Task, NEW e \in 1..MaxEpoch, EndBatch(t, e) \/ AgentEnds(t, e)
         PROVE  HandOK'
    <2>1. /\ [run[t][e] EXCEPT !.at = "read"] \in Attempt
          /\ [run[t][e] EXCEPT !.at = "read", !.done = recorded[t]] \in Attempt
      BY <1>3 DEF Attempt, At, HandOK
    <2>2. Runs
      BY <1>12, <2>1, LeaveKeeps, SetKeeps DEF EndBatch, AgentEnds, GoTo, At
    <2> QED BY <1>12, <1>2, <2>2 DEF EndBatch, AgentEnds
  <1>13. ASSUME NEW t \in Task, NEW e \in 1..MaxEpoch,
                ReadClaimed(t, e) \/ MoveHandled(t, e)
         PROVE  HandOK'
    <2> DEFINE r == run[t][e]
    <2>1. /\ [r EXCEPT !.at = "move", !.ids = OwnedBy(t)] \in Attempt
          /\ [r EXCEPT !.at = "release", !.ids = @ \ (r.done \cap OwnedBy(t))] \in Attempt
      BY <1>3 DEF Attempt, At, OwnedBy
    <2>2. Runs
      BY <1>13, <2>1, SetKeeps DEF ReadClaimed, MoveHandled
    <2> QED BY <1>13, <1>2, <2>2 DEF ReadClaimed, MoveHandled
  <1>14. ASSUME NEW t \in Task, NEW e \in 1..MaxEpoch, ReleaseRest(t, e)
         PROVE  HandOK'
    <2>1. Runs
      BY <1>14, LeaveKeeps DEF ReleaseRest, At
    <2> QED BY <1>14, <1>2, <2>1 DEF ReleaseRest
  <1>15. ASSUME NEW t \in Task, NEW e \in 1..MaxEpoch,
                AgentClaims(t, e) \/ AgentGetsBatch(t, e)
         PROVE  HandOK'
    <2> DEFINE r == run[t][e]
               S == Oldest(Pending, BatchSize)
    <2>1. S \subseteq Entry
      BY DEF Oldest, Pending
    <2>2. /\ [r EXCEPT !.at = "batch", !.ids = S, !.useful = TRUE] \in Attempt
          /\ [r EXCEPT !.at = "agent", !.given = @ \cup r.ids, !.ids = {}] \in Attempt
          /\ [r EXCEPT !.at = "agent", !.ids = {}] \in Attempt
      BY <1>3, <2>1 DEF Attempt, At
    <2>3. Runs
      BY <1>15, <2>2, SetKeeps DEF AgentClaims, AgentGetsBatch
    <2> QED BY <1>15, <1>2, <2>3 DEF AgentClaims, AgentGetsBatch
  <1>16. ASSUME NEW t \in Task, NEW e \in 1..MaxEpoch, NEW S, NEW a,
                AgentWrites(t, e, S) \/ Execute(t, e, a)
         PROVE  HandOK'
    <2> DEFINE r == run[t][e]
    <2>1. ASSUME NEW T, T \subseteq r.given
          PROVE  [r EXCEPT !.at = "note", !.ids = T] \in Attempt
      BY <1>3, <2>1 DEF Attempt, At
    <2>2. Runs
      BY <1>16, <2>1, SetKeeps DEF AgentWrites, Execute
    <2> QED BY <1>16, <1>2, <2>2 DEF AgentWrites, Execute
  <1>17. ASSUME NEW t \in Task, NEW e \in 1..MaxEpoch, AgentNotes(t, e)
         PROVE  HandOK'
    <2> DEFINE r == run[t][e]
    <2>1. r \in Attempt
      BY <1>3
    <2>2. [r EXCEPT !.at = "agent", !.ids = {}] \in Attempt
      BY <2>1 DEF Attempt, At
    <2>3. Runs
      BY <1>17, <2>2, SetKeeps DEF AgentNotes
    <2>4. recorded' \in [Task -> SUBSET Entry]
      BY <1>17, <2>1 DEF AgentNotes, HandOK, Attempt
    <2> QED BY <2>3, <2>4 DEF HandOK
  <1> QED
    BY <1>4, <1>5, <1>6, <1>7, <1>8, <1>9, <1>10, <1>11, <1>12, <1>13, <1>14, <1>15,
       <1>16, <1>17, Zenon DEF Next, Handler, AgentActs

----------------------------------------------------------------------------
(* What was written, covered and ignored changes in three actions only *)

\* The other actions leave the evidence alone.
LEMMA EvidenceCases ==
  ASSUME Next
  PROVE  \/ UNCHANGED evidence
         \/ \E t \in Task, e \in 1..MaxEpoch :
              \/ \E G \in SUBSET run[t][e].given : \E I \in SUBSET G :
                   ProcessGroup(t, e, I, G \ I)
              \/ \E S \in SUBSET run[t][e].given : AgentWrites(t, e, S)
              \/ \E a \in [landing : Landing, entries : SUBSET run[t][e].given] :
                   Execute(t, e, a)
  <1>1. ASSUME NEW n \in Entry, Record(n) \/ Purge(n)
        PROVE  UNCHANGED evidence
    BY <1>1 DEF Record, Purge
  <1>2. ASSUME NEW d \in Sweeper, SweepSelect(d) \/ SweepUpdate(d)
        PROVE  UNCHANGED evidence
    BY <1>2 DEF SweepSelect, SweepUpdate
  <1>3. ASSUME NEW t \in Task, TakeTask(t) \/ Recover(t) \/ RecoverTooEarly(t)
        PROVE  UNCHANGED evidence
    BY <1>3 DEF TakeTask, Recover, RecoverTooEarly, FailRow
  <1>4. ASSUME NEW t \in Task, NEW e \in 1..MaxEpoch,
               \/ Start(t, e) \/ ReadClaimed(t, e) \/ AgentNotes(t, e) \/ EndTask(t, e)
               \/ Raise(t, e) \/ Crash(t, e) \/ ClaimBatch(t, e) \/ SetAside(t, e)
               \/ EndBatch(t, e) \/ MoveHandled(t, e) \/ ReleaseRest(t, e)
               \/ ReleaseAndRaise(t, e) \/ AgentClaims(t, e)
               \/ AgentGetsBatch(t, e) \/ AgentEnds(t, e)
        PROVE  UNCHANGED evidence
    BY <1>4
       DEF Start, ReadClaimed, AgentNotes, EndTask, Raise, Crash, ClaimBatch, SetAside, EndBatch,
           MoveHandled, ReleaseRest, ReleaseAndRaise, AgentClaims, AgentGetsBatch, AgentEnds
  <1> QED
    BY <1>1, <1>2, <1>3, <1>4, Zenon DEF Next, Handler, AgentActs

LEMMA EvidenceStep ==
  ASSUME EvidenceOK, HandOK, Next
  PROVE  EvidenceOK'
  <1>1. CASE UNCHANGED evidence
    BY <1>1 DEF evidence, EvidenceOK
  <1>2. ASSUME NEW t \in Task, NEW e \in 1..MaxEpoch
        PROVE  run[t][e].given \subseteq Entry
    BY <1>2, AttemptTyped
  <1>3. ASSUME NEW n \in 0..2
        PROVE  Twice(n) \in 0..2
    BY <1>3 DEF Twice
  <1>4. ASSUME NEW t \in Task, NEW e \in 1..MaxEpoch, NEW G \in SUBSET run[t][e].given,
               NEW I \in SUBSET G, ProcessGroup(t, e, I, G \ I)
        PROVE  EvidenceOK'
    BY <1>4, <1>2, <1>3 DEF ProcessGroup, EvidenceOK
  <1>5. ASSUME NEW t \in Task, NEW e \in 1..MaxEpoch, NEW S \in SUBSET run[t][e].given,
               AgentWrites(t, e, S)
        PROVE  EvidenceOK'
    BY <1>5, <1>3 DEF AgentWrites, EvidenceOK
  <1>6. ASSUME NEW t \in Task, NEW e \in 1..MaxEpoch,
               NEW a \in [landing : Landing, entries : SUBSET run[t][e].given],
               Execute(t, e, a)
        PROVE  EvidenceOK'
    <2>1. a \in Action
      BY <1>2 DEF Action
    <2>2. CASE UNCHANGED evidence
      BY <2>2 DEF evidence, EvidenceOK
    <2>3. CASE /\ receipts' = receipts \cup {a}
               /\ applied' = [n \in Entry |->
                    IF n \in a.entries THEN Twice(applied[n]) ELSE applied[n]]
               /\ coverage' = [n \in Entry |-> IF n \in a.entries THEN a ELSE coverage[n]]
               /\ UNCHANGED ignored
      BY <2>1, <2>3, <1>3 DEF EvidenceOK
    <2> QED BY <1>6, <2>2, <2>3 DEF Execute
  <1> QED BY <1>1, <1>4, <1>5, <1>6, EvidenceCases, Zenon

LEMMA RestStep ==
  ASSUME RestOK, Next
  PROVE  RestOK'
  <1>1. UNCHANGED <<picked, left>> => RestOK'
    BY DEF RestOK
  <1>2. ASSUME NEW what \in {"crash", "late", "fault"}, Spend(what), UNCHANGED picked
        PROVE  RestOK'
    BY <1>2 DEF Spend, RestOK
  <1>3. ASSUME NEW n \in Entry, Record(n) \/ Purge(n)
        PROVE  RestOK'
    BY <1>3, <1>1 DEF Record, Purge
  <1>4. ASSUME NEW d \in Sweeper, SweepSelect(d) \/ SweepUpdate(d)
        PROVE  RestOK'
    BY <1>4 DEF SweepSelect, SweepUpdate, RestOK
  <1>5. ASSUME NEW t \in Task, TakeTask(t) \/ Recover(t) \/ RecoverTooEarly(t)
        PROVE  RestOK'
    BY <1>5, <1>1, <1>2 DEF TakeTask, Recover, RecoverTooEarly, FailRow
  <1>6. ASSUME NEW t \in Task, NEW e \in 1..MaxEpoch,
               Raise(t, e) \/ Crash(t, e) \/ AgentGetsBatch(t, e)
        PROVE  RestOK'
    BY <1>6, <1>1, <1>2 DEF Raise, Crash, AgentGetsBatch
  <1>7. ASSUME NEW t \in Task, NEW e \in 1..MaxEpoch,
               \/ Start(t, e) \/ ReadClaimed(t, e) \/ AgentNotes(t, e) \/ EndTask(t, e)
               \/ ClaimBatch(t, e) \/ SetAside(t, e) \/ EndBatch(t, e) \/ MoveHandled(t, e)
               \/ ReleaseRest(t, e) \/ ReleaseAndRaise(t, e) \/ AgentClaims(t, e)
               \/ AgentEnds(t, e)
        PROVE  RestOK'
    BY <1>7, <1>1
       DEF Start, ReadClaimed, AgentNotes, EndTask, ClaimBatch, SetAside, EndBatch,
           MoveHandled, ReleaseRest, ReleaseAndRaise, AgentClaims, AgentEnds
  <1>8. ASSUME NEW t \in Task, NEW e \in 1..MaxEpoch, NEW I, NEW X,
               ProcessGroup(t, e, I, X) \/ AgentWrites(t, e, I) \/ Execute(t, e, X)
        PROVE  RestOK'
    BY <1>8, <1>1 DEF ProcessGroup, AgentWrites, Execute
  <1> QED
    BY <1>3, <1>4, <1>5, <1>6, <1>7, <1>8, Zenon DEF Next, Handler, AgentActs

LEMMA InitTypes == Init => IngestTypeOK
  BY BoundAssumption
  DEF Init, IngestTypeOK, Status, Attempt, Idle, At

LEMMA TypeStep == IngestTypeOK /\ [Next]_vars => IngestTypeOK'
  <1> SUFFICES ASSUME IngestTypeOK, [Next]_vars PROVE IngestTypeOK'
    OBVIOUS
  <1>1. CASE Next
    BY <1>1, TypeParts, JournalStep, RowStep, HandStep, EvidenceStep, RestStep, PTL
  <1>2. CASE UNCHANGED vars
    BY <1>2 DEF vars, journalVars, taskVars, evidence, IngestTypeOK
  <1> QED BY <1>1, <1>2

\* Every variable keeps its type, and a row of the journal names a task
\* exactly while it is claimed.
THEOREM IngestTypes == Spec => []IngestTypeOK
  BY InitTypes, TypeStep, PTL DEF Spec

----------------------------------------------------------------------------
(* Enforcement: a write is tied to one receipt *)

\* Stronger than AppliedOnce and ReceiptsComplete: with enforcement a thought
\* is written once when some action covers it, and not at all otherwise.
EvidenceInv ==
  /\ ReceiptsComplete
  /\ Enforce => \A n \in Entry : applied[n] = IF coverage[n] = NoAction THEN 0 ELSE 1

LEMMA EvidenceInvStep ==
  ASSUME IngestTypeOK, EvidenceInv, Next
  PROVE  EvidenceInv'
  <1>0. EvidenceOK /\ HandOK
    BY TypeParts
  <1>1. CASE UNCHANGED evidence
    BY <1>1 DEF evidence, EvidenceInv, ReceiptsComplete
  <1>2. ASSUME NEW n \in 0..2
        PROVE  Twice(n) > 0 /\ Twice(0) = 1
    BY <1>2 DEF Twice
  <1>3. ASSUME NEW t \in Task, NEW e \in 1..MaxEpoch, NEW G \in SUBSET run[t][e].given,
               NEW I \in SUBSET G, ProcessGroup(t, e, I, G \ I)
        PROVE  EvidenceInv'
    BY <1>3, <1>0, <1>2 DEF ProcessGroup, EvidenceInv, ReceiptsComplete, EvidenceOK, Action
  <1>4. ASSUME NEW t \in Task, NEW e \in 1..MaxEpoch, NEW S \in SUBSET run[t][e].given,
               AgentWrites(t, e, S)
        PROVE  EvidenceInv'
    BY <1>4, <1>0, <1>2 DEF AgentWrites, EvidenceInv, ReceiptsComplete, EvidenceOK, Action
  <1>5. ASSUME NEW t \in Task, NEW e \in 1..MaxEpoch,
               NEW a \in [landing : Landing, entries : SUBSET run[t][e].given],
               Execute(t, e, a)
        PROVE  EvidenceInv'
    <2>1. CASE a \in receipts
      BY <1>5, <2>1, <1>1 DEF Execute
    <2>2. CASE a \notin receipts
      <3>1. /\ Enforce /\ ~Conflict(a)
            /\ receipts' = receipts \cup {a}
            /\ applied' = [n \in Entry |->
                 IF n \in a.entries THEN Twice(applied[n]) ELSE applied[n]]
            /\ coverage' = [n \in Entry |-> IF n \in a.entries THEN a ELSE coverage[n]]
        BY <1>5, <2>2 DEF Execute
      <3>2. a \in Action /\ a.entries \subseteq Entry /\ a # NoAction
        BY <1>0, AttemptTyped, ActionAssumption DEF Action
      \* Nothing of the action was covered before.
      <3>3. \A n \in a.entries : coverage[n] = NoAction /\ applied[n] = 0
        BY <2>2, <3>1, <3>2 DEF Conflict, EvidenceInv, ReceiptsComplete
      \* So the thoughts of older receipts are others.
      <3>4. \A b \in receipts : b # NoAction /\ b.entries \subseteq Entry /\ b.entries \cap a.entries = {}
        BY <1>0, <3>3, ActionAssumption DEF EvidenceInv, ReceiptsComplete, EvidenceOK, Action
      <3>5. \A n \in a.entries : coverage'[n] = a /\ applied'[n] = 1
        BY <3>1, <3>2, <3>3, <1>2
      <3>6. \A n \in Entry \ a.entries : coverage'[n] = coverage[n] /\ applied'[n] = applied[n]
        BY <3>1
      <3>7. ReceiptsComplete'
        <4>1. \A b \in receipts' : \A n \in b.entries : coverage'[n] = b /\ applied'[n] > 0
          <5>1. ASSUME NEW b \in receipts, NEW n \in b.entries
                PROVE  coverage'[n] = b /\ applied'[n] > 0
            BY <5>1, <3>4, <3>6 DEF EvidenceInv, ReceiptsComplete
          <5>2. ASSUME NEW n \in a.entries
                PROVE  coverage'[n] = a /\ applied'[n] > 0
            BY <5>2, <3>5
          <5> QED BY <5>1, <5>2, <3>1
        <4>2. \A n \in Entry : coverage'[n] # NoAction => coverage'[n] \in receipts'
          BY <3>1, <3>2 DEF EvidenceInv, ReceiptsComplete
        <4> QED BY <4>1, <4>2 DEF ReceiptsComplete
      <3>8. \A n \in Entry : applied'[n] = IF coverage'[n] = NoAction THEN 0 ELSE 1
        BY <3>1, <3>2, <3>5, <3>6 DEF EvidenceInv
      <3> QED BY <3>7, <3>8 DEF EvidenceInv
    <2> QED BY <2>1, <2>2
  <1> QED BY <1>1, <1>3, <1>4, <1>5, EvidenceCases, Zenon

LEMMA EvidenceInvariant == Spec => [](IngestTypeOK /\ EvidenceInv)
  <1>1. Init => IngestTypeOK /\ EvidenceInv
    BY InitTypes DEF Init, EvidenceInv, ReceiptsComplete
  <1>2. (IngestTypeOK /\ EvidenceInv) /\ [Next]_vars => (IngestTypeOK /\ EvidenceInv)'
    <2> SUFFICES ASSUME IngestTypeOK, EvidenceInv, [Next]_vars
                 PROVE  (IngestTypeOK /\ EvidenceInv)'
      OBVIOUS
    <2>1. CASE Next
      BY <2>1, TypeStep, EvidenceInvStep
    <2>2. CASE UNCHANGED vars
      BY <2>2, TypeStep DEF vars, evidence, EvidenceInv, ReceiptsComplete
    <2> QED BY <2>1, <2>2
  <1> QED BY <1>1, <1>2, PTL DEF Spec

\* With enforcement no thought is written into memory twice, whatever attempts
\* crash, are retried or are overtaken (SQLiteIngressMutationStore.execute).
THEOREM WrittenOnce == Spec => []AppliedOnce
  <1>1. EvidenceInv => AppliedOnce
    BY DEF EvidenceInv, AppliedOnce
  <1> QED BY <1>1, EvidenceInvariant, PTL

\* Every receipt stands for an action whose thoughts it alone covers, and
\* every covered thought has its receipt.
THEOREM ReceiptsAreComplete == Spec => []ReceiptsComplete
  <1>1. EvidenceInv => ReceiptsComplete
    BY DEF EvidenceInv
  <1> QED BY <1>1, EvidenceInvariant, PTL

----------------------------------------------------------------------------
(* Without enforcement: a handled thought is a safe one *)

Safe == {n \in Entry : applied[n] > 0 \/ n \in ignored}

\* What an attempt or the data of a task calls handled is written or ignored.
\* NothingLost alone is not inductive: finalization trusts these lists.
LossInv ==
  /\ NothingLost
  /\ \A t \in Task : recorded[t] \subseteq Safe
  /\ \A t \in Task, e \in 1..MaxEpoch :
       /\ run[t][e].done \subseteq Safe
       /\ run[t][e].at = "note" => run[t][e].ids \subseteq Safe

\* Nothing is unwritten and no decision is taken back.
LEMMA SafeGrows ==
  ASSUME IngestTypeOK, Next
  PROVE  Safe \subseteq Safe'
  <1>0. EvidenceOK
    BY TypeParts
  <1>1. CASE UNCHANGED evidence
    BY <1>1 DEF evidence, Safe
  <1>2. ASSUME NEW n \in 0..2
        PROVE  Twice(n) > 0
    BY <1>2 DEF Twice
  <1>3. ASSUME NEW S, applied' = [n \in Entry |->
                 IF n \in S THEN Twice(applied[n]) ELSE applied[n]],
               ignored \subseteq ignored'
        PROVE  Safe \subseteq Safe'
    BY <1>3, <1>0, <1>2 DEF Safe, EvidenceOK
  <1>4. ASSUME NEW t \in Task, NEW e \in 1..MaxEpoch, NEW I, NEW X,
               ProcessGroup(t, e, I, X) \/ AgentWrites(t, e, I) \/ Execute(t, e, X)
        PROVE  Safe \subseteq Safe'
    BY <1>4, <1>1, <1>3 DEF ProcessGroup, AgentWrites, Execute
  <1> QED BY <1>1, <1>4, EvidenceCases, Zenon

\* A step that changes no attempt but the one at t, e keeps the lists safe if
\* the new lists are.
LEMMA SetSafe ==
  ASSUME LossInv, HandOK, Safe \subseteq Safe',
         NEW t \in Task, NEW e \in 1..MaxEpoch, NEW r, Set(t, e, r),
         r.done \subseteq Safe', r.at = "note" => r.ids \subseteq Safe'
  PROVE  \A u \in Task, f \in 1..MaxEpoch :
           /\ run'[u][f].done \subseteq Safe'
           /\ run'[u][f].at = "note" => run'[u][f].ids \subseteq Safe'
  <1> SUFFICES ASSUME NEW u \in Task, NEW f \in 1..MaxEpoch
               PROVE  /\ run'[u][f].done \subseteq Safe'
                      /\ run'[u][f].at = "note" => run'[u][f].ids \subseteq Safe'
    OBVIOUS
  <1>1. CASE u = t /\ f = e
    <2>1. run'[u][f] = r
      BY <1>1 DEF Set, HandOK
    <2> QED BY <2>1
  <1>2. CASE ~(u = t /\ f = e)
    <2>1. run'[u][f] = run[u][f]
      BY <1>2 DEF Set, HandOK
    <2> QED BY <2>1 DEF LossInv
  <1> QED BY <1>1, <1>2

\* A transition that takes only safe thoughts out of the journal loses nothing.
LEMMA SetStatusSafe ==
  ASSUME NothingLost, Safe \subseteq Safe', NEW S, NEW to, NEW who, SetStatus(S, to, who),
         to \in {"recoverable", "deleted"} => S \cap Entry \subseteq Safe'
  PROVE  NothingLost'
  BY DEF NothingLost, SetStatus, Safe

LEMMA LeaveSafe ==
  ASSUME LossInv, HandOK, Safe \subseteq Safe',
         NEW t \in Task, NEW e \in 1..MaxEpoch, NEW at, at # "note", Leave(t, e, at)
  PROVE  \A u \in Task, f \in 1..MaxEpoch :
           /\ run'[u][f].done \subseteq Safe'
           /\ run'[u][f].at = "note" => run'[u][f].ids \subseteq Safe'
  <1>1. /\ [Idle EXCEPT !.at = at].done \subseteq Safe'
        /\ [Idle EXCEPT !.at = at].at # "note"
    BY DEF Idle
  <1> QED BY <1>1, SetSafe DEF Leave

LEMMA LossStep ==
  ASSUME ~Enforce, IngestTypeOK, LossInv, Next
  PROVE  LossInv'
  <1> DEFINE RunsSafe == \A u \in Task, f \in 1..MaxEpoch :
                           /\ run'[u][f].done \subseteq Safe'
                           /\ run'[u][f].at = "note" => run'[u][f].ids \subseteq Safe'
             RecordedSafe == \A u \in Task : recorded'[u] \subseteq Safe'
  <1>0. HandOK /\ NothingLost /\ Safe \subseteq Safe'
    BY SafeGrows, TypeParts DEF LossInv
  <1>1. UNCHANGED run => RunsSafe
    BY <1>0 DEF LossInv
  <1>2. UNCHANGED recorded => RecordedSafe
    BY <1>0 DEF LossInv
  <1>3. UNCHANGED journalVars => NothingLost'
    BY <1>0 DEF NothingLost, journalVars, Safe
  <1>4. NothingLost' /\ RunsSafe /\ RecordedSafe => LossInv'
    BY DEF LossInv
  <1> HIDE DEF RunsSafe, RecordedSafe
  <1>5. ASSUME NEW S, NEW to, NEW who, SetStatus(S, to, who), to \notin {"recoverable", "deleted"}
        PROVE  NothingLost'
    BY <1>5, <1>0, SetStatusSafe
  <1>6. ASSUME NEW t, NEW S, ClaimPending(t, S) \/ ReleaseClaimed(t, S)
        PROVE  NothingLost'
    BY <1>6, <1>5 DEF ClaimPending, ReleaseClaimed
  <1>7. ASSUME NEW t \in Task, NEW e \in 1..MaxEpoch, NEW at \in At \ {"note"}, Leave(t, e, at)
        PROVE  RunsSafe
    BY <1>7, <1>0, LeaveSafe DEF RunsSafe
  <1>8. ASSUME NEW n \in Entry, Record(n)
        PROVE  LossInv'
    BY <1>8, <1>1, <1>2, <1>4, <1>5 DEF Record
  <1>9. ASSUME NEW n \in Entry, Purge(n)
        PROVE  LossInv'
    <2>1. {n} \cap Entry \subseteq Safe'
      BY <1>9, <1>0 DEF Purge, NothingLost, Safe
    <2>2. NothingLost'
      BY <1>9, <1>0, <2>1, SetStatusSafe DEF Purge
    <2> QED BY <1>9, <1>1, <1>2, <1>4, <2>2 DEF Purge
  <1>10. ASSUME NEW d \in Sweeper, SweepSelect(d) \/ SweepUpdate(d)
         PROVE  LossInv'
    BY <1>10, <1>1, <1>2, <1>3, <1>4, <1>5 DEF SweepSelect, SweepUpdate
  <1>11. ASSUME NEW t \in Task, Recover(t) \/ RecoverTooEarly(t)
         PROVE  LossInv'
    BY <1>11, <1>1, <1>2, <1>3, <1>4 DEF Recover, RecoverTooEarly, FailRow
  <1>12. ASSUME NEW t \in Task, TakeTask(t)
         PROVE  LossInv'
    <2>1. epoch'[t] \in 1..MaxEpoch
      BY <1>12, BoundAssumption DEF TakeTask, IngestTypeOK
    <2>2. RunsSafe
      BY <1>12, <2>1, <1>7 DEF TakeTask, Leave, At
    <2> QED BY <1>12, <1>2, <1>3, <1>4, <2>2 DEF TakeTask
  <1>13. ASSUME NEW t \in Task, NEW e \in 1..MaxEpoch,
                EndTask(t, e) \/ Crash(t, e) \/ Raise(t, e) \/ ReleaseAndRaise(t, e)
         PROVE  LossInv'
    <2>1. RunsSafe
      BY <1>13, <1>7 DEF EndTask, Crash, Raise, ReleaseAndRaise, At
    <2>2. NothingLost'
      BY <1>13, <1>3, <1>6 DEF EndTask, Crash, Raise, ReleaseAndRaise
    <2> QED
      BY <1>13, <1>2, <1>4, <2>1, <2>2 DEF EndTask, Crash, Raise, ReleaseAndRaise
  <1>14. ASSUME NEW t \in Task, NEW e \in 1..MaxEpoch, SetAside(t, e)
         PROVE  LossInv'
    BY <1>14 DEF SetAside
  \* An attempt that goes on keeps what it has handled.
  <1>15. ASSUME NEW t \in Task, NEW e \in 1..MaxEpoch, NEW r, Set(t, e, r),
                r.done \subseteq Safe', r.at # "note"
         PROVE  RunsSafe
    BY <1>15, <1>0, SetSafe DEF RunsSafe
  <1>16. ASSUME NEW t \in Task, NEW e \in 1..MaxEpoch
         PROVE  run[t][e] \in Attempt /\ run[t][e].done \subseteq Safe'
    BY <1>16, <1>0, AttemptTyped DEF LossInv
  <1>17. ASSUME NEW t \in Task, NEW e \in 1..MaxEpoch, Start(t, e)
         PROVE  LossInv'
    <2>1. /\ [run[t][e] EXCEPT !.at = "agent"].done = run[t][e].done
          /\ [run[t][e] EXCEPT !.at = "agent"].at = "agent"
      BY <1>16 DEF Attempt
    <2>2. RunsSafe
      BY <1>17, <2>1, <1>7, <1>15, <1>16 DEF Start, GoTo, At
    <2>3. \A u \in Task : recorded'[u] \subseteq recorded[u]
      BY <1>17, <1>0 DEF Start, HandOK
    <2>4. RecordedSafe
      BY <2>3, <1>0 DEF RecordedSafe, LossInv
    <2> QED BY <1>17, <1>3, <1>4, <2>2, <2>4 DEF Start
  <1>18. ASSUME NEW t \in Task, NEW e \in 1..MaxEpoch, ClaimBatch(t, e)
         PROVE  LossInv'
    <2> DEFINE r == [Idle EXCEPT !.at = "group", !.given = Oldest(Pending, BatchSize),
                                 !.direct = TRUE]
    <2>1. r.done = {} /\ r.at = "group"
      BY DEF Idle
    <2>2. RunsSafe
      BY <1>18, <2>1, <1>7, <1>15 DEF ClaimBatch, At
    <2> QED BY <1>18, <1>2, <1>3, <1>4, <1>6, <2>2 DEF ClaimBatch
  <1>19. ASSUME NEW t \in Task, NEW e \in 1..MaxEpoch, NEW I, NEW X, ProcessGroup(t, e, I, X)
         PROVE  LossInv'
    <2> DEFINE r == run[t][e]
    <2>1. PICK G \in SUBSET r.given :
            /\ I \cup X \subseteq G
            /\ Set(t, e, [r EXCEPT !.given = @ \ G, !.done = @ \cup I \cup X,
                                   !.useful = @ \/ I # {}])
      BY <1>19 DEF ProcessGroup
    <2> DEFINE s == [r EXCEPT !.given = @ \ G, !.done = @ \cup I \cup X,
                              !.useful = @ \/ I # {}]
    <2>2. s.done = r.done \cup I \cup X /\ s.at = "group"
      BY <1>16, <1>19 DEF Attempt, ProcessGroup
    <2>3. I \subseteq Entry /\ X \subseteq Entry
      BY <2>1, <1>0, AttemptTyped
    <2>4. I \subseteq Safe' /\ X \subseteq Safe'
      <3>1. \A n \in I : applied'[n] = Twice(applied[n])
        BY <1>19, <2>3 DEF ProcessGroup
      <3>2. \A n \in I : applied[n] \in 0..2
        BY <2>3 DEF IngestTypeOK
      <3>3. \A n \in I : applied'[n] > 0
        BY <3>1, <3>2 DEF Twice
      <3>4. X \subseteq ignored'
        BY <1>19 DEF ProcessGroup
      <3> QED BY <2>3, <3>3, <3>4 DEF Safe
    <2>5. RunsSafe
      BY <2>1, <2>2, <2>4, <1>15, <1>16
    <2> QED BY <1>19, <1>2, <1>3, <1>4, <2>5 DEF ProcessGroup
  <1>20. ASSUME NEW t \in Task, NEW e \in 1..MaxEpoch, EndBatch(t, e) \/ AgentEnds(t, e)
         PROVE  LossInv'
    <2> DEFINE r == [run[t][e] EXCEPT !.at = "read"]
               s == [run[t][e] EXCEPT !.at = "read", !.done = recorded[t]]
    <2>1. /\ r.done = run[t][e].done /\ r.at = "read"
          /\ s.done = recorded[t] /\ s.at = "read"
      BY <1>16 DEF Attempt
    <2>2. recorded[t] \subseteq Safe'
      BY <1>0 DEF LossInv
    <2>3. RunsSafe
      BY <1>20, <2>1, <2>2, <1>7, <1>15, <1>16 DEF EndBatch, AgentEnds, GoTo, At
    <2> QED BY <1>20, <1>2, <1>3, <1>4, <1>6, <2>3 DEF EndBatch, AgentEnds
  <1>21. ASSUME NEW t \in Task, NEW e \in 1..MaxEpoch, ReadClaimed(t, e)
         PROVE  LossInv'
    <2> DEFINE r == [run[t][e] EXCEPT !.at = "move", !.ids = OwnedBy(t)]
    <2>1. r.done = run[t][e].done /\ r.at = "move"
      BY <1>16 DEF Attempt
    <2>2. RunsSafe
      BY <1>21, <2>1, <1>15, <1>16 DEF ReadClaimed
    <2> QED BY <1>21, <1>2, <1>3, <1>4, <2>2 DEF ReadClaimed
  \* The step that could lose thoughts: it moves what the attempt has handled.
  <1>22. ASSUME NEW t \in Task, NEW e \in 1..MaxEpoch, MoveHandled(t, e)
         PROVE  LossInv'
    <2> DEFINE q == run[t][e]
               r == [q EXCEPT !.at = "release", !.ids = @ \ (q.done \cap OwnedBy(t))]
    <2>1. r.done = q.done /\ r.at = "release"
      BY <1>16 DEF Attempt
    <2>2. RunsSafe
      BY <1>22, <2>1, <1>15, <1>16 DEF MoveHandled
    <2>3. ((q.done \cap q.ids) \cap OwnedBy(t)) \cap Entry \subseteq Safe'
      BY <1>16
    <2>4. NothingLost'
      BY <1>22, <1>0, <2>3, SetStatusSafe DEF MoveHandled, MoveToRecoverable
    <2> QED BY <1>22, <1>2, <1>4, <2>2, <2>4 DEF MoveHandled
  <1>23. ASSUME NEW t \in Task, NEW e \in 1..MaxEpoch, ReleaseRest(t, e)
         PROVE  LossInv'
    <2>1. RunsSafe
      BY <1>23, <1>7 DEF ReleaseRest, At
    <2> QED BY <1>23, <1>2, <1>4, <1>6, <2>1 DEF ReleaseRest
  <1>24. ASSUME NEW t \in Task, NEW e \in 1..MaxEpoch,
                AgentClaims(t, e) \/ AgentGetsBatch(t, e)
         PROVE  LossInv'
    <2> DEFINE q == run[t][e]
               r == [q EXCEPT !.at = "batch", !.ids = Oldest(Pending, BatchSize),
                              !.useful = TRUE]
               s == [q EXCEPT !.at = "agent", !.given = @ \cup q.ids, !.ids = {}]
    <2>1. r.done = q.done /\ r.at = "batch" /\ s.done = q.done /\ s.at = "agent"
      BY <1>16 DEF Attempt
    <2>2. AgentGetsBatch(t, e) => Set(t, e, s) /\ UNCHANGED journalVars
      BY DEF AgentGetsBatch
    <2>3. RunsSafe
      BY <1>24, <2>1, <2>2, <1>15, <1>16 DEF AgentClaims
    <2>4. NothingLost'
      BY <1>24, <2>2, <1>3, <1>6 DEF AgentClaims
    <2> QED BY <1>24, <1>2, <1>4, <2>3, <2>4 DEF AgentClaims, AgentGetsBatch
  <1>25. ASSUME NEW t \in Task, NEW e \in 1..MaxEpoch, NEW S, AgentWrites(t, e, S)
         PROVE  LossInv'
    <2> DEFINE r == [run[t][e] EXCEPT !.at = "note", !.ids = S]
    <2>1. r.done = run[t][e].done /\ r.ids = S
      BY <1>16 DEF Attempt
    <2>2. S \subseteq Entry
      BY <1>25, <1>0, AttemptTyped DEF AgentWrites
    <2>3. S \subseteq Safe'
      <3>1. \A n \in S : applied'[n] = Twice(applied[n])
        BY <1>25, <2>2 DEF AgentWrites
      <3>2. \A n \in S : applied[n] \in 0..2
        BY <2>2 DEF IngestTypeOK
      <3>3. \A n \in S : applied'[n] > 0
        BY <3>1, <3>2 DEF Twice
      <3> QED BY <2>2, <3>3 DEF Safe
    <2>4. RunsSafe
      BY <1>25, <2>1, <2>3, <1>0, <1>16, SetSafe DEF AgentWrites, RunsSafe
    <2> QED BY <1>25, <1>2, <1>3, <1>4, <2>4 DEF AgentWrites
  <1>26. ASSUME NEW t \in Task, NEW e \in 1..MaxEpoch, NEW a, Execute(t, e, a)
         PROVE  LossInv'
    BY <1>26 DEF Execute
  <1>27. ASSUME NEW t \in Task, NEW e \in 1..MaxEpoch, AgentNotes(t, e)
         PROVE  LossInv'
    <2> DEFINE r == [run[t][e] EXCEPT !.at = "agent", !.ids = {}]
    <2>1. r.done = run[t][e].done /\ r.at = "agent"
      BY <1>16 DEF Attempt
    <2>2. RunsSafe
      BY <1>27, <2>1, <1>15, <1>16 DEF AgentNotes
    <2>3. run[t][e].ids \subseteq Safe'
      BY <1>27, <1>0 DEF AgentNotes, LossInv
    <2>4. \A u \in Task : recorded'[u] \subseteq recorded[u] \cup run[t][e].ids
      BY <1>27, <1>0 DEF AgentNotes, HandOK
    <2>5. RecordedSafe
      BY <2>3, <2>4, <1>0 DEF RecordedSafe, LossInv
    <2> QED BY <1>27, <1>3, <1>4, <2>2, <2>5 DEF AgentNotes
  <1> QED
    BY <1>8, <1>9, <1>10, <1>11, <1>12, <1>13, <1>14, <1>17, <1>18, <1>19, <1>20, <1>21,
       <1>22, <1>23, <1>24, <1>25, <1>26, <1>27, Zenon DEF Next, Handler, AgentActs

\* Without enforcement no thought leaves the journal before it was written into
\* a memory or ignored on purpose, whatever attempts crash, fail in the middle
\* of a finalization or are overtaken, and however sweeps race them.
THEOREM NothingIsLost ==
  ASSUME ~Enforce
  PROVE  Spec => []NothingLost
  <1>1. Init => IngestTypeOK /\ LossInv
    BY InitTypes DEF Init, LossInv, NothingLost, Safe, Idle
  <1>2. (IngestTypeOK /\ LossInv) /\ [Next]_vars => (IngestTypeOK /\ LossInv)'
    <2> SUFFICES ASSUME IngestTypeOK, LossInv, [Next]_vars
                 PROVE  (IngestTypeOK /\ LossInv)'
      OBVIOUS
    <2>1. CASE Next
      BY <2>1, TypeStep, LossStep
    <2>2. CASE UNCHANGED vars
      BY <2>2, TypeStep DEF vars, journalVars, evidence, LossInv, NothingLost, Safe
    <2> QED BY <2>1, <2>2
  <1>3. LossInv => NothingLost
    BY DEF LossInv
  <1> QED BY <1>1, <1>2, <1>3, PTL DEF Spec
=============================================================================
