------------------------------- MODULE Ingest -------------------------------
(***************************************************************************)
(* From recorded thought to memory: the table system1_journal, the attempts *)
(* of the ingest-system1 task that claim its rows and turn them into       *)
(* memories, and the sweep that releases orphaned claims.                  *)
(*                                                                         *)
(* An attempt is one execution of handle_ingest_system1_task by some       *)
(* daemon.  It either lets an agent claim and write through the internal   *)
(* MCP tools or claims and writes batches itself.  Claims carry the id of  *)
(* the task, not the attempt.  Every step is one transaction or one read   *)
(* between two transactions; another attempt, the sweep of another daemon  *)
(* or a crash may come in between.                                         *)
(*                                                                         *)
(* Of the task row only what matters here is kept: whether it runs, and    *)
(* the epoch (see TaskQueue and TaskWorker).  The contents of thoughts and *)
(* memories are left out: what counts is how often a thought was written   *)
(* into a memory.                                                          *)
(***************************************************************************)
EXTENDS Integers, FiniteSets

CONSTANTS
  Entry,       \* journal ids in the order of their timestamps
  Task,        \* ingest tasks
  MaxEpoch,    \* bound: attempts of one task
  BatchSize,   \* the limit of claim_pending
  Enforce,     \* ingress_evidence_mode is "enforce" (else off or shadow)
  Landing,     \* the ways to store a thought: (operation, target) pairs
  Sweeper,     \* the daemons whose passes call release_orphaned_claims
  Bound,       \* how often the environment may crash, overtake and fail
  NoTask, NoAction

ASSUME EntryAssumption == Entry \subseteq Nat /\ IsFiniteSet(Entry)
ASSUME TaskAssumption == NoTask \notin Task
ASSUME BoundAssumption ==
  /\ MaxEpoch \in Nat /\ BatchSize \in Nat
  /\ Enforce \in BOOLEAN
  /\ Bound \in [{"crash", "late", "fault"} -> Nat]

VARIABLES
  status,      \* system1_journal.status, by entry
  owner,       \* claim_task_id
  row,         \* the status of the task: "pending", "running" or "ended"
  epoch,       \* execution_epoch of the task
  recorded,    \* the handled entry ids kept in the data of the task
  run,         \* the attempts, by task and epoch
  receipts,    \* ingress_action_receipts
  coverage,    \* ingress_source_coverage: the action that handled the entry
  picked,      \* the ids a sweep has selected and not yet updated
  left         \* what is left of Bound

\* History: how often an entry was written into a memory (up to 2), and the
\* entries a provider or the quality check decided to ignore.
VARIABLES applied, ignored

journalVars == <<status, owner>>
taskVars == <<row, epoch>>
evidence == <<receipts, coverage, applied, ignored>>
vars == <<journalVars, taskVars, recorded, run, evidence, picked, left>>

Status == {"absent", "pending", "claimed", "recoverable", "deleted"}
Action == [landing : Landing, entries : SUBSET Entry]
ASSUME ActionAssumption == NoAction \notin Action

At == {"none", "start", "agent", "batch", "note", "claim", "group", "read",
       "move", "release", "raise", "returned", "raised", "dead"}

\* given: the entries the attempt works on; done: those it has handled; ids: an
\* argument that a call in progress holds; useful: the agent has called a tool,
\* or the batch has written a memory.
Attempt == [at : At, given : SUBSET Entry, done : SUBSET Entry,
            ids : SUBSET Entry, useful : BOOLEAN, direct : BOOLEAN]

Idle == [at |-> "none", given |-> {}, done |-> {}, ids |-> {},
         useful |-> FALSE, direct |-> FALSE]

----------------------------------------------------------------------------
(* The journal *)

Pending == {n \in Entry : status[n] = "pending"}
OwnedBy(t) == {n \in Entry : status[n] = "claimed" /\ owner[n] = t}

\* The rows that ORDER BY timestamp LIMIT k selects from S.
Oldest(S, k) == {n \in S : Cardinality({m \in S : m < n}) < k}

SetStatus(S, to, who) ==
  /\ status' = [n \in Entry |-> IF n \in S THEN to ELSE status[n]]
  /\ owner' = [n \in Entry |-> IF n \in S THEN who ELSE owner[n]]

\* record_with_timestamp
Record(n) ==
  /\ status[n] = "absent"
  /\ SetStatus({n}, "pending", NoTask)
  /\ UNCHANGED <<taskVars, recorded, run, evidence, picked, left>>

\* claim_pending, of the rows S
ClaimPending(t, S) == SetStatus(S, "claimed", t)

\* release_claimed_entry_ids: only rows that the task owns now.
ReleaseClaimed(t, S) == SetStatus(S \cap OwnedBy(t), "pending", NoTask)

\* move_claimed_entry_ids_to_recoverable
MoveToRecoverable(t, S) == SetStatus(S \cap OwnedBy(t), "recoverable", NoTask)

\* purge_expired_recoverable: the retention time of the row has passed.
Purge(n) ==
  /\ status[n] = "recoverable"
  /\ SetStatus({n}, "deleted", NoTask)
  /\ UNCHANGED <<taskVars, recorded, run, evidence, picked, left>>

\* The SELECT id FROM tasks WHERE status = 'running' of the sweep.
Running == {t \in Task : row[t] = "running"}

SweepSelectRetried(d) ==
  /\ picked[d] = {}
  /\ picked' = [picked EXCEPT ![d] =
       {n \in Entry : status[n] = "claimed" /\ owner[n] \in {t \in Task : row[t] = "pending"}}]
  /\ UNCHANGED <<journalVars, taskVars, recorded, run, evidence, left>>

\* release_orphaned_claims, its SELECT ...
SweepSelect(d) ==
  /\ picked[d] = {}
  /\ picked' = [picked EXCEPT ![d] =
       {n \in Entry : status[n] = "claimed" /\ owner[n] \notin Running}]
  /\ UNCHANGED <<journalVars, taskVars, recorded, run, evidence, left>>

\* ... and its UPDATE, which names the ids and asks only for status 'claimed'.
SweepUpdate(d) ==
  /\ picked[d] # {}
  /\ SetStatus({n \in picked[d] : status[n] = "claimed"}, "pending", NoTask)
  /\ picked' = [picked EXCEPT ![d] = {}]
  /\ UNCHANGED <<taskVars, recorded, run, evidence, left>>

----------------------------------------------------------------------------
(* The task row, and what befalls an attempt *)

Set(t, e, r) == run' = [run EXCEPT ![t][e] = r]
GoTo(t, e, at) == Set(t, e, [run[t][e] EXCEPT !.at = at])
\* The locals of the part that ends are gone.
Leave(t, e, at) == Set(t, e, [Idle EXCEPT !.at = at])
Active(t, e) == run[t][e].at \notin {"none", "returned", "raised", "dead"}
Current(t, e) == row[t] = "running" /\ epoch[t] = e
Spend(what) == left[what] > 0 /\ left' = [left EXCEPT ![what] = @ - 1]

\* claim_next gives the task to a worker, which starts the handler.
TakeTask(t) ==
  /\ row[t] = "pending" /\ epoch[t] < MaxEpoch
  /\ row' = [row EXCEPT ![t] = "running"]
  /\ epoch' = [epoch EXCEPT ![t] = @ + 1]
  /\ Set(t, epoch'[t], [Idle EXCEPT !.at = "start"])
  /\ UNCHANGED <<journalVars, recorded, evidence, picked, left>>

\* The worker ends the attempt: complete, or fail, which retries it or not.
EndTask(t, e) ==
  /\ run[t][e].at \in {"returned", "raised"}
  /\ Leave(t, e, "none")
  /\ \/ /\ Current(t, e)
        /\ \E r \in {"ended"} \cup (IF run[t][e].at = "raised" THEN {"pending"} ELSE {}) :
             row' = [row EXCEPT ![t] = r]
     \/ ~Current(t, e) /\ UNCHANGED row
  /\ UNCHANGED <<journalVars, epoch, recorded, evidence, picked, left>>

\* The daemon dies, and the attempt with it.
Crash(t, e) ==
  /\ Active(t, e)
  /\ Spend("crash")
  /\ Leave(t, e, "dead")
  /\ UNCHANGED <<journalVars, taskVars, recorded, evidence, picked>>

\* A recovery pass fails a running row, for a retry or for good, because its
\* attempt is dead ...
FailRow(t) ==
  /\ \E r \in {"pending", "ended"} : row' = [row EXCEPT ![t] = r]
  /\ UNCHANGED <<journalVars, epoch, recorded, run, evidence, picked>>

Recover(t) ==
  /\ row[t] = "running" /\ run[t][epoch[t]].at = "dead"
  /\ UNCHANGED left
  /\ FailRow(t)

\* ... or because it takes an attempt for abandoned, which goes on unaware.
RecoverTooEarly(t) ==
  /\ row[t] = "running" /\ Active(t, epoch[t])
  /\ Spend("late")
  /\ FailRow(t)

----------------------------------------------------------------------------
(* handle_ingest_system1_task *)

\* build_ingest_preflight_state, and the way: agentic if the provider of this
\* run supports run_agent.  The agentic pass first clears what an earlier
\* attempt recorded.
Start(t, e) ==
  /\ run[t][e].at = "start"
  /\ \/ /\ Pending = {}
        /\ Leave(t, e, "returned")
        /\ UNCHANGED recorded
     \/ /\ Pending # {}
        /\ GoTo(t, e, "agent")
        /\ recorded' = [recorded EXCEPT ![t] = IF row[t] = "ended" THEN @ ELSE {}]
     \/ /\ Pending # {}
        /\ Leave(t, e, "claim")
        /\ UNCHANGED recorded
  /\ UNCHANGED <<journalVars, taskVars, evidence, picked, left>>

\* Any call may raise: the except clause releases what the task has claimed.
Raise(t, e) ==
  /\ run[t][e].at \in {"agent", "claim", "group", "read", "move", "release"}
  /\ Spend("fault")
  /\ Leave(t, e, "raise")
  /\ UNCHANGED <<journalVars, taskVars, recorded, evidence, picked>>

ReleaseAndRaise(t, e) ==
  /\ run[t][e].at = "raise"
  /\ ReleaseClaimed(t, Entry)
  /\ Leave(t, e, "raised")
  /\ UNCHANGED <<taskVars, recorded, evidence, picked, left>>

----------------------------------------------------------------------------
(* The direct way: process_ingest_batch *)

\* claim_pending of the next batch; without one the run ends.
ClaimBatch(t, e) ==
  LET S == Oldest(Pending, BatchSize) IN
  /\ run[t][e].at = "claim"
  /\ \/ /\ S = {}
        /\ Leave(t, e, "returned")
        /\ UNCHANGED journalVars
     \/ /\ S # {}
        /\ ClaimPending(t, S)
        /\ Set(t, e, [Idle EXCEPT !.at = "group", !.given = S, !.direct = TRUE])
  /\ UNCHANGED <<taskVars, recorded, evidence, picked, left>>

\* In enforce mode process_ingest_batch sets the claims of the task aside and
\* raises atomic_boundary_required; so does a failure to store the evidence.
SetAside(t, e) ==
  /\ run[t][e].at = "group" /\ Enforce
  /\ MoveToRecoverable(t, Entry)
  /\ Leave(t, e, "raise")
  /\ UNCHANGED <<taskVars, recorded, evidence, picked, left>>

Twice(n) == IF n < 2 THEN n + 1 ELSE 2

\* One group of the batch: the entries I go into memories and X is ignored;
\* what no action names is left for the release.
ProcessGroup(t, e, I, X) ==
  LET r == run[t][e] IN
  /\ r.at = "group" /\ ~Enforce /\ I \cup X # {}
  /\ applied' = [n \in Entry |-> IF n \in I THEN Twice(applied[n]) ELSE applied[n]]
  /\ ignored' = ignored \cup X
  /\ \E G \in SUBSET r.given :
       /\ I \cup X \subseteq G
       /\ Set(t, e, [r EXCEPT !.given = @ \ G, !.done = @ \cup I \cup X,
                              !.useful = @ \/ I # {}])
  /\ UNCHANGED <<journalVars, taskVars, recorded, receipts, coverage, picked, left>>

\* No group is left.  Without a memory written, everything is released and
\* the run ends.
EndBatch(t, e) ==
  /\ run[t][e].at = "group" /\ ~Enforce /\ run[t][e].given = {}
  /\ \/ run[t][e].useful /\ GoTo(t, e, "read") /\ UNCHANGED journalVars
     \/ /\ ~run[t][e].useful
        /\ ReleaseClaimed(t, Entry)
        /\ Leave(t, e, "returned")
  /\ UNCHANGED <<taskVars, recorded, evidence, picked, left>>

----------------------------------------------------------------------------
(* _finalize_claimed_ingest_entries: three calls of the journal *)

ReadClaimed(t, e) ==
  /\ run[t][e].at = "read"
  /\ Set(t, e, [run[t][e] EXCEPT !.at = "move", !.ids = OwnedBy(t)])
  /\ UNCHANGED <<journalVars, taskVars, recorded, evidence, picked, left>>

MoveEverything(t, e) ==
  LET r == run[t][e] IN
  /\ r.at = "move"
  /\ MoveToRecoverable(t, r.ids)
  /\ Set(t, e, [r EXCEPT !.at = "release", !.ids = {}])
  /\ UNCHANGED <<taskVars, recorded, evidence, picked, left>>

MoveHandled(t, e) ==
  LET r == run[t][e] IN
  /\ r.at = "move"
  /\ MoveToRecoverable(t, r.done \cap r.ids)
  /\ Set(t, e, [r EXCEPT !.at = "release", !.ids = @ \ (r.done \cap OwnedBy(t))])
  /\ UNCHANGED <<taskVars, recorded, evidence, picked, left>>

\* The direct way may claim another batch.
ReleaseRest(t, e) ==
  /\ run[t][e].at = "release"
  /\ ReleaseClaimed(t, run[t][e].ids)
  /\ \/ Leave(t, e, "returned")
     \/ run[t][e].direct /\ Leave(t, e, "claim")
  /\ UNCHANGED <<taskVars, recorded, evidence, picked, left>>

----------------------------------------------------------------------------
(* The agentic way: the tools the agent calls, and run_agentic_ingest_pass *)

\* internal_get_next_ingest_batch claims a batch ...
AgentClaims(t, e) ==
  LET S == Oldest(Pending, BatchSize) IN
  /\ run[t][e].at = "agent" /\ S # {}
  /\ ClaimPending(t, S)
  /\ Set(t, e, [run[t][e] EXCEPT !.at = "batch", !.ids = S, !.useful = TRUE])
  /\ UNCHANGED <<taskVars, recorded, evidence, picked, left>>

\* ... and stores its evidence.  If that fails in enforce mode, the claims of
\* the task are set aside and the agent gets an error instead of the batch.
AgentGetsBatch(t, e) ==
  LET r == run[t][e] IN
  /\ r.at = "batch"
  /\ \/ /\ Set(t, e, [r EXCEPT !.at = "agent", !.given = @ \cup r.ids, !.ids = {}])
        /\ UNCHANGED <<journalVars, left>>
     \/ /\ Enforce /\ Spend("fault")
        /\ MoveToRecoverable(t, Entry)
        /\ Set(t, e, [r EXCEPT !.at = "agent", !.ids = {}])
  /\ UNCHANGED <<taskVars, recorded, evidence, picked>>

\* internal_ingest_create_memory and internal_ingest_append_memory without
\* enforcement: the memory is written, then the ids are recorded.
AgentWrites(t, e, S) ==
  LET r == run[t][e] IN
  /\ r.at = "agent" /\ ~Enforce /\ S # {} /\ S \subseteq r.given
  /\ applied' = [n \in Entry |-> IF n \in S THEN Twice(applied[n]) ELSE applied[n]]
  /\ Set(t, e, [r EXCEPT !.at = "note", !.ids = S])
  /\ UNCHANGED <<journalVars, taskVars, recorded, receipts, coverage, ignored,
                 picked, left>>

ConflictUnseen(a) == FALSE

\* Some other action has covered an entry of a: SourceCoverageAssignmentConflict.
Conflict(a) == \E n \in a.entries : coverage[n] \notin {NoAction, a}

ExecuteReceiptFirst(t, e, a) ==
  LET r == run[t][e] IN
  /\ r.at = "agent" /\ Enforce /\ a.entries # {} /\ a.entries \subseteq r.given
  /\ a \notin receipts
  /\ receipts' = receipts \cup {a}
  /\ \/ Conflict(a) /\ UNCHANGED <<journalVars, applied, coverage>>
     \/ /\ ~Conflict(a)
        /\ applied' = [n \in Entry |->
             IF n \in a.entries THEN Twice(applied[n]) ELSE applied[n]]
        /\ coverage' = [n \in Entry |-> IF n \in a.entries THEN a ELSE coverage[n]]
        /\ MoveToRecoverable(t, a.entries)
  /\ Set(t, e, [r EXCEPT !.at = "note", !.ids = a.entries])
  /\ UNCHANGED <<taskVars, recorded, ignored, picked, left>>

\* The same tools with enforcement: SQLiteIngressMutationStore.execute, one
\* transaction.  An action with a receipt is not applied again: with the same
\* payload the call succeeds, with another it reports a collision, and the
\* agent goes on as before.  A conflict rolls everything back.
Execute(t, e, a) ==
  LET r == run[t][e] IN
  /\ r.at = "agent" /\ Enforce /\ a.entries # {} /\ a.entries \subseteq r.given
  /\ \/ /\ a \in receipts
        /\ UNCHANGED <<journalVars, evidence>>
     \/ /\ a \notin receipts /\ ~Conflict(a)
        /\ receipts' = receipts \cup {a}
        /\ applied' = [n \in Entry |->
             IF n \in a.entries THEN Twice(applied[n]) ELSE applied[n]]
        /\ coverage' = [n \in Entry |-> IF n \in a.entries THEN a ELSE coverage[n]]
        /\ MoveToRecoverable(t, a.entries)
        /\ UNCHANGED ignored
  /\ Set(t, e, [r EXCEPT !.at = "note", !.ids = a.entries])
  /\ UNCHANGED <<taskVars, recorded, picked, left>>

\* _record_successful_ingest_entry_ids: into the row of the task, if it is open.
AgentNotes(t, e) ==
  LET r == run[t][e] IN
  /\ r.at = "note"
  /\ recorded' = [recorded EXCEPT ![t] =
                    IF row[t] = "ended" THEN @ ELSE @ \cup r.ids]
  /\ Set(t, e, [r EXCEPT !.at = "agent", !.ids = {}])
  /\ UNCHANGED <<journalVars, taskVars, evidence, picked, left>>

\* The agent ends.  One that called no tool releases the claims, and the
\* direct way is taken; otherwise the recorded ids are finalized.
AgentEnds(t, e) ==
  LET r == run[t][e] IN
  /\ r.at = "agent"
  /\ \/ /\ ~r.useful
        /\ ReleaseClaimed(t, Entry)
        /\ Leave(t, e, "claim")
     \/ /\ r.useful
        /\ Set(t, e, [r EXCEPT !.at = "read", !.done = recorded[t]])
        /\ UNCHANGED journalVars
  /\ UNCHANGED <<taskVars, recorded, evidence, picked, left>>

----------------------------------------------------------------------------
Init ==
  /\ status = [n \in Entry |-> "absent"]
  /\ owner = [n \in Entry |-> NoTask]
  /\ row = [t \in Task |-> "pending"]
  /\ epoch = [t \in Task |-> 0]
  /\ recorded = [t \in Task |-> {}]
  /\ run = [t \in Task |-> [e \in 1..MaxEpoch |-> Idle]]
  /\ receipts = {}
  /\ coverage = [n \in Entry |-> NoAction]
  /\ picked = [d \in Sweeper |-> {}]
  /\ left = Bound
  /\ applied = [n \in Entry |-> 0]
  /\ ignored = {}

\* The steps of an attempt that the event loop and the agent carry on.
Handler(t, e) ==
  \/ Start(t, e) \/ ClaimBatch(t, e) \/ SetAside(t, e) \/ EndBatch(t, e)
  \/ \E G \in SUBSET run[t][e].given : \E I \in SUBSET G : ProcessGroup(t, e, I, G \ I)
  \/ ReadClaimed(t, e) \/ MoveHandled(t, e) \/ ReleaseRest(t, e)
  \/ ReleaseAndRaise(t, e)
  \/ AgentGetsBatch(t, e) \/ AgentNotes(t, e)

AgentActs(t, e) ==
  \/ AgentClaims(t, e)
  \/ \E S \in SUBSET run[t][e].given : AgentWrites(t, e, S)
  \/ \E a \in [landing : Landing, entries : SUBSET run[t][e].given] : Execute(t, e, a)

Next ==
  \/ \E n \in Entry : Record(n) \/ Purge(n)
  \/ \E d \in Sweeper : SweepSelect(d) \/ SweepUpdate(d)
  \/ \E t \in Task : TakeTask(t) \/ Recover(t) \/ RecoverTooEarly(t)
  \/ \E t \in Task, e \in 1..MaxEpoch :
       Handler(t, e) \/ AgentActs(t, e) \/ AgentEnds(t, e) \/ EndTask(t, e)
         \/ Raise(t, e) \/ Crash(t, e)

Spec == Init /\ [][Next]_vars

----------------------------------------------------------------------------
(* Properties *)

\* Types; and a row names a task exactly while it is claimed.
IngestTypeOK ==
  /\ status \in [Entry -> Status]
  /\ owner \in [Entry -> Task \cup {NoTask}]
  /\ \A n \in Entry : status[n] = "claimed" <=> owner[n] # NoTask
  /\ row \in [Task -> {"pending", "running", "ended"}]
  /\ epoch \in [Task -> 0..MaxEpoch]
  /\ recorded \in [Task -> SUBSET Entry]
  /\ run \in [Task -> [1..MaxEpoch -> Attempt]]
  /\ receipts \subseteq Action
  /\ coverage \in [Entry -> Action \cup {NoAction}]
  /\ picked \in [Sweeper -> SUBSET Entry]
  /\ left \in [{"crash", "late", "fault"} -> Nat]
  /\ applied \in [Entry -> 0..2]
  /\ ignored \subseteq Entry

\* A thought leaves the journal only after it was written into a memory or
\* ignored on purpose, through crashes, failures in the middle of a
\* finalization, overtaken attempts and racing sweeps.
NothingLost ==
  \A n \in Entry :
    status[n] \in {"recoverable", "deleted"} => applied[n] > 0 \/ n \in ignored

\* With enforcement no thought is written twice, whichever attempts of
\* whichever tasks, late or retried, hold it: the receipt and the coverage are
\* checked in the transaction that writes.
AppliedOnce == Enforce => \A n \in Entry : applied[n] <= 1

\* A receipt stands for a complete action: every thought it names is covered
\* by this action and by no other, and was written.
ReceiptsComplete ==
  /\ \A a \in receipts : \A n \in a.entries : coverage[n] = a /\ applied[n] > 0
  /\ \A n \in Entry : coverage[n] # NoAction => coverage[n] \in receipts

----------------------------------------------------------------------------
(* Liveness *)

\* The event loop runs the handler on and the worker ends an attempt whose
\* handler ended; the agent runs under the timeout of its provider, so that it
\* ends however many calls it makes; recovery and the sweep after it come round
\* again and again while a daemon is up.
Fairness ==
  /\ \A t \in Task, e \in 1..MaxEpoch :
       WF_vars(Handler(t, e)) /\ WF_vars(EndTask(t, e)) /\ SF_vars(AgentEnds(t, e))
  /\ \A t \in Task : WF_vars(Recover(t))
  /\ \A d \in Sweeper : WF_vars(SweepSelect(d)) /\ WF_vars(SweepUpdate(d))

FairSpec == Spec /\ Fairness

\* docs/specs/07: "thought batches do not strand permanently".  A claimed
\* thought is released or finalized, also when the daemon that claimed it died.
ClaimsDoNotStrand ==
  \A n \in Entry : status[n] = "claimed" ~> status[n] # "claimed"
=============================================================================
