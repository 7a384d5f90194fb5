------------------------------- MODULE Curation -------------------------------
(***************************************************************************)
(* Curation actions, their receipts and history, the runs they belong to,  *)
(* the reconciliation of runs, and restore.                                *)
(*                                                                         *)
(* A curator attempt opens a run; its agent calls mutation tools, and each *)
(* call becomes one action transaction: replay check, run check, token     *)
(* check, the change itself, a history event and a receipt.  An operator   *)
(* asks for the inverse of an event: the request is analysed, registered   *)
(* under an idempotency key, applied as an action of its own and its       *)
(* outcome recorded, each in a transaction of its own.  The reconciliation *)
(* pass verifies receipts and ends the runs that nobody ended.             *)
(*                                                                         *)
(* One memory record is modelled: a state of it is a member of Value, and  *)
(* its revision token is that value (the token is a hash of the semantic   *)
(* snapshot).  The shared cache's part is in ReadCache, tasks are abstract.*)
(***************************************************************************)
EXTENDS Integers, Sequences

CONSTANTS
  Value, Gone,    \* semantic snapshots of the record; the deleted record
  Run,            \* curation runs, one for each curator attempt
  Action,         \* tool calls: [run, op, to], equal calls share an action id
  Request,        \* idempotency keys of restore requests
  Caller,         \* threads that serve tool calls and management calls
  Passer,         \* daemons that reconcile
  NoReceipt, NoPass

\* CurationActionReceipt: its state and the event it was written with.
Receipt == [status : {"unverified", "verified", "verification_failed"}, event : Nat]

ASSUME CurationAssumption ==
  /\ Gone \notin Value
  /\ Action \subseteq [run : Run, op : {"normalize", "rewrite"}, to : Value]
  /\ Action \cap Request = {}
  /\ NoReceipt \notin Receipt

VARIABLES
  cell,           \* the record
  handler,        \* the handler of the attempt
  runs,           \* curation_runs
  receipts,       \* curation_action_receipts, by action
  history,        \* memory_mutation_events and their revisions, oldest first
  requests,       \* memory_restore_requests, by idempotency key
  calls,          \* what each caller is doing
  pass,           \* what each reconciliation is doing
  shared          \* history: requests that two callers carried at one time

vars == <<cell, handler, runs, receipts, history, requests, calls, pass, shared>>

Key == Action \cup Request

\* CurationRun, as far as it decides anything.
NewRun == [state |-> "none", outcome |-> "none"]

\* A call: its action or request key, the event to undo, the token its caller
\* saw, and its result so far.
Call(stage, key, target, seen, result) ==
  [stage |-> stage, key |-> key, target |-> target, seen |-> seen,
   result |-> result]

Idle == [stage |-> "idle"]

NoRequest == [status |-> "none", target |-> 0, seen |-> Gone]

Init ==
  /\ cell \in Value
  /\ handler = [r \in Run |-> "none"]
  /\ runs = [r \in Run |-> NewRun]
  /\ receipts = [k \in Key |-> NoReceipt]
  /\ history = << >>
  /\ requests = [q \in Request |-> NoRequest]
  /\ calls = [c \in Caller |-> Idle]
  /\ pass = [p \in Passer |-> NoPass]
  /\ shared = {}

-----------------------------------------------------------------------------
(* The attempt and its run.                                                *)

\* transition_run and terminalize_run: an update where the state is still the
\* one the caller read.
MoveRun(r, from, state, outcome) ==
  runs' = IF runs[r].state = from /\ from # "terminal"
            THEN [runs EXCEPT ![r] = [state |-> state, outcome |-> outcome]]
            ELSE runs

CreateRun(r) ==
  /\ handler[r] = "none"
  /\ handler' = [handler EXCEPT ![r] = "preparing"]
  /\ MoveRun(r, "none", "created", "none")
  /\ UNCHANGED <<cell, receipts, history, requests, calls, pass, shared>>

\* _prepare_direct_run: created, planning, executing; a run that was ended
\* meanwhile is used as it is.
PrepareRun(r) ==
  /\ handler[r] = "preparing"
  /\ \/ /\ runs[r].state = "created"
        /\ MoveRun(r, "created", "planning", "none")
        /\ UNCHANGED handler
     \/ /\ runs[r].state = "planning"
        /\ MoveRun(r, "planning", "executing", "none")
        /\ handler' = [handler EXCEPT ![r] = "working"]
     \/ /\ runs[r].state = "terminal"
        /\ handler' = [handler EXCEPT ![r] = "working"]
        /\ UNCHANGED runs
  /\ UNCHANGED <<cell, receipts, history, requests, calls, pass, shared>>

\* The agent is done: the handler ends the run as applied, verified or not.
HandlerEnds(r) ==
  /\ handler[r] = "working"
  /\ handler' = [handler EXCEPT ![r] = "gone"]
  /\ MoveRun(r, "executing", "terminal", "applied")
  /\ UNCHANGED <<cell, receipts, history, requests, calls, pass, shared>>

\* The agent fails, the attempt is cancelled, or the daemon dies.
HandlerDies(r) ==
  /\ handler[r] \in {"preparing", "working"}
  /\ handler' = [handler EXCEPT ![r] = "gone"]
  /\ UNCHANGED <<cell, runs, receipts, history, requests, calls, pass, shared>>

-----------------------------------------------------------------------------
(* The action transaction.                                                 *)

\* Mutant of CheckTokens: only asks whether the record is there.
CheckTokensNever(seen) == cell # Gone

\* record_token against the expected token; a missing record is stale too.
CheckTokens(seen) == cell # Gone /\ cell = seen

\* A receipt for the action answers the call before anything else is looked at.
Known(k) == receipts[k] # NoReceipt

\* The change, the history event and the receipt are committed together.
Apply(k, r, op, to, target) ==
  /\ cell' = to
  /\ history' = Append(history, [key |-> k, run |-> r, op |-> op, before |-> cell,
                                 after |-> to, target |-> target])
  /\ receipts' = [receipts EXCEPT
       ![k] = [status |-> "unverified", event |-> Len(history) + 1]]

Return(c) == calls' = [calls EXCEPT ![c] = Idle]

Goto(c, stage, result) ==
  calls' = [calls EXCEPT ![c].stage = stage, ![c].result = result]

-----------------------------------------------------------------------------
(* A mutation tool call of the agent: execute_curator_mutation.            *)

\* An action that has a receipt is answered with it; for any other the token is
\* read now, before the transaction begins.
ToolCall(c, a) ==
  /\ calls[c].stage = "idle" /\ handler[a.run] = "working" /\ ~Known(a)
  /\ calls' = [calls EXCEPT ![c] = Call("exec", a, 0, cell, "none")]
  /\ UNCHANGED <<cell, handler, runs, receipts, history, requests, pass, shared>>

\* execute_action for a tool call, one action for each way it ends.  A replay is
\* answered with the receipt, or with an identity collision if its token differs.
ToolReplays(c) ==
  /\ calls[c].stage = "exec"
  /\ Known(calls[c].key)
  /\ Return(c)
  /\ UNCHANGED <<cell, handler, runs, receipts, history, requests, pass, shared>>

Live(r) == runs[r].state \notin {"none", "terminal"}

ToolRunEnded(c) ==
  /\ calls[c].stage = "exec"
  /\ ~Known(calls[c].key) /\ ~Live(calls[c].key.run)
  /\ Return(c)
  /\ UNCHANGED <<cell, handler, runs, receipts, history, requests, pass, shared>>

ToolStale(c) ==
  /\ calls[c].stage = "exec"
  /\ ~Known(calls[c].key) /\ Live(calls[c].key.run) /\ ~CheckTokens(calls[c].seen)
  /\ Return(c)
  /\ UNCHANGED <<cell, handler, runs, receipts, history, requests, pass, shared>>

ToolApplies(c) ==
  LET a == calls[c].key
  IN
  /\ calls[c].stage = "exec"
  /\ ~Known(a) /\ Live(a.run) /\ CheckTokens(calls[c].seen)
  /\ Apply(a, a.run, a.op, a.to, 0)
  /\ Return(c)
  /\ UNCHANGED <<handler, runs, requests, pass, shared>>

-----------------------------------------------------------------------------
(* Restore, as the management service performs it.                         *)

\* build_inverse: only a normalisation that changed something has an inverse.
Invertible(i) == history[i].op = "normalize" /\ history[i].before # history[i].after

\* _analyze_restore and the checks after it, in their order.  Protections come
\* and go at any time, and are read here only: denied is what was read.
Analysis(i, seen, denied) ==
  CASE ~Invertible(i) \/ cell # history[i].after -> "conflict"
    [] Invertible(i) /\ cell = history[i].after /\ denied -> "rejected"
    [] Invertible(i) /\ cell = history[i].after /\ ~denied /\ seen # cell -> "conflict"
    [] OTHER -> "none"

Carries(c, q) == calls[c].stage # "idle" /\ calls[c].key = q

RequestRestore(c, q, i, seen) ==
  /\ calls[c].stage = "idle"
  /\ shared' = IF \E d \in Caller : Carries(d, q) THEN shared \cup {q} ELSE shared
  /\ \E denied \in BOOLEAN :
       LET verdict == Analysis(i, seen, denied) IN
       calls' = [calls EXCEPT ![c] =
         Call(IF verdict = "none" THEN "register" ELSE "refuse", q, i, seen, verdict)]
  /\ UNCHANGED <<cell, handler, runs, receipts, history, requests, pass>>

\* _restore_request_identity_matches.
SameRequest(c) ==
  LET row == requests[calls[c].key]
  IN  row.target = calls[c].target /\ row.seen = calls[c].seen

\* request_restore inserts the row with status applied and no event; until it
\* is terminalized the row is open.
Register(c) ==
  requests' = [requests EXCEPT ![calls[c].key] =
    [NoRequest EXCEPT !.status = "open", !.target = calls[c].target, !.seen = calls[c].seen]]

\* The analysis found a conflict: register it and record it.  A replay of an
\* open row counts as already applied, without asking whether it was.
RefuseRestore(c) ==
  LET row == requests[calls[c].key]
  IN
  /\ calls[c].stage = "refuse"
  /\ \/ row.status = "none" /\ Register(c) /\ Goto(c, "finish", calls[c].result)
     \/ /\ row.status \in {"conflict", "rejected"} /\ SameRequest(c)
        /\ Goto(c, "finish", calls[c].result) /\ UNCHANGED requests
     \/ /\ row.status \in {"open", "applied"} \/ (row.status # "none" /\ ~SameRequest(c))
        /\ Return(c) /\ UNCHANGED requests
  /\ UNCHANGED <<cell, handler, runs, receipts, history, pass, shared>>

\* RestoreExecutor.execute registers too; an open row is carried on with.
RegisterRestore(c) ==
  LET row == requests[calls[c].key]
  IN
  /\ calls[c].stage = "register"
  /\ \/ row.status = "none" /\ Register(c) /\ Goto(c, "restore", "none")
     \/ /\ row.status = "open" /\ SameRequest(c)
        /\ Goto(c, "restore", "none") /\ UNCHANGED requests
     \/ /\ row.status \notin {"none", "open"} \/ (row.status = "open" /\ ~SameRequest(c))
        /\ Return(c) /\ UNCHANGED requests
  /\ UNCHANGED <<cell, handler, runs, receipts, history, pass, shared>>

\* execute_action for a restore: in the run of the event, terminal or not.  The
\* action id is derived from the event and the key, so that a retry finds the
\* receipt.
RestoreReplays(c) ==
  /\ calls[c].stage = "restore"
  /\ Known(calls[c].key)
  /\ Goto(c, "verify", "none")
  /\ UNCHANGED <<cell, handler, runs, receipts, history, requests, pass, shared>>

\* Mutant of RestoreStale: the token is checked before the receipt.
RestoreStaleFirst(c) ==
  /\ calls[c].stage = "restore"
  /\ ~CheckTokens(calls[c].seen)
  /\ Goto(c, "finish", "conflict")
  /\ UNCHANGED <<cell, handler, runs, receipts, history, requests, pass, shared>>

RestoreStale(c) ==
  /\ calls[c].stage = "restore"
  /\ ~Known(calls[c].key) /\ ~CheckTokens(calls[c].seen)
  /\ Goto(c, "finish", "conflict")
  /\ UNCHANGED <<cell, handler, runs, receipts, history, requests, pass, shared>>

RestoreApplies(c) ==
  LET e == history[calls[c].target]
  IN
  /\ calls[c].stage = "restore"
  /\ ~Known(calls[c].key) /\ CheckTokens(calls[c].seen)
  /\ Apply(calls[c].key, e.run, "restore", e.before, calls[c].target)
  /\ Goto(c, "verify", "none")
  /\ UNCHANGED <<handler, runs, requests, pass, shared>>

\* transition_receipt: from unverified only.
SettleReceipt(k, status) ==
  receipts' = IF Known(k) /\ receipts[k].status = "unverified"
                THEN [receipts EXCEPT ![k].status = status] ELSE receipts

RestoreVerifies(c) ==
  /\ calls[c].stage = "verify"
  /\ SettleReceipt(calls[c].key, "verified")
  /\ Goto(c, "finish", "applied")
  /\ UNCHANGED <<cell, handler, runs, history, requests, pass, shared>>

\* Mutant of Open: the update does not ask for the status.
OpenAlways(q) == TRUE

\* terminalize_restore_request: the first terminal result stays; a different
\* one is an error to its caller.
Open(q) == requests[q].status = "open"

FinishRestore(c) ==
  LET q == calls[c].key
  IN
  /\ calls[c].stage = "finish"
  /\ requests' = IF ~Open(q) THEN requests
                  ELSE [requests EXCEPT ![q].status = calls[c].result]
  /\ Return(c)
  /\ UNCHANGED <<cell, handler, runs, receipts, history, pass, shared>>

\* A thread fails or dies with its daemon; what it has committed stays.
CallerFails(c) ==
  /\ calls[c].stage # "idle"
  /\ Return(c)
  /\ UNCHANGED <<cell, handler, runs, receipts, history, requests, pass, shared>>

-----------------------------------------------------------------------------
(* The reconciliation of one run: CurationReconciler.reconcile_run.        *)

ReceiptsOf(r) == {k \in Key : Known(k) /\ history[receipts[k].event].run = r}

Unverified(r) == {k \in ReceiptsOf(r) : receipts[k].status = "unverified"}

PassGoes(p, stage, verdict) ==
  pass' = [pass EXCEPT ![p].stage = stage, ![p].verdict = verdict]

PassDone(p) == pass' = [pass EXCEPT ![p] = NoPass]

PassTakes(p, r) ==
  /\ pass[p] = NoPass
  /\ runs[r].state \notin {"none", "terminal"}
  /\ pass' = [pass EXCEPT ![p] = [run |-> r, state |-> runs[r].state, stage |-> "list",
                                  pending |-> {}, verdict |-> "none"]]
  /\ UNCHANGED <<cell, handler, runs, receipts, history, requests, calls, shared>>

\* _finalize_if_possible on the receipts just listed.
Finalize(p) ==
  LET r == pass[p].run
  IN  CASE ReceiptsOf(r) = {} -> PassGoes(p, "task", "none")
        [] Unverified(r) # {} -> PassDone(p)
        [] ReceiptsOf(r) # {} /\ Unverified(r) = {} ->
             PassGoes(p, "end", IF \A k \in ReceiptsOf(r) : receipts[k].status = "verified"
                                  THEN "applied" ELSE "verification_failed")

PassLists(p) ==
  /\ pass[p] # NoPass /\ pass[p].stage = "list"
  /\ IF Unverified(pass[p].run) = {}
       THEN Finalize(p)
       ELSE pass' = [pass EXCEPT ![p].stage = "look", ![p].pending = Unverified(pass[p].run)]
  /\ UNCHANGED <<cell, handler, runs, receipts, history, requests, calls, shared>>

Oldest(keys) ==
  CHOOSE k \in keys : \A j \in keys : receipts[k].event <= receipts[j].event

\* The verifier reads the record and compares; without a descriptor only a
\* normalisation can be verified, anything else fails the run.
PassLooks(p) ==
  LET e == history[receipts[Oldest(pass[p].pending)].event]
  IN
  /\ pass[p] # NoPass /\ pass[p].stage = "look"
  /\ \/ pass[p].pending = {} /\ Finalize(p)
     \/ /\ pass[p].pending # {} /\ e.op = "normalize"
        /\ PassGoes(p, "settle", IF cell = e.after THEN "verified" ELSE "verification_failed")
     \/ /\ pass[p].pending # {} /\ e.op # "normalize"
        /\ PassGoes(p, "end", "verification_failed")
  /\ UNCHANGED <<cell, handler, runs, receipts, history, requests, calls, shared>>

PassSettles(p) ==
  LET k == Oldest(pass[p].pending)
  IN
  /\ pass[p] # NoPass /\ pass[p].stage = "settle"
  /\ SettleReceipt(k, pass[p].verdict)
  /\ pass' = [pass EXCEPT ![p].stage = "look", ![p].pending = @ \ {k}, ![p].verdict = "none"]
  /\ UNCHANGED <<cell, handler, runs, history, requests, calls, shared>>

\* _reconcile_empty_run: a run without receipts ends with its task, whose status
\* (TaskQueue's) may be anything when it is read.
EmptyVerdict(status) ==
  IF status = "cancelled" THEN "cancelled" ELSE "provider_failed"

PassReadsTask(p) ==
  /\ pass[p] # NoPass /\ pass[p].stage = "task"
  /\ \/ PassDone(p)
     \/ \E status \in {"cancelled", "failed", "completed"} :
          PassGoes(p, "end", EmptyVerdict(status))
  /\ UNCHANGED <<cell, handler, runs, receipts, history, requests, calls, shared>>

PassEndsRun(p) ==
  /\ pass[p] # NoPass /\ pass[p].stage = "end"
  /\ MoveRun(pass[p].run, pass[p].state, "terminal", pass[p].verdict)
  /\ PassDone(p)
  /\ UNCHANGED <<cell, handler, receipts, history, requests, calls, shared>>

\* The store stays locked through the retries, or the daemon dies.
PassGivesUp(p) ==
  /\ pass[p] # NoPass
  /\ PassDone(p)
  /\ UNCHANGED <<cell, handler, runs, receipts, history, requests, calls, shared>>

-----------------------------------------------------------------------------
(* Everyone else.                                                          *)

\* A client of the store changes or deletes the record, without history.
OtherWrites ==
  /\ cell # Gone
  /\ \E v \in (Value \cup {Gone}) \ {cell} : cell' = v
  /\ UNCHANGED <<handler, runs, receipts, history, requests, calls, pass, shared>>

Next ==
  \/ \E r \in Run : \/ CreateRun(r) \/ PrepareRun(r) \/ HandlerEnds(r)
                    \/ HandlerDies(r)
  \/ \E c \in Caller : \/ \E a \in Action : ToolCall(c, a)
                       \/ ToolReplays(c) \/ ToolRunEnded(c)
                       \/ ToolStale(c) \/ ToolApplies(c)
                       \/ \E q \in Request, i \in DOMAIN history, seen \in Value :
                            RequestRestore(c, q, i, seen)
                       \/ RefuseRestore(c) \/ RegisterRestore(c)
                       \/ RestoreReplays(c) \/ RestoreStale(c) \/ RestoreApplies(c)
                       \/ RestoreVerifies(c) \/ FinishRestore(c) \/ CallerFails(c)
  \/ \E p \in Passer : \/ \E r \in Run : PassTakes(p, r)
                       \/ PassLists(p) \/ PassLooks(p) \/ PassSettles(p)
                       \/ PassReadsTask(p) \/ PassEndsRun(p) \/ PassGivesUp(p)
  \/ OtherWrites

Spec == Init /\ [][Next]_vars

-----------------------------------------------------------------------------
(* Properties.                                                             *)

Applied(k) == \E i \in DOMAIN history : history[i].key = k

\* The history is exact (execute_action, RestoreExecutor.execute): an action or
\* a request takes effect once, however often it is called or retried, and a
\* restore replaces the very state its event left behind by the very state the
\* event found, whoever wrote in between; no later change is overwritten.
HistoryIsExact ==
  \A i \in DOMAIN history :
    /\ \A j \in DOMAIN history : history[i].key = history[j].key => i = j
    /\ history[i].op = "restore" =>
         LET e == history[history[i].target]
         IN  e.op = "normalize" /\ history[i].before = e.after /\ history[i].after = e.before

\* Answers are true (execute_action's replay check, terminalize_restore_request):
\* whoever is told that the token is stale or the run has ended is told so of a
\* change that was not made.  What is recorded of a request as applied was
\* applied; and a request that no two callers ever carried at the same time ends
\* as applied exactly if it was applied, through any number of failures and
\* retries, so that its applier is never told that it was refused.
AnswersAreTrue ==
  [][\A c \in Caller :
       LET q == calls[c].key
       IN  /\ ToolStale(c) \/ ToolRunEnded(c) \/ RestoreStale(c) => ~Applied(q)
           /\ FinishRestore(c) =>
                /\ requests' # requests /\ calls[c].result = "applied" => Applied(q)
                /\ q \notin shared => (requests'[q].status = "applied" <=> Applied(q))]_vars

\* The first terminal result stays (terminalize_run, transition_receipt,
\* terminalize_restore_request): of a run, whoever ends it, of a receipt, and of
\* a restore request that several callers carry on with.
FirstResultStays ==
  [][/\ \A r \in Run : runs[r].state = "terminal" => runs'[r] = runs[r]
     /\ \A k \in Key : Known(k) /\ receipts[k].status # "unverified" =>
          receipts'[k] = receipts[k]
     /\ \A q \in Request : requests[q].status \notin {"none", "open"} =>
          requests'[q] = requests[q]]_vars
=============================================================================
