--------------------------- MODULE CurationProofs ---------------------------
(***************************************************************************)
(* The safety of curation and restore for any number of runs, actions,     *)
(* requests, callers and reconciling daemons.                              *)
(*                                                                         *)
(* The invariant says three things beyond the types: what is in the        *)
(* history has a receipt, and the other way round, so that the receipt     *)
(* tells whether a key has taken effect; a restore points to an event      *)
(* before it; and a caller past its analysis holds the token that its      *)
(* event left behind, past its transaction an event of its own.  A second  *)
(* invariant follows a request that only one caller carries at a time.     *)
(***************************************************************************)
EXTENDS Curation, SequenceTheorems, TLAPS

Cell == Value \cup {Gone}

Op == {"normalize", "rewrite", "restore"}

Stage == {"exec", "refuse", "register", "restore", "verify", "finish"}

Result == {"none", "conflict", "rejected", "applied"}

RunState == {"none", "created", "planning", "executing", "terminal"}

Verdict == {"none", "verified", "applied", "verification_failed", "cancelled",
            "provider_failed"}

Event == [key : Key, run : Run, op : Op, before : Cell, after : Cell, target : Nat]

CallRow == [stage : Stage, key : Key, target : Nat, seen : Cell, result : Result]

PassRow == [run : Run, state : RunState, stage : {"list", "look", "settle", "task", "end"},
            pending : SUBSET Key, verdict : Verdict]

RequestRow == [status : {"none", "open", "applied", "conflict", "rejected"},
               target : Nat, seen : Cell]

\* What has taken effect has a receipt, and a restore follows its event.
Recorded ==
  \A i \in DOMAIN history :
    /\ Known(history[i].key)
    /\ history[i].op = "restore" => history[i].target \in DOMAIN history

\* What has a receipt has taken effect.
Backed == \A k \in Key : Known(k) => Applied(k)

StoreInv ==
  /\ cell \in Cell
  /\ history \in Seq(Event)
  /\ receipts \in [Key -> {NoReceipt} \cup Receipt]
  /\ Recorded /\ Backed
  /\ HistoryIsExact

\* A call fits a history: it is of a tool, or of a restore whose event and token
\* belong together, and what it claims to have applied is there.
FitsIn(x, h) ==
  /\ x.stage = "exec" => x.key \in Action
  /\ x.stage \notin {"idle", "exec"} => x.key \in Request
  /\ x.stage \in {"register", "restore"} =>
       /\ x.target \in DOMAIN h /\ h[x.target].op = "normalize"
       /\ x.seen = h[x.target].after
  /\ x.stage = "refuse" => x.result # "applied"
  /\ x.stage = "verify" \/ (x.stage = "finish" /\ x.result = "applied") =>
       \E i \in DOMAIN h : h[i].key = x.key

CallInv ==
  /\ calls \in [Caller -> {Idle} \cup CallRow]
  /\ \A c \in Caller : FitsIn(calls[c], history)

PassInv ==
  /\ runs \in [Run -> [state : RunState, outcome : Verdict]]
  /\ pass \in [Passer -> {NoPass} \cup PassRow]
  /\ \A p \in Passer :
       pass[p] # NoPass /\ pass[p].stage = "settle" =>
         pass[p].verdict \in {"verified", "verification_failed"}

CurationInv == StoreInv /\ CallInv /\ PassInv /\ requests \in [Request -> RequestRow]

\* The history only grows.
Grows == \A i \in DOMAIN history : i \in DOMAIN history' /\ history'[i] = history[i]

-----------------------------------------------------------------------------
(* The store.                                                              *)

\* A receipt that was written is a receipt.
LEMMA ReceiptIsKnown == \A r \in Receipt : r # NoReceipt
  BY CurationAssumption

\* The events of a history.
LEMMA EventAt ==
  ASSUME NEW h \in Seq(Event), NEW i \in DOMAIN h
  PROVE  /\ i \in Nat /\ h[i] \in Event /\ h[i].key \in Key /\ h[i].run \in Run
         /\ h[i].before \in Cell /\ h[i].after \in Cell
  <1>1. i \in 1..Len(h) /\ Len(h) \in Nat
    BY LenProperties
  <1>2. h[i] \in Event
    BY <1>1, ElementOfSeq
  <1> QED BY <1>1, <1>2 DEF Event

\* What Append does to the history.
LEMMA AppendEvent ==
  ASSUME NEW h \in Seq(Event), NEW e \in Event, NEW g, g = Append(h, e)
  PROVE  /\ g \in Seq(Event)
         /\ DOMAIN h = 1..Len(h) /\ DOMAIN g = 1..(Len(h) + 1)
         /\ Len(h) \in Nat
         /\ \A i \in DOMAIN h : i \in DOMAIN g /\ g[i] = h[i]
         /\ g[Len(h) + 1] = e
  BY AppendProperties, LenProperties

\* The transaction of an action that has no receipt keeps the store exact.
LEMMA ApplyStep ==
  ASSUME StoreInv, NEW k \in Key, NEW r \in Run, NEW op \in Op, NEW to \in Cell,
         NEW target \in Nat, ~Known(k), Apply(k, r, op, to, target),
         op = "restore" => /\ target \in DOMAIN history /\ history[target].op = "normalize"
                           /\ cell = history[target].after
                           /\ to = history[target].before
  PROVE  StoreInv' /\ Grows
  <1> DEFINE n == Len(history) + 1
             e == [key |-> k, run |-> r, op |-> op, before |-> cell,
                   after |-> to, target |-> target]
             w == [status |-> "unverified", event |-> n]
  <1>1. e \in Event
    BY DEF StoreInv, Event
  <1>2. /\ history' \in Seq(Event)
        /\ DOMAIN history = 1..Len(history) /\ DOMAIN history' = 1..n
        /\ Len(history) \in Nat
        /\ history'[n] = e
    BY <1>1, AppendEvent DEF StoreInv, Apply
  <1>3. Grows
    BY <1>1, AppendEvent DEF StoreInv, Apply, Grows
  <1>4. w \in Receipt
    <2>1. n \in Nat
      BY <1>2
    <2> HIDE DEF n
    <2> QED BY <2>1 DEF Receipt
  <1>5. receipts' = [receipts EXCEPT ![k] = w]
    BY DEF Apply
  <1>6. receipts' \in [Key -> {NoReceipt} \cup Receipt]
    BY <1>4, <1>5 DEF StoreInv
  <1>7. receipts'[k] = w /\ \A j \in Key : j # k => receipts'[j] = receipts[j]
    BY <1>5 DEF StoreInv
  <1>8. receipts'[k] # NoReceipt
    BY <1>7, <1>4, ReceiptIsKnown
  <1>9. cell' = to
    BY DEF Apply
  <1>10. \A i \in DOMAIN history : history[i].key \in Key /\ history[i].key # k
    BY EventAt DEF StoreInv, Recorded
  <1>11. \A i \in DOMAIN history' : i = n \/ (i \in DOMAIN history /\ history'[i] = history[i])
    BY <1>2, <1>3 DEF Grows
  <1>2a. n \in DOMAIN history'
    BY <1>2
  <1> HIDE DEF n, e, w
  <1>12. e.key = k /\ e.op = op /\ e.target = target /\ e.before = cell /\ e.after = to
    BY DEF e
  <1>13. Recorded'
    <2> SUFFICES ASSUME NEW i \in DOMAIN history'
                 PROVE  /\ receipts'[history'[i].key] # NoReceipt
                        /\ history'[i].op = "restore" => history'[i].target \in DOMAIN history'
      BY DEF Recorded, Known
    <2>1. CASE i = n
      BY <2>1, <1>2, <1>3, <1>8, <1>12 DEF Grows
    <2>2. CASE i \in DOMAIN history /\ history'[i] = history[i]
      BY <2>2, <1>3, <1>7, <1>10 DEF StoreInv, Recorded, Known, Grows
    <2> QED BY <2>1, <2>2, <1>11
  <1>14. HistoryIsExact'
    <2> SUFFICES ASSUME NEW i \in DOMAIN history'
                 PROVE  /\ \A j \in DOMAIN history' : history'[i].key = history'[j].key => i = j
                        /\ history'[i].op = "restore" =>
                             /\ history'[history'[i].target].op = "normalize"
                             /\ history'[i].before = history'[history'[i].target].after
                             /\ history'[i].after = history'[history'[i].target].before
      BY DEF HistoryIsExact
    <2>1. \A j \in DOMAIN history' : history'[i].key = history'[j].key => i = j
      BY <1>2, <1>10, <1>11, <1>12 DEF StoreInv, HistoryIsExact
    <2>2. ASSUME history'[i].op = "restore"
          PROVE  /\ history'[history'[i].target].op = "normalize"
                 /\ history'[i].before = history'[history'[i].target].after
                 /\ history'[i].after = history'[history'[i].target].before
      <3>1. CASE i = n
        BY <2>2, <3>1, <1>2, <1>3, <1>12 DEF Grows
      <3>2. CASE i \in DOMAIN history /\ history'[i] = history[i]
        BY <2>2, <3>2, <1>3 DEF Grows, StoreInv, HistoryIsExact, Recorded
      <3> QED BY <3>1, <3>2, <1>11
    <2> QED BY <2>1, <2>2
  <1>15. Backed'
    <2> SUFFICES ASSUME NEW j \in Key, receipts'[j] # NoReceipt
                 PROVE  \E i \in DOMAIN history' : history'[i].key = j
      BY DEF Backed, Known, Applied
    <2>1. CASE j = k
      BY <2>1, <1>2, <1>12, <1>2a
    <2>2. CASE j # k
      <3>1. PICK i \in DOMAIN history : history[i].key = j
        BY <2>2, <1>7 DEF StoreInv, Backed, Known, Applied
      <3> QED BY <3>1, <1>3 DEF Grows
    <2> QED BY <2>1, <2>2
  <1> QED BY <1>2, <1>3, <1>6, <1>9, <1>13, <1>14, <1>15 DEF StoreInv

\* Settling a receipt does not take it away.
LEMMA SettleStep ==
  ASSUME StoreInv, NEW k, NEW status \in {"verified", "verification_failed"}, SettleReceipt(k, status),
         UNCHANGED <<cell, history>>
  PROVE  StoreInv' /\ Grows
  <1>1. /\ receipts' \in [Key -> {NoReceipt} \cup Receipt]
        /\ \A j \in Key : receipts[j] # NoReceipt <=> receipts'[j] # NoReceipt
    <2>1. CASE receipts' = receipts
      BY <2>1 DEF StoreInv
    <2>2. CASE receipts' # receipts
      <3>1. /\ receipts[k] # NoReceipt
            /\ receipts' = [receipts EXCEPT ![k] = [receipts[k] EXCEPT !.status = status]]
        BY <2>2 DEF SettleReceipt, Known
      <3>2. k \in Key
        BY <2>2, <3>1 DEF StoreInv
      <3>3. [receipts[k] EXCEPT !.status = status] \in Receipt
        BY <3>1, <3>2 DEF StoreInv, Receipt
      <3>4. receipts' \in [Key -> {NoReceipt} \cup Receipt]
        BY <3>1, <3>3 DEF StoreInv
      <3>5. receipts'[k] \in Receipt /\ \A j \in Key : j # k => receipts'[j] = receipts[j]
        BY <3>1, <3>2, <3>3 DEF StoreInv
      <3> QED BY <3>1, <3>4, <3>5, ReceiptIsKnown
    <2> QED BY <2>1, <2>2
  <1>2. \A i \in DOMAIN history : history[i].key \in Key
    BY EventAt DEF StoreInv
  <1>3. Recorded'
    BY <1>1, <1>2 DEF StoreInv, Recorded, Known
  <1>4. Backed'
    BY <1>1 DEF StoreInv, Backed, Known, Applied
  <1> QED BY <1>1, <1>3, <1>4 DEF StoreInv, HistoryIsExact, Grows

\* The record changes behind the history's back.
LEMMA RestStep ==
  ASSUME StoreInv, UNCHANGED <<receipts, history>>, cell' \in Cell
  PROVE  StoreInv' /\ Grows
  BY DEF StoreInv, Recorded, Backed, Applied, Known, HistoryIsExact, Grows

-----------------------------------------------------------------------------
(* The callers.                                                            *)

\* A call that fits still fits when the history has grown.
LEMMA FitsOn ==
  ASSUME Grows, NEW x, FitsIn(x, history)
  PROVE  FitsIn(x, history')
  BY DEF Grows, FitsIn

\* A caller goes on to x, everyone else stays.
LEMMA CallStep ==
  ASSUME CallInv, Grows, NEW c \in Caller, NEW x \in {Idle} \cup CallRow,
         FitsIn(x, history'), calls' = [calls EXCEPT ![c] = x]
  PROVE  CallInv'
  <1>1. calls' \in [Caller -> {Idle} \cup CallRow]
    BY DEF CallInv
  <1>2. \A d \in Caller : calls'[d] = x \/ calls'[d] = calls[d]
    BY DEF CallInv
  <1>3. \A d \in Caller : FitsIn(calls[d], history')
    BY FitsOn DEF CallInv
  <1>4. \A d \in Caller : FitsIn(calls'[d], history')
    BY <1>2, <1>3
  <1> QED BY <1>1, <1>4 DEF CallInv

\* Everyone stays.
LEMMA CallsStay ==
  ASSUME CallInv, Grows, UNCHANGED calls
  PROVE  CallInv'
  <1>1. \A d \in Caller : FitsIn(calls'[d], history')
    BY FitsOn DEF CallInv
  <1> QED BY <1>1 DEF CallInv

\* A call that has ended fits.
LEMMA ReturnStep ==
  ASSUME CallInv, Grows, NEW c \in Caller, Return(c)
  PROVE  CallInv'
  <1>1. FitsIn(Idle, history')
    BY DEF FitsIn, Idle
  <1> QED BY <1>1, CallStep DEF Return

\* A call goes on to its next stage.
LEMMA GotoStep ==
  ASSUME CallInv, Grows, NEW c \in Caller, NEW stage \in Stage, NEW result \in Result,
         calls[c].stage \notin {"idle", "exec"}, Goto(c, stage, result),
         stage \notin {"exec", "refuse"},
         stage \in {"register", "restore"} => calls[c].stage \in {"register", "restore"},
         stage = "verify" \/ (stage = "finish" /\ result = "applied") =>
           \E i \in DOMAIN history' : history'[i].key = calls[c].key
  PROVE  CallInv'
  <1> DEFINE x == [calls[c] EXCEPT !.stage = stage, !.result = result]
  <1>1. calls[c] \in CallRow
    BY DEF CallInv, Idle
  <1>2. /\ x \in CallRow /\ x.stage = stage /\ x.result = result /\ x.key = calls[c].key
        /\ x.target = calls[c].target /\ x.seen = calls[c].seen
    BY <1>1 DEF CallRow
  <1>3. calls' = [calls EXCEPT ![c] = x]
    BY DEF Goto
  <1> HIDE DEF x
  <1>4. FitsIn(calls[c], history')
    BY FitsOn DEF CallInv
  <1>5. FitsIn(x, history')
    BY <1>2, <1>4 DEF FitsIn
  <1> QED BY <1>2, <1>3, <1>5, CallStep

-----------------------------------------------------------------------------
(* The runs and the passes.                                                *)

\* transition_run and terminalize_run keep the types of the runs.
LEMMA MoveStep ==
  ASSUME PassInv, NEW r \in Run, NEW from, NEW state \in RunState, NEW outcome \in Verdict,
         MoveRun(r, from, state, outcome)
  PROVE  runs' \in [Run -> [state : RunState, outcome : Verdict]]
  BY DEF PassInv, MoveRun

\* A pass goes on to x, or is done.
LEMMA PassStep ==
  ASSUME PassInv, NEW p \in Passer, NEW x \in {NoPass} \cup PassRow,
         x # NoPass /\ x.stage = "settle" => x.verdict \in {"verified", "verification_failed"},
         pass' = [pass EXCEPT ![p] = x],
         runs' \in [Run -> [state : RunState, outcome : Verdict]]
  PROVE  PassInv'
  <1>1. pass' \in [Passer -> {NoPass} \cup PassRow]
    BY DEF PassInv
  <1>2. \A d \in Passer : pass'[d] = x \/ pass'[d] = pass[d]
    BY DEF PassInv
  <1> QED BY <1>1, <1>2 DEF PassInv

\* A pass that is done.
LEMMA PassDoneStep ==
  ASSUME PassInv, NEW p \in Passer, PassDone(p),
         runs' \in [Run -> [state : RunState, outcome : Verdict]]
  PROVE  PassInv'
  BY PassStep DEF PassDone

\* A pass goes on to its next stage.
LEMMA PassGoesStep ==
  ASSUME PassInv, NEW p \in Passer, pass[p] # NoPass, UNCHANGED runs,
         NEW stage \in {"list", "look", "settle", "task", "end"}, NEW verdict \in Verdict,
         stage = "settle" => verdict \in {"verified", "verification_failed"},
         PassGoes(p, stage, verdict)
  PROVE  PassInv'
  <1> DEFINE x == [pass[p] EXCEPT !.stage = stage, !.verdict = verdict]
  <1>1. pass[p] \in PassRow
    BY DEF PassInv
  <1>2. x \in PassRow /\ x.stage = stage /\ x.verdict = verdict
    BY <1>1 DEF PassRow
  <1>3. pass' = [pass EXCEPT ![p] = x]
    BY DEF PassGoes
  <1> HIDE DEF x
  <1> QED BY <1>2, <1>3, PassStep DEF PassInv

\* _finalize_if_possible ends in one of its four ways.
LEMMA FinalizeStep ==
  ASSUME PassInv, NEW p \in Passer, pass[p] # NoPass, UNCHANGED runs, Finalize(p)
  PROVE  PassInv'
  <1>1. \/ PassGoes(p, "task", "none") \/ PassDone(p)
        \/ PassGoes(p, "end", "applied") \/ PassGoes(p, "end", "verification_failed")
    BY DEF Finalize
  <1>2. "none" \in Verdict /\ "applied" \in Verdict /\ "verification_failed" \in Verdict
    BY DEF Verdict
  <1>3. runs' \in [Run -> [state : RunState, outcome : Verdict]]
    BY DEF PassInv
  <1> QED BY <1>1, <1>2, <1>3, PassGoesStep, PassDoneStep

-----------------------------------------------------------------------------
(* The steps of the system.                                                *)

\* The invariant holds at first, and every step keeps it.
LEMMA InitInv == Init => CurationInv
  <1> SUFFICES ASSUME Init PROVE CurationInv
    OBVIOUS
  <1>1. history = << >> /\ DOMAIN history = {}
    BY DEF Init
  <1>2. StoreInv
    BY <1>1 DEF Init, StoreInv, Recorded, Backed, Known, HistoryIsExact, Cell
  <1>3. CallInv
    BY DEF Init, CallInv, FitsIn, Idle
  <1>4. PassInv
    BY DEF Init, PassInv, NewRun, RunState, Verdict
  <1>5. requests \in [Request -> RequestRow]
    BY DEF Init, NoRequest, RequestRow, Cell
  <1> QED BY <1>2, <1>3, <1>4, <1>5 DEF CurationInv

\* Steps that leave record, history and receipts alone.
LEMMA StoreStays ==
  ASSUME StoreInv, UNCHANGED <<cell, receipts, history>>
  PROVE  StoreInv' /\ Grows
  BY RestStep DEF StoreInv

\* Steps that leave the runs and the passes alone.
LEMMA PassesStay ==
  ASSUME PassInv, UNCHANGED <<runs, pass>>
  PROVE  PassInv'
  BY DEF PassInv

\* The handler and its run.
LEMMA HandlerSteps ==
  ASSUME CurationInv, NEW r \in Run,
         CreateRun(r) \/ PrepareRun(r) \/ HandlerEnds(r) \/ HandlerDies(r)
  PROVE  CurationInv'
  <1>1. UNCHANGED <<cell, receipts, history, calls, pass, requests>>
    BY DEF CreateRun, PrepareRun, HandlerEnds, HandlerDies
  <1>2. StoreInv' /\ Grows
    BY <1>1, StoreStays DEF CurationInv
  <1>3. CallInv'
    BY <1>1, <1>2, CallsStay DEF CurationInv
  <1>4. \/ UNCHANGED runs
        \/ MoveRun(r, "none", "created", "none") \/ MoveRun(r, "created", "planning", "none")
        \/ MoveRun(r, "planning", "executing", "none")
        \/ MoveRun(r, "executing", "terminal", "applied")
    BY DEF CreateRun, PrepareRun, HandlerEnds, HandlerDies
  <1>5. /\ "created" \in RunState /\ "planning" \in RunState /\ "executing" \in RunState
        /\ "terminal" \in RunState /\ "none" \in Verdict /\ "applied" \in Verdict
    BY DEF RunState, Verdict
  <1>6. runs' \in [Run -> [state : RunState, outcome : Verdict]]
    BY <1>4, <1>5, MoveStep DEF CurationInv, PassInv
  <1>7. PassInv'
    BY <1>1, <1>6 DEF CurationInv, PassInv
  <1> QED BY <1>1, <1>2, <1>3, <1>7 DEF CurationInv

\* Whoever registers or finishes a request writes a request.
LEMMA RequestStep ==
  ASSUME CurationInv, NEW c \in Caller,
         \/ UNCHANGED requests
         \/ RefuseRestore(c) \/ RegisterRestore(c) \/ FinishRestore(c)
  PROVE  requests' \in [Request -> RequestRow]
  <1>1. CASE requests' = requests
    BY <1>1 DEF CurationInv
  <1>2. CASE requests' # requests
    <2>1. calls[c] \in CallRow
      BY <1>2 DEF CurationInv, CallInv, Idle, RefuseRestore, RegisterRestore, FinishRestore
    <2> DEFINE q == calls[c].key
               x == [NoRequest EXCEPT !.status = "open", !.target = calls[c].target,
                                      !.seen = calls[c].seen]
               y == [requests[q] EXCEPT !.status = calls[c].result]
    <2>2. \/ requests' = [requests EXCEPT ![q] = x]
          \/ Open(q) /\ calls[c].stage = "finish" /\ requests' = [requests EXCEPT ![q] = y]
      BY <1>2 DEF RefuseRestore, RegisterRestore, FinishRestore, Register
    <2>3. x \in RequestRow
      BY <2>1 DEF CallRow, NoRequest, RequestRow
    <2>4. q \in Request => y \in RequestRow
      BY <2>1 DEF CallRow, RequestRow, Result, CurationInv
    <2> HIDE DEF q, x, y
    <2> QED BY <2>2, <2>3, <2>4 DEF CurationInv
  <1> QED BY <1>1, <1>2

\* Steps of a caller that read, answer or settle, but do not apply.
LEMMA AskSteps ==
  ASSUME CurationInv, NEW c \in Caller,
         \/ \E a \in Action : ToolCall(c, a)
         \/ ToolReplays(c) \/ ToolRunEnded(c) \/ ToolStale(c)
         \/ \E q \in Request, i \in DOMAIN history, seen \in Value : RequestRestore(c, q, i, seen)
         \/ RefuseRestore(c) \/ RegisterRestore(c) \/ RestoreReplays(c) \/ RestoreStale(c)
         \/ FinishRestore(c) \/ CallerFails(c)
  PROVE  CurationInv'
  <1>1. UNCHANGED <<cell, receipts, history, runs, pass>>
    BY DEF ToolCall, ToolReplays, ToolRunEnded, ToolStale, RequestRestore, RefuseRestore,
           RegisterRestore, RestoreReplays, RestoreStale, FinishRestore, CallerFails
  <1>2. StoreInv' /\ Grows
    BY <1>1, StoreStays DEF CurationInv
  <1>3. PassInv'
    BY <1>1, PassesStay DEF CurationInv
  <1>4. CallInv'
    <2> USE DEF CurationInv
    <2>1. CASE \E a \in Action : ToolCall(c, a)
      <3>1. PICK a \in Action : ToolCall(c, a)
        BY <2>1
      <3> DEFINE x == Call("exec", a, 0, cell, "none")
      <3>2. x \in CallRow
        BY DEF Call, CallRow, Key, StoreInv, Stage, Result
      <3>3. FitsIn(x, history')
        BY DEF Call, FitsIn
      <3>4. calls' = [calls EXCEPT ![c] = x]
        BY <3>1 DEF ToolCall
      <3> HIDE DEF x
      <3> QED BY <3>2, <3>3, <3>4, <1>2, CallStep
    <2>2. CASE Return(c)
      BY <2>2, <1>2, ReturnStep
    <2>3. CASE \E q \in Request, i \in DOMAIN history, seen \in Value :
                 RequestRestore(c, q, i, seen)
      <3>1. PICK q \in Request, i \in DOMAIN history, seen \in Value :
              RequestRestore(c, q, i, seen)
        BY <2>3
      <3>2. PICK denied \in BOOLEAN : calls' = [calls EXCEPT ![c] =
              Call(IF Analysis(i, seen, denied) = "none" THEN "register" ELSE "refuse",
                   q, i, seen, Analysis(i, seen, denied))]
        BY <3>1 DEF RequestRestore
      <3> DEFINE v == Analysis(i, seen, denied)
                 x == Call(IF v = "none" THEN "register" ELSE "refuse", q, i, seen, v)
      <3>3. v \in Result
        BY DEF Analysis, Result
      <3>4. /\ v # "applied"
            /\ v = "none" => /\ history[i].op = "normalize"
                             /\ cell = history[i].after /\ seen = cell
        BY DEF Analysis, Invertible
      <3> HIDE DEF v
      <3>5. i \in Nat
        BY EventAt DEF StoreInv
      <3>6. x \in CallRow
        BY <3>3, <3>5 DEF Call, CallRow, Key, Cell, Stage
      <3>7. FitsIn(x, history')
        BY <3>4, <1>1 DEF Call, FitsIn
      <3>8. calls' = [calls EXCEPT ![c] = x]
        BY <3>2 DEF v
      <3> HIDE DEF x
      <3> QED BY <3>6, <3>7, <3>8, <1>2, CallStep
    <2>4. CASE RefuseRestore(c) \/ RegisterRestore(c) \/ RestoreReplays(c) \/ RestoreStale(c)
      <3>1. calls[c].stage \in {"refuse", "register", "restore"}
        BY <2>4 DEF RefuseRestore, RegisterRestore, RestoreReplays, RestoreStale
      <3>2. calls[c].result \in Result
        BY <3>1 DEF CallInv, CallRow, Idle
      <3>3. \/ Return(c)
            \/ calls[c].stage = "refuse" /\ Goto(c, "finish", calls[c].result)
            \/ Goto(c, "finish", "conflict")
            \/ Known(calls[c].key) /\ Goto(c, "verify", "none")
            \/ calls[c].stage = "register" /\ Goto(c, "restore", "none")
        BY <2>4 DEF RefuseRestore, RegisterRestore, RestoreReplays, RestoreStale
      <3>4. /\ "finish" \in Stage /\ "verify" \in Stage /\ "restore" \in Stage
            /\ "conflict" \in Result /\ "none" \in Result
        BY DEF Stage, Result
      <3>5. calls[c].stage = "refuse" => calls[c].result # "applied"
        BY DEF CallInv, FitsIn
      <3>6. Known(calls[c].key) => \E i \in DOMAIN history' : history'[i].key = calls[c].key
        BY <3>1, <1>1 DEF CallInv, CallRow, Idle, StoreInv, Backed, Applied
      <3> QED BY <3>1, <3>2, <3>3, <3>4, <3>5, <3>6, <1>2, GotoStep, ReturnStep
    <2>5. QED
      BY <2>1, <2>2, <2>3, <2>4
      DEF ToolReplays, ToolRunEnded, ToolStale, FinishRestore, CallerFails
  <1>5. requests' \in [Request -> RequestRow]
    BY RequestStep DEF ToolCall, ToolReplays, ToolRunEnded, ToolStale, RequestRestore,
                       RestoreReplays, RestoreStale, CallerFails
  <1> QED BY <1>2, <1>3, <1>4, <1>5 DEF CurationInv

\* A tool call that takes effect.
LEMMA ToolStep ==
  ASSUME CurationInv, NEW c \in Caller, ToolApplies(c)
  PROVE  CurationInv'
  <1> DEFINE a == calls[c].key
  <1>1. a \in Action /\ a \in Key
    BY DEF ToolApplies, CurationInv, CallInv, FitsIn, Key
  <1>2. a.run \in Run /\ a.op \in {"normalize", "rewrite"} /\ a.to \in Value
    BY <1>1, CurationAssumption
  <1>3. /\ ~Known(a) /\ Apply(a, a.run, a.op, a.to, 0) /\ Return(c)
        /\ UNCHANGED <<runs, pass, requests>>
    BY DEF ToolApplies
  <1> HIDE DEF a
  <1>4. a.op \in Op /\ a.to \in Cell /\ a.op # "restore"
    BY <1>2 DEF Op, Cell
  <1>5. StoreInv' /\ Grows
    BY <1>1, <1>2, <1>3, <1>4, ApplyStep DEF CurationInv
  <1> QED BY <1>3, <1>5, ReturnStep, PassesStay DEF CurationInv

\* A restore that takes effect: the token that was checked is the one its event
\* left behind.
LEMMA RestoreStep ==
  ASSUME CurationInv, NEW c \in Caller, RestoreApplies(c)
  PROVE  CurationInv'
  <1> DEFINE k == calls[c].key
             t == calls[c].target
  <1>1. calls[c] \in CallRow /\ k \in Key /\ t \in Nat
    BY DEF RestoreApplies, CurationInv, CallInv, CallRow, Idle
  <1>2. /\ t \in DOMAIN history /\ history[t].op = "normalize"
        /\ calls[c].seen = history[t].after
    BY DEF RestoreApplies, CurationInv, CallInv, FitsIn
  <1>3. /\ ~Known(k) /\ CheckTokens(calls[c].seen)
        /\ Apply(k, history[t].run, "restore", history[t].before, t)
        /\ Goto(c, "verify", "none") /\ UNCHANGED <<runs, pass, requests>>
    BY DEF RestoreApplies
  <1>4. cell = history[t].after
    BY <1>2, <1>3 DEF CheckTokens
  <1>5. history[t].run \in Run /\ history[t].before \in Cell
    BY <1>2, EventAt DEF CurationInv, StoreInv
  <1> HIDE DEF k, t
  <1>6. "restore" \in Op /\ "verify" \in Stage /\ "none" \in Result
    BY DEF Op, Stage, Result
  <1>7. StoreInv' /\ Grows
    BY <1>1, <1>2, <1>3, <1>4, <1>5, <1>6, ApplyStep DEF CurationInv
  <1>8. \E i \in DOMAIN history' : history'[i].key = k
    <2>1. /\ history \in Seq(Event) /\ Len(history) \in Nat
          /\ history' = Append(history, [key |-> k, run |-> history[t].run, op |-> "restore",
                                         before |-> cell, after |-> history[t].before,
                                         target |-> t])
      BY <1>3, LenProperties DEF Apply, CurationInv, StoreInv
    <2>2. history'[Len(history) + 1].key = k /\ Len(history) + 1 \in DOMAIN history'
      BY <2>1, <1>1, <1>5, <1>6, AppendEvent DEF Event, CurationInv, StoreInv
    <2> QED BY <2>2
  <1>9. CallInv'
    BY <1>3, <1>6, <1>7, <1>8, GotoStep DEF CurationInv, RestoreApplies, k
  <1> QED BY <1>3, <1>7, <1>9, PassesStay DEF CurationInv

\* The restore verifies its own receipt.
LEMMA VerifyStep ==
  ASSUME CurationInv, NEW c \in Caller, RestoreVerifies(c)
  PROVE  CurationInv'
  <1>1. StoreInv' /\ Grows
    BY SettleStep DEF CurationInv, RestoreVerifies
  <1>2. "finish" \in Stage /\ "applied" \in Result
    BY DEF Stage, Result
  <1>3. CallInv'
    <2>1. \E i \in DOMAIN history' : history'[i].key = calls[c].key
      BY DEF CurationInv, CallInv, FitsIn, RestoreVerifies
    <2> QED BY <1>1, <1>2, <2>1, GotoStep DEF CurationInv, RestoreVerifies
  <1>4. PassInv'
    BY PassesStay DEF CurationInv, RestoreVerifies
  <1> QED BY <1>1, <1>3, <1>4 DEF CurationInv, RestoreVerifies

\* The reconciliation pass of a daemon.
LEMMA PassSteps ==
  ASSUME CurationInv, NEW p \in Passer,
         \/ \E r \in Run : PassTakes(p, r)
         \/ PassLists(p) \/ PassLooks(p) \/ PassSettles(p)
         \/ PassReadsTask(p) \/ PassEndsRun(p) \/ PassGivesUp(p)
  PROVE  CurationInv'
  <1>0. UNCHANGED <<calls, requests>>
    BY DEF PassTakes, PassLists, PassLooks, PassSettles, PassReadsTask, PassEndsRun, PassGivesUp
  <1>1. StoreInv' /\ Grows
    <2>1. CASE PassSettles(p)
      <3>1. pass[p].verdict \in {"verified", "verification_failed"}
        BY <2>1 DEF PassSettles, CurationInv, PassInv
      <3> QED BY <2>1, <3>1, SettleStep DEF PassSettles, CurationInv
    <2>2. CASE ~PassSettles(p)
      <3>1. UNCHANGED <<cell, receipts, history>>
        BY <2>2 DEF PassTakes, PassLists, PassLooks, PassReadsTask, PassEndsRun, PassGivesUp
      <3> QED BY <3>1, StoreStays DEF CurationInv
    <2> QED BY <2>1, <2>2
  <1>2. CallInv'
    BY <1>1, <1>0, CallsStay DEF CurationInv
  <1>3. PassInv'
    <2>0. PassInv /\ runs \in [Run -> [state : RunState, outcome : Verdict]]
      BY DEF CurationInv, PassInv
    <2>a. /\ "none" \in Verdict /\ "verified" \in Verdict /\ "verification_failed" \in Verdict
          /\ "cancelled" \in Verdict /\ "provider_failed" \in Verdict
          /\ "terminal" \in RunState
      BY DEF Verdict, RunState
    <2>1. CASE \E r \in Run : PassTakes(p, r)
      <3>1. PICK r \in Run : PassTakes(p, r)
        BY <2>1
      <3> DEFINE x == [run |-> r, state |-> runs[r].state, stage |-> "list",
                       pending |-> {}, verdict |-> "none"]
      <3>2. runs[r].state \in RunState
        BY <2>0
      <3>3. x \in PassRow /\ x.stage = "list"
        BY <3>2, <2>a DEF PassRow
      <3>4. pass' = [pass EXCEPT ![p] = x] /\ runs' = runs
        BY <3>1 DEF PassTakes
      <3> HIDE DEF x
      <3> QED BY <3>3, <3>4, <2>0, PassStep
    <2>2. CASE PassLists(p)
      <3>1. CASE Unverified(pass[p].run) = {}
        BY <2>2, <3>1, <2>0, FinalizeStep DEF PassLists
      <3>2. CASE Unverified(pass[p].run) # {}
        <4> DEFINE u == Unverified(pass[p].run)
                   x == [pass[p] EXCEPT !.stage = "look", !.pending = u]
        <4>1. u \in SUBSET Key
          BY DEF Unverified, ReceiptsOf
        <4>2. pass[p] \in PassRow
          BY <2>2, <2>0 DEF PassLists, PassInv
        <4>3. pass' = [pass EXCEPT ![p] = x] /\ runs' = runs
          BY <2>2, <3>2 DEF PassLists
        <4> HIDE DEF u
        <4>4. x \in PassRow /\ x.stage = "look"
          BY <4>1, <4>2 DEF PassRow
        <4> HIDE DEF x
        <4> QED BY <4>3, <4>4, <2>0, PassStep
      <3> QED BY <3>1, <3>2
    <2>3. CASE PassLooks(p)
      <3>1. pass[p] # NoPass /\ UNCHANGED runs
        BY <2>3 DEF PassLooks
      <3>2. \/ Finalize(p) \/ PassGoes(p, "settle", "verified")
            \/ PassGoes(p, "settle", "verification_failed")
            \/ PassGoes(p, "end", "verification_failed")
        BY <2>3 DEF PassLooks
      <3> QED BY <3>1, <3>2, <2>0, <2>a, FinalizeStep, PassGoesStep
    <2>4. CASE PassSettles(p)
      <3> DEFINE k == Oldest(pass[p].pending)
                 x == [pass[p] EXCEPT !.stage = "look", !.pending = pass[p].pending \ {k},
                                      !.verdict = "none"]
      <3>1. pass[p] \in PassRow
        BY <2>4, <2>0 DEF PassSettles, PassInv
      <3>2. pass' = [pass EXCEPT ![p] = x] /\ runs' = runs
        BY <2>4 DEF PassSettles
      <3> HIDE DEF k
      <3>3. x \in PassRow /\ x.stage = "look"
        BY <3>1, <2>a DEF PassRow
      <3> HIDE DEF x
      <3> QED BY <3>2, <3>3, <2>0, PassStep
    <2>5. CASE PassReadsTask(p)
      <3>1. pass[p] # NoPass /\ UNCHANGED runs
        BY <2>5 DEF PassReadsTask
      <3>2. \/ PassDone(p) \/ PassGoes(p, "end", "cancelled")
            \/ PassGoes(p, "end", "provider_failed")
        BY <2>5 DEF PassReadsTask, EmptyVerdict
      <3> QED BY <3>1, <3>2, <2>0, <2>a, PassDoneStep, PassGoesStep
    <2>6. CASE PassEndsRun(p)
      <3>1. pass[p] \in PassRow /\ PassDone(p)
        BY <2>6, <2>0 DEF PassEndsRun, PassInv
      <3>2. pass[p].run \in Run /\ pass[p].verdict \in Verdict
        BY <3>1 DEF PassRow
      <3>3. MoveRun(pass[p].run, pass[p].state, "terminal", pass[p].verdict)
        BY <2>6 DEF PassEndsRun
      <3>4. runs' \in [Run -> [state : RunState, outcome : Verdict]]
        BY <3>2, <3>3, <2>0, <2>a, MoveStep
      <3> QED BY <3>1, <3>4, <2>0, PassDoneStep
    <2>7. CASE PassGivesUp(p)
      BY <2>7, <2>0, PassDoneStep DEF PassGivesUp
    <2> QED BY <2>1, <2>2, <2>3, <2>4, <2>5, <2>6, <2>7
  <1> QED BY <1>0, <1>1, <1>2, <1>3 DEF CurationInv

\* Everyone else, and stuttering.
LEMMA OtherStep ==
  ASSUME CurationInv, OtherWrites \/ UNCHANGED vars
  PROVE  CurationInv'
  <1>1. /\ cell' \in Cell
        /\ UNCHANGED <<receipts, history, calls, runs, pass, requests>>
    BY DEF OtherWrites, vars, Cell, CurationInv, StoreInv
  <1> QED BY <1>1, RestStep, CallsStay, PassesStay DEF CurationInv

\* One case for each group of actions.
LEMMA NextInv == CurationInv /\ [Next]_vars => CurationInv'
  <1> SUFFICES ASSUME CurationInv, [Next]_vars PROVE CurationInv'
    OBVIOUS
  <1>1. CASE \E r \in Run :
               CreateRun(r) \/ PrepareRun(r) \/ HandlerEnds(r) \/ HandlerDies(r)
    BY <1>1, HandlerSteps
  <1>2. CASE \E c \in Caller :
               \/ \E a \in Action : ToolCall(c, a)
               \/ ToolReplays(c) \/ ToolRunEnded(c) \/ ToolStale(c)
               \/ \E q \in Request, i \in DOMAIN history, seen \in Value :
                    RequestRestore(c, q, i, seen)
               \/ RefuseRestore(c) \/ RegisterRestore(c) \/ RestoreReplays(c)
               \/ RestoreStale(c) \/ FinishRestore(c) \/ CallerFails(c)
    BY <1>2, AskSteps
  <1>3. CASE \E c \in Caller : ToolApplies(c)
    BY <1>3, ToolStep
  <1>4. CASE \E c \in Caller : RestoreApplies(c)
    BY <1>4, RestoreStep
  <1>5. CASE \E c \in Caller : RestoreVerifies(c)
    BY <1>5, VerifyStep
  <1>6. CASE \E p \in Passer :
               \/ \E r \in Run : PassTakes(p, r)
               \/ PassLists(p) \/ PassLooks(p) \/ PassSettles(p)
               \/ PassReadsTask(p) \/ PassEndsRun(p) \/ PassGivesUp(p)
    BY <1>6, PassSteps
  <1>7. CASE OtherWrites \/ UNCHANGED vars
    BY <1>7, OtherStep
  <1> QED BY <1>1, <1>2, <1>3, <1>4, <1>5, <1>6, <1>7, Zenon DEF Next

-----------------------------------------------------------------------------
(* The theorems.                                                           *)

\* The history is exact: an action or a restore takes effect once, and a restore
\* turns the very state its event left behind into the very state the event
\* found, for any number of callers, retries, crashes and other writers
\* (execute_action, RestoreExecutor.execute).
THEOREM HistoryStaysExact == Spec => []HistoryIsExact
  <1>1. CurationInv => HistoryIsExact
    BY DEF CurationInv, StoreInv
  <1> QED BY <1>1, InitInv, NextInv, PTL DEF Spec

-----------------------------------------------------------------------------
(* A request that one caller carries at a time.                            *)

\* How a request ends truly: its row tells whether it was applied, an applier
\* finds the row open, and who is to record a refusal has applied nothing.
EndsTruly(q) ==
  /\ requests[q].status \in {"none", "conflict", "rejected"} => ~Applied(q)
  /\ requests[q].status = "applied" => Applied(q)
  /\ \A c \in Caller : Carries(c, q) =>
       /\ \/ calls[c].stage \in {"restore", "verify"}
          \/ calls[c].stage = "finish" /\ calls[c].result = "applied"
          => Open(q)
       /\ calls[c].stage = "finish" /\ calls[c].result # "applied" => ~Applied(q)

AloneInv ==
  /\ \A q \in Request, c, d \in Caller :
       Carries(c, q) /\ Carries(d, q) /\ c # d => q \in shared
  /\ \A q \in Request \ shared : EndsTruly(q)

\* What c, going on to x, may do to the request it carries ...
Here(c, x) ==
  \A q \in Request \ shared : Carries(c, q) =>
    /\ requests'[q].status \in {"none", "conflict", "rejected"} => ~Applied(q)'
    /\ requests'[q].status = "applied" => Applied(q)'
    /\ \/ x.stage \in {"restore", "verify"} \/ (x.stage = "finish" /\ x.result = "applied")
       => requests'[q].status = "open"
    /\ x.stage = "finish" /\ x.result # "applied" => ~Applied(q)'

\* ... and to all others.
Elsewhere(c, x) ==
  \A q \in Request : ~Carries(c, q) =>
    /\ requests'[q] = requests[q] /\ (Applied(q)' <=> Applied(q))
    /\ x.stage # "idle" /\ x.key = q =>
         /\ x.stage \in {"register", "refuse"}
         /\ q \in shared' \/ \A d \in Caller : ~Carries(d, q)

\* A caller goes on to x, everyone else stays.
LEMMA AloneStep ==
  ASSUME AloneInv, CallInv, NEW c \in Caller, NEW x, calls' = [calls EXCEPT ![c] = x],
         shared \subseteq shared', Here(c, x), Elsewhere(c, x)
  PROVE  AloneInv'
  <1>1. calls'[c] = x /\ \A d \in Caller : d # c => calls'[d] = calls[d]
    BY DEF CallInv
  <1>2. ASSUME NEW q \in Request, NEW d \in Caller, d # c, Carries(c, q)', Carries(d, q)'
        PROVE  q \in shared'
    BY <1>1, <1>2 DEF Carries, Elsewhere, AloneInv
  <1>3. ASSUME NEW q \in Request, NEW d \in Caller, NEW e \in Caller, d # e,
               Carries(d, q)', Carries(e, q)'
        PROVE  q \in shared'
    <2>1. CASE d = c \/ e = c
      BY <1>2, <1>3, <2>1
    <2>2. CASE d # c /\ e # c
      BY <1>1, <1>3, <2>2 DEF Carries, AloneInv
    <2> QED BY <2>1, <2>2
  <1>4. ASSUME NEW q \in Request \ shared'
        PROVE  EndsTruly(q)'
    <2>0. q \in Request \ shared /\ EndsTruly(q)
      BY <1>4 DEF AloneInv
    <2>1. CASE Carries(c, q)
      <3>1. \A d \in Caller : Carries(d, q)' => d = c
        BY <1>1, <2>0, <2>1 DEF Carries, AloneInv
      <3> QED BY <1>1, <2>0, <2>1, <3>1 DEF Here, EndsTruly, Open
    <2>2. CASE ~Carries(c, q)
      <3>1. requests'[q] = requests[q] /\ (Applied(q)' <=> Applied(q))
        BY <2>0, <2>2 DEF Elsewhere
      <3>2. Carries(c, q)' => x.stage \in {"register", "refuse"}
        BY <1>1, <2>0, <2>2 DEF Elsewhere, Carries
      <3>3. \A d \in Caller : d # c => (Carries(d, q)' <=> Carries(d, q))
        BY <1>1 DEF Carries
      <3> QED BY <1>1, <2>0, <3>1, <3>2, <3>3 DEF EndsTruly, Open
    <2> QED BY <2>1, <2>2
  <1> QED BY <1>3, <1>4 DEF AloneInv

\* What is applied after a transaction: what was before, and its own key.
LEMMA ApplyKeys ==
  ASSUME StoreInv, NEW k \in Key, NEW r \in Run, NEW op \in Op, NEW to \in Cell,
         NEW target \in Nat, Apply(k, r, op, to, target)
  PROVE  \A j : Applied(j)' <=> (Applied(j) \/ j = k)
  <1> DEFINE e == [key |-> k, run |-> r, op |-> op, before |-> cell,
                   after |-> to, target |-> target]
  <1>1. e \in Event /\ e.key = k /\ history' = Append(history, e) /\ history \in Seq(Event)
    BY DEF StoreInv, Event, Apply
  <1> HIDE DEF e
  <1>2. /\ DOMAIN history = 1..Len(history) /\ DOMAIN history' = 1..(Len(history) + 1)
        /\ Len(history) \in Nat
        /\ \A i \in DOMAIN history : i \in DOMAIN history' /\ history'[i] = history[i]
        /\ history'[Len(history) + 1] = e
    BY <1>1, AppendEvent
  <1>3. \A i \in DOMAIN history' : i \in DOMAIN history \/ i = Len(history) + 1
    BY <1>2
  <1>4. Len(history) + 1 \in DOMAIN history'
    BY <1>2
  <1> QED BY <1>1, <1>2, <1>3, <1>4 DEF Applied

\* The transaction of a restore adds its request to what is applied.
LEMMA RestoreKeys ==
  ASSUME CurationInv, NEW c \in Caller, RestoreApplies(c)
  PROVE  \A j : Applied(j)' <=> (Applied(j) \/ j = calls[c].key)
  <1> DEFINE k == calls[c].key
             t == calls[c].target
  <1>1. k \in Key /\ t \in Nat /\ t \in DOMAIN history
    BY DEF RestoreApplies, CurationInv, CallInv, CallRow, Idle, FitsIn
  <1>2. Apply(k, history[t].run, "restore", history[t].before, t)
    BY DEF RestoreApplies
  <1>3. history[t].run \in Run /\ history[t].before \in Cell /\ "restore" \in Op
    BY <1>1, EventAt DEF CurationInv, StoreInv, Op
  <1> HIDE DEF k, t
  <1>4. \A j : Applied(j)' <=> (Applied(j) \/ j = k)
    BY <1>1, <1>2, <1>3, ApplyKeys DEF CurationInv
  <1> QED BY <1>4 DEF k

\* A key that took effect has its receipt.
LEMMA AppliedIsKnown ==
  ASSUME StoreInv, NEW k, Applied(k)
  PROVE  Known(k)
  BY DEF Applied, StoreInv, Recorded

\* The tools touch no request.
LEMMA ToolsAlone ==
  ASSUME CurationInv, AloneInv, NEW c \in Caller,
         \/ \E a \in Action : ToolCall(c, a)
         \/ ToolReplays(c) \/ ToolRunEnded(c) \/ ToolStale(c) \/ ToolApplies(c)
  PROVE  AloneInv'
  <1>1. \A q \in Request : ~Carries(c, q)
    BY CurationAssumption DEF ToolCall, ToolReplays, ToolRunEnded, ToolStale, ToolApplies,
                              Carries, CurationInv, CallInv, FitsIn
  <1>2. UNCHANGED <<requests, shared>>
    BY DEF ToolCall, ToolReplays, ToolRunEnded, ToolStale, ToolApplies
  <1>3. \A q \in Request : Applied(q)' <=> Applied(q)
    <2>1. CASE UNCHANGED history
      BY <2>1 DEF Applied
    <2>2. CASE ToolApplies(c)
      <3> DEFINE a == calls[c].key
      <3>1. a \in Action /\ a \in Key /\ Apply(a, a.run, a.op, a.to, 0)
        BY <2>2 DEF ToolApplies, CurationInv, CallInv, FitsIn, Key
      <3>2. a.run \in Run /\ a.op \in Op /\ a.to \in Cell
        BY <3>1, CurationAssumption DEF Op, Cell
      <3> HIDE DEF a
      <3>3. \A j : Applied(j)' <=> (Applied(j) \/ j = a)
        BY <3>1, <3>2, ApplyKeys DEF CurationInv
      <3> QED BY <3>1, <3>3, CurationAssumption
    <2> QED BY <2>1, <2>2 DEF ToolCall, ToolReplays, ToolRunEnded, ToolStale
  <1>4. ASSUME NEW x, calls' = [calls EXCEPT ![c] = x],
               x = Idle \/ \E a \in Action : x.key = a
        PROVE  AloneInv'
    <2>1. Here(c, x)
      BY <1>1 DEF Here
    <2>2. Elsewhere(c, x)
      BY <1>2, <1>3, <1>4, CurationAssumption DEF Elsewhere, Idle
    <2> QED BY <1>2, <1>4, <2>1, <2>2, AloneStep DEF CurationInv
  <1>5. CASE \E a \in Action : ToolCall(c, a)
    <2>1. PICK a \in Action : ToolCall(c, a)
      BY <1>5
    <2> DEFINE x == Call("exec", a, 0, cell, "none")
    <2>2. calls' = [calls EXCEPT ![c] = x] /\ x.key = a
      BY <2>1 DEF ToolCall, Call
    <2> HIDE DEF x
    <2> QED BY <2>2, <1>4
  <1> QED BY <1>4, <1>5 DEF ToolReplays, ToolRunEnded, ToolStale, ToolApplies, Return

\* Who takes up a request that somebody carries makes it shared.
LEMMA RequestAlone ==
  ASSUME CurationInv, AloneInv, NEW c \in Caller, NEW q \in Request, NEW i \in DOMAIN history,
         NEW seen \in Value, RequestRestore(c, q, i, seen)
  PROVE  AloneInv'
  <1>1. PICK denied \in BOOLEAN : calls' = [calls EXCEPT ![c] =
          Call(IF Analysis(i, seen, denied) = "none" THEN "register" ELSE "refuse",
               q, i, seen, Analysis(i, seen, denied))]
    BY DEF RequestRestore
  <1> DEFINE x == Call(IF Analysis(i, seen, denied) = "none" THEN "register" ELSE "refuse",
                       q, i, seen, Analysis(i, seen, denied))
  <1>2. calls' = [calls EXCEPT ![c] = x] /\ x.key = q /\ x.stage \in {"register", "refuse"}
    BY <1>1 DEF Call
  <1> HIDE DEF x
  <1>3. /\ \A j \in Request : ~Carries(c, j)
        /\ UNCHANGED <<requests, history>>
        /\ shared \subseteq shared'
        /\ q \in shared' \/ \A d \in Caller : ~Carries(d, q)
    BY DEF RequestRestore, Carries
  <1>4. Here(c, x)
    BY <1>3 DEF Here
  <1>5. Elsewhere(c, x)
    BY <1>2, <1>3 DEF Elsewhere, Applied
  <1> QED BY <1>2, <1>3, <1>4, <1>5, AloneStep DEF CurationInv

\* A caller goes on with its request, or gives it up.
LEMMA CarryAlone ==
  ASSUME CurationInv, AloneInv, NEW c \in Caller,
         \/ RefuseRestore(c) \/ RegisterRestore(c) \/ RestoreReplays(c) \/ RestoreStale(c)
         \/ RestoreApplies(c) \/ RestoreVerifies(c) \/ FinishRestore(c) \/ CallerFails(c)
  PROVE  AloneInv'
  <1>0. /\ calls[c].stage # "idle" /\ calls[c] \in CallRow /\ calls[c].key \in Key
        /\ \A q : Carries(c, q) <=> q = calls[c].key
    BY DEF RefuseRestore, RegisterRestore, RestoreReplays, RestoreStale, RestoreApplies,
           RestoreVerifies, FinishRestore, CallerFails, Carries, CurationInv, CallInv, CallRow, Idle
  <1>1. PICK k \in Key : k = calls[c].key
    BY <1>0
  <1>2. UNCHANGED shared
    BY DEF RefuseRestore, RegisterRestore, RestoreReplays, RestoreStale, RestoreApplies,
           RestoreVerifies, FinishRestore, CallerFails
  <1>3. \A q \in Request : q # k => requests'[q] = requests[q]
    BY <1>1 DEF RefuseRestore, RegisterRestore, Register, RestoreReplays, RestoreStale, RestoreApplies,
           RestoreVerifies, FinishRestore, CallerFails, CurationInv
  <1>4. \A q : q # k => (Applied(q)' <=> Applied(q))
    <2>1. CASE UNCHANGED history
      BY <2>1 DEF Applied
    <2>2. CASE RestoreApplies(c)
      BY <1>0, <1>1, <2>2, RestoreKeys
    <2> QED BY <2>1, <2>2 DEF RefuseRestore, RegisterRestore, RestoreReplays, RestoreStale,
                              RestoreVerifies, FinishRestore, CallerFails
  <1>5. k \in Request \ shared => EndsTruly(k)
    BY DEF AloneInv
  <1>6. ASSUME NEW x, calls' = [calls EXCEPT ![c] = x], x = Idle \/ x.key = k, Here(c, x)
        PROVE  AloneInv'
    <2>1. Elsewhere(c, x)
      BY <1>0, <1>1, <1>3, <1>4, <1>6 DEF Elsewhere, Idle
    <2> QED BY <1>2, <1>6, <2>1, AloneStep DEF CurationInv
  <1>7. ASSUME Return(c), k \in Request \ shared =>
                 /\ requests'[k].status \in {"none", "conflict", "rejected"} => ~Applied(k)'
                 /\ requests'[k].status = "applied" => Applied(k)'
        PROVE  AloneInv'
    <2>1. Here(c, Idle)
      BY <1>0, <1>1, <1>7 DEF Here, Idle
    <2> QED BY <1>6, <1>7, <2>1 DEF Return
  <1>8. ASSUME NEW stage, NEW result, Goto(c, stage, result), k \in Request \ shared =>
                 /\ requests'[k].status = "open"
                    \/ (stage = "finish" /\ result # "applied" /\ requests'[k].status # "applied")
                 /\ stage = "finish" /\ result # "applied" => ~Applied(k)'
        PROVE  AloneInv'
    <2> DEFINE x == [calls[c] EXCEPT !.stage = stage, !.result = result]
    <2>1. /\ calls' = [calls EXCEPT ![c] = x]
          /\ x.stage = stage /\ x.result = result /\ x.key = k
      BY <1>0, <1>1, <1>8 DEF Goto, CallRow
    <2> HIDE DEF x
    <2>2. Here(c, x)
      BY <1>0, <1>1, <1>8, <2>1 DEF Here
    <2> QED BY <1>6, <2>1, <2>2
  <1>9. CASE RefuseRestore(c)
    <2>1. UNCHANGED history /\ calls[c].stage = "refuse" /\ calls[c].result # "applied"
      BY <1>9 DEF RefuseRestore, CurationInv, CallInv, FitsIn
    <2>2. Applied(k)' <=> Applied(k)
      BY <2>1 DEF Applied
    <2>3. CASE Return(c) /\ UNCHANGED requests
      BY <1>5, <1>7, <2>2, <2>3 DEF EndsTruly
    <2>4. CASE /\ requests[k].status \in {"conflict", "rejected"}
               /\ Goto(c, "finish", calls[c].result) /\ UNCHANGED requests
      BY <1>5, <1>8, <2>1, <2>2, <2>4 DEF EndsTruly
    <2>5. CASE requests[k].status = "none" /\ Register(c) /\ Goto(c, "finish", calls[c].result)
      <3>1. k \in Request => requests'[k].status = "open"
        BY <1>0, <1>1, <2>5 DEF Register, CurationInv, NoRequest
      <3> QED BY <1>5, <1>8, <2>1, <2>2, <2>5, <3>1 DEF EndsTruly
    <2> QED BY <1>0, <1>1, <1>9, <2>3, <2>4, <2>5 DEF RefuseRestore
  <1>10. CASE RegisterRestore(c)
    <2>1. UNCHANGED history
      BY <1>10 DEF RegisterRestore
    <2>2. Applied(k)' <=> Applied(k)
      BY <2>1 DEF Applied
    <2>3. CASE Return(c) /\ UNCHANGED requests
      BY <1>5, <1>7, <2>2, <2>3 DEF EndsTruly
    <2>4. CASE requests[k].status = "open" /\ Goto(c, "restore", "none") /\ UNCHANGED requests
      BY <1>8, <2>4
    <2>5. CASE requests[k].status = "none" /\ Register(c) /\ Goto(c, "restore", "none")
      <3>1. k \in Request => requests'[k].status = "open"
        BY <1>0, <1>1, <2>5 DEF Register, CurationInv, NoRequest
      <3> QED BY <1>8, <2>5, <3>1
    <2> QED BY <1>0, <1>1, <1>10, <2>3, <2>4, <2>5 DEF RegisterRestore
  <1>11. CASE RestoreReplays(c) \/ RestoreApplies(c) \/ RestoreVerifies(c)
    <2>1. /\ calls[c].stage \in {"restore", "verify"} /\ UNCHANGED requests
          /\ Goto(c, "verify", "none") \/ Goto(c, "finish", "applied")
      BY <1>11 DEF RestoreReplays, RestoreApplies, RestoreVerifies
    <2>2. k \in Request \ shared => requests'[k].status = "open"
      BY <1>0, <1>1, <1>5, <2>1 DEF EndsTruly, Open
    <2> QED BY <1>8, <2>1, <2>2
  <1>12. CASE RestoreStale(c)
    <2>1. /\ calls[c].stage = "restore" /\ UNCHANGED <<requests, history>> /\ ~Known(k)
          /\ Goto(c, "finish", "conflict")
      BY <1>0, <1>1, <1>12 DEF RestoreStale
    <2>2. k \in Request \ shared => requests'[k].status = "open"
      BY <1>0, <1>1, <1>5, <2>1 DEF EndsTruly, Open
    <2>3. ~Applied(k)'
      BY <2>1, AppliedIsKnown DEF Applied, CurationInv
    <2> QED BY <1>8, <2>1, <2>2, <2>3
  <1>13. CASE FinishRestore(c)
    <2>1. calls[c].stage = "finish" /\ Return(c) /\ UNCHANGED history
      BY <1>13 DEF FinishRestore
    <2>2. Applied(k)' <=> Applied(k)
      BY <2>1 DEF Applied
    <2>3. CASE UNCHANGED requests
      BY <1>5, <1>7, <2>1, <2>2, <2>3 DEF EndsTruly
    <2>4. CASE requests' = [requests EXCEPT ![k].status = calls[c].result]
      <3>1. k \in Request => requests'[k].status = calls[c].result
        BY <2>4 DEF CurationInv, RequestRow
      <3>2. calls[c].result = "applied" => Applied(k)
        BY <1>0, <1>1, <2>1 DEF CurationInv, CallInv, FitsIn, Applied
      <3>3. k \in Request \ shared => (calls[c].result # "applied" => ~Applied(k))
        BY <1>0, <1>1, <1>5, <2>1 DEF EndsTruly
      <3> QED BY <1>7, <2>1, <2>2, <3>1, <3>2, <3>3
    <2> QED BY <1>0, <1>1, <1>13, <2>3, <2>4 DEF FinishRestore
  <1>14. CASE CallerFails(c)
    <2>1. Return(c) /\ UNCHANGED <<requests, history>>
      BY <1>14 DEF CallerFails
    <2>2. Applied(k)' <=> Applied(k)
      BY <2>1 DEF Applied
    <2> QED BY <1>5, <1>7, <2>1, <2>2 DEF EndsTruly
  <1> QED BY <1>9, <1>10, <1>11, <1>12, <1>13, <1>14

\* Handlers, passes and other writers have no part in requests.
LEMMA RestAlone ==
  ASSUME AloneInv, UNCHANGED <<calls, requests, history, shared>>
  PROVE  AloneInv'
  BY DEF AloneInv, EndsTruly, Carries, Applied, Open

\* Every step keeps the invariant of the requests.
LEMMA AloneNextInv == CurationInv /\ AloneInv /\ [Next]_vars => AloneInv'
  <1> SUFFICES ASSUME CurationInv, AloneInv, [Next]_vars PROVE AloneInv'
    OBVIOUS
  <1>1. CASE \E r \in Run :
               CreateRun(r) \/ PrepareRun(r) \/ HandlerEnds(r) \/ HandlerDies(r)
    BY <1>1, RestAlone DEF CreateRun, PrepareRun, HandlerEnds, HandlerDies
  <1>2. CASE \E c \in Caller :
               \/ \E a \in Action : ToolCall(c, a)
               \/ ToolReplays(c) \/ ToolRunEnded(c) \/ ToolStale(c) \/ ToolApplies(c)
    BY <1>2, ToolsAlone
  <1>3. CASE \E c \in Caller : \E q \in Request, i \in DOMAIN history, seen \in Value :
               RequestRestore(c, q, i, seen)
    BY <1>3, RequestAlone
  <1>4. CASE \E c \in Caller :
               \/ RefuseRestore(c) \/ RegisterRestore(c) \/ RestoreReplays(c)
               \/ RestoreStale(c) \/ RestoreApplies(c) \/ RestoreVerifies(c)
               \/ FinishRestore(c) \/ CallerFails(c)
    BY <1>4, CarryAlone
  <1>5. CASE \E p \in Passer :
               \/ \E r \in Run : PassTakes(p, r)
               \/ PassLists(p) \/ PassLooks(p) \/ PassSettles(p)
               \/ PassReadsTask(p) \/ PassEndsRun(p) \/ PassGivesUp(p)
    BY <1>5, RestAlone DEF PassTakes, PassLists, PassLooks, PassSettles, PassReadsTask,
                           PassEndsRun, PassGivesUp
  <1>6. CASE OtherWrites \/ UNCHANGED vars
    BY <1>6, RestAlone DEF OtherWrites, vars
  <1> QED BY <1>1, <1>2, <1>3, <1>4, <1>5, <1>6, Zenon DEF Next

\* Answers are true: whoever is refused for a stale token or an ended run has
\* changed nothing, what is recorded as applied was applied, and a request that
\* no two callers ever carried at the same time ends as applied exactly if it was
\* (execute_action, terminalize_restore_request).
THEOREM AnswersStayTrue == Spec => AnswersAreTrue
  <1> DEFINE True(c) ==
        LET q == calls[c].key
        IN  /\ ToolStale(c) \/ ToolRunEnded(c) \/ RestoreStale(c) => ~Applied(q)
            /\ FinishRestore(c) =>
                 /\ requests' # requests /\ calls[c].result = "applied" => Applied(q)
                 /\ q \notin shared => (requests'[q].status = "applied" <=> Applied(q))
  <1>1. CurationInv /\ AloneInv => \A c \in Caller : True(c)
    <2> SUFFICES ASSUME CurationInv, AloneInv, NEW c \in Caller PROVE True(c)
      OBVIOUS
    <2> DEFINE q == calls[c].key
    <2>1. Applied(q) => Known(q)
      BY AppliedIsKnown DEF CurationInv
    <2>2. ToolStale(c) \/ ToolRunEnded(c) \/ RestoreStale(c) => ~Known(q)
      BY DEF ToolStale, ToolRunEnded, RestoreStale
    <2>3. FinishRestore(c) /\ calls[c].result = "applied" => Applied(q)
      BY DEF FinishRestore, CurationInv, CallInv, FitsIn, Applied
    <2>4. ASSUME FinishRestore(c), q \notin shared
          PROVE  requests'[q].status = "applied" <=> Applied(q)
      <3>1. q \in Request
        BY <2>4 DEF FinishRestore, CurationInv, CallInv, FitsIn
      <3>2. EndsTruly(q) /\ Carries(c, q) /\ calls[c].stage = "finish"
        BY <2>4, <3>1 DEF AloneInv, Carries, FinishRestore
      <3>3. requests'[q].status = IF Open(q) THEN calls[c].result ELSE requests[q].status
        BY <2>4, <3>1 DEF FinishRestore, CurationInv, RequestRow
      <3>4. requests[q].status \in {"none", "open", "applied", "conflict", "rejected"}
        BY <3>1 DEF CurationInv, RequestRow
      <3> HIDE DEF q
      <3> QED BY <2>3, <2>4, <3>2, <3>3, <3>4 DEF EndsTruly, Open
    <2> QED BY <2>1, <2>2, <2>3, <2>4
  <1>2. Init => AloneInv
    BY DEF Init, AloneInv, EndsTruly, Carries, Idle, NoRequest, Applied
  <1> QED BY <1>1, <1>2, InitInv, NextInv, AloneNextInv, PTL DEF Spec, AnswersAreTrue

\* How the three tables change in a step.
LEMMA Writes ==
  ASSUME CurationInv, [Next]_vars
  PROVE  /\ \/ UNCHANGED runs
            \/ \E r \in Run : \E from, state, outcome : MoveRun(r, from, state, outcome)
         /\ \/ UNCHANGED receipts
            \/ \E k \in Key : ~Known(k) /\ \E w : receipts' = [receipts EXCEPT ![k] = w]
            \/ \E k, status : SettleReceipt(k, status)
         /\ \/ UNCHANGED requests
            \/ \E c \in Caller : RefuseRestore(c) \/ RegisterRestore(c) \/ FinishRestore(c)
  <1>1. CASE \E r \in Run :
               CreateRun(r) \/ PrepareRun(r) \/ HandlerEnds(r) \/ HandlerDies(r)
    BY <1>1 DEF CreateRun, PrepareRun, HandlerEnds, HandlerDies
  <1>2. CASE \E c \in Caller :
               \/ \E a \in Action : ToolCall(c, a)
               \/ ToolReplays(c) \/ ToolRunEnded(c) \/ ToolStale(c)
               \/ \E q \in Request, i \in DOMAIN history, seen \in Value :
                    RequestRestore(c, q, i, seen)
               \/ RefuseRestore(c) \/ RegisterRestore(c) \/ RestoreReplays(c)
               \/ RestoreStale(c) \/ FinishRestore(c) \/ CallerFails(c)
    BY <1>2 DEF ToolCall, ToolReplays, ToolRunEnded, ToolStale, RequestRestore, RefuseRestore,
                RegisterRestore, RestoreReplays, RestoreStale, FinishRestore, CallerFails
  <1>3. CASE \E c \in Caller : ToolApplies(c) \/ RestoreApplies(c)
    <2>1. PICK c \in Caller : ToolApplies(c) \/ RestoreApplies(c)
      BY <1>3
    <2>2. calls[c].key \in Key /\ ~Known(calls[c].key) /\ UNCHANGED <<runs, requests>>
      BY <2>1 DEF ToolApplies, RestoreApplies, CurationInv, CallInv, CallRow, Idle
    <2>3. \E w : receipts' = [receipts EXCEPT ![calls[c].key] = w]
      BY <2>1 DEF ToolApplies, RestoreApplies, Apply
    <2> QED BY <2>2, <2>3
  <1>4. CASE \E c \in Caller : RestoreVerifies(c)
    BY <1>4 DEF RestoreVerifies
  <1>5. CASE \E p \in Passer :
               \/ \E r \in Run : PassTakes(p, r)
               \/ PassLists(p) \/ PassLooks(p) \/ PassReadsTask(p) \/ PassGivesUp(p)
    BY <1>5 DEF PassTakes, PassLists, PassLooks, PassReadsTask, PassGivesUp
  <1>6. CASE \E p \in Passer : PassSettles(p)
    BY <1>6 DEF PassSettles
  <1>7. CASE \E p \in Passer : PassEndsRun(p)
    <2>1. PICK p \in Passer : PassEndsRun(p)
      BY <1>7
    <2>2. pass[p].run \in Run
      BY <2>1 DEF PassEndsRun, CurationInv, PassInv, PassRow
    <2> QED BY <2>1, <2>2 DEF PassEndsRun
  <1>8. CASE OtherWrites \/ UNCHANGED vars
    BY <1>8 DEF OtherWrites, vars
  <1> QED BY <1>1, <1>2, <1>3, <1>4, <1>5, <1>6, <1>7, <1>8, Zenon DEF Next

\* The first terminal result of a run, a receipt and a request stays, whoever
\* comes later with another one (terminalize_run, transition_receipt,
\* terminalize_restore_request).
THEOREM FirstResultsStay == Spec => FirstResultStays
  <1> DEFINE RunsStay == \A r \in Run : runs[r].state = "terminal" => runs'[r] = runs[r]
             ReceiptsStay == \A k \in Key : Known(k) /\ receipts[k].status # "unverified" =>
                               receipts'[k] = receipts[k]
             RequestsStay == \A q \in Request : requests[q].status \notin {"none", "open"} =>
                               requests'[q] = requests[q]
  <1>1. CurationInv /\ [Next]_vars => RunsStay /\ ReceiptsStay /\ RequestsStay
    <2> SUFFICES ASSUME CurationInv, [Next]_vars PROVE RunsStay /\ ReceiptsStay /\ RequestsStay
      OBVIOUS
    <2>1. RunsStay
      BY Writes DEF MoveRun, CurationInv, PassInv
    <2>2. ReceiptsStay
      <3> SUFFICES ASSUME NEW k \in Key, receipts[k] # NoReceipt, receipts[k].status # "unverified"
                   PROVE  receipts'[k] = receipts[k]
        BY DEF Known
      <3>1. CASE UNCHANGED receipts
        BY <3>1
      <3>2. CASE \E j \in Key : ~Known(j) /\ \E w : receipts' = [receipts EXCEPT ![j] = w]
        BY <3>2 DEF Known, CurationInv, StoreInv
      <3>3. CASE \E j, status : SettleReceipt(j, status)
        BY <3>3 DEF SettleReceipt, CurationInv, StoreInv
      <3> QED BY <3>1, <3>2, <3>3, Writes
    <2>3. RequestsStay
      <3> SUFFICES ASSUME NEW q \in Request, requests[q].status \notin {"none", "open"}
                   PROVE  requests'[q] = requests[q]
        OBVIOUS
      <3>1. CASE UNCHANGED requests
        BY <3>1
      <3>2. ASSUME NEW c \in Caller,
                   RefuseRestore(c) \/ RegisterRestore(c) \/ FinishRestore(c)
            PROVE  requests'[q] = requests[q]
        BY <3>2 DEF RefuseRestore, RegisterRestore, Register, FinishRestore, Open, CurationInv
      <3> QED BY <3>1, <3>2, Writes
    <2> QED BY <2>1, <2>2, <2>3
  <1> QED BY <1>1, InitInv, NextInv, PTL DEF Spec, FirstResultStays
=============================================================================
