--------------------------- MODULE TaskContract ----------------------------
(***************************************************************************)
(* What a task queue promises its workers, whichever database keeps it: a  *)
(* task is granted to one attempt at a time, the maintenance tasks to one  *)
(* attempt altogether; an attempt ends once, in the history; a failure     *)
(* counts against the retry budget, and a task that is closed stays closed.*)
(* TaskQueue (SQLite) and PostgresQueue are shown to implement it.         *)
(***************************************************************************)
EXTENDS Integers, Sequences

CONSTANTS
  Task,         \* the tasks that may be submitted
  Cleanup,      \* the ones that share the maintenance lane
  MaxRetries    \* failures after which a task is closed

VARIABLES
  phase,        \* of each task: absent, waiting, held by an attempt, closed
  attempt,      \* how often each task has been granted
  failures,     \* how many of its attempts counted as failed
  history       \* the attempts that ended, in order; 0 for a withdrawal

contractVars == <<phase, attempt, failures, history>>

Init == /\ phase = [t \in Task |-> "absent"]
        /\ attempt = [t \in Task |-> 0]
        /\ failures = [t \in Task |-> 0]
        /\ history = [t \in Task |-> <<>>]

----------------------------------------------------------------------------
Submit(t) ==
  /\ phase[t] = "absent"
  /\ phase' = [phase EXCEPT ![t] = "waiting"]
  /\ UNCHANGED <<attempt, failures, history>>

LaneOpen(t) == t \in Cleanup => \A u \in Cleanup : phase[u] # "held"

Grant(t) ==
  /\ phase[t] = "waiting" /\ LaneOpen(t)
  /\ phase' = [phase EXCEPT ![t] = "held"]
  /\ attempt' = [attempt EXCEPT ![t] = @ + 1]
  /\ UNCHANGED <<failures, history>>

\* The attempt that holds t ends: t goes to phase p with f failures.
End(t, p, f) ==
  /\ phase[t] = "held"
  /\ phase' = [phase EXCEPT ![t] = p]
  /\ failures' = [failures EXCEPT ![t] = f]
  /\ history' = [history EXCEPT ![t] = Append(@, attempt[t])]
  /\ UNCHANGED attempt

\* The attempt failed and the task is tried again while the budget lasts.
Fail(t) ==
  End(t, IF failures[t] + 1 >= MaxRetries THEN "closed" ELSE "waiting", failures[t] + 1)

\* The attempt gives the task back without counting as a failure.
Yield(t) == End(t, "waiting", failures[t])

\* The attempt is the last: done, cancelled, or failed for good.
Finish(t) == \E f \in {failures[t], MaxRetries} : End(t, "closed", f)

\* A task that nobody holds is cancelled.
Withdraw(t) ==
  /\ phase[t] = "waiting"
  /\ phase' = [phase EXCEPT ![t] = "closed"]
  /\ history' = [history EXCEPT ![t] = Append(@, 0)]
  /\ UNCHANGED <<attempt, failures>>

Next == \E t \in Task :
  Submit(t) \/ Grant(t) \/ Fail(t) \/ Yield(t) \/ Finish(t) \/ Withdraw(t)

Spec == Init /\ [][Next]_contractVars
============================================================================
