----------------------------- MODULE MCCuration -----------------------------
(* One run with one tool call on one record, called twice.                  *)
EXTENDS Curation, TLC

MCAction == {[run |-> 1, op |-> "normalize", to |-> 1]}

\* Callers and idempotency keys are interchangeable.
Perms == Permutations(Caller) \cup Permutations(Request)
=============================================================================
