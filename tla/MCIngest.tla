------------------------------ MODULE MCIngest ------------------------------
(* Bounded instances of Ingest. *)
EXTENDS Ingest, TLC

\* The environment may crash, overtake and fail this often.
Storm == [crash |-> 1, late |-> 1, fault |-> 1]

\* Tasks, daemons and landings are interchangeable.
Perms == Permutations(Task) \cup Permutations(Sweeper) \cup Permutations(Landing)
=============================================================================
