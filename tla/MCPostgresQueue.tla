-------------------------- MODULE MCPostgresQueue --------------------------
(* Two maintenance tasks, which compete for the lane, and sessions that     *)
(* overlap in every way.                                                    *)
EXTENDS PostgresQueue, TLC
CONSTANTS sweeper, curator, s1, s2

MCTask == {sweeper, curator}
MCSession == {s1, s2}
Perms == Permutations(MCTask) \cup Permutations(MCSession)
============================================================================
