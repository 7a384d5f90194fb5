---------------------------- MODULE MCReadCache ----------------------------
(* Two callers, and in-flight states for both and for one that was lost.    *)
EXTENDS ReadCache, TLC

Perms == Permutations(Flight)
============================================================================
