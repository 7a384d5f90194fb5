---------------------------- MODULE MCTaskQueue ----------------------------
(* The task queue with two maintenance tasks, which compete for the lane.   *)
EXTENDS TaskQueue
CONSTANTS sweeper, curator

MCTask == {sweeper, curator}
MCPriority == {1, 2}
============================================================================
