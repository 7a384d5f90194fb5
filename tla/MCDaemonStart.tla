--------------------------- MODULE MCDaemonStart ---------------------------
(* Two callers and three process ids: a daemon that leaves, one that takes *)
(* its place and one that is started beside them.  The constants are given *)
(* in the configuration.                                                   *)
EXTENDS DaemonStart
============================================================================
