--------------------------- MODULE MCTaskWorker ---------------------------
EXTENDS TaskWorker, TLC

CONSTANTS t1, d1, d2

OneDaemon == {d1}
TwoDaemons == {d1, d2}
OneTask == {t1}

None == {}
One == {1}

Events(crash, stop, cancel, spawn, pause, missing, fault) ==
  [crash |-> crash, stop |-> stop, cancel |-> cancel, spawn |-> spawn,
   pause |-> pause, missing |-> missing, fault |-> fault]

LiveBound == Events(1, 1, 1, 1, 1, 1, 0)
SharedBound == Events(0, 0, 1, 0, 0, 0, 1)
DaemonSymmetry == Permutations({d1, d2})
===========================================================================
