------------------------- MODULE DaemonStartProofs -------------------------
(***************************************************************************)
(* The runtime of a state directory is exclusive and its registration is   *)
(* true, whatever callers do to the lock file: both rest on the runtime    *)
(* lock alone, which a daemon holds from before it opens anything until    *)
(* after it has removed its registration.                                  *)
(***************************************************************************)
EXTENDS DaemonStart, TLAPS

\* Where a daemon holds the runtime lock.
Held == {"opening", "bound", "publishing", "ready", "closing", "removing", "leaving"}

Types ==
  /\ proc \in [Proc -> Daemon]
  /\ owner \in Proc \cup {None}
  /\ metadata \in Proc \cup {None, Torn}
  /\ socket \in Proc \cup {None}

\* The lock has the daemons at these points for its owner, and nobody else.
Holding == \A p \in Proc : (proc[p].at \in Held) <=> (owner = p)

\* A process is registered or bound only once it has held the lock.
Begun ==
  /\ metadata \in Proc => proc[metadata].at # "starting"
  /\ socket \in Proc => proc[socket].at # "starting"

Removing == \A p \in Proc : proc[p].at = "removing" => metadata \in {None, Torn, p}

DaemonInv == Types /\ Holding /\ Begun /\ Removing

----------------------------------------------------------------------------
\* The first states satisfy the invariant: no process runs, no file is there.
LEMMA InitDaemon == Init => DaemonInv
  BY DaemonAssumption
     DEF Init, DaemonInv, Types, Holding, Begun, Removing, Held, Dead, Daemon

\* A step that leaves processes, runtime lock and both files alone keeps it.
LEMMA QuietKeeps ==
  ASSUME DaemonInv, UNCHANGED <<proc, owner, metadata, socket>>
  PROVE  DaemonInv'
  BY DEF DaemonInv, Types, Holding, Begun, Removing

\* So does one that sends signals: at is what counts.
LEMMA SignalKeeps ==
  ASSUME DaemonInv, NEW p,
         proc' = [proc EXCEPT ![p].term = TRUE], UNCHANGED <<owner, metadata, socket>>
  PROVE  DaemonInv'
<1>1. Types'
  BY DEF DaemonInv, Types, Daemon
<1>2. \A q \in Proc : proc'[q].at = proc[q].at
  BY DEF DaemonInv, Types, Daemon
<1> QED
  BY <1>1, <1>2 DEF DaemonInv, Types, Holding, Begun, Removing

\* The death of a process frees the runtime lock and leaves the files.
LEMMA DeathKeeps ==
  ASSUME DaemonInv, NEW p, Dies(p), UNCHANGED <<metadata, socket>>
  PROVE  DaemonInv'
<1>1. Types'
  BY DEF DaemonInv, Types, Daemon, Dies, Dead
<1>2. \A q \in Proc : proc'[q] = IF q = p THEN Dead ELSE proc[q]
  BY DEF DaemonInv, Types, Dies
<1>3. Holding'
  BY <1>2, DaemonAssumption DEF DaemonInv, Types, Holding, Dies, Dead, Held
<1>4. Begun' /\ Removing'
  BY <1>2 DEF DaemonInv, Types, Begun, Removing, Dead
<1> QED
  BY <1>1, <1>3, <1>4 DEF DaemonInv

----------------------------------------------------------------------------
\* Most steps of callers touch neither the processes nor the two files.
LEMMA LookingIsQuiet ==
  ASSUME NEW c \in Client,
         \/ Ensure(c) \/ StartCommand(c) \/ StopCommand(c) \/ ReclaimLock(c)
         \/ AcquireLock(c) \/ LockTimeout(c) \/ ReadMetadata(c)
         \/ FoundHealthy(c) \/ FoundUnhealthy(c) \/ ListOrphans(c) \/ ProbeSocket(c)
         \/ FoundReady(c) \/ FoundExited(c) \/ Deadline(c) \/ CrashClient(c)
  PROVE  UNCHANGED <<proc, owner, metadata, socket>>
<1>1. CASE Ensure(c) \/ StartCommand(c) \/ StopCommand(c) \/ ReclaimLock(c)
  BY <1>1 DEF Ensure, StartCommand, StopCommand, ReclaimLock
<1>2. CASE AcquireLock(c) \/ LockTimeout(c) \/ ReadMetadata(c)
  BY <1>2 DEF AcquireLock, LockTimeout, ReadMetadata
<1>3. CASE FoundHealthy(c) \/ FoundUnhealthy(c) \/ ListOrphans(c) \/ ProbeSocket(c)
  BY <1>3 DEF FoundHealthy, FoundUnhealthy, ListOrphans, ProbeSocket
<1>4. CASE FoundReady(c) \/ FoundExited(c) \/ Deadline(c) \/ CrashClient(c)
  BY <1>4 DEF FoundReady, FoundExited, Deadline, CrashClient
<1> QED
  BY <1>1, <1>2, <1>3, <1>4

\* Removing a file can only take a registration away.
LEMMA RemovalKeeps ==
  ASSUME DaemonInv, NEW c \in Client, UnlinkMetadata(c) \/ RemoveSocket(c)
  PROVE  DaemonInv'
<1>1. CASE UnlinkMetadata(c)
  BY <1>1, DaemonAssumption
     DEF UnlinkMetadata, DaemonInv, Types, Holding, Begun, Removing
<1>2. CASE RemoveSocket(c)
  BY <1>2, DaemonAssumption
     DEF RemoveSocket, DaemonInv, Types, Holding, Begun, Removing
<1> QED
  BY <1>1, <1>2

\* A process id is used again only when no file mentions it.
LEMMA SpawnKeeps ==
  ASSUME DaemonInv, NEW p \in Proc, NEW b \in BOOLEAN, Fresh(p),
         proc' = [proc EXCEPT ![p] = [at |-> "starting", spawned |-> b, term |-> FALSE]],
         UNCHANGED <<owner, metadata, socket>>
  PROVE  DaemonInv'
<1>1. Types'
  BY DEF DaemonInv, Types, Daemon
<1>2. /\ proc'[p].at = "starting"
      /\ \A q \in Proc \ {p} : proc'[q] = proc[q]
  BY DEF DaemonInv, Types
<1>3. owner # p
  BY DEF Fresh, Alive, DaemonInv, Holding, Held
<1>4. Holding'
  BY <1>2, <1>3 DEF DaemonInv, Holding, Held
<1>5. Begun' /\ Removing'
  BY <1>2 DEF Fresh, DaemonInv, Types, Begun, Removing
<1> QED
  BY <1>1, <1>4, <1>5 DEF DaemonInv

\* What callers do to processes: end them and start them.
LEMMA CallerKeeps ==
  ASSUME DaemonInv, NEW c \in Client, Terminate(c) \/ AwaitExit(c) \/ Cleaned(c)
  PROVE  DaemonInv'
<1>1. CASE Terminate(c)
  <2>1. UNCHANGED <<owner, metadata, socket>>
    BY <1>1 DEF Terminate
  <2>2. CASE UNCHANGED proc
    BY <2>1, <2>2, QuietKeeps
  <2>3. CASE \E p \in client[c].victims : proc' = [proc EXCEPT ![p].term = TRUE]
    BY <2>1, <2>3, SignalKeeps
  <2> QED
    BY <1>1, <2>2, <2>3 DEF Terminate
<1>2. CASE AwaitExit(c)
  BY <1>2, DeathKeeps DEF AwaitExit
<1>3. CASE Cleaned(c)
  <2>1. UNCHANGED <<owner, metadata, socket>>
    BY <1>3 DEF Cleaned
  <2>2. CASE UNCHANGED proc
    BY <2>1, <2>2, QuietKeeps
  <2>3. CASE \E p \in Proc, b \in BOOLEAN :
               /\ Fresh(p)
               /\ proc' = [proc EXCEPT ![p] = [at |-> "starting", spawned |-> b, term |-> FALSE]]
    BY <2>1, <2>3, SpawnKeeps
  <2> QED
    BY <1>3, <2>2, <2>3 DEF Cleaned
<1> QED
  BY <1>1, <1>2, <1>3

----------------------------------------------------------------------------
\* A daemon that moves on while it holds the lock: it may register itself, bind
\* its socket and take either away, and it removes only what is not another's.
LEMMA HolderKeeps ==
  ASSUME DaemonInv, NEW p \in Proc, NEW at \in Held,
         proc[p].at \in Held, Goes(p, at), UNCHANGED owner,
         metadata' \in {metadata, None, Torn, p}, socket' \in {socket, None, p},
         at = "removing" => metadata' \in {None, Torn, p}
  PROVE  DaemonInv'
<1>1. Types'
  <2>1. proc' \in [Proc -> Daemon]
    BY DEF Goes, DaemonInv, Types, Daemon, Held
  <2> QED
    BY <2>1 DEF DaemonInv, Types
<1>2. /\ proc'[p].at = at
      /\ \A q \in Proc \ {p} : proc'[q] = proc[q]
  BY DEF Goes, DaemonInv, Types, Daemon
<1>3. owner = p
  BY DEF DaemonInv, Holding
<1>4. Holding'
  BY <1>2, <1>3 DEF DaemonInv, Holding
<1>5. Begun'
  BY <1>2, DaemonAssumption DEF DaemonInv, Types, Begun, Held
<1>6. Removing'
  <2> SUFFICES ASSUME NEW q \in Proc, proc'[q].at = "removing"
               PROVE  metadata' \in {None, Torn, q}
    BY DEF Removing
  <2>1. q = p
    BY <1>2, <1>3 DEF DaemonInv, Holding, Held
  <2> QED
    BY <1>2, <2>1
<1> QED
  BY <1>1, <1>4, <1>5, <1>6 DEF DaemonInv

\* The start of a daemon: it takes the lock, or finds it taken and ends.
LEMMA AcquireRuntimeKeeps ==
  ASSUME DaemonInv, NEW p \in Proc, AcquireRuntime(p)
  PROVE  DaemonInv'
<1>1. CASE owner = None
  <2>1. /\ Goes(p, "opening") /\ owner' = p
        /\ UNCHANGED <<metadata, socket>>
    BY <1>1 DEF AcquireRuntime
  <2>2. Types'
    BY <2>1 DEF Goes, DaemonInv, Types, Daemon
  <2>3. /\ proc'[p].at = "opening"
        /\ \A q \in Proc \ {p} : proc'[q] = proc[q]
    BY <2>1 DEF Goes, DaemonInv, Types, Daemon
  <2>4. Holding'
    BY <1>1, <2>1, <2>3, DaemonAssumption DEF DaemonInv, Holding, Held
  <2>5. Begun' /\ Removing'
    BY <2>1, <2>3 DEF DaemonInv, Types, Begun, Removing
  <2> QED
    BY <2>2, <2>4, <2>5 DEF DaemonInv
<1>2. CASE owner # None
  BY <1>2, DeathKeeps DEF AcquireRuntime
<1> QED
  BY <1>1, <1>2

\* Every other step of a daemon is one of a holder, or its end.
LEMMA DaemonKeeps ==
  ASSUME DaemonInv, NEW p \in Proc,
         \/ DaemonStep(p) \/ TerminatedEarly(p) \/ StartFails(p) \/ Signal(p) \/ CrashDaemon(p)
  PROVE  DaemonInv'
<1>1. CASE AcquireRuntime(p)
  BY <1>1, AcquireRuntimeKeeps
<1>2. CASE Leave(p) \/ TerminatedEarly(p) \/ CrashDaemon(p)
  BY <1>2, DeathKeeps DEF Leave, TerminatedEarly, CrashDaemon
<1>3. CASE Signal(p)
  BY <1>3, SignalKeeps DEF Signal
<1>4. CASE Bind(p)
  <2>1. \E at \in {"closing", "bound"} : Goes(p, at)
    BY <1>4 DEF Bind
  <2> QED
    BY <1>4, <2>1, HolderKeeps DEF Bind, Held
<1>5. CASE StartFails(p)
  BY <1>5, HolderKeeps DEF StartFails, StopsBound, Held
<1>6. CASE OpenMetadata(p)
  BY <1>6, HolderKeeps DEF OpenMetadata, Held
<1>7. CASE WriteMetadata(p)
  BY <1>7, HolderKeeps DEF WriteMetadata, Held
<1>8. CASE StopTransport(p)
  BY <1>8, HolderKeeps DEF StopTransport, StopsBound, Held
<1>9. CASE CloseRuntime(p)
  <2>1. CASE metadata \in Proc \ {p}
    BY <1>9, <2>1, HolderKeeps DEF CloseRuntime, Held
  <2>2. CASE metadata \notin Proc \ {p}
    BY <1>9, <2>2, HolderKeeps DEF CloseRuntime, Held, DaemonInv, Types
  <2> QED
    BY <2>1, <2>2
<1>10. CASE Unregister(p)
  BY <1>10, HolderKeeps DEF Unregister, Held
<1> QED
  BY <1>1, <1>2, <1>3, <1>4, <1>5, <1>6, <1>7, <1>8, <1>9, <1>10 DEF DaemonStep

----------------------------------------------------------------------------
\* The invariant is inductive.
LEMMA NextDaemon == DaemonInv /\ [Next]_vars => DaemonInv'
<1> SUFFICES ASSUME DaemonInv, [Next]_vars
             PROVE  DaemonInv'
  OBVIOUS
<1>1. CASE \E c \in Client : \/ Ensure(c) \/ StartCommand(c) \/ StopCommand(c)
                             \/ CallerStep(c) \/ CrashClient(c)
  <2> PICK c \in Client : \/ Ensure(c) \/ StartCommand(c) \/ StopCommand(c)
                          \/ CallerStep(c) \/ CrashClient(c)
    BY <1>1
  <2>1. CASE UnlinkMetadata(c) \/ RemoveSocket(c)
    BY <2>1, RemovalKeeps
  <2>2. CASE Terminate(c) \/ AwaitExit(c) \/ Cleaned(c)
    BY <2>2, CallerKeeps
  <2>3. CASE ~(UnlinkMetadata(c) \/ RemoveSocket(c) \/ Terminate(c) \/ AwaitExit(c) \/ Cleaned(c))
    <3>1. UNCHANGED <<proc, owner, metadata, socket>>
      BY <2>3, LookingIsQuiet DEF CallerStep
    <3> QED
      BY <3>1, QuietKeeps
  <2> QED
    BY <2>1, <2>2, <2>3
<1>2. CASE \E p \in Proc : \/ DaemonStep(p) \/ TerminatedEarly(p) \/ StartFails(p)
                           \/ Signal(p) \/ CrashDaemon(p)
  BY <1>2, DaemonKeeps
<1>3. CASE UNCHANGED vars
  BY <1>3, QuietKeeps DEF vars
<1> QED
  BY <1>1, <1>2, <1>3 DEF Next

\* It holds in every reachable state.
LEMMA DaemonInvariant == Spec => []DaemonInv
<1> QED
  BY InitDaemon, NextDaemon, PTL DEF Spec

\* Databases and task worker are open in one daemon at most: acquire of the
\* runtime lock is the first and its release the last thing a daemon does.
THEOREM RuntimeIsExclusive == Spec => []OneRuntime
<1>1. DaemonInv => OneRuntime
  <2> SUFFICES ASSUME DaemonInv, NEW p \in Proc, NEW q \in Proc,
                      proc[p].at \in {"opening", "bound", "publishing", "ready", "closing"},
                      proc[q].at \in {"opening", "bound", "publishing", "ready", "closing"}
               PROVE  p = q
    BY DEF OneRuntime
  <2> QED
    BY DEF DaemonInv, Holding, Held
<1> QED
  BY <1>1, DaemonInvariant, PTL

\* The live process that the metadata or the socket name is the owner of the
\* runtime, and remove_metadata(expected_pid) never takes a successor's away.
THEOREM RegistrationIsTrue == Spec => []RegistrationTrue
<1>1. DaemonInv => RegistrationTrue
  <2> SUFFICES ASSUME DaemonInv PROVE RegistrationTrue
    OBVIOUS
  <2>1. \A p \in Proc : Alive(p) /\ proc[p].at # "starting" => owner = p
    BY DEF DaemonInv, Types, Holding, Held, Alive, Daemon
  <2> QED
    BY <2>1 DEF DaemonInv, Begun, Removing, RegistrationTrue
<1> QED
  BY <1>1, DaemonInvariant, PTL
============================================================================
