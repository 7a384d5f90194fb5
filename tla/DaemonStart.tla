---------------------------- MODULE DaemonStart ----------------------------
(***************************************************************************)
(* How the one daemon of a state directory is started, found and stopped.  *)
(* Clients (MCP proxies, the command line) run ensure_daemon_started,      *)
(* prepare_daemon_start or stop_daemon; they share with the daemon         *)
(* processes a lock file, the metadata file and the socket file.  A step   *)
(* is what one process does to one of these between two things it learns   *)
(* of the others.  Clients and daemons may die at any of them: a flock     *)
(* dies with its holder, the files stay.                                   *)
(***************************************************************************)
EXTENDS Naturals, Sequences

CONSTANTS
  Client,       \* callers
  Proc,         \* process ids of daemons; an id nothing mentions is used again
  None,         \* no process, no caller, no file
  Torn,         \* a metadata file that is opened for writing and still empty
  MaxFaults,    \* bound: crashes, probes that time out, starts that are late
  MaxCommands   \* bound: `daemon start` and `daemon stop` of the command line

ASSUME DaemonAssumption ==
  /\ MaxFaults \in Nat /\ MaxCommands \in Nat
  /\ None \notin Proc \cup Client /\ Torn \notin Proc \cup {None}

VARIABLES
  client,       \* what each caller is doing
  file,         \* how often daemon.lock has been unlinked and created anew
  lock,         \* who holds the flock of each of these files
  proc,         \* the daemon processes
  owner,        \* the daemon that holds the runtime lock
  metadata,     \* the process id in the metadata file
  socket,       \* the process that bound the socket file
  faults,
  commands

vars == <<client, file, lock, proc, owner, metadata, socket, faults, commands>>

\* Where a caller is.  op is the function it runs; seen is the process (in
\* "check": the caller) it has looked at, todo what is left of the clean-up,
\* victims whom that has still to end, spawn the daemon it waits for.
Call == [at      : {"idle", "check", "lock", "read", "health", "work", "wait", "unbind", "await"},
         op      : {"ensure", "start", "stop", "fail"},
         ino     : 0..MaxFaults,
         seen    : Proc \cup Client \cup {None},
         todo    : Seq({"unlink", "orphans", "kill", "socket"}),
         victims : SUBSET Proc,
         spawn   : Proc \cup {None}]

Idle == [at |-> "idle", op |-> "ensure", ino |-> 0, seen |-> None, todo |-> <<>>,
         victims |-> {}, spawn |-> None]

\* A daemon: spawned ones run `python -m mcp_memory.cli daemon`, which is how
\* they are recognised later; the command line's own is not.
Daemon == [at      : {"dead", "starting", "opening", "bound", "publishing", "ready",
                      "closing", "removing", "leaving"},
           spawned : BOOLEAN,
           term    : BOOLEAN]

Dead == [at |-> "dead", spawned |-> FALSE, term |-> FALSE]

Init ==
  /\ client = [c \in Client |-> Idle]
  /\ file = 0
  /\ lock = [i \in 0..MaxFaults |-> None]
  /\ proc = [p \in Proc |-> Dead]
  /\ owner = None
  /\ metadata = None
  /\ socket = None
  /\ faults = 0
  /\ commands = 0

Alive(p) == proc[p].at # "dead"

\* Whoever connects to the socket path gets an answer: a daemon answers once its
\* start has come to the first await after the metadata were written.
Answering == socket \in Proc /\ proc[socket].at = "ready"

\* A step that goes wrong now and then.
Fault == faults < MaxFaults /\ faults' = faults + 1

NoFault == UNCHANGED faults

----------------------------------------------------------------------------
(* Callers *)

Move(c, at) == client' = [client EXCEPT ![c].at = at]

\* lock.release() and the end of the call.
Finish(c) ==
  /\ client' = [client EXCEPT ![c] = Idle]
  /\ lock' = [i \in DOMAIN lock |-> IF lock[i] = c THEN None ELSE lock[i]]

\* ensure_daemon_started: by a proxy when it starts, when a request fails and
\* when its monitor finds the daemon gone.
Ensure(c) ==
  /\ client[c].at = "idle"
  /\ client' = [client EXCEPT ![c].at = "lock", ![c].ino = file]
  /\ UNCHANGED <<file, lock, proc, owner, metadata, socket, faults, commands>>

\* `mcp-memory daemon`: prepare_daemon_start begins with _reclaim_stale_lock,
\* which looks for a process that has the lock file open.
StartCommand(c) ==
  /\ client[c].at = "idle"
  /\ commands < MaxCommands
  /\ commands' = commands + 1
  /\ LET users == {d \in Client : client[d].at \notin {"idle", "check"} /\ client[d].op # "stop"
                                    /\ client[d].ino = file}
     IN  \/ /\ users = {}
            /\ client' = [client EXCEPT ![c].op = "start", ![c].at = "lock", ![c].ino = file]
         \/ \E d \in users :
              client' = [client EXCEPT ![c].op = "start", ![c].at = "check", ![c].seen = d]
  /\ UNCHANGED <<file, lock, proc, owner, metadata, socket, faults>>

\* _reclaim_stale_lock goes on to the process it saw: if it has died since, the
\* file is unlinked, whoever may hold its lock by now.  acquire opens the path.
ReclaimLock(c) ==
  /\ client[c].at = "check"
  /\ file' = IF client[c].seen = None THEN file + 1 ELSE file
  /\ client' = [client EXCEPT ![c].at = "lock", ![c].ino = file', ![c].seen = None]
  /\ UNCHANGED <<lock, proc, owner, metadata, socket, faults, commands>>

AcquireLock(c) ==
  /\ client[c].at = "lock"
  /\ lock[client[c].ino] = None
  /\ lock' = [lock EXCEPT ![client[c].ino] = c]
  /\ Move(c, "read")
  /\ UNCHANGED <<file, proc, owner, metadata, socket, faults, commands>>

\* DaemonLockTimeoutError.
LockTimeout(c) ==
  /\ client[c].at = "lock"
  /\ lock[client[c].ino] # None
  /\ Finish(c)
  /\ UNCHANGED <<file, proc, owner, metadata, socket, faults, commands>>

\* `daemon stop`: without the lock.
StopCommand(c) ==
  /\ client[c].at = "idle"
  /\ commands < MaxCommands
  /\ commands' = commands + 1
  /\ client' = [client EXCEPT ![c].op = "stop", ![c].at = "read"]
  /\ UNCHANGED <<file, lock, proc, owner, metadata, socket, faults>>

Begin(c, todo, victims) ==
  /\ client' = [client EXCEPT ![c].at = "work", ![c].todo = todo, ![c].victims = victims]
  /\ UNCHANGED lock

\* The metadata and whether their process runs decide what is cleaned up, in
\* _reclaim_daemon_slot and in stop_daemon.  An empty file counts as none.
ReadMetadata(c) ==
  LET found == metadata \in Proc
      runs  == found /\ Alive(metadata)
      stop  == client[c].op = "stop"
  IN  /\ client[c].at = "read"
      /\ CASE stop /\ ~found -> Finish(c)
           [] stop /\ found /\ ~runs -> Begin(c, <<"unlink", "socket">>, {})
           [] stop /\ runs -> Begin(c, <<"kill", "socket", "unlink">>, {metadata})
           [] ~stop /\ ~found -> Begin(c, <<"orphans", "socket">>, {})
           [] ~stop /\ found /\ ~runs -> Begin(c, <<"unlink", "orphans", "socket">>, {})
           [] ~stop /\ runs ->
                /\ client' = [client EXCEPT ![c].at = "health", ![c].seen = metadata]
                /\ UNCHANGED lock
      /\ UNCHANGED <<file, proc, owner, metadata, socket, faults, commands>>

\* _confirm_daemon_health: the answer at the socket path counts, whoever gives
\* it; a daemon that answers may still be taken for unhealthy.
FoundHealthy(c) ==
  /\ client[c].at = "health"
  /\ Answering
  /\ Finish(c)
  /\ UNCHANGED <<file, proc, owner, metadata, socket, faults, commands>>

FoundUnhealthy(c) ==
  /\ client[c].at = "health"
  /\ IF Answering THEN Fault ELSE NoFault
  /\ client' = [client EXCEPT ![c].at = "work", ![c].todo = <<"kill", "unlink", "socket">>,
                              ![c].victims = {client[c].seen}, ![c].seen = None]
  /\ UNCHANGED <<file, lock, proc, owner, metadata, socket, commands>>

Proceed(c) == client' = [client EXCEPT ![c].todo = Tail(@)]

Due(c, step) == client[c].at = "work" /\ client[c].todo # <<>> /\ Head(client[c].todo) = step

\* remove_metadata without expected_pid: whatever the file says by now.
UnlinkMetadata(c) ==
  /\ Due(c, "unlink")
  /\ metadata' = None
  /\ Proceed(c)
  /\ UNCHANGED <<file, lock, proc, owner, socket, faults, commands>>

\* Mutant of ListOrphans: only registered daemons are looked for.
ListOrphansNone(c) ==
  /\ Due(c, "orphans")
  /\ Proceed(c)
  /\ UNCHANGED <<file, lock, proc, owner, metadata, socket, faults, commands>>

\* _list_daemon_processes.
ListOrphans(c) ==
  /\ Due(c, "orphans")
  /\ client' = [client EXCEPT ![c].todo = <<"kill">> \o Tail(@),
                              ![c].victims = {p \in Proc : Alive(p) /\ proc[p].spawned}]
  /\ UNCHANGED <<file, lock, proc, owner, metadata, socket, faults, commands>>

\* terminate_process: SIGTERM, and nobody left to end.
Terminate(c) ==
  /\ Due(c, "kill")
  /\ \/ /\ client[c].victims = {}
        /\ Proceed(c)
        /\ UNCHANGED proc
     \/ \E p \in client[c].victims :
          /\ proc' = IF Alive(p) THEN [proc EXCEPT ![p].term = TRUE] ELSE proc
          /\ client' = [client EXCEPT ![c].at = "wait", ![c].seen = p]
  /\ UNCHANGED <<file, lock, owner, metadata, socket, faults, commands>>

Dies(p) ==
  /\ proc' = [proc EXCEPT ![p] = Dead]
  /\ owner' = IF owner = p THEN None ELSE owner

\* The process has gone, or is killed when it takes too long.
AwaitExit(c) ==
  LET p == client[c].seen
  IN  /\ client[c].at = "wait"
      /\ Dies(p)
      /\ client' = [client EXCEPT ![c].at = "work", ![c].seen = None, ![c].victims = @ \ {p}]
      /\ UNCHANGED <<file, lock, metadata, socket, faults, commands>>

\* _cleanup_stale_daemon_socket: a socket that answers is left in place.
ProbeSocket(c) ==
  /\ Due(c, "socket")
  /\ \/ (socket = None \/ Answering) /\ Proceed(c) /\ NoFault
     \/ socket # None /\ ~Answering /\ Move(c, "unbind") /\ NoFault
     \/ Answering /\ Move(c, "unbind") /\ Fault
  /\ UNCHANGED <<file, lock, proc, owner, metadata, socket, commands>>

RemoveSocket(c) ==
  /\ client[c].at = "unbind"
  /\ socket' = None
  /\ client' = [client EXCEPT ![c].at = "work", ![c].todo = Tail(@)]
  /\ UNCHANGED <<file, lock, proc, owner, metadata, faults, commands>>

Fresh(p) ==
  /\ ~Alive(p) /\ metadata # p /\ socket # p
  /\ \A c \in Client : p \notin client[c].victims \cup {client[c].seen, client[c].spawn}

\* The slot is free: a client spawns and waits with the lock held, the command
\* line gives the lock back and goes on as a daemon, stop_daemon is done.
Cleaned(c) ==
  /\ client[c].at = "work" /\ client[c].todo = <<>>
  /\ \/ /\ client[c].op = "ensure"
        /\ \E p \in Proc :
             /\ Fresh(p)
             /\ proc' = [proc EXCEPT ![p] = [at |-> "starting", spawned |-> TRUE, term |-> FALSE]]
             /\ client' = [client EXCEPT ![c].at = "await", ![c].spawn = p]
        /\ UNCHANGED lock
     \/ /\ client[c].op = "start"
        /\ \E p \in Proc :
             /\ Fresh(p)
             /\ proc' = [proc EXCEPT ![p] = [at |-> "starting", spawned |-> FALSE, term |-> FALSE]]
        /\ Finish(c)
     \/ /\ client[c].op \in {"stop", "fail"}
        /\ Finish(c)
        /\ UNCHANGED proc
  /\ UNCHANGED <<file, owner, metadata, socket, faults, commands>>

\* Somebody's metadata are there and the socket answers.
FoundReady(c) ==
  /\ client[c].at = "await"
  /\ metadata \in Proc /\ Answering
  /\ Finish(c)
  /\ UNCHANGED <<file, proc, owner, metadata, socket, faults, commands>>

\* _spawned_daemon_exited_before_readiness.
FoundExited(c) ==
  /\ client[c].at = "await"
  /\ ~Alive(client[c].spawn)
  /\ metadata \in {None, Torn, client[c].spawn}
  /\ Finish(c)
  /\ UNCHANGED <<file, proc, owner, metadata, socket, faults, commands>>

\* Mutant of Deadline: the wait goes on as long as the spawned daemon lives.
DeadlineOfDead(c) ==
  LET p == client[c].spawn
  IN  /\ client[c].at = "await"
      /\ IF Alive(p) THEN Fault ELSE NoFault
      /\ client' = [client EXCEPT ![c].at = "work", ![c].op = "fail", ![c].todo = <<"kill">>,
                                  ![c].victims = {p}, ![c].spawn = None]
      /\ UNCHANGED <<file, lock, proc, owner, metadata, socket, commands>>

\* The three deadlines pass: they are long enough for a start that is not
\* hindered.  The spawned daemon is ended before the lock is released.
Deadline(c) ==
  LET p == client[c].spawn
  IN  /\ client[c].at = "await"
      /\ IF \/ proc[p].at \in {"starting", "opening", "bound", "publishing"}
            \/ metadata \in Proc /\ Answering
         THEN Fault
         ELSE NoFault
      /\ client' = [client EXCEPT ![c].at = "work", ![c].op = "fail", ![c].todo = <<"kill">>,
                                  ![c].victims = {p}, ![c].spawn = None]
      /\ UNCHANGED <<file, lock, proc, owner, metadata, socket, commands>>

----------------------------------------------------------------------------
(* Daemons *)

Goes(p, at) == proc' = [proc EXCEPT ![p].at = at]

\* runtime_lock.acquire(0.1), before uvicorn handles SIGTERM or after it.
AcquireRuntime(p) ==
  /\ proc[p].at = "starting"
  /\ IF owner = None
     THEN Goes(p, "opening") /\ owner' = p
     ELSE Dies(p)
  /\ UNCHANGED <<client, file, lock, metadata, socket, faults, commands>>

TerminatedEarly(p) ==
  /\ proc[p].at = "starting" /\ proc[p].term
  /\ Dies(p)
  /\ UNCHANGED <<client, file, lock, metadata, socket, faults, commands>>

\* DaemonZmqServer.start: a socket that answers is somebody else's, any other
\* file is replaced.
Bind(p) ==
  /\ proc[p].at = "opening"
  /\ IF Answering
     THEN Goes(p, "closing") /\ UNCHANGED socket
     ELSE Goes(p, "bound") /\ socket' = p
  /\ UNCHANGED <<client, file, lock, owner, metadata, faults, commands>>

\* DaemonZmqServer.stop: the socket file goes unless somebody else answers there.
StopsBound(p) == socket' = IF Answering /\ socket # p THEN socket ELSE None

\* start raises, before there is a transport or after, with the metadata written
\* or half written: stop() is run all the same.  (In "ready" this is Signal.)
StartFails(p) ==
  /\ proc[p].at \in {"opening", "bound", "publishing"}
  /\ Fault
  /\ \/ proc[p].at = "opening" /\ UNCHANGED socket
     \/ StopsBound(p)
  /\ Goes(p, "closing")
  /\ UNCHANGED <<client, file, lock, owner, metadata, commands>>

\* write_metadata: the file is opened for writing, then written.
OpenMetadata(p) ==
  /\ proc[p].at = "bound"
  /\ metadata' = Torn
  /\ Goes(p, "publishing")
  /\ UNCHANGED <<client, file, lock, owner, socket, faults, commands>>

\* If the file has been unlinked meanwhile nobody will find what is written.
WriteMetadata(p) ==
  /\ proc[p].at = "publishing"
  /\ metadata' = IF metadata = Torn THEN p ELSE metadata
  /\ Goes(p, "ready")
  /\ UNCHANGED <<client, file, lock, owner, socket, faults, commands>>

\* _shutdown_daemon_when_idle, or a signal from elsewhere.
Signal(p) ==
  /\ proc[p].at = "ready" /\ ~proc[p].term
  /\ Fault
  /\ proc' = [proc EXCEPT ![p].term = TRUE]
  /\ UNCHANGED <<client, file, lock, owner, metadata, socket, commands>>

\* Mutant of StopTransport: the runtime lock is released first.
StopTransportUnlocked(p) ==
  /\ proc[p].at = "ready" /\ proc[p].term
  /\ StopsBound(p)
  /\ Goes(p, "closing")
  /\ owner' = None
  /\ UNCHANGED <<client, file, lock, metadata, faults, commands>>

\* SIGTERM ends the start first, then DaemonRuntimeSession.stop runs, with the
\* transport before worker and databases.
StopTransport(p) ==
  /\ proc[p].at = "ready" /\ proc[p].term
  /\ StopsBound(p)
  /\ Goes(p, "closing")
  /\ UNCHANGED <<client, file, lock, owner, metadata, faults, commands>>

\* Mutant of CloseRuntime: the runtime lock is released before the metadata go.
CloseRuntimeUnlocked(p) ==
  /\ proc[p].at = "closing"
  /\ Goes(p, IF metadata \in Proc \ {p} THEN "leaving" ELSE "removing")
  /\ owner' = None
  /\ UNCHANGED <<client, file, lock, metadata, socket, faults, commands>>

\* Worker and databases are closed; remove_metadata(expected_pid) reads the file.
CloseRuntime(p) ==
  /\ proc[p].at = "closing"
  /\ Goes(p, IF metadata \in Proc \ {p} THEN "leaving" ELSE "removing")
  /\ UNCHANGED <<client, file, lock, owner, metadata, socket, faults, commands>>

Unregister(p) ==
  /\ proc[p].at = "removing"
  /\ metadata' = None
  /\ Goes(p, "leaving")
  /\ UNCHANGED <<client, file, lock, owner, socket, faults, commands>>

Leave(p) ==
  /\ proc[p].at = "leaving"
  /\ Dies(p)
  /\ UNCHANGED <<client, file, lock, metadata, socket, faults, commands>>

----------------------------------------------------------------------------
(* Crashes *)

CrashDaemon(p) ==
  /\ Alive(p)
  /\ Fault
  /\ Dies(p)
  /\ UNCHANGED <<client, file, lock, metadata, socket, commands>>

\* A caller dies: its lock is free, whoever was about to look at it finds it dead.
CrashClient(c) ==
  /\ client[c].at # "idle"
  /\ Fault
  /\ client' = [d \in Client |->
                  IF d = c THEN Idle
                  ELSE IF client[d].at = "check" /\ client[d].seen = c
                       THEN [client[d] EXCEPT !.seen = None]
                       ELSE client[d]]
  /\ lock' = [i \in DOMAIN lock |-> IF lock[i] = c THEN None ELSE lock[i]]
  /\ UNCHANGED <<file, proc, owner, metadata, socket, commands>>

----------------------------------------------------------------------------
CallerStep(c) ==
  \/ ReclaimLock(c) \/ AcquireLock(c) \/ LockTimeout(c) \/ ReadMetadata(c)
  \/ FoundHealthy(c) \/ FoundUnhealthy(c)
  \/ UnlinkMetadata(c) \/ ListOrphans(c) \/ Terminate(c) \/ AwaitExit(c)
  \/ ProbeSocket(c) \/ RemoveSocket(c) \/ Cleaned(c)
  \/ FoundReady(c) \/ FoundExited(c) \/ Deadline(c)

DaemonStep(p) ==
  \/ AcquireRuntime(p) \/ Bind(p) \/ OpenMetadata(p) \/ WriteMetadata(p)
  \/ StopTransport(p) \/ CloseRuntime(p) \/ Unregister(p) \/ Leave(p)

Next ==
  \/ \E c \in Client :
       \/ Ensure(c) \/ StartCommand(c) \/ StopCommand(c)
       \/ CallerStep(c) \/ CrashClient(c)
  \/ \E p \in Proc :
       \/ DaemonStep(p) \/ TerminatedEarly(p) \/ StartFails(p) \/ Signal(p) \/ CrashDaemon(p)

Spec == Init /\ [][Next]_vars

\* Callers and daemons that can go on do, and proxies keep asking for a daemon.
Fairness ==
  /\ \A c \in Client : WF_vars(CallerStep(c)) /\ WF_vars(Ensure(c))
  /\ \A p \in Proc : WF_vars(DaemonStep(p))

FairSpec == Spec /\ Fairness

----------------------------------------------------------------------------
(* Properties *)

DaemonTypeOK ==
  /\ client \in [Client -> Call]
  /\ file \in 0..MaxFaults
  /\ lock \in [0..MaxFaults -> Client \cup {None}]
  /\ proc \in [Proc -> Daemon]
  /\ owner \in Proc \cup {None}
  /\ metadata \in Proc \cup {None, Torn}
  /\ socket \in Proc \cup {None}
  /\ faults \in 0..MaxFaults
  /\ commands \in 0..MaxCommands

\* The databases and the task worker of a state directory are open in one
\* daemon at most, however many are being started and stopped, and until its
\* shutdown is over: DaemonRuntimeSession holds the runtime lock around both.
OneRuntime ==
  \A p, q \in Proc :
    /\ proc[p].at \in {"opening", "bound", "publishing", "ready", "closing"}
    /\ proc[q].at \in {"opening", "bound", "publishing", "ready", "closing"}
    => p = q

\* A live process that is registered or bound owns the runtime, and a daemon
\* that goes on to remove the metadata it has checked never removes those of its
\* successor: it keeps the runtime lock until it has.
RegistrationTrue ==
  /\ metadata \in Proc /\ Alive(metadata) => owner = metadata
  /\ socket \in Proc /\ Alive(socket) => owner = socket
  /\ \A p \in Proc : proc[p].at = "removing" => metadata \in {None, Torn, p}

\* A daemon of the command line whose registration somebody else's clean-up has
\* removed: no starter recognises it, and its runtime lock keeps others out.
Invisible == \E p \in Proc : Alive(p) /\ ~proc[p].spawned /\ metadata # p

\* Once crashes, late starts and commands are over there is a registered daemon
\* that answers, for good, unless one of the command line has become invisible.
Recovers == <>[]((metadata \in Proc /\ Answering) \/ Invisible)

\* Every start and every stop comes to an end.
CallsEnd == \A c \in Client : (client[c].at # "idle") ~> (client[c].at = "idle")
============================================================================
