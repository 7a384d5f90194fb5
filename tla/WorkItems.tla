----------------------------- MODULE WorkItems -----------------------------
(***************************************************************************)
(* The durable work items and the embedding repairs that task handlers     *)
(* lease: two tables with one protocol.  A lease carries the id of the     *)
(* task and not its attempt, it runs out after a while, and completing,    *)
(* deferring or releasing an item asks only whether somebody holds it.     *)
(* Whatever an attempt leaves behind is released by the clean-up that      *)
(* follows its end and, when that is lost with its daemon, by the          *)
(* reconciliation pass.                                                    *)
(*                                                                         *)
(* Of the tasks only what TaskContract calls phase and attempt matters.    *)
(***************************************************************************)
EXTENDS Integers, FiniteSets, Functions

CONSTANTS
  Task,         \* the tasks whose handlers lease items
  Item,         \* idempotency keys of work items and versions of repairs
  BatchLimit,   \* the limit of a claim
  MaxAttempts,  \* bound: attempts granted to a task
  MaxGrants,    \* bound: attempts granted to the tasks altogether
  MaxCrashes,   \* bound: crashes
  NoOwner

ASSUME ItemAssumption ==
  /\ NoOwner \notin Task
  /\ BatchLimit \in Nat \ {0} /\ MaxAttempts \in Nat \ {0}
  /\ MaxGrants \in Nat /\ MaxCrashes \in Nat

VARIABLES
  phase,        \* of each task: waiting, held by an attempt, closed
  attempt,      \* how often it has been granted
  item,         \* the rows of work_items and embedding_repair_queue
  alive,        \* the attempts whose handler is running in some daemon
  holds,        \* the items each of them has claimed and not yet settled
  cleanup,      \* the clean-up after each attempt
  pass,         \* _recover_leaked_work_items: rows to check, rows to release
  lapsed,       \* history: leases that ran out, or were granted while
                \* something left over from an earlier lease was still about
  crashes       \* how many of MaxCrashes have happened

itemVars == <<item, alive, holds, cleanup, pass, lapsed, crashes>>
taskVars == <<phase, attempt>>
leaseVars == <<taskVars, itemVars>>

----------------------------------------------------------------------------
Run == Task \X (1..MaxAttempts)

\* `due` is the time condition of a claim: available_at of a waiting item,
\* lease_expires_at of a running one.
Row == [status : {"absent", "pending", "running", "deferred", "completed"},
        owner  : Task \cup {NoOwner},
        due    : BOOLEAN]

Absent == [status |-> "absent", owner |-> NoOwner, due |-> FALSE]
Cleanup0 == [at |-> "off", todo |-> {}]
Pass0 == [rows |-> {}, found |-> {}]

ItemInit ==
  /\ phase = [t \in Task |-> "waiting"]
  /\ attempt = [t \in Task |-> 0]
  /\ item = [i \in Item |-> Absent]
  /\ alive = {}
  /\ holds = [r \in Run |-> {}]
  /\ cleanup = [r \in Run |-> Cleanup0]
  /\ pass = Pass0
  /\ lapsed = {}
  /\ crashes = 0

Running(i) == item[i].status = "running"
Attempt(t) == <<t, attempt[t]>>

\* The attempt that the queue still counts as the task's running one.
Current(r) == phase[r[1]] = "held" /\ attempt[r[1]] = r[2]

----------------------------------------------------------------------------
(* The item stores: each call is a transaction                              *)

Set(i, status, owner, due) ==
  item' = [item EXCEPT ![i] = [status |-> status, owner |-> owner, due |-> due]]

\* enqueue_unique: a second call with the key finds the row, whatever its
\* status, and changes nothing.
EnqueueUnique(i) ==
  /\ item[i].status = "absent"
  /\ Set(i, "pending", NoOwner, TRUE)
  /\ UNCHANGED <<taskVars, alive, holds, cleanup, pass, lapsed, crashes>>

\* The WHERE clause of claim_batch and claim_compatible_batch.
Claimable(i) == item[i].status \in {"pending", "deferred", "running"} /\ item[i].due

\* release_item, whose error on an item nobody holds is only logged.
ReleaseItem(i) == IF Running(i) THEN Set(i, "pending", NoOwner, TRUE) ELSE UNCHANGED item

\* Time passes: a lease runs out, a deferred item may be claimed again.
Due(i) ==
  /\ item[i].status \in {"running", "deferred"} /\ ~item[i].due
  /\ item' = [item EXCEPT ![i].due = TRUE]
  /\ lapsed' = IF Running(i) THEN lapsed \cup {i} ELSE lapsed
  /\ UNCHANGED <<taskVars, alive, holds, cleanup, pass, crashes>>

\* prune_completed at the end of a repair run: the version may be queued anew.
\* (Only repairs are pruned, and only work items are deferred or released by
\* their handlers; an item of this module may be either.)
PruneCompleted(r) ==
  /\ r \in alive
  /\ \E i \in Item :
       /\ item[i].status = "completed"
       /\ item' = [item EXCEPT ![i] = Absent]
  /\ UNCHANGED <<taskVars, alive, holds, cleanup, pass, lapsed, crashes>>

----------------------------------------------------------------------------
(* An attempt and the items it works on                                     *)

\* Something that was begun under an earlier lease of i, or for an earlier
\* attempt of r's task, and may yet settle i: a handler that has lost its
\* task, a clean-up that has still to list or to release, a listing pass.
Leftover(i, r) ==
  \/ \E q \in alive \ {r} : i \in holds[q] /\ (i \in lapsed \/ ~Current(q))
  \/ \E q \in Run : \/ i \in cleanup[q].todo
                    \/ q[1] = r[1] /\ cleanup[q].at = "list"
  \/ i \in pass.found
  \/ \E t \in Task : <<i, t>> \in pass.rows

\* claim_batch: any of the claimable rows, as the family, the lane and the
\* workspace of the call select them.
Claim(r, batch) ==
  /\ r \in alive /\ batch # {} /\ Cardinality(batch) <= BatchLimit
  /\ \A i \in batch : Claimable(i)
  /\ item' = [i \in Item |->
                IF i \in batch THEN [status |-> "running", owner |-> r[1], due |-> FALSE]
                ELSE item[i]]
  /\ holds' = [holds EXCEPT ![r] = @ \cup batch]
  /\ lapsed' = (lapsed \ batch) \cup {i \in batch : Leftover(i, r)}
  /\ UNCHANGED <<taskVars, alive, cleanup, pass, crashes>>

\* internal_heartbeat_work_item: the lease must be the task's.
Heartbeat(r, i) ==
  /\ r \in alive /\ i \in holds[r]
  /\ Running(i) /\ item[i].owner = r[1] /\ item[i].due
  /\ item' = [item EXCEPT ![i].due = FALSE]
  /\ UNCHANGED <<taskVars, alive, holds, cleanup, pass, lapsed, crashes>>

\* complete_item, defer_item and release_item of a handler or of its agent:
\* whoever has the lease, it must be running.  When it is not, the ValueError
\* ends the handler: EndAttempt by the handler.
SettleItem(r, i) ==
  /\ r \in alive /\ i \in holds[r] /\ Running(i)
  /\ \/ Set(i, "completed", NoOwner, FALSE)
     \/ \E ready \in BOOLEAN : Set(i, "deferred", NoOwner, ready)
     \/ ReleaseItem(i)
  /\ holds' = [holds EXCEPT ![r] = @ \ {i}]
  /\ UNCHANGED <<taskVars, alive, cleanup, pass, lapsed, crashes>>

Gone(r) == alive' = alive \ {r} /\ holds' = [holds EXCEPT ![r] = {}]

----------------------------------------------------------------------------
(* Attempts, as the queue grants and ends them                              *)

Granted == SumFunction(attempt)

Grant(t) ==
  /\ phase[t] = "waiting" /\ attempt[t] < MaxAttempts /\ Granted < MaxGrants
  /\ phase' = [phase EXCEPT ![t] = "held"]
  /\ attempt' = [attempt EXCEPT ![t] = @ + 1]
  /\ alive' = alive \cup {<<t, attempt[t] + 1>>}
  /\ UNCHANGED <<item, holds, cleanup, pass, lapsed, crashes>>

\* The handler returns or raises and the worker settles the task; or somebody
\* else ends the attempt, and its handler may still be running.  Either way
\* the clean-up of the attempt is next.
EndAttempt(t, byHandler) ==
  LET r == Attempt(t)
  IN  /\ phase[t] = "held"
      /\ \E p \in {"waiting", "closed"} : phase' = [phase EXCEPT ![t] = p]
      /\ IF byHandler THEN r \in alive /\ Gone(r) ELSE UNCHANGED <<alive, holds>>
      /\ cleanup' = [cleanup EXCEPT ![r].at = "list"]
      /\ UNCHANGED <<attempt, item, pass, lapsed, crashes>>

\* The monitor finds that the attempt is no longer the task's and cancels it:
\* CancelledError is no Exception, so the handler releases nothing.
HandlerCancelled(r) ==
  /\ r \in alive /\ ~Current(r)
  /\ Gone(r)
  /\ UNCHANGED <<taskVars, item, cleanup, pass, lapsed, crashes>>

\* The daemon of the attempt, of its clean-up and of the pass dies.
Crash(r) ==
  /\ crashes < MaxCrashes
  /\ r \in alive \/ cleanup[r].at # "off"
  /\ crashes' = crashes + 1
  /\ Gone(r)
  /\ cleanup' = [cleanup EXCEPT ![r] = Cleanup0]
  /\ pass' = Pass0
  /\ UNCHANGED <<taskVars, item, lapsed>>

----------------------------------------------------------------------------
(* What the worker gives back                                               *)

\* Mutant of ListLeases: whatever runs, not only what the task holds.
ListLeasesAll(t) == {i \in Item : Running(i)}

ListLeases(t) == {i \in Item : Running(i) /\ item[i].owner = t}

\* _release_task_work_items and _release_task_embedding_repairs: the list ...
CleanupLists(r) ==
  /\ cleanup[r].at = "list"
  /\ cleanup' = [cleanup EXCEPT ![r] = [at |-> "release", todo |-> ListLeases(r[1])]]
  /\ UNCHANGED <<taskVars, item, alive, holds, pass, lapsed, crashes>>

\* ... and one release after the other.
CleanupReleases(r) ==
  /\ cleanup[r].at = "release"
  /\ IF cleanup[r].todo = {}
     THEN cleanup' = [cleanup EXCEPT ![r].at = "off"] /\ UNCHANGED item
     ELSE \E i \in cleanup[r].todo :
            /\ ReleaseItem(i)
            /\ cleanup' = [cleanup EXCEPT ![r].todo = @ \ {i}]
  /\ UNCHANGED <<taskVars, alive, holds, pass, lapsed, crashes>>

\* _recover_leaked_work_items: the running items with their owners ...
PassLists ==
  /\ pass = Pass0
  /\ pass' = [pass EXCEPT !.rows = {<<i, item[i].owner>> : i \in {j \in Item : Running(j)}}]
  /\ UNCHANGED <<taskVars, item, alive, holds, cleanup, lapsed, crashes>>

\* Mutant of Leaked: only the owner that has been closed counts.
LeakedClosed(t) == phase[t] = "closed"

\* get_task fails, or the task is not running.
Leaked(t) == phase[t] # "held"

\* ... the owner's task is read ...
PassChecks ==
  /\ pass.found = {}
  /\ \E row \in pass.rows :
       pass' = [rows |-> pass.rows \ {row}, found |-> IF Leaked(row[2]) THEN {row[1]} ELSE {}]
  /\ UNCHANGED <<taskVars, item, alive, holds, cleanup, lapsed, crashes>>

\* ... and then the item released, by whomever it is held now.
PassReleases ==
  /\ \E i \in pass.found : ReleaseItem(i)
  /\ pass' = [pass EXCEPT !.found = {}]
  /\ UNCHANGED <<taskVars, alive, holds, cleanup, lapsed, crashes>>

----------------------------------------------------------------------------
RunStep(r) ==
  \/ \E batch \in SUBSET Item : Claim(r, batch)
  \/ \E i \in Item : Heartbeat(r, i) \/ SettleItem(r, i)
  \/ PruneCompleted(r)

TaskStep(t) ==
  \/ Grant(t)
  \/ \E byHandler \in BOOLEAN : EndAttempt(t, byHandler)

Pass == PassLists \/ PassChecks \/ PassReleases

ItemNext ==
  \/ \E i \in Item : EnqueueUnique(i) \/ Due(i)
  \/ \E t \in Task : TaskStep(t)
  \/ \E r \in Run :
       RunStep(r) \/ HandlerCancelled(r) \/ CleanupLists(r) \/ CleanupReleases(r) \/ Crash(r)
  \/ Pass

ItemSpec == ItemInit /\ [][ItemNext]_leaseVars

\* The periodic reconciliation keeps passing; nothing else needs to go on.
FairItemSpec == ItemSpec /\ WF_leaseVars(Pass)

----------------------------------------------------------------------------
(* Properties *)

\* The types; an item has an owner exactly while it is running.
ItemTypeOK ==
  /\ item \in [Item -> Row]
  /\ \A i \in Item : Running(i) <=> item[i].owner # NoOwner
  /\ alive \subseteq Run /\ holds \in [Run -> SUBSET Item]
  /\ \A r \in Run : cleanup[r] \in [at : {"off", "list", "release"}, todo : SUBSET Item]
  /\ pass \in [rows : SUBSET (Item \X Task), found : SUBSET Item]
  /\ lapsed \subseteq Item /\ crashes \in 0..MaxCrashes

\* While a task's attempt is the running one, what it has claimed is leased to
\* its task: nobody else claims, releases or completes it (claim_batch, the
\* clean-up, the pass).  Excepted are leases that ran out and leases granted
\* while something left over from an earlier one was still about, the cases
\* that complete_item and release_item do not guard against.
LeaseIntact ==
  \A r \in alive, i \in Item :
    i \in holds[r] /\ Current(r) /\ i \notin lapsed => Running(i) /\ item[i].owner = r[1]

\* A lease whose task is not running any more is returned, even if the daemon
\* died between the end of the task and its clean-up (_recover_leaked_work_items).
LeaksReturned ==
  \A i \in Item, t \in Task :
    (item[i].owner = t /\ phase[t] # "held") ~> (item[i].owner # t \/ phase[t] = "held")
============================================================================
