# Specifications of mcp-memory

TLA+ models of the parts of mcp-memory in which several coroutines, threads,
processes or machines change the same state, with TLC runs on small instances
and TLAPS proofs for all instances. Paths are relative to `src/mcp_memory/` of
the repository unless they start with `docs/` or `tests/`.

## 1. The system

mcp-memory keeps long-term memories for coding agents. A client *records
thoughts*, which land in a journal; background tasks, executed by a worker
inside a daemon, *ingest* thoughts into memories and *maintain* the memories
(curation, deduplication, embedding repair), mostly by letting a language model
call internal tools. One daemon per machine owns the state directory. With
SQLite there is one daemon; in shared mode the daemons of several machines use
one Postgres database (`docs/specs/16-…`: "Postgres is the explicit shared-mode
backend for multi-machine use").

| Part | State | Operations | Talks to | What is hard | Module |
|---|---|---|---|---|---|
| Task queue (`storage/sqlite_task_queue.py`, `postgres_task_queue.py`) | tables `tasks`, `task_runs` | enqueue, claim, complete, fail, retry, cancel, touch, update | worker, management, scheduling | fencing by epoch, exclusive maintenance lane, retries, late calls | `TaskQueue` |
| Task worker (`core/task_worker.py`, `core/agent_runtime.py`) | coroutines of each daemon, owned attempts | run loop, processing, monitor, reconciliation pass, start, stop | queue, providers, stores | every await between a read and the call that relies on it; crashes; other daemons | `TaskWorker` |
| Journal and ingest (`core/journal.py`, `core/task_handlers/ingest.py`, `core/ingest_claim_lifecycle.py`, `mcp/internal_ingest_services.py`, `storage/ingress_mutation_transaction.py`) | `system1_journal`, task data, receipts, coverage | record, claim, write, finalize, release, sweep, purge | queue, worker, agent | exactly-once writing over retries and overtaken attempts, orphaned claims | `Ingest` |
| Buffered writer (`storage/buffered_writer.py`) | queue, batch in flight, error | write, flush, close, worker thread | telemetry, runtime log, repository | condition variable, failing batches, bounded queue | `BufferedWriter` |
| Record thought (`core/journal_operations.py`, outbox in `storage/shared_read_cache.py`) | one write slot, outbox table | record with timeout, flush | journal, scheduling | late commit after a timeout, full outbox, crash between two databases | `RecordThought` |
| Ingest scheduling, idle maintenance (`core/system1_scheduling.py`, `core/maintenance_idle.py`) | open tasks | schedule, continue, pause, resume | queue, journal | decisions on counts that are stale when used | `IngestSchedule`, pauses in `TaskWorker` |
| Work items, embedding repair (`storage/sqlite_work_item_store.py`, `embedding_repair_store.py`) | leases with expiry | claim, heartbeat, complete, defer, release | handlers, worker | leases by task id, not by epoch or owner | `WorkItems` |
| Postgres queue (`storage/postgres_task_queue.py`, `storage/postgres_connection.py`) | the same tables, row locks, an advisory lock | the same | daemons of several machines | statements of concurrent transactions, `SKIP LOCKED`, guards evaluated late, aborts | `PostgresQueue` |
| Shared read cache (`storage/shared_read_cache.py`, `application/cache_policy.py`) | cached searches and records, searches in flight | begin, wait, finish, purge, store, invalidate | use cases | leader and followers, purge, data and epochs read apart | `ReadCache` |
| Curation, mutation history (`curation_action_store.py`, `core/curation_reconciliation.py`, `core/mutation_restore.py`) | memories, runs, receipts, events, restore requests | execute, verify, reconcile, restore | agent, management, worker | replay after a crash, tokens read outside the transaction, several parties ending one run | `Curation` |
| Daemon lifecycle (`daemon.py`, `daemon_lifecycle.py`, `daemon_runtime.py`, `daemon_transport.py`) | lock, metadata and socket files, runtime lock | ensure, prepare, reclaim, stop, publish, shut down | clients | racing starts, stale files, processes that die anywhere | `DaemonStart` |
| Execution attempts, conversations (`task_execution_store.py`, `provider_usage_store.py`) | rows by task and epoch | start, heartbeat, finish, reconcile | worker, providers | ended by several parties | not modelled |
| Provider admission (`core/provider_admission.py`) | recorded calls, backoff | evaluate, record | worker, providers | check and record are apart | planned |
| Retrieval, repository, serialization, management UI, config, CLI, migrations | | | | contents, I/O, floating point | not modelled |

`PROJECT.json` lists every part with its sources, and the hazards of each part
at the line where they bite.

### What makes each part correct

* **Queue**: two maintenance tasks never run at once; an attempt is logged
  exactly once, in agreement with the row; retries are bounded; a request to
  cancel dies with its attempt; terminal rows stay terminal.
* **Worker**: two daemons never process one attempt; what it settles is its own
  outcome; it does not take its own slow handler for an abandoned one; its run
  loop does not end unasked; every task ends; recurring tasks neither multiply
  nor die out.
* **Ingest**: a thought leaves the journal only when it was used; with
  enforcement it is used once; receipts and coverage agree; claims are not
  stranded.
* **Buffered writer**: no item is lost, duplicated or reordered; flush and close
  tell the truth; the limit holds; nobody waits forever.
* **Record thought**: an acknowledged thought is kept, by the journal or by the
  outbox; it is written twice only when nobody noticed the first write and its row
  has been used and purged since; the outbox empties; no pending thought is left
  without an ingest task by those who schedule one.
* **Work items**: a lease is taken from nobody who holds it in time, and whatever a
  task leaves behind comes back.
* **Postgres queue**: under any interleaving of statements it keeps the promise the
  SQLite queue keeps, its locks neither leak nor form a cycle.
* **Read cache**: what is served as fresh is current; a purge is final; one leader
  per search.
* **Curation and restore**: an action or a restore takes effect once over all retries;
  a restore undoes exactly its event; nobody who works on a request alone is told of a
  change that was made that it was refused; the first terminal result stays.
* **Daemon start**: one daemon at most has the databases open; files that name a live
  process name that one; starts and stops end, and there is a daemon again after
  every fault.

## 2. Modules

    TaskContract <──implements── TaskQueue <──extends── TaskWorker
         ^                                                             └── TaskWorkerProofs (both)
         └────────implements──── PostgresQueue ── PostgresQueueProofs
    IngestSchedule <──extends── RecordThought ── RecordThoughtProofs
    Ingest ── IngestProofs              ReadCache, WorkItems ── StorageProofs
    BufferedWriter ── BufferedWriterProofs
    Curation ── CurationProofs          DaemonStart ── DaemonStartProofs
    MC* : instances for TLC

`TaskContract` is the abstract specification of a task queue: tasks that are granted to one
attempt at a time, attempts that end once, a retry budget, closed tasks that stay
closed. Both backends are shown to implement it (`ImplementsContract`). `TaskQueue` is at
once the model of the SQLite queue and the specification of what its users may do to
it: `TaskWorker` changes the tables only through its operations (the link lemma `WorkersUseQueue`
of the proofs, so what holds of the queue holds of the running system). The other modules see tasks
through one of these: `Ingest` keeps whether the task runs and its epoch, with the steps
`TaskWorker` has (claim, end, crash, recovery of a dead attempt or of a live one),
`WorkItems` the phase and attempt of the contract, `IngestSchedule` an ingest task that is
waiting, running or gone, `Curation` the attempt whose handler runs or has died.

### TaskQueue

One step per transaction. A row keeps status, epoch, retries, priority, the rank
of `created_at`, whether `available_at` has passed, the cancel request, the
process id (none, live, gone) and whether the heartbeat is stale; `runs` is
`task_runs`. The calls that end an attempt read the row and then update it under a guard
that repeats the status and the epoch; here that is one step. A row that changes in between
makes a fenced call raise either way; only a call without an epoch could tell the
difference, and `PostgresQueue` models those statement by statement. Calls take an epoch or `NoEpoch` (calls without `execution_epoch`).
Ids are never reused. `claim_next` takes a minimal claimable row by priority and
age, and only if the maintenance lane is free. Time is two flags that steps of the
environment turn on (`BecomeReady`, `GoStale`).

### TaskWorker

Three coroutines per daemon (run loop with the processing inside it, monitor,
reconciliation pass), each await a step boundary. `held` is the `TaskRecord` the
processing has; the fenced calls of the processing (`Call`) raise when the row is
not running at its epoch. Events of the environment (crash, stop, cancel,
subprocess, idle pause, missing handler, store error) are counted down in
`left`. A handler is a choice between success, error and interruption; a
subprocess lives beside a daemon and can survive it.

### Ingest

Entries are journal ids in the order of their timestamps. An attempt of a task
is one record: where it is, the entries it was given, those it has handled, the
argument a call holds. It takes the agentic or the direct way. Steps are the
transactions of the journal, of the task data and of
`SQLiteIngressMutationStore.execute`. What a language model decides is a choice of
entries; the agent is assumed to name only ids it was given (the code does not
reject others in off mode). `applied` counts how often a thought was written;
`ignored` are the thoughts the provider or the quality check dropped on purpose.
`SweepSelect` and `SweepUpdate` are the two statements of
`release_orphaned_claims`.

### BufferedWriter

One step per section under the condition's lock; `asleep` is its wait set. The
low watermark is a variable, chosen at the start from `LowWatermarks`. Items are
numbered in the order they are offered, which loses no behaviour because nothing
depends on their contents.

### PostgresQueue

Every call is a READ COMMITTED transaction of its own session, a step is a statement. A
claim locks the row it selects and takes the advisory lock before it selects again; a
settle reads without a lock and updates under a guard that is evaluated on the newest
version once the row is free. The update, the `task_runs` row and the commit are one
step: until the commit others see the old row and wait for the lock. `Abort` may end any
transaction and gives its locks back. Priority and `available_at`, which only choose
among the rows `SKIP LOCKED` leaves, are a free choice. The refinement allows one step the
contract does not have (`Overrules`): the calls that the recovery of the queue and the drain
of legacy tasks make without an epoch read one attempt and may end a later one.

### IngestSchedule and RecordThought

`schedule_system1_ingest` counts the pending thoughts, looks for an open task, and updates
that one or inserts another (after the second look of `enqueue_unique`), in transactions of
their own that callers, the flush, the worker's follow-up and the bootstrap run at the same
time. The worker is seen from outside. A run claims thoughts (`claims`), keeps those it has
used as recoverable rows (`kept`) until the housekeeping purges them (`purged`), or gives them
back; the task completes, is retried, is cancelled or fails for good. What a closed task had
claimed stays claimed under `NoTask`. The orphan sweep of the reconciliation pass gives
claims back to `pending` and schedules nothing; its update asks for status `claimed` only, so in the model it
may meet any claim, also one of a running task. When a task is available (debounce
threshold, rate limits, suppression) is left open: a waiting task may be claimed at any
time. `lapsed` remembers that a schedule was lost (an error of the queue, a cancelled
follow-up, a task that failed or was cancelled, a row nobody knows of), or that a sweep gave
back what a closed task had claimed, until a later schedule has ended well.

`RecordThought` adds the authoritative write in the only slot and its wait, the bounded
outbox, the flush and the crash of the daemon. A write first looks for the row of the same
thought and time (`record_with_timestamp`) and inserts only if the journal has none;
`unseen` counts the rows whose writer gave up or died before it knew.

### WorkItems

One protocol for the two tables. A row has a status, an owner (a task, not an attempt) and
whether its time has come. `holds` is what a running handler believes to have leased. The
clean-up of an attempt and the reconciliation pass list in one transaction and release
in later ones; `Leftover` says that something of an earlier lease (a handler, a clean-up, a
pass) is still about, and `lapsed` marks leases that ran out or were granted then.

### ReadCache

One search request and one memory. Payloads are abstracted to whether they show the store
as it is and whether their epochs or token are those of the store; a mutation, of which
there may be any number, makes both false. So the state space is finite without a bound on
mutations or purges. A mutation between the data and the capture of its epochs is remembered as `raced`.

### Curation

One record whose revision token is its value. A tool call reads its token, then is one
transaction: replay check, run check, token check, change, event, receipt. A restore is
analysed, registered under its idempotency key, applied, verified and terminalized in
transactions of their own, and may be retried by anybody from the start after a
crash at any of them. The pass and the handler both end runs. `OtherWrites` are the
writers that go round the actions.

### DaemonStart

Callers run `ensure_daemon_started`, `prepare_daemon_start` or `stop_daemon`, one step for
each thing they do to a file or a process between two things they learn of the others.
The clean-up that is left to do is a list, from the branch of `_reclaim_daemon_slot` or
`stop_daemon` that was taken. Lock files are numbered: `_reclaim_stale_lock` may unlink one that
somebody holds. A daemon takes the runtime lock, binds, publishes, serves, and leaves in the
order of `DaemonRuntimeSession`. A process id is used again once nothing mentions it. `faults` counts
crashes, probes that time out at a daemon that would answer, starts that are late or fail
(before the socket is bound, after, or with the metadata half written), and signals from
elsewhere, the idle shutdown among them.

## 3. Runs

| Run | Instance | Shows |
|---|---|---|
| `queue` | two maintenance tasks, two priorities, two attempts | lane, log and cancellations under any order of calls; the contract |
| `worker_live` | one daemon, one task with a follow-up; one crash, stop, cancellation, pause, subprocess, missing handler each | claims bounded, own attempt kept, the run loop survives, the task ends |
| `worker_shared` | two daemons, one task, a cancellation, a store error | attempts are exclusive, a worker settles its own attempt |
| `postgres` | two sessions, two maintenance tasks, two attempts | one log row per attempt, lock discipline, the contract |
| `ingest_enforce` | two thoughts, two attempts; a crash, an overtaken attempt, a failing call | written once, receipts complete |
| `ingest_live` | evidence off, one thought, the same events, fairness | nothing is lost, claims do not strand |
| `record_thought` | two thoughts, one ingest task open at a time, an outbox of one place, one fault, fairness | acknowledged thoughts kept, duplicates explained, a task for what is pending, the outbox drains |
| `work_items` | one item, two tasks, two attempts between them, one crash, fairness | leases intact, leaks returned |
| `buffer` | two callers, four items, queue of three, low watermark 1 or 2 | all properties of the buffer, liveness included |
| `read_cache` | two callers, one pending invalidation, one lost leader | one leader, hits current, purges final |
| `curation` | one record with two values, one run, one tool call made by two callers, one key, one pass | history exact, answers true, first results stay |
| `daemon_start` | two callers, three process ids, one fault, one command | one runtime, true registrations, calls end, a daemon in the end |

`CHECK_DEADLOCK FALSE` is set where the system may stop: all tasks terminal, the
attempts of the bound used up, no client calls.

### Bounds

Two attempts are the smallest number with an overtaken and a current attempt; two tasks are
needed for the lane; one event of each kind at any point covers every single failure, and the
runs with several kinds cover pairs. A queue of three with writes of two makes writers block
with one place left, and the high watermark of two leaves a remainder. One thought is enough for
the liveness of claims, since claims of different thoughts do not wait for each other; safety with
enforcement is checked with two so that a batch can be handled in part. An outbox of one place
overflows with the second thought; with one id for open ingest tasks a second one inserted
beside it is not told from it, while those that follow it take the id again. One item is enough for leases, which are rows of their own;
two attempts may be of one task or of two, and both kinds of leftovers occur. Two sessions and
two tasks are the smallest instance in which a claim waits for the lane with a row locked
while another looks for that row. The cache needs a flight for each caller and one that was lost.
In `curation` two callers with one key are a call and its retry, or two at once; two values are
enough for a write that brings an old state back. In `daemon_start` three ids are a daemon that
leaves, its successor and one started beside them; with one more command the safety
properties hold as well (1.4 million states), which is too much for liveness.
The theorems below remove the bounds for the safety properties they state.

Symmetry is used only for runs without liveness: over tasks, sweepers and landings (ingest),
daemons (worker), tasks and sessions (Postgres), flights (cache), callers and keys (curation).

### What the models show of the code

Behaviours of the code that the models have and that a reader may not expect; the properties
above are stated so that they hold with them.

*Queue and worker.*
* `_recover_unexpected_task_error` fails the task at the epoch it reads, not at the epoch of the
  attempt that raised: an attempt that another daemon has recovered and claimed again is
  failed by the late one. A settle without an epoch does the same in Postgres (`Overrules`).
* The monitor cancels the processing when the row is no longer running, also in the window after
  `complete` and before the follow-up is inserted; a recurring task is then gone until the next
  restart.
* `_run_loop` runs its reconciliation pass outside any `try`: a row that another daemon ends between the
  list and the recovery makes the pass raise, and the daemon stays up without a worker. So
  `RunLoopSurvives` is stated for a daemon that has its store for itself.
* `enqueue_unique` searches and inserts in two transactions without a unique index: two daemons that
  bootstrap together on one store can both insert a recurring task.

*Buffer.* The batch is released in one lock section and its failure recorded in a later one: a
flush in between returns normally although the batch was lost. A low watermark above 1 lets a
flush wait for a worker that no write wakes, and a `max_queue_size` too small for a batch above
the watermark blocks its writer; every store passes 1.

*Ingest.* With two sweepers, the update of one can take a thought from a running attempt that has
just claimed it, since it asks only for status `claimed`. An overtaken attempt in enforce mode
commits a write and its coverage for a thought that has gone back to `pending`, and the thought
stays there (it is never written again: `AppliedOnce`). With enforcement the direct way sets
untouched claims aside as `recoverable` (`SetAside`), batch after batch, so `NothingLost` is stated
for the other mode: docs/specs/21 asks for `pending` in its rule 7 and for recoverable claims
where evidence is unavailable. A batch in which everything is ignored goes back to `pending` and
is analysed again by every later run.

*Scheduling.* The sweep schedules nothing: thoughts that it gives back from a task that is gone wait
without a task until the next thought, start or completed ingest schedules one. `PendingHasTask` excepts the
time from such a sweep to the next schedule, as it does the time after a lost one.
A thought that was recorded twice is found by its content, workspace and time as long as the journal
has its row, in any status; an outbox entry that outlives the row's two days as recoverable would be
ingested again, and `DuplicatesExplained` says that nothing else is.

*Work items.* `complete`, `defer` and `release` ask for status `running`, not for the owner: a handler whose lease
ran out can settle the lease of another. `LeaseIntact` excepts leases that ran out and
leases granted while something left over from an earlier one was about.

*Read cache.* Epochs and tokens are captured after the data they stand for. docs/specs/24 (line 263) asks that
"fresh-hit validation notices insertion, deletion, update, and embedding-repair epoch changes", but after a
mutation between the data and the capture a search response is served as fresh for up to its five
seconds, a record until the next mutation of its memory. `HitsAreCurrent` excepts such rows, and
nothing else. `purge_search_responses` has no caller outside the tests, and the map of searches in flight is
per process.

*Curation.* A management replay of an open request whose analysis now conflicts is answered
ALREADY_APPLIED, although it may never have been applied, and the row stays open. The restore of a
`create_link` through management cannot succeed (docs/specs/20, line 228, counts it as restorable). The
periodic reconciliation ends runs that have receipts without looking at the task, so a working
curator's later calls fail with "run is terminal", and any receipt that is not a
normalization and has no descriptor makes the run VERIFICATION_FAILED; receipts of runs that the
handler ended stay APPLIED_UNVERIFIED. A duplicate tool call that reads its token after the
first one was applied gets an identity collision. Protections are read only in the analysis. A
caller can record CONFLICT for a request while another with the same key applies it; the one that
applied it is then told of a conflicting terminal result (`mutation_history_store.py`, line 419), as is a retry that
is refused for another reason than the first time. `AnswersAreTrue` therefore excepts requests that two
callers carried at once, and only those: a request that goes from caller to caller over failures and
retries ends as applied exactly if it was applied.

*Daemon start.* `stop_daemon`, which takes no lock, and `_reclaim_daemon_slot` remove the metadata
without `expected_pid`: they can remove those of a daemon that has just published. A daemon of the command
line (`mcp-memory daemon`, which `_is_daemon_command` does not recognise) is then *invisible*:
nobody finds it, its runtime lock keeps others out, and every `ensure_daemon_started` fails until it
ends. The docstring of `prepare_daemon_start` names this as what it is there to prevent ("it becomes invisible
to `daemon status`/`stop`"). `Recovers` excepts it. `_reclaim_stale_lock` can unlink a lock file
after another process has acquired it, so two starters may be inside at once; the runtime lock,
which nobody unlinks, is what keeps `OneRuntime`. `write_metadata` truncates and then writes: a reader in between
takes the file for none and may end the publishing daemon as an orphan. The
monitor of the MCP server forgets its daemon after a failed recovery until the next request.

### Fairness

* Worker: the event loop runs every coroutine that can go on; handlers return (the
  providers have timeouts); a daemon that is down is started by the next client;
  subprocesses end; time passes. Crashes, stops and cancellations are never fair.
  The monitor's timer is not fair either: it may or may not fire.
* Ingest: as above; the agent's end is strongly fair, because the provider's timeout
  ends it however many calls it makes; recovery and sweep come round while a
  daemon is up.
* Buffer: a thread that can run does, and a database write ends. Callers need not
  call, and timeouts of `flush` need not fire.
* Record thought: schedulers, fallbacks and the flush loop go on, a write ends one way or the
  other, and a write the flush waits for commits if it is tried again and again (a store that
  never accepts a write drains no outbox). Clients need not call.
* Work items: only the reconciliation pass is fair, which every daemon runs periodically;
  handlers, clean-ups and claims may stop anywhere.
* Daemon start: callers and daemons that can go on do, and proxies keep asking for a daemon
  (each request does). The deadline of a start strikes without a fault only when the spawned daemon can no
  longer come up: the three waits are longer than an unhindered start. Faults and commands are
  bounded and never fair.

## 4. Proofs

All proofs are checked by TLAPS 1.4.5 with Z3, Zenon and LS4.

* **TaskWorkerProofs**, the queue. `StepIsRowStep` reduces every operation to one of a few
  changes of one row; `QueueInv` is the conjunction of the properties with `EpochFitsStatus` (a
  running row has been claimed, an id that was never enqueued has not), which makes
  it inductive: a new log entry then never repeats an attempt. From it: `TypeCorrect`,
  `LaneExclusive`, `AttemptsAccounted`, `LogMatchesStatus`, `BudgetRespected`, `RequestsDoNotLeak`,
  `TerminalStays`, for every set of tasks and every retry limit (assumption: tasks are finitely
  many, priorities are numbers). `QueueKeepsContract`: under the mapping of rows to phases, every
  step is one of the contract's or none; the invariant supplies that the history has an
  entry for every attempt before the current one.
* **TaskWorkerProofs**, the workers. `WorkerInv` joins the queue's invariant with `MemoryInv`, what a
  daemon remembers (it holds a task wherever it uses one, only a processing is
  monitored, whoever called a pass waits for it). With it every step of every
  daemon is a step or a stutter of the queue (`WorkersUseQueue`), which carries the theorems on
  the queue over to the running system. `AttemptsStayExclusive` rests on the
  epoch growing with every claim and only the claim filling `held`. `ClaimsStayBounded` needs that
  each way an attempt ends without ending the task counts a retry, so that the epoch of a pending row is its
  number of retries (`CountInv`); it is the calls of this worker that make it so, the
  queue alone does not. `WorkersSettleTheirOwn`: nobody but the attempt itself, in the call before, brings a
  daemon to the settling stages, and the log only grows (`SettleInv`). `OwnAttemptsKept` relates
  three things of different age (`OwnInv`): the subprocess registered for an attempt, the rows a pass has
  listed and the attempt in hand; a row of its own attempt was listed either with a subprocess
  or before it could have become stale. `RunLoopsSurvive` follows what a pass of the run loop has listed until
  its turn comes (`SurvivalInv`): while the daemon is alone nobody else ends a listed attempt, for the
  processing waits for the loop, a cancellation of a running task only requests, and `_reconciliation_lock` keeps other passes away, so that no call of
  it raises. The assumption on daemons says that their names
  are none of the two other values of the column `pid`.
* **PostgresQueueProofs.** `PostgresInv`: what a transaction has read or locked still says something about
  the rows at its next statement. A claim that is about to commit has its row locked, so the row is pending
  still, and for maintenance it has the lane, so no other maintenance task runs; an epoch that a
  settle has read has not been reached again, and while it is current nobody has counted a failure
  (`ReadHolds`); locks are held in the stages of a claim or a mutation only. From it
  `PostgresRunsOnce`, `PostgresLocks`, `PostgresLaneExclusive` (the lane of the SQLite queue, on the shared
  database) and `PostgresKeepsContract`, for every set of sessions, tasks and aborts.
* **RecordThoughtProofs.** `RecordInv`: whoever waits for the write in the slot and the slot agree (`SlotInv`); outbox and
  flush hold each entry once, for answered calls only (`ListInv`); until a call or the
  flush knows of a row of its thought, all rows of the thought are unseen ones (`CreditInv`): the one row that
  is seen comes last. `JournalInv` ties the count to the journal: what it holds was written, what was
  written it holds until it is purged, so a write that finds nothing is the first or comes after a purge. `ScheduledInv` is stronger than
  `PendingHasTask`: it does not count a scheduler that is about to update the task it found, because that
  task may be gone by then; `ClaimsInv` says that only open tasks have claims of their own, so that what a sweep
  or a handler gives back without a lapse has a task. From them `AcknowledgedStays`, `DuplicatesAreExplained` and `PendingGetsTask`, for any
  thoughts, callers, outbox limit, crashes and failing writes (assumption: there is an id for an ingest task).
* **BufferedWriterProofs.** `BufferInv`: the stages of a batch (`Stages`), the marks of
  flushes, and the equation `accepted = written \o lost \o batch \o pending`. From it
  `ItemsDeliveredInOrder`, `FlushWaits`, `CloseTellsTheTruth`, `QueueStaysBounded`, for any
  threads, watermarks and queue size.
* **IngestProofs.** `EvidenceInv`: in enforce mode a thought is written exactly when it is
  covered; `LossInv`: whatever a task has recorded and an attempt counts as done is
  *safe* (written or ignored), which is what makes `NothingLost` inductive, since
  finalization moves what those say. From them `WrittenOnce`, `ReceiptsAreComplete` and,
  without enforcement, `NothingIsLost`, for any number of thoughts, tasks, attempts and
  sweepers.
* **StorageProofs**, the read cache. `CacheInv`: a payload whose epochs are those of the store shows it unless it was raced,
  wherever the payload is (in a row, with a leader, with a follower), and a purged one is not
  with the leader of the current flight. From it `CacheTypes`, `HitsStayCurrent` and
  `PurgesAreFinal`, for any number of callers, flights, mutations and purges.
* **StorageProofs**, the leases. `LeaseAll`: an item that a current attempt has leased in time is `Untouchable`: not
  due, counted by no other handler, on nobody's list to release, and seen by the pass at most
  with an owner that still runs; no clean-up of the same task is still to list its leases. The list of a
  clean-up names tasks and not attempts, so the last part is what the exception for leftovers
  in `LeaseIntact` stands for. From it `LeasesStayIntact`, for any items, tasks, attempts and crashes.
* **CurationProofs.** Receipts and history determine each other; the token a registered
  restore carries is the state its event left; a caller that has passed its transaction has its event in
  the history. `AloneInv` follows a request that no two callers have carried at once: its status and the stage of
  the caller that has it agree with the history (`EndsTruly`) across failures and retries. From these
  `HistoryStaysExact`, `AnswersStayTrue` and `FirstResultsStay`, for any values, runs, actions, keys, callers and passes.
* **DaemonStartProofs.** `DaemonInv`: the runtime lock is held exactly by the daemon between its
  acquisition and its release (`Holding`), only a process that has held it is registered
  or bound, and what a leaving daemon is about to remove is not another's. Nothing about callers is
  needed, so `RuntimeIsExclusive` and `RegistrationIsTrue` hold whatever happens to the lock file, for any
  number of callers, daemons, faults and commands.

The inductive invariants of `PostgresQueue`, `RecordThought` and `WorkItems` were checked by TLC, as they
stand in the proofs, on several instances of up to 1.5 million states before they were proved.

Only model-checked: the properties under fairness (`EveryTaskEnds`, `ClaimsDoNotStrand`, `EveryCallReturns`,
`ItemsDoNotLinger`, `OutboxDrains`, `LeaksReturned`, `Recovers`, `CallsEnd`); the prover has no rules for
ENABLED. Each invariant, action property and refinement that a run checks is also a theorem.

## 5. Plan

1. What the liveness runs rest on, as theorems: a leaked lease stays visible to the pass, an outbox that is not
   empty leaves the flush something to do.
2. **ProviderAdmission**: how far concurrent tasks can exceed a limit that counts ended calls.
3. Execution attempts by epoch, ended by worker, provider and reconciliation.
4. Liveness of curation runs and of ingest scheduling (a pending thought is ingested).

## 6. Not modelled

Contents and ranking of memories and embeddings (floating point, external engines); prompts and
decisions of language models (choices); SQL beyond the rows above, the queries and row
mappings of the two repositories and the reports of the management service included, which
make up most of the lines of the repository and change no state two parties share; links, merges and splits
in curation (they go through the transaction `Curation` has); transport framing,
dispatch, CLI, installer and configuration (I/O and wiring); the dashboard (reads); migrations and
backups (linear scripts under the runtime lock). A process id reused by another process and the
liveness of processes on another host (`_is_process_alive` on a foreign pid) are covered by the
choice whether a recovery takes a live attempt for abandoned.
