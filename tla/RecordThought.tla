--------------------------- MODULE RecordThought ---------------------------
(***************************************************************************)
(* record_thought with the write-back outbox.  A call writes the journal   *)
(* in a thread of its own, one for the whole process, and waits five       *)
(* seconds for it; when the slot is taken, the wait ends or the journal is *)
(* out of reach, the thought goes to a bounded outbox in the local cache   *)
(* database, which a loop flushes into the journal.  A thread whose caller *)
(* has gone on may still commit.  The daemon may crash: journal, outbox    *)
(* and tasks survive, calls, threads and the flush do not.                 *)
(***************************************************************************)
EXTENDS IngestSchedule, SequencesExt

CONSTANTS
  Flusher,      \* the scheduler that is the flush loop
  MaxOutbox,    \* max_entries of the outbox
  FlushLimit,   \* _RECORD_THOUGHT_OUTBOX_FLUSH_LIMIT
  MaxFaults,    \* bound: crashes, and writes whose outcome goes unnoticed
  NoWrite       \* the write slot is free

ASSUME RecordAssumption ==
  /\ MaxOutbox \in Nat \ {0} /\ FlushLimit \in Nat \ {0} /\ MaxFaults \in Nat
  /\ Caller = Thought \cup {Flusher} /\ Flusher \notin Thought

VARIABLES
  rows,         \* how many journal rows each thought has got
  call,         \* where the call that records each thought is
  writer,       \* the authoritative write thread that holds the slot
  outbox,       \* record_thought_outbox, oldest first
  flush,        \* the flush loop
  overflowed,   \* history: thoughts deleted from the full outbox
  unseen,       \* history: rows whose writer or flush does not know of them
  faults        \* how many of MaxFaults have happened

recordVars == <<rows, call, writer, outbox, flush, overflowed, unseen, faults>>
vars == <<scheduleVars, recordVars>>

Write == [thought : Thought, waiter : {"caller", "flush", "nobody"}]

Flush == [at      : {"sleep", "next", "writing", "delete", "follow"},
          list    : Seq(Thought),
          flushed : BOOLEAN]

Asleep == [at |-> "sleep", list |-> <<>>, flushed |-> FALSE]

Init ==
  /\ ScheduleInit
  /\ rows = [n \in Thought |-> 0]
  /\ call = [n \in Thought |-> "none"]
  /\ writer = NoWrite
  /\ outbox = <<>>
  /\ flush = Asleep
  /\ overflowed = {}
  /\ unseen = [n \in Thought |-> 0]
  /\ faults = 0

----------------------------------------------------------------------------
(* The authoritative write: _run_bounded_authoritative_record *)

Answer(n, at) == call' = [call EXCEPT ![n] = at]

\* The call of RecordThoughtOperation: it gets the slot or is told it is busy.
Record(n) ==
  /\ call[n] = "none"
  /\ IF writer = NoWrite
     THEN Answer(n, "writing") /\ writer' = [thought |-> n, waiter |-> "caller"]
     ELSE Answer(n, "fallback") /\ UNCHANGED writer
  /\ UNCHANGED <<scheduleVars, rows, outbox, flush, overflowed, unseen, faults>>

\* Mutant of FlushStops: an exception leaves the flush loop for good.
FlushStopsForGood == flush' = [Asleep EXCEPT !.at = "follow"] /\ UNCHANGED step

\* A flush that cannot write stops; what it has flushed is scheduled.
FlushStops ==
  IF flush.flushed
  THEN flush' = [Asleep EXCEPT !.at = "follow"] /\ step' = [step EXCEPT ![Flusher] = Begun]
  ELSE flush' = Asleep /\ UNCHANGED step

\* Mutant of Commit: the row is inserted without looking for it.
CommitAlways(n) ==
  /\ rows' = [rows EXCEPT ![n] = IF @ < 3 THEN @ + 1 ELSE @]
  /\ pending' = pending \cup {n}

\* record_with_timestamp, with the time of the call: the row of this thought is
\* returned if the journal still has it, whatever became of it, or inserted.
Commit(n) ==
  IF n \in Journal
  THEN UNCHANGED <<rows, pending>>
  ELSE /\ rows' = [rows EXCEPT ![n] = @ + 1]
       /\ pending' = pending \cup {n}

\* The thread has written the row: the caller schedules, the flush deletes the
\* entry, and if nobody waits any more nobody does.
WriteCommits ==
  LET n == writer.thought
  IN  /\ writer # NoWrite
      /\ Commit(n)
      /\ writer' = NoWrite
      /\ CASE writer.waiter = "caller" ->
                /\ Answer(n, "follow")
                /\ step' = [step EXCEPT ![n] = Begun]
                /\ UNCHANGED <<flush, unseen, lapsed>>
           [] writer.waiter = "flush" ->
                /\ flush' = [flush EXCEPT !.at = "delete"]
                /\ UNCHANGED <<call, step, unseen, lapsed>>
           [] writer.waiter = "nobody" ->
                /\ unseen' = [unseen EXCEPT ![n] = @ + 1]
                /\ lapsed' = TRUE
                /\ UNCHANGED <<call, flush, step>>
      /\ UNCHANGED <<journalVars, ingest, working, outbox, overflowed, faults>>

\* The write raises: an error that counts as an outage, after which the row may
\* be there all the same (the connection broke at COMMIT), or another one.
WriteFails(fallback, committed) ==
  LET n == writer.thought
  IN  /\ writer # NoWrite
      /\ committed => fallback /\ faults < MaxFaults
      /\ IF committed THEN Commit(n) ELSE UNCHANGED <<rows, pending>>
      /\ unseen' = IF committed THEN [unseen EXCEPT ![n] = @ + 1] ELSE unseen
      /\ lapsed' = (lapsed \/ committed)
      /\ faults' = IF committed THEN faults + 1 ELSE faults
      /\ writer' = NoWrite
      /\ CASE writer.waiter = "caller" ->
                /\ Answer(n, IF fallback THEN "fallback" ELSE "error")
                /\ UNCHANGED <<flush, step>>
           [] writer.waiter = "flush" -> FlushStops /\ UNCHANGED call
           [] writer.waiter = "nobody" -> UNCHANGED <<call, flush, step>>
      /\ UNCHANGED <<journalVars, ingest, working, outbox, overflowed>>

\* Five seconds have passed: the waiter goes on, the thread keeps the slot.
WaitTimesOut ==
  /\ writer # NoWrite /\ writer.waiter # "nobody" /\ faults < MaxFaults
  /\ writer' = [writer EXCEPT !.waiter = "nobody"]
  /\ IF writer.waiter = "caller"
     THEN Answer(writer.thought, "fallback") /\ UNCHANGED <<flush, step>>
     ELSE FlushStops /\ UNCHANGED call
  /\ faults' = faults + 1
  /\ UNCHANGED <<pending, journalVars, ingest, working, lapsed, rows, outbox, overflowed, unseen>>

----------------------------------------------------------------------------
(* The end of a call *)

\* enqueue_record_thought_outbox_entry: the oldest entries over the limit go.
Queue(n) ==
  LET grown == Append(outbox, n)
      excess == IF Len(grown) > MaxOutbox THEN Len(grown) - MaxOutbox ELSE 0
  IN  /\ call[n] = "fallback"
      /\ outbox' = SubSeq(grown, excess + 1, Len(grown))
      /\ overflowed' = overflowed \cup {grown[i] : i \in 1..excess}
      /\ Answer(n, "recorded")
      /\ UNCHANGED <<scheduleVars, rows, writer, flush, unseen, faults>>

\* The cache database fails too: the error of the write is raised.
QueueFails(n) ==
  /\ call[n] = "fallback"
  /\ Answer(n, "error")
  /\ UNCHANGED <<scheduleVars, rows, writer, outbox, flush, overflowed, unseen, faults>>

\* _schedule_record_thought_follow_up has returned or raised.
CallReturns(n) ==
  /\ call[n] = "follow" /\ step[n].at \in {"done", "raised"}
  /\ Answer(n, IF step[n].at = "done" THEN "recorded" ELSE "error")
  /\ Leave(n, "off")
  /\ UNCHANGED <<pending, journalVars, ingest, working, lapsed, rows, writer, outbox, flush,
                 overflowed, unseen, faults>>

----------------------------------------------------------------------------
(* flush_record_thought_writeback_outbox, every five seconds *)

FlushList ==
  /\ flush.at = "sleep" /\ outbox # <<>>
  /\ flush' = [Asleep EXCEPT !.at = "next",
                 !.list = SubSeq(outbox, 1, IF Len(outbox) < FlushLimit THEN Len(outbox)
                                                                        ELSE FlushLimit)]
  /\ UNCHANGED <<scheduleVars, rows, call, writer, outbox, overflowed, unseen, faults>>

\* Mutant of FlushNext: the entry is taken out of the outbox before it is written.
FlushNextTakes ==
  /\ flush.at = "next"
  /\ IF flush.list # <<>> /\ writer = NoWrite
     THEN /\ writer' = [thought |-> Head(flush.list), waiter |-> "flush"]
          /\ flush' = [flush EXCEPT !.at = "writing"]
          /\ outbox' = SelectSeq(outbox, LAMBDA m : m # Head(flush.list))
          /\ UNCHANGED step
     ELSE FlushStops /\ UNCHANGED <<writer, outbox>>
  /\ UNCHANGED <<pending, journalVars, ingest, working, lapsed, rows, call, overflowed, unseen, faults>>

\* The next entry: the slot is free, or the flush stops.
FlushNext ==
  /\ flush.at = "next"
  /\ IF flush.list # <<>> /\ writer = NoWrite
     THEN /\ writer' = [thought |-> Head(flush.list), waiter |-> "flush"]
          /\ flush' = [flush EXCEPT !.at = "writing"]
          /\ UNCHANGED step
     ELSE FlushStops /\ UNCHANGED writer
  /\ UNCHANGED <<pending, journalVars, ingest, working, lapsed, rows, call, outbox, overflowed,
                 unseen, faults>>

\* delete_record_thought_outbox_entries: the row with this id, unless the limit
\* of the outbox has deleted it meanwhile.
DeleteEntry(n) ==
  \/ \E i \in 1..Len(outbox) : outbox[i] = n /\ outbox' = RemoveAt(outbox, i)
  \/ n \notin ToSet(outbox) /\ UNCHANGED outbox

\* The entry is written and its outbox row deleted; an error of that statement
\* is only logged, and the entry is flushed again later.
FlushDelete(works) ==
  LET n == Head(flush.list)
  IN  /\ flush.at = "delete"
      /\ IF works
         THEN DeleteEntry(n) /\ UNCHANGED <<unseen, faults>>
         ELSE /\ faults < MaxFaults
              /\ faults' = faults + 1
              /\ unseen' = [unseen EXCEPT ![n] = @ + 1]
              /\ UNCHANGED outbox
      /\ flush' = [flush EXCEPT !.at = "next", !.list = Tail(@), !.flushed = TRUE]
      /\ UNCHANGED <<scheduleVars, rows, call, writer, overflowed>>

FlushReturns ==
  /\ flush.at = "follow" /\ step[Flusher].at \in {"done", "raised"}
  /\ flush' = Asleep
  /\ Leave(Flusher, "off")
  /\ UNCHANGED <<pending, journalVars, ingest, working, lapsed, rows, call, writer, outbox,
                 overflowed, unseen, faults>>

----------------------------------------------------------------------------
\* Mutant of Crash: the daemon starts without scheduling what is pending.
CrashNoBoot ==
  LET n == Head(flush.list)
  IN  /\ faults < MaxFaults
      /\ faults' = faults + 1
      /\ call' = [m \in Thought |-> IF call[m] \in {"writing", "fallback", "follow"}
                                    THEN "error" ELSE call[m]]
      /\ unseen' = IF flush.at = "delete" THEN [unseen EXCEPT ![n] = @ + 1] ELSE unseen
      /\ writer' = NoWrite
      /\ flush' = Asleep
      /\ step' = [p \in Scheduler |-> Off]
      /\ working' = {}
      /\ UNCHANGED <<pending, journalVars, ingest, lapsed, rows, outbox, overflowed>>

\* The daemon dies and comes back: bootstrap_background_tasks schedules.
Crash ==
  LET n == Head(flush.list)
  IN  /\ faults < MaxFaults
      /\ faults' = faults + 1
      /\ call' = [m \in Thought |-> IF call[m] \in {"writing", "fallback", "follow"}
                                    THEN "error" ELSE call[m]]
      /\ unseen' = IF flush.at = "delete" THEN [unseen EXCEPT ![n] = @ + 1] ELSE unseen
      /\ writer' = NoWrite
      /\ flush' = Asleep
      /\ step' = [p \in Scheduler |-> IF p = Boot THEN Begun ELSE Off]
      /\ working' = {}
      /\ UNCHANGED <<pending, journalVars, ingest, lapsed, rows, outbox, overflowed>>

RecordNext ==
  \/ \E n \in Thought : Record(n) \/ Queue(n) \/ QueueFails(n) \/ CallReturns(n)
  \/ WriteCommits \/ WaitTimesOut
  \/ \E fallback, committed \in BOOLEAN : WriteFails(fallback, committed)
  \/ FlushList \/ FlushNext \/ FlushReturns
  \/ \E works \in BOOLEAN : FlushDelete(works)
  \/ Crash

Next == \/ RecordNext
        \/ ScheduleNext /\ UNCHANGED recordVars

Spec == Init /\ [][Next]_vars

\* Threads and loops go on.  Of the outside world it is assumed that a write
\* does not hang for ever and that the journal is not out of reach for ever.
Fairness ==
  /\ \A p \in Scheduler : WF_vars(Schedule(p) /\ UNCHANGED recordVars)
  /\ \A n \in Thought : WF_vars(Queue(n) \/ QueueFails(n) \/ CallReturns(n))
  /\ WF_vars(FlushList \/ FlushNext \/ FlushDelete(TRUE) \/ FlushReturns)
  /\ WF_vars(WriteCommits \/ WriteFails(TRUE, FALSE))
  /\ SF_vars(WriteCommits /\ writer.waiter = "flush")

FairSpec == Spec /\ Fairness

----------------------------------------------------------------------------
(* Properties *)

\* The journal rows, the outbox, the slot and the loops have their types.
RecordTypeOK ==
  /\ ScheduleTypeOK
  /\ rows \in [Thought -> Nat]
  /\ call \in [Thought -> {"none", "writing", "fallback", "follow", "recorded", "error"}]
  /\ writer \in Write \cup {NoWrite}
  /\ outbox \in Seq(Thought) /\ Len(outbox) <= MaxOutbox
  /\ flush \in Flush
  /\ overflowed \subseteq Thought
  /\ unseen \in [Thought -> Nat]
  /\ faults \in 0..MaxFaults

\* A thought whose caller was told "recorded" is in the journal or in the
\* outbox, through timeouts, late threads, failing deletes and crashes of the
\* flush; only the outbox limit may have dropped it, never a flush.
AcknowledgedKept ==
  \A n \in Thought :
    call[n] = "recorded" => rows[n] > 0 \/ n \in ToSet(outbox) \cup overflowed

\* A thought gets a second row only when the first one was not noticed (a write
\* committed that its waiter had given up, or the flush could not delete the
\* entry it had written) and was used and purged before the outbox was flushed
\* again: until then the lookup of record_with_timestamp finds it.
DuplicatesExplained ==
  \A n \in Thought : /\ rows[n] <= 1 + unseen[n]
                     /\ rows[n] > 1 => n \in purged

\* Someone has written rows and will schedule an ingest for them.
AboutToSchedule ==
  \/ \E p \in Scheduler : step[p].at \in Active
  \/ flush.at = "delete" \/ flush.flushed

\* No thought waits in the journal without an ingest task that is open or
\* about to be scheduled, although counting, looking and inserting are
\* separate transactions and the running task may already have read the
\* journal: only a schedule that was lost, or a sweep that gave back what a
\* closed task had claimed, may leave it so.
PendingHasTask ==
  pending # {} /\ ~lapsed => OpenTasks # {} \/ AboutToSchedule

\* The outbox is empty again and again: a write that hangs in the only slot, an
\* entry whose delete failed and a crash in a flush delay the flush and do not
\* stop it.
OutboxDrains == []<>(outbox = <<>>)
============================================================================
