--------------------------- MODULE BufferedWriter ---------------------------
(***************************************************************************)
(* The write-behind buffer of storage/buffered_writer.py: any number of    *)
(* caller threads and one worker thread on one threading.Condition.  The   *)
(* retrieval telemetry, the runtime log and the last-surfaced times of the *)
(* Postgres repository go through it.                                      *)
(*                                                                         *)
(* One step is one lock section: from the acquisition of the condition to  *)
(* its release or to the next wait().  `asleep` is the wait set of the     *)
(* condition: notify_all empties it, a wait with a timeout may also end by *)
(* itself.  write_batch (a database write) runs outside the lock.          *)
(***************************************************************************)
EXTENDS Integers, Sequences, FiniteSets

CONSTANTS
  Caller,         \* the threads that call write_many, flush and close
  Worker,         \* the thread that runs _run
  Item,           \* what is written, numbered; every accepted item is distinct
  MaxWrite,       \* bound: the most items of one write_many
  LowWatermarks,  \* the values of low_watermark considered
  HighWatermark,
  MaxQueueSize,   \* a number, or Unbounded for None
  Unbounded,
  FlushInterval   \* flush_interval_seconds; only zero or not matters

ASSUME ThreadAssumption == Worker \notin Caller
ASSUME WatermarkAssumption ==
  /\ LowWatermarks \subseteq Nat \ {0}
  /\ HighWatermark \in Nat \ {0}
  /\ \A n \in LowWatermarks : n <= HighWatermark
ASSUME SizeAssumption ==
  /\ Unbounded \notin Nat
  /\ \/ MaxQueueSize = Unbounded
     \/ MaxQueueSize \in Nat /\ MaxQueueSize >= HighWatermark
ASSUME IntervalAssumption == FlushInterval \in Nat /\ MaxWrite \in Nat

VARIABLES
  low,            \* _low_watermark, an argument of the constructor
  pending,        \* _pending
  inflight,       \* _inflight_batches
  flushRequested, \* _flush_requested
  closed,         \* _closed
  workerError,    \* _worker_error is not None
  asleep,         \* the threads waiting on _condition
  worker,         \* where the worker is
  batch,          \* the batch the worker took and has not finished writing
  call,           \* what each caller is blocked in, or "idle"
  offer           \* the items of the write_many a caller is blocked in

\* History of the calls, for the properties.
VARIABLES
  accepted,       \* the items write_many took, in order
  written,        \* the items write_batch wrote, in order
  lost,           \* the batch whose write_batch raised
  mark,           \* Len(accepted) when the caller's last flush began
  result          \* how the caller's last call ended

lockVars == <<low, pending, inflight, flushRequested, closed, workerError>>
history == <<accepted, written, lost, mark>>
writerVars == <<lockVars, asleep, worker, batch, call, offer, history, result>>

WorkerState ==
  {"take", "wait", "doze", "write", "release", "failing", "report", "done"}
CallState == {"idle", "writing", "flushing", "flushingUntil", "joining"}
Flushing == {"flushing", "flushingUntil"}
Result == {"none", "accepted", "flushed", "drained", "wasClosed", "closed",
           "failed", "timeout"}

\* Mutant: batches being written do not count.
BusyPendingOnly == pending # <<>>

Busy == pending # <<>> \/ inflight > 0
Idle(c) == call[c] = "idle"
NotifyAll == asleep' = {}

\* The call of c ends with r.
Return(c, r) ==
  /\ call' = [call EXCEPT ![c] = "idle"]
  /\ offer' = [offer EXCEPT ![c] = <<>>]
  /\ result' = [result EXCEPT ![c] = r]

\* c releases the lock in _condition.wait, inside the call op.
Wait(c, op, items) ==
  /\ call' = [call EXCEPT ![c] = op]
  /\ offer' = [offer EXCEPT ![c] = items]
  /\ result' = [result EXCEPT ![c] = "none"]

----------------------------------------------------------------------------
(* write and write_many *)

\* Mutant: room for one item is taken for room for all of them.
FitsOne(items) == MaxQueueSize # Unbounded => Len(pending) < MaxQueueSize

Fits(items) ==
  MaxQueueSize # Unbounded => Len(pending) + Len(items) <= MaxQueueSize

\* Mutant: a queue that has just reached the low watermark wakes nobody.
AfterWriteAbove(c) ==
  IF Len(pending') > low THEN {} ELSE asleep \ {c}

\* Reaching the low watermark notifies every waiting thread.
AfterWrite(c) ==
  IF Len(pending') >= low THEN {} ELSE asleep \ {c}

\* The body of the loop of write_many and what follows it; the items fit, or
\* the writer waits for the worker to make room.
TryWrite(c, items) ==
  /\ UNCHANGED <<low, inflight, flushRequested, closed, workerError, worker,
                 batch, written, lost, mark>>
  /\ \/ /\ closed
        /\ Return(c, "closed")
        /\ asleep' = asleep \ {c}
        /\ UNCHANGED <<pending, accepted>>
     \/ /\ ~closed /\ workerError
        /\ Return(c, "failed")
        /\ asleep' = asleep \ {c}
        /\ UNCHANGED <<pending, accepted>>
     \/ /\ ~closed /\ ~workerError /\ Fits(items)
        /\ pending' = pending \o items
        /\ accepted' = accepted \o items
        /\ asleep' = AfterWrite(c)
        /\ Return(c, "accepted")
     \/ /\ ~closed /\ ~workerError /\ ~Fits(items)
        /\ Wait(c, "writing", items)
        /\ asleep' = asleep \cup {c}
        /\ UNCHANGED <<pending, accepted>>

WriteMany(c, items) == Idle(c) /\ items # <<>> /\ TryWrite(c, items)

\* wait(timeout=flush_interval or None): a notification or the timeout.
WriteWakes(c) ==
  /\ call[c] = "writing"
  /\ c \notin asleep \/ FlushInterval > 0
  /\ TryWrite(c, offer[c])

----------------------------------------------------------------------------
(* flush *)

\* op is "flushingUntil" for a flush with timeout_seconds.
Flush(c, op) ==
  /\ Idle(c)
  /\ mark' = [mark EXCEPT ![c] = Len(accepted)]
  /\ UNCHANGED <<low, pending, inflight, closed, workerError, worker, batch,
                 accepted, written, lost>>
  /\ \/ /\ workerError
        /\ Return(c, "failed")
        /\ UNCHANGED <<flushRequested, asleep>>
     \/ /\ ~workerError /\ ~Busy
        /\ Return(c, "flushed")
        /\ UNCHANGED <<flushRequested, asleep>>
     \/ /\ ~workerError /\ Busy
        /\ flushRequested' = TRUE
        /\ asleep' = {c}
        /\ Wait(c, op, <<>>)

FlushWakes(c) ==
  /\ call[c] \in Flushing /\ c \notin asleep
  /\ UNCHANGED <<lockVars, worker, batch, history>>
  /\ \/ /\ workerError
        /\ Return(c, "failed")
        /\ UNCHANGED asleep
     \/ /\ ~workerError /\ ~Busy
        /\ Return(c, "flushed")
        /\ UNCHANGED asleep
     \/ /\ ~workerError /\ Busy
        /\ asleep' = asleep \cup {c}
        /\ UNCHANGED <<call, offer, result>>

\* The deadline has passed when the loop of flush is evaluated.
FlushTimesOut(c) ==
  /\ call[c] = "flushingUntil"
  /\ Busy /\ ~workerError
  /\ Return(c, "timeout")
  /\ asleep' = asleep \ {c}
  /\ UNCHANGED <<lockVars, worker, batch, history>>

----------------------------------------------------------------------------
(* close *)

\* Only the first close waits for the worker.
Close(c) ==
  /\ Idle(c)
  /\ UNCHANGED <<low, pending, inflight, workerError, worker, batch, history>>
  /\ \/ /\ closed
        /\ Return(c, "wasClosed")
        /\ UNCHANGED <<flushRequested, closed, asleep>>
     \/ /\ ~closed
        /\ flushRequested' = TRUE
        /\ closed' = TRUE
        /\ NotifyAll
        /\ Wait(c, "joining", <<>>)

\* worker.join() returned.
CloseReturns(c) ==
  /\ call[c] = "joining" /\ worker = "done"
  /\ Return(c, IF workerError THEN "failed" ELSE "drained")
  /\ UNCHANGED <<lockVars, asleep, worker, batch, history>>

----------------------------------------------------------------------------
(* _run and _take_batch *)

\* Mutant: the newest items are taken first.
TakeNewest ==
  LET n == IF Len(pending) < HighWatermark THEN Len(pending) ELSE HighWatermark
      m == Len(pending) - n
  IN /\ batch' = SubSeq(pending, m + 1, Len(pending))
     /\ pending' = SubSeq(pending, 1, m)
     /\ inflight' = inflight + 1
     /\ flushRequested' = (flushRequested /\ pending' # <<>>)
     /\ NotifyAll
     /\ worker' = "write"

Take ==
  LET n == IF Len(pending) < HighWatermark THEN Len(pending) ELSE HighWatermark
  IN /\ batch' = SubSeq(pending, 1, n)
     /\ pending' = SubSeq(pending, n + 1, Len(pending))
     /\ inflight' = inflight + 1
     /\ flushRequested' = (flushRequested /\ pending' # <<>>)
     /\ NotifyAll
     /\ worker' = "write"

Due ==
  \/ flushRequested
  \/ Len(pending) >= low
  \/ FlushInterval = 0

\* One turn of the loop of _take_batch.
TakeBatch ==
  /\ worker = "take"
  /\ UNCHANGED <<low, closed, workerError, call, offer, history, result>>
  /\ \/ /\ closed /\ ~Busy
        /\ worker' = "done"
        /\ UNCHANGED <<pending, inflight, flushRequested, batch, asleep>>
     \/ pending # <<>> /\ Due /\ Take
     \/ /\ pending # <<>> /\ ~Due
        /\ worker' = "doze"
        /\ asleep' = asleep \cup {Worker}
        /\ UNCHANGED <<pending, inflight, flushRequested, batch>>
     \/ /\ pending = <<>> /\ ~(closed /\ ~Busy)
        /\ worker' = "wait"
        /\ asleep' = asleep \cup {Worker}
        /\ UNCHANGED <<pending, inflight, flushRequested, batch>>

\* wait() with no timeout returns: the loop starts again.
WaitEnds ==
  /\ worker = "wait" /\ Worker \notin asleep
  /\ worker' = "take"
  /\ UNCHANGED <<lockVars, asleep, batch, call, offer, history, result>>

\* wait(timeout=flush_interval) returns, notified or not.
DozeEnds ==
  /\ worker = "doze"
  /\ IF pending # <<>>
     THEN Take
     ELSE /\ worker' = "take"
          /\ asleep' = asleep \ {Worker}
          /\ UNCHANGED <<pending, inflight, flushRequested, batch>>
  /\ UNCHANGED <<low, closed, workerError, call, offer, history, result>>

\* write_batch returned, or raised: the rows of the batch are not stored.
WriteBatch ==
  /\ worker = "write"
  /\ \/ /\ written' = written \o batch
        /\ worker' = "release"
        /\ UNCHANGED lost
     \/ /\ lost' = batch
        /\ worker' = "failing"
        /\ UNCHANGED written
  /\ batch' = <<>>
  /\ UNCHANGED <<lockVars, asleep, call, offer, accepted, mark, result>>

\* Mutant: the end of a batch is not notified.
ReleaseSilently ==
  /\ worker \in {"release", "failing"}
  /\ inflight' = inflight - 1
  /\ worker' = IF worker = "release" THEN "take" ELSE "report"
  /\ UNCHANGED <<low, pending, flushRequested, closed, workerError, asleep, batch,
                 call, offer, history, result>>

\* The finally clause, with or without an exception on its way.
Release ==
  /\ worker \in {"release", "failing"}
  /\ inflight' = inflight - 1
  /\ NotifyAll
  /\ worker' = IF worker = "release" THEN "take" ELSE "report"
  /\ UNCHANGED <<low, pending, flushRequested, closed, workerError, batch, call,
                 offer, history, result>>

\* Mutant: the failure is logged and not kept.
ReportErrorLogsOnly ==
  /\ worker = "report"
  /\ NotifyAll
  /\ worker' = "done"
  /\ UNCHANGED <<lockVars, batch, call, offer, history, result>>

\* The except clause: a second lock section.
ReportError ==
  /\ worker = "report"
  /\ workerError' = TRUE
  /\ NotifyAll
  /\ worker' = "done"
  /\ UNCHANGED <<low, pending, inflight, flushRequested, closed, batch, call,
                 offer, history, result>>

----------------------------------------------------------------------------
WriterInit ==
  /\ low \in LowWatermarks
  /\ pending = <<>> /\ inflight = 0
  /\ flushRequested = FALSE /\ closed = FALSE /\ workerError = FALSE
  /\ asleep = {} /\ worker = "take" /\ batch = <<>>
  /\ call = [c \in Caller |-> "idle"]
  /\ offer = [c \in Caller |-> <<>>]
  /\ accepted = <<>> /\ written = <<>> /\ lost = <<>>
  /\ mark = [c \in Caller |-> 0]
  /\ result = [c \in Caller |-> "none"]

\* The items a caller may still offer, so that every item is offered once.
Unused == {i \in Item : \A k \in DOMAIN accepted : accepted[k] # i} \
          {i \in Item : \E c \in Caller : \E k \in DOMAIN offer[c] : offer[c][k] = i}

\* The next items, up to MaxWrite: items are numbered in the order of the offers.
Batches(S) ==
  UNION {{s \in [1..n -> S] : \A i \in 1..n : Cardinality({k \in S : k < s[i]}) = i - 1}
         : n \in 1..MaxWrite}

CallerSteps(c) ==
  \/ \E items \in Batches(Unused) : WriteMany(c, items)
  \/ \E op \in Flushing : Flush(c, op)
  \/ Close(c)

WorkerSteps ==
  TakeBatch \/ WaitEnds \/ DozeEnds \/ WriteBatch \/ Release \/ ReportError

Resumes(c) == WriteWakes(c) \/ FlushWakes(c) \/ CloseReturns(c)

WriterNext ==
  \/ \E c \in Caller : CallerSteps(c) \/ Resumes(c) \/ FlushTimesOut(c)
  \/ WorkerSteps

BufferSpec == WriterInit /\ [][WriterNext]_writerVars

\* A thread that can run does, and a database write ends one way or the other.
\* Nothing makes callers call.
FairBufferSpec ==
  /\ BufferSpec
  /\ WF_writerVars(WorkerSteps)
  /\ \A c \in Caller : WF_writerVars(Resumes(c))

----------------------------------------------------------------------------
(* Properties *)

\* The variables have their types.
BufferTypeOK ==
  /\ low \in LowWatermarks
  /\ pending \in Seq(Item) /\ batch \in Seq(Item)
  /\ inflight \in {0, 1}
  /\ flushRequested \in BOOLEAN /\ closed \in BOOLEAN /\ workerError \in BOOLEAN
  /\ asleep \subseteq Caller \cup {Worker}
  /\ worker \in WorkerState
  /\ call \in [Caller -> CallState]
  /\ offer \in [Caller -> Seq(Item)]
  /\ accepted \in Seq(Item) /\ written \in Seq(Item) /\ lost \in Seq(Item)
  /\ mark \in [Caller -> Nat]
  /\ result \in [Caller -> Result]

\* Whatever the threads do, an accepted item is written once and in the order
\* of acceptance, is in the one batch whose write_batch raised, or is still on
\* its way; none is dropped, duplicated or overtaken.
DeliveredInOrder == accepted = written \o lost \o batch \o pending

\* When flush returns normally, every item that write_many had accepted before
\* the call has been given to write_batch and write_batch has ended.
FlushWaitsForItsItems ==
  \A c \in Caller :
    result[c] = "flushed" => Len(written) + Len(lost) >= mark[c]

\* When the first close returns normally, everything ever accepted has been
\* written: a failed batch or a race with a writer is always reported.
CloseIsTruthful ==
  \A c \in Caller : result[c] = "drained" => written = accepted

\* max_queue_size is never exceeded, however many blocked writers one
\* notify_all releases.
QueueBounded == MaxQueueSize # Unbounded => Len(pending) <= MaxQueueSize

\* With the low watermark of 1 that every store passes, every call returns: no
\* writer, flush or close waits for a notification that was given before it
\* slept, nor for a worker that has failed.
EveryCallReturns ==
  \A c \in Caller : (low = 1 /\ call[c] # "idle") ~> (call[c] = "idle")

\* Once the low watermark is reached the queue is emptied without any flush,
\* what is left below the watermark included, unless a batch failed and the
\* worker ended.
ItemsDoNotLinger ==
  (Len(pending) >= low) ~> (pending = <<>> \/ workerError)
=============================================================================
