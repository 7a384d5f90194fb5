------------------------ MODULE BufferedWriterProofs ------------------------
(***************************************************************************)
(* The buffered writer neither loses, duplicates nor reorders items, and   *)
(* what flush and close report of them is right, for every number of       *)
(* threads and items and every choice of watermarks and queue size.        *)
(***************************************************************************)
EXTENDS BufferedWriter, SequenceTheorems, TLAPS

\* The stages of a batch, and what the end of the worker means.
Stages ==
  /\ worker # "write" => batch = <<>>
  /\ inflight = IF worker \in {"write", "release", "failing"} THEN 1 ELSE 0
  /\ lost # <<>> => worker \in {"failing", "report", "done"}
  /\ workerError => worker = "done"
  /\ worker = "done" => workerError \/ (closed /\ pending = <<>> /\ lost = <<>>)

Marks ==
  \A c \in Caller :
    /\ mark[c] <= Len(accepted)
    /\ result[c] = "drained" => worker = "done" /\ ~workerError

BufferInv ==
  /\ BufferTypeOK /\ Stages /\ Marks
  /\ DeliveredInOrder /\ FlushWaitsForItsItems /\ QueueBounded

----------------------------------------------------------------------------
(* The type invariant in three parts *)

SeqTypes ==
  /\ pending \in Seq(Item) /\ batch \in Seq(Item) /\ accepted \in Seq(Item)
  /\ written \in Seq(Item) /\ lost \in Seq(Item)

LockTypes ==
  /\ low \in LowWatermarks
  /\ inflight \in {0, 1}
  /\ flushRequested \in BOOLEAN /\ closed \in BOOLEAN /\ workerError \in BOOLEAN
  /\ asleep \subseteq Caller \cup {Worker}
  /\ worker \in WorkerState

CallTypes ==
  /\ call \in [Caller -> CallState]
  /\ offer \in [Caller -> Seq(Item)]
  /\ mark \in [Caller -> Nat]
  /\ result \in [Caller -> Result]

LEMMA TypeParts == BufferTypeOK <=> SeqTypes /\ LockTypes /\ CallTypes
  BY DEF BufferTypeOK, SeqTypes, LockTypes, CallTypes

LEMMA TypePartsNext == BufferTypeOK' <=> SeqTypes' /\ LockTypes' /\ CallTypes'
  BY DEF BufferTypeOK, SeqTypes, LockTypes, CallTypes

----------------------------------------------------------------------------
(* Lemmas on sequences *)

LEMMA EmptyItems == <<>> \in Seq(Item)
  OBVIOUS

\* The facts of the library, for sequences of items.
LEMMA ItemSeqs ==
  /\ <<>> \in Seq(Item) /\ Len(<<>>) = 0
  /\ \A s \in Seq(Item) : Len(s) \in Nat /\ s \o <<>> = s
  /\ \A s, t \in Seq(Item) :
       s \o t \in Seq(Item) /\ Len(s \o t) = Len(s) + Len(t)
  /\ \A s, t, u \in Seq(Item) : (s \o t) \o u = s \o (t \o u)
  <1>1. <<>> \in Seq(Item) /\ Len(<<>>) = 0 OBVIOUS
  <1>2. ASSUME NEW s \in Seq(Item) PROVE Len(s) \in Nat /\ s \o <<>> = s
    BY ConcatEmptySeq, LenProperties
  <1>3. ASSUME NEW s \in Seq(Item), NEW t \in Seq(Item)
        PROVE  s \o t \in Seq(Item) /\ Len(s \o t) = Len(s) + Len(t)
    BY ConcatProperties
  <1>4. ASSUME NEW s \in Seq(Item), NEW t \in Seq(Item), NEW u \in Seq(Item)
        PROVE  (s \o t) \o u = s \o (t \o u)
    BY ConcatAssociative
  <1> QED BY <1>1, <1>2, <1>3, <1>4

\* Associativity alone, for the provers that know nothing else of \o.
LEMMA ItemAssoc == \A s, t, u \in Seq(Item) : (s \o t) \o u = s \o (t \o u)
  BY ItemSeqs

\* A batch moves from the head of the queue to the worker.
LEMMA MoveToThird ==
  ASSUME NEW a \in Seq(Item), NEW b \in Seq(Item), NEW d \in Seq(Item),
         NEW e \in Seq(Item)
  PROVE  a \o b \o <<>> \o (d \o e) = a \o b \o d \o e
  <1> DEFINE ab == a \o b
  <1>1. ab \in Seq(Item) BY ItemSeqs
  <1> HIDE DEF ab
  <1>2. ab \o <<>> = ab BY <1>1, ItemSeqs
  <1>3. (ab \o d) \o e = ab \o (d \o e) BY <1>1, ItemAssoc, Zenon
  <1> QED BY <1>2, <1>3 DEF ab

\* The batch of the worker is written, or lost.
LEMMA MoveToFront ==
  ASSUME NEW a \in Seq(Item), NEW c \in Seq(Item), NEW d \in Seq(Item)
  PROVE  /\ a \o <<>> \o c \o d = (a \o c) \o <<>> \o <<>> \o d
         /\ a \o <<>> \o c \o d = a \o c \o <<>> \o d
  <1>1. a \o c \in Seq(Item) BY ItemSeqs
  <1>2. (a \o c) \o <<>> = a \o c BY <1>1, ItemSeqs
  <1>3. a \o <<>> = a BY ItemSeqs
  <1> QED BY <1>2, <1>3

\* A queue is its first n items followed by the rest.
LEMMA SplitItems ==
  ASSUME NEW s \in Seq(Item), NEW n \in 0..Len(s)
  PROVE  SubSeq(s, 1, n) \o SubSeq(s, n + 1, Len(s)) = SubSeq(s, 1, Len(s))
  <1>1. Len(s) \in Nat BY ItemSeqs
  <1>2. 1 \in 1..Len(s) + 1 /\ n \in (1 - 1)..Len(s) /\ Len(s) \in n..Len(s)
    BY <1>1
  <1> QED BY <1>2, ConcatAdjacentSubSeq

\* The length of the history.
LEMMA LengthOfParts ==
  ASSUME NEW a \in Seq(Item), NEW b \in Seq(Item), NEW c \in Seq(Item),
         NEW d \in Seq(Item)
  PROVE  Len(a \o b \o c \o d) = Len(a) + Len(b) + Len(c) + Len(d)
  <1>1. a \o b \in Seq(Item) /\ Len(a \o b) = Len(a) + Len(b)
    BY ItemSeqs
  <1>2. /\ (a \o b) \o c \in Seq(Item)
        /\ Len((a \o b) \o c) = Len(a) + Len(b) + Len(c)
    BY <1>1, ItemSeqs
  <1> QED BY <1>2, ItemSeqs

\* What write_many is called with.
LEMMA BatchType ==
  ASSUME NEW items \in Batches(Unused)
  PROVE  items \in Seq(Item)
  <1>1. PICK n \in 1..MaxWrite : items \in [1..n -> Unused]
    BY DEF Batches
  <1>2. n \in Nat BY IntervalAssumption
  <1>3. items \in [1..n -> Item] BY <1>1 DEF Unused
  <1> QED BY <1>2, <1>3

----------------------------------------------------------------------------
(* The steps *)

LEMMA InitOK == WriterInit => BufferInv
  <1> SUFFICES ASSUME WriterInit PROVE BufferInv OBVIOUS
  <1> USE DEF WriterInit
  <1>1. BufferTypeOK
    <2>1. SeqTypes BY EmptyItems DEF SeqTypes
    <2>2. LockTypes BY DEF LockTypes, WorkerState
    <2>3. CallTypes BY EmptyItems DEF CallTypes, CallState, Result
    <2> QED BY <2>1, <2>2, <2>3, TypeParts
  <1>2. Stages /\ Marks BY DEF Stages, Marks
  <1>3. DeliveredInOrder
    BY ItemSeqs DEF DeliveredInOrder
  <1>4. FlushWaitsForItsItems /\ QueueBounded
    BY WatermarkAssumption, SizeAssumption DEF FlushWaitsForItsItems, QueueBounded
  <1> QED BY <1>1, <1>2, <1>3, <1>4 DEF BufferInv

LEMMA TryWriteOK ==
  ASSUME BufferInv, NEW c \in Caller, NEW items \in Seq(Item), TryWrite(c, items)
  PROVE  BufferInv'
  <1>0. (written \o lost \o batch \o pending) \o items
          = written \o lost \o batch \o (pending \o items)
    <2>1. /\ written \in Seq(Item) /\ lost \in Seq(Item) /\ batch \in Seq(Item)
          /\ pending \in Seq(Item)
      BY DEF BufferInv, BufferTypeOK
    <2>2. (written \o lost) \o batch \in Seq(Item)
      BY <2>1, ItemSeqs
    <2> QED BY <2>1, <2>2, ItemAssoc, Zenon
  <1> USE DEF BufferInv, TryWrite, Return, Wait, AfterWrite
  <1>1. pending \o items \in Seq(Item) /\ accepted \o items \in Seq(Item)
    BY ItemSeqs DEF BufferTypeOK
  <1>2. BufferTypeOK'
    <2>1. SeqTypes' BY <1>1, TypeParts DEF SeqTypes
    <2>2. LockTypes'
      <3>1. LockTypes BY TypeParts
      <3>2. asleep' \subseteq Caller \cup {Worker}
        BY <3>1 DEF LockTypes
      <3>3. UNCHANGED <<low, inflight, flushRequested, closed, workerError, worker>>
        OBVIOUS
      <3> HIDE DEF TryWrite, BufferInv
      <3> QED BY <3>1, <3>2, <3>3 DEF LockTypes
    <2>3. CallTypes'
      <3>1. CallTypes BY TypeParts
      <3>2. /\ mark' = mark
            /\ \E to \in {"idle", "writing"} : call' = [call EXCEPT ![c] = to]
            /\ \E its \in {<<>>, items} : offer' = [offer EXCEPT ![c] = its]
            /\ \E r \in {"closed", "failed", "accepted", "none"} :
                 result' = [result EXCEPT ![c] = r]
        OBVIOUS
      <3> HIDE DEF TryWrite, BufferInv
      <3>3. call' \in [Caller -> CallState]
        BY <3>1, <3>2 DEF CallTypes, CallState
      <3>4. offer' \in [Caller -> Seq(Item)]
        <4>1. PICK its \in {<<>>, items} : offer' = [offer EXCEPT ![c] = its]
          BY <3>2
        <4>2. its \in Seq(Item)
          BY <4>1, EmptyItems
        <4>3. offer \in [Caller -> Seq(Item)]
          BY <3>1 DEF CallTypes
        <4> QED BY <4>1, <4>2, <4>3, Zenon
      <3>5. result' \in [Caller -> Result]
        BY <3>1, <3>2 DEF CallTypes, Result
      <3> QED BY <3>1, <3>2, <3>3, <3>4, <3>5 DEF CallTypes
    <2> QED BY <2>1, <2>2, <2>3, TypePartsNext
  <1>3. Len(pending \o items) = Len(pending) + Len(items)
    BY ItemSeqs DEF BufferTypeOK
  <1>4. Len(accepted \o items) = Len(accepted) + Len(items)
    BY ItemSeqs DEF BufferTypeOK
  <1>5. Stages' BY DEF Stages
  <1>6. Marks'
    <2>1. Len(items) \in Nat /\ Len(accepted) \in Nat
      BY ItemSeqs DEF BufferTypeOK
    <2>2. Len(accepted) <= Len(accepted')
      BY <2>1, <1>4
    <2>3. Len(accepted') \in Nat
      BY <2>1, <1>4
    <2>4. \A d \in Caller : mark'[d] <= Len(accepted')
      BY <2>1, <2>2, <2>3 DEF Marks, BufferTypeOK
    <2>5. \A d \in Caller : result'[d] = "drained" => result[d] = "drained"
      BY DEF BufferTypeOK
    <2> QED BY <2>4, <2>5 DEF Marks
  <1>7. DeliveredInOrder'
    <2>3. UNCHANGED <<written, lost, batch>>
      OBVIOUS
    <2>4. CASE pending' = pending \o items /\ accepted' = accepted \o items
      BY <1>0, <2>3, <2>4 DEF DeliveredInOrder
    <2>5. CASE UNCHANGED <<pending, accepted>>
      BY <2>3, <2>5 DEF DeliveredInOrder
    <2> QED BY <2>4, <2>5
  <1>8. FlushWaitsForItsItems'
    BY DEF FlushWaitsForItsItems, BufferTypeOK
  <1>9. QueueBounded'
    BY <1>3 DEF QueueBounded, Fits, BufferTypeOK
  <1> QED BY <1>2, <1>5, <1>6, <1>7, <1>8, <1>9

\* A flush that finds nothing to wait for finds everything accepted so far
\* written or lost.
LEMMA NotBusy ==
  ASSUME BufferInv, ~Busy
  PROVE  Len(accepted) = Len(written) + Len(lost)
  <1>1. pending = <<>> /\ batch = <<>>
    BY DEF BufferInv, Busy, Stages
  <1>2. Len(accepted) = Len(written) + Len(lost) + Len(batch) + Len(pending)
    BY LengthOfParts DEF BufferInv, BufferTypeOK, DeliveredInOrder
  <1>3. Len(written) \in Nat /\ Len(lost) \in Nat
    BY ItemSeqs DEF BufferInv, BufferTypeOK
  <1> QED BY <1>1, <1>2, <1>3, ItemSeqs

LEMMA FlushOK ==
  ASSUME BufferInv, NEW c \in Caller, NEW op \in Flushing,
         Flush(c, op) \/ FlushWakes(c) \/ FlushTimesOut(c)
  PROVE  BufferInv'
  <1> USE DEF BufferInv, Flush, FlushWakes, FlushTimesOut, Return, Wait, lockVars,
            history
  <1>0. Len(accepted) \in Nat BY ItemSeqs DEF BufferTypeOK
  <1>1. BufferTypeOK'
    <2>1. SeqTypes' BY TypeParts DEF SeqTypes
    <2>2. LockTypes' BY TypeParts DEF LockTypes
    <2>3. CallTypes'
      BY <1>0, EmptyItems, TypeParts DEF CallTypes, CallState, Result, Flushing
    <2> QED BY <2>1, <2>2, <2>3, TypePartsNext
  <1>2. Stages' BY DEF Stages
  <1>3. Marks' BY <1>0 DEF Marks, BufferTypeOK
  <1>4. DeliveredInOrder' BY DEF DeliveredInOrder
  <1>5. FlushWaitsForItsItems'
    <2> SUFFICES ASSUME NEW d \in Caller, result'[d] = "flushed"
                 PROVE  Len(written) + Len(lost) >= mark'[d]
      BY DEF FlushWaitsForItsItems
    <2>1. mark'[d] = IF Flush(c, op) /\ d = c THEN Len(accepted) ELSE mark[d]
      BY DEF BufferTypeOK
    <2>2. CASE d = c
      <3>1. ~Busy \/ (result[d] = "flushed" /\ mark'[d] = mark[d])
        BY <2>2, TypeParts DEF CallTypes
      <3>2. mark'[d] <= Len(accepted) BY <2>1, <1>0 DEF Marks, BufferTypeOK
      <3>3. CASE ~Busy BY <3>2, <3>3, <1>0, NotBusy DEF BufferTypeOK
      <3>4. CASE result[d] = "flushed" /\ mark'[d] = mark[d]
        BY <3>4 DEF FlushWaitsForItsItems
      <3> QED BY <3>1, <3>3, <3>4
    <2>3. CASE d # c
      BY <2>3, <2>1 DEF FlushWaitsForItsItems, BufferTypeOK
    <2> QED BY <2>2, <2>3
  <1>6. QueueBounded' BY DEF QueueBounded
  <1> QED BY <1>1, <1>2, <1>3, <1>4, <1>5, <1>6

LEMMA CloseOK ==
  ASSUME BufferInv, NEW c \in Caller, Close(c) \/ CloseReturns(c)
  PROVE  BufferInv'
  <1> USE DEF BufferInv, Close, CloseReturns, Return, Wait, NotifyAll, lockVars,
            history
  <1>1. BufferTypeOK'
    <2>1. SeqTypes' BY TypeParts DEF SeqTypes
    <2>2. LockTypes' BY TypeParts DEF LockTypes
    <2>3. CallTypes' BY EmptyItems, TypeParts DEF CallTypes, CallState, Result
    <2> QED BY <2>1, <2>2, <2>3, TypePartsNext
  <1>2. Stages' BY DEF Stages
  <1>3. Marks' BY DEF Marks, BufferTypeOK
  <1>4. DeliveredInOrder' BY DEF DeliveredInOrder
  <1>5. FlushWaitsForItsItems' BY DEF FlushWaitsForItsItems, BufferTypeOK
  <1>6. QueueBounded' BY DEF QueueBounded
  <1> QED BY <1>1, <1>2, <1>3, <1>4, <1>5, <1>6

LEMMA TakeOK ==
  ASSUME BufferInv, worker \in {"take", "doze"}, pending # <<>>, Take,
         UNCHANGED <<low, closed, workerError, call, offer, history, result>>
  PROVE  BufferInv'
  <1> DEFINE n == IF Len(pending) < HighWatermark THEN Len(pending)
                  ELSE HighWatermark
  <1> USE DEF BufferInv, NotifyAll, history
  <1>1. pending \in Seq(Item) /\ Len(pending) \in Nat
    BY ItemSeqs DEF BufferTypeOK
  <1>2. n \in 0..Len(pending)
    BY <1>1, WatermarkAssumption
  <1>3. /\ SubSeq(pending, 1, n) \in Seq(Item)
        /\ SubSeq(pending, n + 1, Len(pending)) \in Seq(Item)
        /\ Len(SubSeq(pending, n + 1, Len(pending))) <= Len(pending)
    <2>1. \A i \in 1..n : pending[i] \in Item
      BY <1>1, <1>2, ElementOfSeq
    <2>2. \A i \in n + 1..Len(pending) : pending[i] \in Item
      BY <1>1, <1>2, ElementOfSeq
    <2> HIDE DEF n
    <2>3. SubSeq(pending, 1, n) \in Seq(Item)
      BY <2>1, <1>2, SubSeqProperties
    <2>4. /\ SubSeq(pending, n + 1, Len(pending)) \in Seq(Item)
          /\ Len(SubSeq(pending, n + 1, Len(pending))) =
               IF n + 1 <= Len(pending) THEN Len(pending) - (n + 1) + 1 ELSE 0
      BY <2>2, <1>1, <1>2, SubSeqProperties
    <2> QED BY <2>3, <2>4, <1>1, <1>2
  <1>4. SubSeq(pending, 1, n) \o SubSeq(pending, n + 1, Len(pending)) = pending
    <2> HIDE DEF n
    <2>1. SubSeq(pending, 1, n) \o SubSeq(pending, n + 1, Len(pending))
            = SubSeq(pending, 1, Len(pending))
      BY <1>1, <1>2, SplitItems
    <2> QED BY <2>1, <1>1, SubSeqFull
  <1>5. /\ batch' = SubSeq(pending, 1, n)
        /\ pending' = SubSeq(pending, n + 1, Len(pending))
        /\ inflight' = inflight + 1 /\ worker' = "write" /\ asleep' = {}
        /\ flushRequested' \in BOOLEAN
    BY DEF Take
  <1> HIDE DEF n
  <1>6. ~workerError /\ lost = <<>> /\ batch = <<>> /\ inflight = 0
    BY DEF Stages
  <1>7. BufferTypeOK' BY <1>3, <1>5, <1>6 DEF BufferTypeOK, WorkerState
  <1>8. Stages' BY <1>5, <1>6 DEF Stages
  <1>9. Marks' BY <1>5, <1>6 DEF Marks
  <1>10. DeliveredInOrder'
    <2>1. written \in Seq(Item) /\ lost \in Seq(Item) BY DEF BufferTypeOK
    <2>2. accepted = written \o lost \o <<>> \o (batch' \o pending')
      BY <1>4, <1>5, <1>6 DEF DeliveredInOrder
    <2>3. accepted = written \o lost \o batch' \o pending'
      <3>1. batch' \in Seq(Item) /\ pending' \in Seq(Item) BY <1>3, <1>5
      <3>2. ASSUME NEW b \in Seq(Item), NEW p \in Seq(Item)
            PROVE  written \o lost \o <<>> \o (b \o p) = written \o lost \o b \o p
        <4> HIDE DEF BufferInv
        <4> QED BY <2>1, MoveToThird
      <3> HIDE DEF BufferInv
      <3> QED BY <2>2, <3>1, <3>2, Zenon
    <2> QED BY <2>3 DEF DeliveredInOrder
  <1>11. FlushWaitsForItsItems' BY DEF FlushWaitsForItsItems
  <1>12. QueueBounded'
    BY <1>1, <1>3, <1>5, ItemSeqs, SizeAssumption DEF QueueBounded
  <1> QED BY <1>7, <1>8, <1>9, <1>10, <1>11, <1>12

LEMMA WriteBatchOK ==
  ASSUME BufferInv, WriteBatch
  PROVE  BufferInv'
  <1> USE DEF BufferInv, WriteBatch, lockVars
  <1>1. lost = <<>> /\ ~workerError BY DEF Stages
  <1>2. written \o batch \in Seq(Item) /\ Len(written \o batch) = Len(written) + Len(batch)
    BY ItemSeqs DEF BufferTypeOK
  <1>3. BufferTypeOK'
    <2>1. SeqTypes' BY <1>2, EmptyItems, TypeParts DEF SeqTypes
    <2>2. LockTypes' BY TypeParts DEF LockTypes, WorkerState
    <2>3. CallTypes' BY TypeParts DEF CallTypes
    <2> QED BY <2>1, <2>2, <2>3, TypePartsNext
  <1>4. Stages' BY <1>1 DEF Stages
  <1>5. Marks' BY DEF Marks
  <1>6. DeliveredInOrder'
    <2>1. written \in Seq(Item) /\ batch \in Seq(Item) /\ pending \in Seq(Item)
      BY DEF BufferTypeOK
    <2>2. /\ written \o <<>> \o batch \o pending
               = (written \o batch) \o <<>> \o <<>> \o pending
          /\ written \o <<>> \o batch \o pending
               = written \o batch \o <<>> \o pending
      BY <2>1, MoveToFront
    <2>3. accepted = written \o <<>> \o batch \o pending
      BY <1>1 DEF DeliveredInOrder
    <2>4. UNCHANGED <<accepted, pending>> /\ batch' = <<>>
      OBVIOUS
    <2>5. CASE written' = written \o batch /\ lost' = lost
      BY <1>1, <2>2, <2>3, <2>4, <2>5 DEF DeliveredInOrder
    <2>6. CASE lost' = batch /\ written' = written
      BY <2>2, <2>3, <2>4, <2>6 DEF DeliveredInOrder
    <2> QED BY <2>5, <2>6
  <1>7. FlushWaitsForItsItems'
    <2>1. Len(written') + Len(lost') >= Len(written) + Len(lost)
      BY <1>1, <1>2, ItemSeqs DEF BufferTypeOK
    <2>2. Len(written') + Len(lost') \in Nat /\ Len(written) + Len(lost) \in Nat
      BY <1>3, ItemSeqs DEF BufferTypeOK
    <2> QED BY <2>1, <2>2 DEF FlushWaitsForItsItems, BufferTypeOK
  <1>8. QueueBounded' BY DEF QueueBounded
  <1> QED BY <1>3, <1>4, <1>5, <1>6, <1>7, <1>8

\* The steps of the worker that move no item.
LEMMA WorkerOK ==
  ASSUME BufferInv, WorkerSteps
  PROVE  BufferInv'
  <1> USE DEF BufferInv, lockVars, history
  <1>1. ASSUME \/ TakeBatch /\ worker' # "write"
               \/ WaitEnds \/ Release \/ ReportError
               \/ DozeEnds /\ worker' # "write"
        PROVE  BufferInv'
    <2> USE DEF TakeBatch, WaitEnds, Release, ReportError, DozeEnds, Take,
              NotifyAll, Busy
    <2>0. UNCHANGED <<pending, batch, accepted, written, lost, mark, result>>
      BY <1>1
    <2>1. BufferTypeOK'
      <3>1. SeqTypes' BY <2>0, TypeParts DEF SeqTypes
      <3>2. LockTypes'
        <4>1. LockTypes BY TypeParts
        <4>2. inflight' \in {0, 1}
          BY <1>1, <4>1 DEF LockTypes, Stages
        <4>3. asleep' \subseteq Caller \cup {Worker}
          BY <1>1, <4>1 DEF LockTypes
        <4>4. worker' \in WorkerState
          BY <1>1 DEF WorkerState
        <4>6. low' \in LowWatermarks
          BY <1>1, <4>1 DEF LockTypes
        <4>5. /\ flushRequested' \in BOOLEAN /\ closed' \in BOOLEAN
              /\ workerError' \in BOOLEAN
          BY <1>1, <4>1 DEF LockTypes
        <4> QED BY <4>2, <4>3, <4>4, <4>5, <4>6 DEF LockTypes
      <3>3. CallTypes' BY <1>1, <2>0, TypeParts DEF CallTypes
      <3> QED BY <3>1, <3>2, <3>3, TypePartsNext
    <2>2. Stages' BY <1>1, <2>0 DEF Stages, BufferTypeOK
    <2>3. Marks' BY <1>1, <2>0 DEF Marks, Stages
    <2>4. DeliveredInOrder' BY <2>0 DEF DeliveredInOrder
    <2>5. FlushWaitsForItsItems' BY <2>0 DEF FlushWaitsForItsItems
    <2>6. QueueBounded' BY <2>0 DEF QueueBounded
    <2> QED BY <2>1, <2>2, <2>3, <2>4, <2>5, <2>6
  <1>2. CASE (TakeBatch \/ DozeEnds) /\ worker' = "write"
    <2>1. /\ worker \in {"take", "doze"} /\ pending # <<>> /\ Take
          /\ UNCHANGED <<low, closed, workerError, call, offer, history, result>>
      BY <1>2 DEF TakeBatch, DozeEnds
    <2> QED BY <2>1, TakeOK
  <1>3. CASE WriteBatch BY <1>3, WriteBatchOK
  <1> QED BY <1>1, <1>2, <1>3 DEF WorkerSteps

----------------------------------------------------------------------------
(* Theorems *)

\* BufferInv is inductive: it holds in every state the threads can reach.
THEOREM BufferInvariant == BufferSpec => []BufferInv
  <1>1. BufferInv /\ [WriterNext]_writerVars => BufferInv'
    <2> SUFFICES ASSUME BufferInv, [WriterNext]_writerVars PROVE BufferInv'
      OBVIOUS
    <2>1. CASE UNCHANGED writerVars
      BY <2>1 DEF writerVars, lockVars, history, BufferInv, BufferTypeOK, Stages,
           Marks, DeliveredInOrder, FlushWaitsForItsItems, QueueBounded
    <2>2. CASE WorkerSteps BY <2>2, WorkerOK
    <2>3. ASSUME NEW c \in Caller,
                 CallerSteps(c) \/ Resumes(c) \/ FlushTimesOut(c)
          PROVE  BufferInv'
      <3>1. ASSUME NEW items \in Batches(Unused), WriteMany(c, items)
            PROVE  BufferInv'
        BY <3>1, BatchType, TryWriteOK DEF WriteMany
      <3>2. CASE WriteWakes(c)
        <4>1. offer[c] \in Seq(Item) BY DEF BufferInv, BufferTypeOK
        <4> QED BY <3>2, <4>1, TryWriteOK DEF WriteWakes
      <3>3. ASSUME NEW op \in Flushing, Flush(c, op) PROVE BufferInv'
        BY <3>3, FlushOK
      <3>4. CASE FlushWakes(c) \/ FlushTimesOut(c)
        <4>1. "flushing" \in Flushing BY DEF Flushing
        <4> QED BY <3>4, <4>1, FlushOK
      <3>5. CASE Close(c) \/ CloseReturns(c) BY <3>5, CloseOK
      <3> QED BY <2>3, <3>1, <3>2, <3>3, <3>4, <3>5 DEF CallerSteps, Resumes
    <2> QED BY <2>1, <2>2, <2>3 DEF WriterNext
  <1> QED BY <1>1, InitOK, PTL DEF BufferSpec

\* For any number of threads: no accepted item is lost unreported by the
\* bookkeeping, duplicated or reordered.
THEOREM ItemsDeliveredInOrder == BufferSpec => []DeliveredInOrder
  <1>1. BufferInv => DeliveredInOrder BY DEF BufferInv
  <1> QED BY <1>1, BufferInvariant, PTL

\* For any number of threads: a flush that returns has waited for the items
\* accepted before it.
THEOREM FlushWaits == BufferSpec => []FlushWaitsForItsItems
  <1>1. BufferInv => FlushWaitsForItsItems BY DEF BufferInv
  <1> QED BY <1>1, BufferInvariant, PTL

\* For any number of threads: a close that returns normally has written
\* everything.
THEOREM CloseTellsTheTruth == BufferSpec => []CloseIsTruthful
  <1>1. BufferInv => CloseIsTruthful
    <2> SUFFICES ASSUME BufferInv, NEW c \in Caller, result[c] = "drained"
                 PROVE  written = accepted
      BY DEF CloseIsTruthful
    <2>1. lost = <<>> /\ batch = <<>> /\ pending = <<>>
      BY DEF BufferInv, Marks, Stages
    <2>2. written \in Seq(Item) BY DEF BufferInv, BufferTypeOK
    <2>3. accepted = written \o <<>> \o <<>> \o <<>>
      BY <2>1 DEF BufferInv, DeliveredInOrder
    <2> QED BY <2>2, <2>3, ItemSeqs
  <1> QED BY <1>1, BufferInvariant, PTL

\* For any number of blocked writers: the queue stays within max_queue_size.
THEOREM QueueStaysBounded == BufferSpec => []QueueBounded
  <1>1. BufferInv => QueueBounded BY DEF BufferInv
  <1> QED BY <1>1, BufferInvariant, PTL
=============================================================================
