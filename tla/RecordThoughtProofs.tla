------------------------ MODULE RecordThoughtProofs ------------------------
(***************************************************************************)
(* record_thought, the outbox and the schedule of ingest tasks, for any    *)
(* thoughts, any limits of outbox and flush, and any number of crashes and *)
(* late writes.                                                            *)
(***************************************************************************)
EXTENDS RecordThought, SequenceTheorems, TLAPS

----------------------------------------------------------------------------
(* The sequences of outbox and flush *)

\* No entry is there twice.
Distinct(s) == \A i, j \in 1..Len(s) : s[i] = s[j] => i = j

\* The first entry of a list and the rest.
LEMMA HeadAndTail ==
  ASSUME NEW S, NEW s \in Seq(S), s # <<>>
  PROVE  /\ Head(s) \in S /\ Head(s) \in ToSet(s)
         /\ Tail(s) \in Seq(S) /\ ToSet(Tail(s)) \subseteq ToSet(s)
         /\ Distinct(s) => Distinct(Tail(s)) /\ Head(s) \notin ToSet(Tail(s))
  <1>1. Len(s) \in Nat /\ Len(s) >= 1 /\ Head(s) = s[1] /\ DOMAIN s = 1..Len(s)
    BY EmptySeq, LenProperties
  <1>2. /\ Tail(s) \in Seq(S) /\ Len(Tail(s)) = Len(s) - 1
        /\ \A i \in 1..Len(Tail(s)) : Tail(s)[i] = s[i + 1]
    BY HeadTailProperties
  <1>3. DOMAIN Tail(s) = 1..(Len(s) - 1)
    BY <1>2, LenProperties
  <1>4. Head(s) \in S /\ Head(s) \in ToSet(s)
    BY <1>1, ElementOfSeq DEF ToSet
  <1>5. ToSet(Tail(s)) \subseteq ToSet(s)
    <2> SUFFICES ASSUME NEW i \in 1..(Len(s) - 1) PROVE Tail(s)[i] \in ToSet(s)
      BY <1>3 DEF ToSet
    <2> QED BY <1>1, <1>2 DEF ToSet
  <1>6. ASSUME Distinct(s) PROVE Distinct(Tail(s)) /\ Head(s) \notin ToSet(Tail(s))
    BY <1>1, <1>2, <1>3, <1>6 DEF Distinct, ToSet
  <1> QED BY <1>2, <1>4, <1>5, <1>6

\* The list without the entry at i.
LEMMA WithoutEntry ==
  ASSUME NEW S, NEW s \in Seq(S), NEW i \in 1..Len(s)
  PROVE  /\ RemoveAt(s, i) \in Seq(S) /\ Len(RemoveAt(s, i)) = Len(s) - 1
         /\ ToSet(RemoveAt(s, i)) \subseteq ToSet(s)
         /\ ToSet(s) \subseteq ToSet(RemoveAt(s, i)) \cup {s[i]}
         /\ Distinct(s) => Distinct(RemoveAt(s, i)) /\ s[i] \notin ToSet(RemoveAt(s, i))
  <1> DEFINE t == RemoveAt(s, i)
             a == SubSeq(s, 1, i - 1)
             b == SubSeq(s, i + 1, Len(s))
  <1>1. Len(s) \in Nat /\ DOMAIN s = 1..Len(s)
    BY LenProperties
  <1>2. /\ a \in Seq(S) /\ Len(a) = i - 1
        /\ \A k \in 1..(i - 1) : a[k] = s[k]
    BY <1>1, SubSeqProperties, ElementOfSeq
  <1>3. /\ b \in Seq(S) /\ Len(b) = Len(s) - i
        /\ \A k \in 1..(Len(s) - i) : b[k] = s[k + i]
    BY <1>1, SubSeqProperties, ElementOfSeq
  <1>4. /\ t \in Seq(S) /\ Len(t) = Len(s) - 1
        /\ \A k \in 1..(Len(s) - 1) : t[k] = IF k < i THEN s[k] ELSE s[k + 1]
    <2>1. /\ a \o b \in Seq(S) /\ Len(a \o b) = Len(a) + Len(b)
          /\ \A k \in 1..(Len(a) + Len(b)) :
               (a \o b)[k] = IF k <= Len(a) THEN a[k] ELSE b[k - Len(a)]
      BY <1>2, <1>3, ConcatProperties
    <2>2. t = a \o b
      BY DEF RemoveAt
    <2> HIDE DEF t, a, b
    <2>3. ASSUME NEW k \in 1..(Len(s) - 1)
          PROVE  t[k] = IF k < i THEN s[k] ELSE s[k + 1]
      <3>1. CASE k < i
        BY <1>1, <1>2, <1>3, <2>1, <2>2, <3>1
      <3>2. CASE ~(k < i)
        <4>1. k - (i - 1) \in 1..(Len(s) - i) /\ k - (i - 1) + i = k + 1
          BY <1>1, <3>2
        <4>2. k \in 1..(Len(a) + Len(b)) /\ ~(k <= Len(a)) /\ k - Len(a) = k - (i - 1)
          BY <1>1, <1>2, <1>3, <3>2
        <4>3. t[k] = b[k - (i - 1)]
          BY <2>1, <2>2, <4>2
        <4>4. b[k - (i - 1)] = s[k - (i - 1) + i]
          BY <1>3, <4>1
        <4> QED BY <3>2, <4>1, <4>3, <4>4
      <3> QED BY <3>1, <3>2
    <2>4. Len(t) = Len(s) - 1
      <3>1. Len(a) + Len(b) = Len(s) - 1
        BY <1>1, <1>2, <1>3
      <3> QED BY <2>1, <2>2, <3>1
    <2> QED BY <2>1, <2>2, <2>3, <2>4
  <1>5. DOMAIN t = 1..(Len(s) - 1)
    BY <1>4, LenProperties
  <1> HIDE DEF t, a, b
  <1>6. ToSet(t) \subseteq ToSet(s)
    <2> SUFFICES ASSUME NEW k \in 1..(Len(s) - 1) PROVE t[k] \in ToSet(s)
      BY <1>5 DEF ToSet
    <2>1. k \in 1..Len(s) /\ k + 1 \in 1..Len(s)
      BY <1>1
    <2> QED BY <1>1, <1>4, <2>1 DEF ToSet
  <1>7. ToSet(s) \subseteq ToSet(t) \cup {s[i]}
    <2> SUFFICES ASSUME NEW k \in 1..Len(s), k # i PROVE s[k] \in ToSet(t)
      BY <1>1 DEF ToSet
    <2>1. CASE k < i
      <3>1. k \in 1..(Len(s) - 1) /\ t[k] = s[k]
        BY <1>1, <1>4, <2>1
      <3> QED BY <1>5, <3>1 DEF ToSet
    <2>2. CASE k > i
      <3>1. k - 1 \in 1..(Len(s) - 1) /\ t[k - 1] = s[k]
        BY <1>1, <1>4, <2>2
      <3> QED BY <1>5, <3>1 DEF ToSet
    <2> QED BY <1>1, <2>1, <2>2
  <1>8. ASSUME Distinct(s) PROVE Distinct(t) /\ s[i] \notin ToSet(t)
    <2>1. Distinct(t)
      BY <1>1, <1>4, <1>8 DEF Distinct
    <2>2. \A k \in 1..(Len(s) - 1) : t[k] # s[i]
      BY <1>1, <1>4, <1>8 DEF Distinct
    <2> QED BY <1>5, <2>1, <2>2 DEF ToSet
  <1> QED BY <1>4, <1>6, <1>7, <1>8 DEF t

\* A part of the list in the same order.
LEMMA Part ==
  ASSUME NEW S, NEW s \in Seq(S), NEW m \in 1..(Len(s) + 1), NEW n \in (m - 1)..Len(s)
  PROVE  /\ SubSeq(s, m, n) \in Seq(S) /\ Len(SubSeq(s, m, n)) = n - m + 1
         /\ \A k \in 1..(n - m + 1) : SubSeq(s, m, n)[k] = s[m + k - 1]
         /\ ToSet(SubSeq(s, m, n)) = {s[i] : i \in m..n}
         /\ ToSet(SubSeq(s, m, n)) \subseteq ToSet(s)
         /\ Distinct(s) => Distinct(SubSeq(s, m, n))
  <1> DEFINE t == SubSeq(s, m, n)
  <1>1. Len(s) \in Nat /\ DOMAIN s = 1..Len(s)
    BY LenProperties
  <1>2. /\ t \in Seq(S) /\ Len(t) = n - m + 1
        /\ \A k \in 1..(n - m + 1) : t[k] = s[m + k - 1]
    BY <1>1, SubSeqProperties, ElementOfSeq
  <1>3. DOMAIN t = 1..(n - m + 1)
    BY <1>2, LenProperties
  <1> HIDE DEF t
  <1>4. ToSet(t) = {s[i] : i \in m..n}
    <2>1. ASSUME NEW k \in 1..(n - m + 1) PROVE t[k] \in {s[i] : i \in m..n}
      <3>1. m + k - 1 \in m..n
        BY <1>1
      <3> QED BY <1>2, <3>1
    <2>2. ASSUME NEW i \in m..n PROVE s[i] \in ToSet(t)
      <3>1. i - m + 1 \in 1..(n - m + 1) /\ m + (i - m + 1) - 1 = i
        BY <1>1
      <3> QED BY <1>2, <1>3, <3>1 DEF ToSet
    <2> QED BY <1>3, <2>1, <2>2 DEF ToSet
  <1>5. m..n \subseteq 1..Len(s)
    BY <1>1
  <1>6. ToSet(t) \subseteq ToSet(s)
    BY <1>1, <1>4, <1>5 DEF ToSet
  <1>7. ASSUME Distinct(s) PROVE Distinct(t)
    <2> SUFFICES ASSUME NEW j \in 1..(n - m + 1), NEW k \in 1..(n - m + 1), t[j] = t[k]
                 PROVE  j = k
      BY <1>2 DEF Distinct
    <2>1. m + j - 1 \in 1..Len(s) /\ m + k - 1 \in 1..Len(s)
      BY <1>1
    <2>2. s[m + j - 1] = s[m + k - 1]
      BY <1>2
    <2>3. m + j - 1 = m + k - 1
      BY <1>7, <2>1, <2>2 DEF Distinct
    <2> QED BY <1>1, <2>3
  <1> QED BY <1>2, <1>4, <1>6, <1>7 DEF t

----------------------------------------------------------------------------
(* The inductive invariant *)

\* Whoever waits for the write in the slot is known by it: a timeout takes the
\* waiter away from both sides at once.
SlotInv ==
  writer # NoWrite =>
    /\ writer.waiter = "caller" => call[writer.thought] = "writing"
    /\ writer.waiter = "flush" => /\ flush.at = "writing" /\ flush.list # <<>>
                                  /\ writer.thought = Head(flush.list)

\* What the flush and the outbox hold: every entry once, and only of calls that
\* have been answered.  An entry is deleted when it has got its row.
ListInv ==
  /\ Distinct(outbox) /\ Distinct(flush.list)
  /\ \A n \in ToSet(outbox) \cup ToSet(flush.list) : call[n] = "recorded"
  /\ flush.at = "delete" => flush.list # <<>> /\ rows[Head(flush.list)] > 0
  /\ flush.at \in {"sleep", "follow"} => ~flush.flushed /\ flush.list = <<>>

\* The call or the outbox has still to write n, in a write that it will know of.
Unwritten(n) ==
  /\ \/ call[n] \in {"none", "writing", "fallback"}
     \/ n \in ToSet(outbox) \cup ToSet(flush.list)
  /\ ~(flush.at = "delete" /\ n = Head(flush.list))

\* Until then all rows of n are unseen ones.
CreditInv == \A n \in Thought : Unwritten(n) => rows[n] <= unseen[n]

\* The first part of DuplicatesExplained: rows beyond the first are unseen ones.
FewRows == \A n \in Thought : rows[n] <= 1 + unseen[n]

\* What the journal holds was written once, what was written is in the journal
\* until it is purged, and only then is written again.
JournalInv ==
  /\ \A n \in Journal : rows[n] > 0
  /\ \A n \in Thought : rows[n] > 0 => n \in Journal \cup purged
  /\ \A n \in Thought : rows[n] > 1 => n \in purged

\* A call that schedules its follow-up has written its row.
FollowInv == \A n \in Thought : call[n] = "follow" => rows[n] > 0

\* PendingHasTask without the schedulers that are about to update a task: the
\* task they have found may be gone by then, and their update raises.
LookingAt == {"count", "find", "unique", "insert"}

Looking == \E p \in Scheduler : step[p].at \in LookingAt

\* What the worker works on runs, and claims belong to open tasks, but for those
\* kept under NoTask: what a sweep gives back from an open task has a task.
ClaimsInv ==
  /\ \A k \in working : ingest[k] = "running"
  /\ \A k \in IngestTask : claims[k] # {} => ingest[k] # "none"

ScheduledInv ==
  pending # {} /\ ~lapsed => OpenTasks # {} \/ Looking \/ flush.at = "delete" \/ flush.flushed

RecordInv ==
  /\ SlotInv /\ ListInv /\ CreditInv /\ FollowInv
  /\ AcknowledgedKept /\ FewRows

CallState == {"none", "writing", "fallback", "follow", "recorded", "error"}

\* What the types say of the records.
LEMMA Shape ==
  ASSUME RecordTypeOK
  PROVE  /\ flush.at \in {"sleep", "next", "writing", "delete", "follow"}
         /\ flush.list \in Seq(Thought) /\ flush.flushed \in BOOLEAN
         /\ writer # NoWrite => /\ writer.thought \in Thought
                                /\ writer.waiter \in {"caller", "flush", "nobody"}
  BY DEF RecordTypeOK, Flush, Write

\* The operators on lists mean the same in the next state.
LEMMA NextLists ==
  /\ ToSet(outbox)' = ToSet(outbox') /\ (Distinct(outbox))' = Distinct(outbox')
  /\ ToSet(flush.list)' = ToSet(flush'.list) /\ (Distinct(flush.list))' = Distinct(flush'.list)
  BY DEF ToSet, Distinct

----------------------------------------------------------------------------
(* Most steps move a call or the flush and explain the rows they add.       *)

\* Every new row is an unseen one.
RowsExplained ==
  /\ rows' \in [Thought -> Nat] /\ unseen' \in [Thought -> Nat]
  /\ \A n \in Thought : /\ rows[n] <= rows'[n]
                       /\ rows'[n] + unseen[n] <= rows[n] + unseen'[n]

\* A call goes on, and is answered only when its row is written.
CallsMove ==
  /\ call' \in [Thought -> CallState]
  /\ \A n \in Thought :
       call'[n] = call[n] \/ /\ call[n] # "recorded" /\ call'[n] # "none"
                             /\ call'[n] \in {"writing", "fallback"} => call[n] \in {"none", "writing"}
                             /\ call'[n] \in {"follow", "recorded"} => call[n] = "follow"

\* Entries leave the outbox when they are written; the flush lists entries of
\* the outbox, and is at its delete only by a commit.
ListsMove ==
  /\ outbox' \in Seq(Thought) /\ Distinct(outbox') /\ ToSet(outbox') \subseteq ToSet(outbox)
  /\ \A n \in ToSet(outbox) \ ToSet(outbox') : rows'[n] > 0
  /\ overflowed' = overflowed
  /\ flush'.list \in Seq(Thought) /\ Distinct(flush'.list)
  /\ ToSet(flush'.list) \subseteq ToSet(outbox) \cup ToSet(flush.list)
  /\ flush'.at = "delete" => flush' = flush
  /\ flush'.at \in {"sleep", "follow"} => ~flush'.flushed /\ flush'.list = <<>>

\* A flush that leaves its delete has deleted the entry, or does not know.
DeleteEnds ==
  flush.at = "delete" /\ flush'.at # "delete" =>
    LET n == Head(flush.list)
    IN  rows'[n] <= unseen'[n] \/ n \notin ToSet(outbox') \cup ToSet(flush'.list)

\* Such a step preserves all of the invariant that is not about the slot.
LEMMA MovesKeep ==
  ASSUME RecordTypeOK, RecordInv, RowsExplained, CallsMove, ListsMove, DeleteEnds
  PROVE  ListInv' /\ CreditInv' /\ FollowInv' /\ AcknowledgedKept' /\ FewRows'
  <1>0. /\ rows \in [Thought -> Nat] /\ unseen \in [Thought -> Nat]
        /\ call \in [Thought -> CallState] /\ flush.list \in Seq(Thought)
        /\ outbox \in Seq(Thought)
    BY Shape DEF RecordTypeOK, CallState
  <1>1. ToSet(outbox) \subseteq Thought /\ ToSet(flush.list) \subseteq Thought
    BY <1>0, ElementOfSeq DEF ToSet
  <1>2. flush.at = "delete" => Head(flush.list) \in ToSet(flush.list) /\ Head(flush.list) \in Thought
    BY <1>0, HeadAndTail DEF RecordInv, ListInv
  <1>3. \A n \in Thought : call[n] = "recorded" => call'[n] = "recorded"
    BY DEF CallsMove
  <1>4. ListInv'
    <2>1. \A n \in ToSet(outbox') \cup ToSet(flush'.list) : call'[n] = "recorded"
      BY <1>1, <1>3 DEF ListsMove, RecordInv, ListInv
    <2>2. flush'.at = "delete" => flush'.list # <<>> /\ rows'[Head(flush'.list)] > 0
      <3> SUFFICES ASSUME flush'.at = "delete"
                   PROVE  flush'.list # <<>> /\ rows'[Head(flush'.list)] > 0
        OBVIOUS
      <3>1. flush' = flush
        BY DEF ListsMove
      <3>2. flush.list # <<>> /\ rows[Head(flush.list)] > 0 /\ Head(flush.list) \in Thought
        BY <1>2, <3>1 DEF RecordInv, ListInv
      <3>3. rows'[Head(flush.list)] > 0
        BY <1>0, <3>2 DEF RowsExplained
      <3> QED BY <3>1, <3>2, <3>3
    <2> QED BY <2>1, <2>2, NextLists DEF ListsMove, ListInv
  <1>5. CreditInv'
    <2> SUFFICES ASSUME NEW n \in Thought, Unwritten(n)' PROVE rows'[n] <= unseen'[n]
      BY DEF CreditInv
    <2>0. /\ call'[n] \in {"none", "writing", "fallback"}
             \/ n \in ToSet(outbox') \cup ToSet(flush'.list)
          /\ ~(flush'.at = "delete" /\ n = Head(flush'.list))
      BY NextLists DEF Unwritten
    <2>1. ASSUME rows[n] <= unseen[n] PROVE rows'[n] <= unseen'[n]
      BY <1>0, <2>1 DEF RowsExplained
    <2>2. \/ call[n] \in {"none", "writing", "fallback"}
          \/ n \in ToSet(outbox) \cup ToSet(flush.list)
      BY <1>0, <2>0 DEF CallsMove, ListsMove
    <2>3. CASE ~(flush.at = "delete" /\ n = Head(flush.list))
      BY <2>1, <2>2, <2>3 DEF RecordInv, CreditInv, Unwritten
    <2>4. CASE flush.at = "delete" /\ n = Head(flush.list)
      <3>1. flush'.at # "delete"
        BY <2>0, <2>4 DEF ListsMove
      <3>2. call'[n] = "recorded"
        BY <1>2, <1>3, <2>4 DEF RecordInv, ListInv
      <3>3. n \in ToSet(outbox') \cup ToSet(flush'.list)
        BY <2>0, <3>2
      <3> QED BY <2>4, <3>1, <3>3 DEF DeleteEnds
    <2> QED BY <2>3, <2>4
  <1>6. FollowInv'
    <2> SUFFICES ASSUME NEW n \in Thought, call'[n] = "follow" PROVE rows'[n] > 0
      BY DEF FollowInv
    <2>1. call[n] = "follow"
      BY DEF CallsMove
    <2> QED BY <1>0, <2>1 DEF RecordInv, FollowInv, RowsExplained
  <1>7. AcknowledgedKept'
    <2> SUFFICES ASSUME NEW n \in Thought, call'[n] = "recorded", ~(rows'[n] > 0)
                 PROVE  n \in ToSet(outbox') \cup overflowed'
      BY NextLists DEF AcknowledgedKept
    <2>1. ~(rows[n] > 0)
      BY <1>0 DEF RowsExplained
    <2>2. call[n] = "recorded"
      BY <2>1 DEF CallsMove, RecordInv, FollowInv
    <2>3. n \in ToSet(outbox) \cup overflowed
      BY <2>1, <2>2 DEF RecordInv, AcknowledgedKept
    <2> QED BY <2>3 DEF ListsMove
  <1>8. FewRows'
    <2> SUFFICES ASSUME NEW n \in Thought PROVE rows'[n] <= 1 + unseen'[n]
      BY DEF FewRows
    <2>1. rows[n] <= 1 + unseen[n]
      BY DEF RecordInv, FewRows
    <2> QED BY <1>0, <2>1 DEF RowsExplained
  <1> QED BY <1>4, <1>5, <1>6, <1>7, <1>8

----------------------------------------------------------------------------
(* The steps of calls, of the slot and of the flush                         *)

\* RecordTypeOK without the schedulers.
RecordPart ==
  /\ rows \in [Thought -> Nat] /\ call \in [Thought -> CallState]
  /\ writer \in Write \cup {NoWrite}
  /\ outbox \in Seq(Thought) /\ Len(outbox) <= MaxOutbox
  /\ flush \in Flush
  /\ overflowed \subseteq Thought /\ unseen \in [Thought -> Nat]
  /\ faults \in 0..MaxFaults

\* What the two parts of the types are.
LEMMA TypeParts == RecordTypeOK <=> ScheduleTypeOK /\ RecordPart
  BY DEF RecordTypeOK, RecordPart, CallState

\* What is left alone is a move.
LEMMA Still ==
  ASSUME RecordTypeOK, RecordInv
  PROVE  /\ UNCHANGED <<rows, unseen>> => RowsExplained
         /\ UNCHANGED call => CallsMove
         /\ UNCHANGED <<outbox, overflowed, flush>> => ListsMove /\ DeleteEnds
  <1>1. ASSUME UNCHANGED <<rows, unseen>> PROVE RowsExplained
    BY <1>1 DEF RecordTypeOK, RowsExplained
  <1>2. ASSUME UNCHANGED call PROVE CallsMove
    BY <1>2 DEF RecordTypeOK, CallsMove, CallState
  <1>3. ASSUME UNCHANGED <<outbox, overflowed, flush>> PROVE ListsMove /\ DeleteEnds
    <2>1. /\ outbox' = outbox /\ overflowed' = overflowed /\ flush' = flush
      BY <1>3
    <2>2. outbox \in Seq(Thought) /\ flush.list \in Seq(Thought)
      BY Shape DEF RecordTypeOK
    <2>3. flush.at \in {"sleep", "follow"} => ~flush.flushed /\ flush.list = <<>>
      BY DEF RecordInv, ListInv
    <2>4. Distinct(outbox) /\ Distinct(flush.list)
      BY DEF RecordInv, ListInv
    <2>5. ListsMove
      BY <2>1, <2>2, <2>3, <2>4 DEF ListsMove
    <2> QED BY <2>1, <2>5 DEF DeleteEnds
  <1> QED BY <1>1, <1>2, <1>3

\* One call moves.
LEMMA OneCallMoves ==
  ASSUME RecordTypeOK, NEW n \in Thought, NEW at \in CallState \ {"none"},
         call[n] # "recorded",
         at \in {"writing", "fallback"} => call[n] \in {"none", "writing"},
         at \in {"follow", "recorded"} => call[n] = "follow",
         Answer(n, at)
  PROVE  CallsMove
  BY DEF RecordTypeOK, CallState, Answer, CallsMove

\* record_with_timestamp finds the row or inserts it: it is there afterwards.
LEMMA CommitFacts ==
  ASSUME RecordTypeOK, JournalInv, NEW n \in Thought, Commit(n)
  PROVE  /\ rows' \in [Thought -> Nat] /\ \A m \in Thought \ {n} : rows'[m] = rows[m]
         /\ rows[n] <= rows'[n] /\ rows'[n] <= rows[n] + 1 /\ rows'[n] > 0
         /\ pending \subseteq pending' /\ pending' \subseteq pending \cup {n}
  <1>0. rows \in [Thought -> Nat] /\ rows[n] \in Nat
    BY DEF RecordTypeOK
  <1>1. CASE n \in Journal
    <2>1. UNCHANGED <<rows, pending>>
      BY <1>1 DEF Commit
    <2>2. rows[n] > 0
      BY <1>1 DEF JournalInv
    <2> QED BY <1>0, <2>1, <2>2
  <1>2. CASE n \notin Journal
    <2>1. rows' = [rows EXCEPT ![n] = @ + 1] /\ pending' = pending \cup {n}
      BY <1>2 DEF Commit
    <2> QED BY <1>0, <2>1
  <1> QED BY <1>1, <1>2

\* A write that nobody sees end.
LEMMA OneUnseenRow ==
  ASSUME RecordTypeOK, JournalInv, NEW n \in Thought, Commit(n),
         unseen' = [unseen EXCEPT ![n] = @ + 1]
  PROVE  RowsExplained
  <1>1. /\ rows \in [Thought -> Nat] /\ unseen \in [Thought -> Nat]
        /\ unseen' \in [Thought -> Nat] /\ unseen'[n] = unseen[n] + 1
        /\ \A m \in Thought \ {n} : unseen'[m] = unseen[m]
    BY DEF RecordTypeOK
  <1>2. ASSUME NEW m \in Thought
        PROVE  rows[m] <= rows'[m] /\ rows'[m] + unseen[m] <= rows[m] + unseen'[m]
    <2>1. rows[m] \in Nat /\ unseen[m] \in Nat /\ rows'[m] \in Nat
      BY <1>1, CommitFacts
    <2>2. CASE m = n
      BY <1>1, <2>1, <2>2, CommitFacts
    <2>3. CASE m # n
      BY <1>1, <2>1, <2>3, CommitFacts
    <2> QED BY <2>2, <2>3
  <1> QED BY <1>1, <1>2, CommitFacts DEF RowsExplained

\* A flush that has nothing more to write.
LEMMA StopsFacts ==
  ASSUME RecordTypeOK, FlushStops
  PROVE  /\ flush' \in Flush /\ flush'.list = <<>> /\ ~flush'.flushed
         /\ flush'.at \in {"sleep", "follow"}
         /\ step' = step \/ step' = [step EXCEPT ![Flusher] = Begun]
         /\ flush.flushed => step' = [step EXCEPT ![Flusher] = Begun]
  <1>1. <<>> \in Seq(Thought)
    BY EmptySeq
  <1>2. flush' = Asleep \/ flush' = [Asleep EXCEPT !.at = "follow"]
    BY DEF FlushStops
  <1>3. \E at \in {"sleep", "follow"} : flush' = [at |-> at, list |-> <<>>, flushed |-> FALSE]
    BY <1>2 DEF Asleep
  <1>4. flush' \in Flush
    BY <1>1, <1>3 DEF Flush
  <1>5. /\ step' = step \/ step' = [step EXCEPT ![Flusher] = Begun]
        /\ flush.flushed => step' = [step EXCEPT ![Flusher] = Begun]
    BY DEF FlushStops
  <1> QED BY <1>3, <1>4, <1>5

\* The empty list.
LEMMA NoEntries == ToSet(<<>>) = {} /\ Distinct(<<>>) /\ <<>> \in Seq(Thought)
  BY EmptySeq DEF ToSet, Distinct

\* A flush that stops anywhere but at its delete.
LEMMA StopMoves ==
  ASSUME RecordTypeOK, RecordInv, flush'.list = <<>>, ~flush'.flushed, flush.at # "delete",
         flush'.at \in {"sleep", "follow"}, UNCHANGED <<outbox, overflowed>>
  PROVE  ListsMove /\ DeleteEnds
  <1>1. outbox \in Seq(Thought) /\ Distinct(outbox)
    BY DEF RecordTypeOK, RecordInv, ListInv
  <1> QED BY <1>1, NoEntries DEF ListsMove, DeleteEnds

\* A call begins.
LEMMA RecordKeeps ==
  ASSUME RecordTypeOK, RecordInv, NEW n \in Thought, Record(n)
  PROVE  RecordPart' /\ RecordInv'
  <1>1. \E at \in {"writing", "fallback"} : Answer(n, at)
    BY DEF Record
  <1>2. CallsMove
    BY <1>1, OneCallMoves DEF Record, CallState
  <1>3. /\ UNCHANGED <<rows, unseen, outbox, overflowed, flush, faults>>
    BY DEF Record
  <1>4. ListInv' /\ CreditInv' /\ FollowInv' /\ AcknowledgedKept' /\ FewRows'
    BY <1>2, <1>3, Still, MovesKeep
  <1>5. writer' \in Write \cup {NoWrite}
    BY DEF Record, Write, RecordTypeOK
  <1>6. SlotInv'
    <2>1. CASE writer = NoWrite
      <3>1. writer' = [thought |-> n, waiter |-> "caller"] /\ call'[n] = "writing"
        BY <2>1 DEF Record, Answer, RecordTypeOK
      <3> QED BY <3>1 DEF SlotInv
    <2>2. CASE writer # NoWrite
      <3>1. writer' = writer /\ flush' = flush /\ call[n] = "none"
        BY <2>2 DEF Record
      <3>2. writer.waiter = "caller" => call'[writer.thought] = "writing"
        BY <1>1, <2>2, <3>1, Shape DEF RecordInv, SlotInv, RecordTypeOK, Answer
      <3> QED BY <2>2, <3>1, <3>2 DEF RecordInv, SlotInv
    <2> QED BY <2>1, <2>2
  <1> QED BY <1>2, <1>3, <1>4, <1>5, <1>6, TypeParts DEF RecordPart, RecordInv, CallsMove

\* The error of the write is raised, or the follow-up has ended.
LEMMA CallEndKeeps ==
  ASSUME RecordTypeOK, RecordInv, NEW n \in Thought, QueueFails(n) \/ CallReturns(n)
  PROVE  RecordPart' /\ RecordInv'
  <1>1. CallsMove
    <2>1. CASE QueueFails(n)
      <3>1. call[n] = "fallback" /\ Answer(n, "error")
        BY <2>1 DEF QueueFails
      <3> QED BY <3>1, OneCallMoves DEF CallState
    <2>2. CASE CallReturns(n)
      <3>1. call[n] = "follow" /\ \E at \in {"recorded", "error"} : Answer(n, at)
        BY <2>2 DEF CallReturns
      <3> QED BY <3>1, OneCallMoves DEF CallState
    <2> QED BY <2>1, <2>2
  <1>2. /\ UNCHANGED <<rows, unseen, outbox, overflowed, flush, writer, faults>>
        /\ call[n] # "writing" /\ call' = [call EXCEPT ![n] = call'[n]]
    BY DEF QueueFails, CallReturns, Answer, RecordTypeOK
  <1>3. ListInv' /\ CreditInv' /\ FollowInv' /\ AcknowledgedKept' /\ FewRows'
    BY <1>1, <1>2, Still, MovesKeep
  <1>4. \A m \in Thought : call[m] = "writing" => call'[m] = "writing"
    BY <1>2 DEF RecordTypeOK
  <1>5. SlotInv'
    BY <1>2, <1>4, Shape DEF RecordInv, SlotInv
  <1> QED BY <1>1, <1>2, <1>3, <1>5, TypeParts DEF RecordPart, RecordInv, CallsMove

\* What enqueue_record_thought_outbox_entry does to the list.
LEMMA Enqueued ==
  ASSUME RecordTypeOK, RecordInv, NEW n \in Thought, Queue(n)
  PROVE  /\ outbox' \in Seq(Thought) /\ Len(outbox') <= MaxOutbox
         /\ Distinct(outbox') /\ n \in ToSet(outbox')
         /\ ToSet(outbox') \subseteq ToSet(outbox) \cup {n}
         /\ ToSet(outbox) \subseteq ToSet(outbox') \cup overflowed'
         /\ overflowed \subseteq overflowed' /\ overflowed' \subseteq Thought
  <1> DEFINE grown == Append(outbox, n)
             excess == IF Len(grown) > MaxOutbox THEN Len(grown) - MaxOutbox ELSE 0
  <1>1. /\ outbox \in Seq(Thought) /\ Len(outbox) \in Nat /\ Len(outbox) <= MaxOutbox
        /\ MaxOutbox \in Nat \ {0} /\ overflowed \subseteq Thought
    BY LenProperties, RecordAssumption DEF RecordTypeOK
  <1>2. Distinct(outbox) /\ n \notin ToSet(outbox)
    BY DEF RecordInv, ListInv, Queue
  <1>3. /\ grown \in Seq(Thought) /\ Len(grown) = Len(outbox) + 1
        /\ \A i \in 1..Len(outbox) : grown[i] = outbox[i]
        /\ grown[Len(outbox) + 1] = n
    BY <1>1, AppendProperties
  <1>4. /\ outbox' = SubSeq(grown, excess + 1, Len(grown))
        /\ overflowed' = overflowed \cup {grown[i] : i \in 1..excess}
    BY DEF Queue
  <1> HIDE DEF grown
  <1>5. /\ excess \in Nat /\ excess < Len(grown) /\ Len(grown) - excess <= MaxOutbox
        /\ excess + 1 \in 1..(Len(grown) + 1) /\ Len(grown) \in (excess + 1 - 1)..Len(grown)
    BY <1>1, <1>3
  <1> HIDE DEF excess
  <1>6. DOMAIN outbox = 1..Len(outbox) /\ DOMAIN grown = 1..Len(grown)
    BY <1>1, <1>3, LenProperties
  <1>7. Distinct(grown)
    <2>1. \A i \in 1..Len(outbox) : outbox[i] # n
      BY <1>2, <1>6 DEF ToSet
    <2> QED BY <1>1, <1>2, <1>3, <2>1 DEF Distinct
  <1>8. ToSet(grown) = ToSet(outbox) \cup {n}
    <2>1. ASSUME NEW i \in 1..Len(grown) PROVE grown[i] \in ToSet(outbox) \cup {n}
      <3>1. i \in 1..Len(outbox) \/ i = Len(outbox) + 1
        BY <1>1, <1>3
      <3> QED BY <1>3, <1>6, <3>1 DEF ToSet
    <2>2. ASSUME NEW i \in 1..Len(outbox) PROVE outbox[i] \in ToSet(grown)
      <3>1. i \in 1..Len(grown)
        BY <1>1, <1>3
      <3> QED BY <1>3, <1>6, <3>1 DEF ToSet
    <2>3. n \in ToSet(grown)
      <3>1. Len(outbox) + 1 \in 1..Len(grown)
        BY <1>1, <1>3
      <3> QED BY <1>3, <1>6, <3>1 DEF ToSet
    <2> QED BY <1>6, <2>1, <2>2, <2>3 DEF ToSet
  <1>9. /\ outbox' \in Seq(Thought) /\ Len(outbox') = Len(grown) - (excess + 1) + 1
        /\ ToSet(outbox') = {grown[i] : i \in (excess + 1)..Len(grown)}
        /\ ToSet(outbox') \subseteq ToSet(grown)
        /\ Distinct(outbox')
    <2> DEFINE m == excess + 1
               k == Len(grown)
    <2>1. m \in 1..(Len(grown) + 1) /\ k \in (m - 1)..Len(grown)
      BY <1>5
    <2> HIDE DEF m, k
    <2>2. /\ SubSeq(grown, m, k) \in Seq(Thought) /\ Len(SubSeq(grown, m, k)) = k - m + 1
          /\ ToSet(SubSeq(grown, m, k)) = {grown[i] : i \in m..k}
          /\ ToSet(SubSeq(grown, m, k)) \subseteq ToSet(grown)
          /\ Distinct(SubSeq(grown, m, k))
      BY <1>3, <1>7, <2>1, Part
    <2>3. outbox' = SubSeq(grown, m, k)
      BY <1>4 DEF m, k
    <2> QED BY <2>2, <2>3 DEF m, k
  <1>10. Len(outbox') <= MaxOutbox
    BY <1>1, <1>3, <1>5, <1>9
  <1>11. n \in ToSet(outbox')
    <2>1. Len(grown) \in (excess + 1)..Len(grown) /\ grown[Len(grown)] = n
      BY <1>1, <1>3, <1>5
    <2> QED BY <1>9, <2>1
  <1>12. ToSet(outbox) \subseteq ToSet(outbox') \cup overflowed'
    <2> SUFFICES ASSUME NEW i \in 1..Len(outbox) PROVE grown[i] \in ToSet(outbox') \cup overflowed'
      BY <1>3, <1>6 DEF ToSet
    <2>1. i \in 1..excess \/ i \in (excess + 1)..Len(grown)
      BY <1>1, <1>3, <1>5
    <2> QED BY <1>4, <1>9, <2>1
  <1>13. overflowed' \subseteq Thought
    <2>1. \A i \in 1..excess : i \in 1..Len(grown)
      BY <1>1, <1>3, <1>5
    <2>2. \A i \in 1..Len(grown) : grown[i] \in Thought
      BY <1>3, ElementOfSeq
    <2> QED BY <1>1, <1>4, <2>1, <2>2
  <1> QED BY <1>4, <1>8, <1>9, <1>10, <1>11, <1>12, <1>13

\* A call goes to the outbox.
LEMMA QueueKeeps ==
  ASSUME RecordTypeOK, RecordInv, NEW n \in Thought, Queue(n)
  PROVE  RecordPart' /\ RecordInv'
  <1>1. /\ call[n] = "fallback" /\ call \in [Thought -> CallState]
        /\ call' = [call EXCEPT ![n] = "recorded"]
        /\ UNCHANGED <<rows, writer, flush, unseen, faults>>
    BY DEF Queue, Answer, RecordTypeOK, CallState
  <1>2. /\ outbox \in Seq(Thought) /\ flush.list \in Seq(Thought)
        /\ ToSet(outbox) \subseteq Thought /\ ToSet(flush.list) \subseteq Thought
    <2>1. outbox \in Seq(Thought) /\ flush.list \in Seq(Thought)
      BY Shape DEF RecordTypeOK
    <2> QED BY <2>1, ElementOfSeq DEF ToSet
  <1>3. n \notin ToSet(outbox) /\ n \notin ToSet(flush.list)
    BY <1>1 DEF RecordInv, ListInv
  <1>4. /\ call' \in [Thought -> CallState] /\ call'[n] = "recorded"
        /\ \A m \in Thought \ {n} : call'[m] = call[m]
    BY <1>1 DEF CallState
  <1>5. ListInv'
    <2>1. \A m \in ToSet(outbox') \cup ToSet(flush'.list) : call'[m] = "recorded"
      BY <1>1, <1>2, <1>4, Enqueued DEF RecordInv, ListInv
    <2>2. /\ flush'.at = "delete" => flush'.list # <<>> /\ rows'[Head(flush'.list)] > 0
          /\ flush'.at \in {"sleep", "follow"} => ~flush'.flushed /\ flush'.list = <<>>
          /\ Distinct(flush'.list)
      BY <1>1 DEF RecordInv, ListInv
    <2> QED BY <2>1, <2>2, Enqueued, NextLists DEF ListInv
  <1>6. CreditInv'
    <2> SUFFICES ASSUME NEW m \in Thought, Unwritten(m)' PROVE rows[m] <= unseen[m]
      BY <1>1 DEF CreditInv
    <2>1. /\ \/ call'[m] \in {"none", "writing", "fallback"}
             \/ m \in ToSet(outbox') \cup ToSet(flush'.list)
          /\ ~(flush.at = "delete" /\ m = Head(flush.list))
      BY <1>1, NextLists DEF Unwritten
    <2>2. CASE m = n
      BY <1>1, <2>1, <2>2 DEF RecordInv, CreditInv, Unwritten
    <2>3. CASE m # n
      BY <1>1, <1>4, <2>1, <2>3, Enqueued DEF RecordInv, CreditInv, Unwritten
    <2> QED BY <2>2, <2>3
  <1>7. FollowInv' /\ FewRows'
    BY <1>1, <1>4 DEF RecordInv, FollowInv, FewRows
  <1>8. AcknowledgedKept'
    <2> SUFFICES ASSUME NEW m \in Thought, call'[m] = "recorded", ~(rows[m] > 0)
                 PROVE  m \in ToSet(outbox') \cup overflowed'
      BY <1>1, NextLists DEF AcknowledgedKept
    <2>1. CASE m = n
      BY <2>1, Enqueued
    <2>2. CASE m # n
      BY <1>4, <2>2, Enqueued DEF RecordInv, AcknowledgedKept
    <2> QED BY <2>1, <2>2
  <1>9. SlotInv'
    BY <1>1, <1>4, Shape DEF RecordInv, SlotInv
  <1> QED BY <1>1, <1>4, <1>5, <1>6, <1>7, <1>8, <1>9, Enqueued, TypeParts DEF RecordPart, RecordInv

\* The write of a caller that waits: its one seen row.
LEMMA CallerCommitKeeps ==
  ASSUME RecordTypeOK, RecordInv, JournalInv, WriteCommits, writer.waiter = "caller"
  PROVE  RecordPart' /\ RecordInv'
  <1> DEFINE n == writer.thought
  <1>1. /\ writer # NoWrite /\ n \in Thought /\ call[n] = "writing"
        /\ Commit(n) /\ call' = [call EXCEPT ![n] = "follow"]
        /\ writer' = NoWrite
        /\ UNCHANGED <<flush, unseen, outbox, overflowed, faults>>
    BY Shape DEF WriteCommits, Answer, RecordInv, SlotInv
  <1> HIDE DEF n
  <1>2. /\ rows \in [Thought -> Nat] /\ call \in [Thought -> CallState]
        /\ unseen \in [Thought -> Nat]
        /\ outbox \in Seq(Thought) /\ flush.list \in Seq(Thought)
    BY Shape DEF RecordTypeOK, CallState
  <1>3. ToSet(outbox) \subseteq Thought /\ ToSet(flush.list) \subseteq Thought
    BY <1>2, ElementOfSeq DEF ToSet
  <1>4. n \notin ToSet(outbox) /\ n \notin ToSet(flush.list)
    BY <1>1 DEF RecordInv, ListInv
  <1>5. /\ call' \in [Thought -> CallState] /\ call'[n] = "follow"
        /\ \A m \in Thought \ {n} : call'[m] = call[m] /\ rows'[m] = rows[m]
        /\ rows' \in [Thought -> Nat] /\ rows'[n] > 0 /\ rows'[n] <= rows[n] + 1
    BY <1>1, <1>2, CommitFacts DEF CallState
  <1>6. flush.at = "delete" => Head(flush.list) \in Thought /\ Head(flush.list) # n
    BY <1>2, <1>4, HeadAndTail DEF RecordInv, ListInv
  <1>7. rows[n] <= unseen[n]
    BY <1>1, <1>6 DEF RecordInv, CreditInv, Unwritten
  <1>8. ListInv'
    <2>1. \A m \in ToSet(outbox') \cup ToSet(flush'.list) : call'[m] = "recorded"
      BY <1>1, <1>3, <1>4, <1>5 DEF RecordInv, ListInv
    <2>2. flush'.at = "delete" => flush'.list # <<>> /\ rows'[Head(flush'.list)] > 0
      BY <1>1, <1>5, <1>6 DEF RecordInv, ListInv
    <2>3. /\ flush'.at \in {"sleep", "follow"} => ~flush'.flushed /\ flush'.list = <<>>
          /\ Distinct(flush'.list) /\ Distinct(outbox')
      BY <1>1 DEF RecordInv, ListInv
    <2> QED BY <2>1, <2>2, <2>3, NextLists DEF ListInv
  <1>9. CreditInv'
    <2> SUFFICES ASSUME NEW m \in Thought, Unwritten(m)' PROVE rows'[m] <= unseen[m]
      BY <1>1 DEF CreditInv
    <2>1. /\ \/ call'[m] \in {"none", "writing", "fallback"}
             \/ m \in ToSet(outbox) \cup ToSet(flush.list)
          /\ ~(flush.at = "delete" /\ m = Head(flush.list))
      BY <1>1, NextLists DEF Unwritten
    <2>2. m # n
      BY <1>4, <1>5, <2>1
    <2> QED BY <1>5, <2>1, <2>2 DEF RecordInv, CreditInv, Unwritten
  <1>10. FollowInv'
    <2> SUFFICES ASSUME NEW m \in Thought, call'[m] = "follow" PROVE rows'[m] > 0
      BY DEF FollowInv
    <2>1. CASE m = n
      BY <1>2, <1>5, <2>1
    <2>2. CASE m # n
      BY <1>5, <2>2 DEF RecordInv, FollowInv
    <2> QED BY <2>1, <2>2
  <1>11. AcknowledgedKept'
    <2> SUFFICES ASSUME NEW m \in Thought, call'[m] = "recorded"
                 PROVE  rows'[m] > 0 \/ m \in ToSet(outbox) \cup overflowed
      BY <1>1, NextLists DEF AcknowledgedKept
    <2> QED BY <1>5 DEF RecordInv, AcknowledgedKept
  <1>12. FewRows'
    <2> SUFFICES ASSUME NEW m \in Thought PROVE rows'[m] <= 1 + unseen[m]
      BY <1>1 DEF FewRows
    <2>1. CASE m = n
      BY <1>2, <1>5, <1>7, <2>1
    <2>2. CASE m # n
      BY <1>5, <2>2 DEF RecordInv, FewRows
    <2> QED BY <2>1, <2>2
  <1>13. SlotInv'
    BY <1>1 DEF SlotInv
  <1> QED BY <1>1, <1>5, <1>8, <1>9, <1>10, <1>11, <1>12, <1>13, TypeParts DEF RecordPart, RecordInv

\* The write of the flush: the entry has its row and is deleted next.
LEMMA FlushCommitKeeps ==
  ASSUME RecordTypeOK, RecordInv, JournalInv, WriteCommits, writer.waiter = "flush"
  PROVE  RecordPart' /\ RecordInv'
  <1> DEFINE n == writer.thought
  <1>1. /\ writer # NoWrite /\ n \in Thought
        /\ flush.at = "writing" /\ flush.list # <<>> /\ n = Head(flush.list)
        /\ Commit(n) /\ flush' = [flush EXCEPT !.at = "delete"]
        /\ writer' = NoWrite
        /\ UNCHANGED <<call, unseen, outbox, overflowed, faults>>
    BY Shape DEF WriteCommits, RecordInv, SlotInv
  <1> HIDE DEF n
  <1>2. /\ rows \in [Thought -> Nat] /\ call \in [Thought -> CallState]
        /\ unseen \in [Thought -> Nat]
        /\ outbox \in Seq(Thought) /\ flush.list \in Seq(Thought)
    BY Shape DEF RecordTypeOK, CallState
  <1>3. flush' \in Flush /\ flush'.at = "delete" /\ flush'.list = flush.list
    BY <1>1 DEF RecordTypeOK, Flush
  <1>4. n \in ToSet(flush.list)
    BY <1>1, <1>2, HeadAndTail
  <1>5. /\ \A m \in Thought \ {n} : rows'[m] = rows[m]
        /\ rows' \in [Thought -> Nat] /\ rows'[n] > 0
        /\ rows[n] <= rows'[n] /\ rows'[n] <= rows[n] + 1
    BY <1>1, CommitFacts
  <1>6. rows[n] <= unseen[n]
    BY <1>1, <1>4 DEF RecordInv, CreditInv, Unwritten
  <1>7. ListInv'
    <2>1. \A m \in ToSet(outbox') \cup ToSet(flush'.list) : call'[m] = "recorded"
      BY <1>1, <1>3 DEF RecordInv, ListInv
    <2>2. flush'.list # <<>> /\ rows'[Head(flush'.list)] > 0
      BY <1>1, <1>2, <1>3, <1>5
    <2>3. Distinct(flush'.list) /\ Distinct(outbox')
      BY <1>1, <1>3 DEF RecordInv, ListInv
    <2> QED BY <1>3, <2>1, <2>2, <2>3, NextLists DEF ListInv
  <1>8. CreditInv'
    <2> SUFFICES ASSUME NEW m \in Thought, Unwritten(m)' PROVE rows'[m] <= unseen[m]
      BY <1>1 DEF CreditInv
    <2>1. /\ \/ call[m] \in {"none", "writing", "fallback"}
             \/ m \in ToSet(outbox) \cup ToSet(flush.list)
          /\ m # n
      BY <1>1, <1>3, NextLists DEF Unwritten
    <2> QED BY <1>1, <1>5, <2>1 DEF RecordInv, CreditInv, Unwritten
  <1>9. FollowInv'
    BY <1>1, <1>2, <1>5 DEF RecordInv, FollowInv
  <1>10. AcknowledgedKept'
    <2> SUFFICES ASSUME NEW m \in Thought, call[m] = "recorded"
                 PROVE  rows'[m] > 0 \/ m \in ToSet(outbox) \cup overflowed
      BY <1>1, NextLists DEF AcknowledgedKept
    <2>1. rows'[m] >= rows[m] /\ rows'[m] \in Nat /\ rows[m] \in Nat
      <3>1. rows[m] \in Nat /\ rows'[m] \in Nat /\ rows[n] \in Nat
        BY <1>1, <1>2, <1>5
      <3>2. CASE m = n
        BY <1>5, <3>1, <3>2
      <3>3. CASE m # n
        BY <1>5, <3>1, <3>3
      <3> QED BY <3>1, <3>2, <3>3
    <2>2. rows[m] > 0 \/ m \in ToSet(outbox) \cup overflowed
      BY DEF RecordInv, AcknowledgedKept
    <2> QED BY <2>1, <2>2
  <1>11. FewRows'
    <2> SUFFICES ASSUME NEW m \in Thought PROVE rows'[m] <= 1 + unseen[m]
      BY <1>1 DEF FewRows
    <2>1. CASE m = n
      BY <1>2, <1>5, <1>6, <2>1
    <2>2. CASE m # n
      BY <1>5, <2>2 DEF RecordInv, FewRows
    <2> QED BY <2>1, <2>2
  <1>12. SlotInv'
    BY <1>1 DEF SlotInv
  <1> QED BY <1>1, <1>3, <1>5, <1>7, <1>8, <1>9, <1>10, <1>11, <1>12, TypeParts DEF RecordPart, RecordInv

\* A move, and the rest of the types.
LEMMA MoveKeepsAll ==
  ASSUME RecordTypeOK, RecordInv, RowsExplained, CallsMove, ListsMove, DeleteEnds,
         SlotInv', writer' \in Write \cup {NoWrite}, Len(outbox') <= MaxOutbox,
         flush' \in Flush, faults' \in 0..MaxFaults
  PROVE  RecordPart' /\ RecordInv'
  <1>1. ListInv' /\ CreditInv' /\ FollowInv' /\ AcknowledgedKept' /\ FewRows'
    BY MovesKeep
  <1>2. RecordPart'
    BY DEF RecordTypeOK, RecordPart, RowsExplained, CallsMove, ListsMove
  <1> QED BY <1>1, <1>2 DEF RecordInv

\* One more fault, or none.
LEMMA FaultCount ==
  ASSUME RecordTypeOK, faults' = faults \/ (faults < MaxFaults /\ faults' = faults + 1)
  PROVE  faults' \in 0..MaxFaults
  BY RecordAssumption DEF RecordTypeOK

\* The thread commits and nobody waits for it.
LEMMA LateCommitKeeps ==
  ASSUME RecordTypeOK, RecordInv, JournalInv, WriteCommits, writer.waiter = "nobody"
  PROVE  RecordPart' /\ RecordInv'
  <1>1. /\ writer # NoWrite /\ writer.thought \in Thought
        /\ Commit(writer.thought)
        /\ unseen' = [unseen EXCEPT ![writer.thought] = @ + 1]
        /\ writer' = NoWrite
        /\ UNCHANGED <<flush, call, outbox, overflowed, faults>>
    BY Shape DEF WriteCommits
  <1>2. RowsExplained
    BY <1>1, OneUnseenRow
  <1>3. SlotInv'
    BY <1>1 DEF SlotInv
  <1>4. /\ Len(outbox') <= MaxOutbox /\ flush' \in Flush /\ faults' \in 0..MaxFaults
        /\ writer' \in Write \cup {NoWrite}
    BY <1>1 DEF RecordTypeOK
  <1> QED BY <1>1, <1>2, <1>3, <1>4, Still, MoveKeepsAll

\* What a write that fails or that is waited for no more does to its waiter.
LEMMA WaiterGoesOn ==
  ASSUME RecordTypeOK, RecordInv, writer # NoWrite, UNCHANGED <<outbox, overflowed>>,
         \/ /\ writer.waiter = "caller" /\ UNCHANGED flush
            /\ \E at \in {"fallback", "error"} : Answer(writer.thought, at)
         \/ writer.waiter = "flush" /\ FlushStops /\ UNCHANGED call
         \/ writer.waiter = "nobody" /\ UNCHANGED <<call, flush>>
  PROVE  CallsMove /\ ListsMove /\ DeleteEnds /\ flush' \in Flush
  <1>0. flush \in Flush /\ writer.thought \in Thought
    BY Shape DEF RecordTypeOK
  <1>1. CASE /\ writer.waiter = "caller" /\ UNCHANGED flush
             /\ \E at \in {"fallback", "error"} : Answer(writer.thought, at)
    <2>1. call[writer.thought] = "writing"
      BY <1>1 DEF RecordInv, SlotInv
    <2>2. CallsMove
      BY <1>0, <1>1, <2>1, OneCallMoves DEF CallState
    <2> QED BY <1>0, <1>1, <2>2, Still
  <1>2. CASE writer.waiter = "flush" /\ FlushStops /\ UNCHANGED call
    <2>1. flush.at = "writing"
      BY <1>2 DEF RecordInv, SlotInv
    <2> QED BY <1>2, <2>1, StopsFacts, StopMoves, Still
  <1>3. CASE writer.waiter = "nobody" /\ UNCHANGED <<call, flush>>
    BY <1>0, <1>3, Still
  <1> QED BY <1>1, <1>2, <1>3

\* The write raises.
LEMMA WriteFailsKeeps ==
  ASSUME RecordTypeOK, RecordInv, JournalInv, NEW fallback \in BOOLEAN, NEW committed \in BOOLEAN,
         WriteFails(fallback, committed)
  PROVE  RecordPart' /\ RecordInv'
  <1>1. /\ writer # NoWrite /\ writer.thought \in Thought /\ writer' = NoWrite
        /\ writer.waiter \in {"caller", "flush", "nobody"}
        /\ UNCHANGED <<outbox, overflowed>>
    BY Shape DEF WriteFails
  <1>2. RowsExplained
    <2>1. CASE committed
      BY <1>1, <2>1, OneUnseenRow DEF WriteFails
    <2>2. CASE ~committed
      BY <2>2, Still DEF WriteFails
    <2> QED BY <2>1, <2>2
  <1>3. CallsMove /\ ListsMove /\ DeleteEnds /\ flush' \in Flush
    <2>1. CASE writer.waiter = "caller"
      <3>1. UNCHANGED flush /\ \E at \in {"fallback", "error"} : Answer(writer.thought, at)
        BY <2>1 DEF WriteFails
      <3> QED BY <1>1, <2>1, <3>1, WaiterGoesOn
    <2>2. CASE writer.waiter = "flush"
      <3>1. FlushStops /\ UNCHANGED call
        BY <2>2 DEF WriteFails
      <3> QED BY <1>1, <2>2, <3>1, WaiterGoesOn
    <2>3. CASE writer.waiter = "nobody"
      <3>1. UNCHANGED <<call, flush>>
        BY <2>3 DEF WriteFails
      <3> QED BY <1>1, <2>3, <3>1, WaiterGoesOn
    <2> QED BY <1>1, <2>1, <2>2, <2>3
  <1>4. SlotInv' /\ writer' \in Write \cup {NoWrite}
    BY <1>1 DEF SlotInv
  <1>5. faults' \in 0..MaxFaults
    BY FaultCount DEF WriteFails
  <1>6. Len(outbox') <= MaxOutbox
    BY <1>1 DEF RecordTypeOK
  <1> QED BY <1>2, <1>3, <1>4, <1>5, <1>6, MoveKeepsAll

\* The waiter goes on, the thread keeps the slot.
LEMMA TimeoutKeeps ==
  ASSUME RecordTypeOK, RecordInv, WaitTimesOut
  PROVE  RecordPart' /\ RecordInv'
  <1>0. writer # NoWrite /\ writer \in Write
    BY DEF WaitTimesOut, RecordTypeOK
  <1>1. /\ writer # NoWrite /\ writer \in Write
        /\ writer' = [writer EXCEPT !.waiter = "nobody"]
        /\ writer.waiter \in {"caller", "flush"}
        /\ UNCHANGED <<outbox, overflowed, rows, unseen>>
    BY <1>0, Shape DEF WaitTimesOut
  <1>2. CallsMove /\ ListsMove /\ DeleteEnds /\ flush' \in Flush
    <2>1. CASE writer.waiter = "caller"
      <3>1. UNCHANGED flush /\ \E at \in {"fallback", "error"} : Answer(writer.thought, at)
        BY <2>1 DEF WaitTimesOut
      <3> QED BY <1>1, <2>1, <3>1, WaiterGoesOn
    <2>2. CASE writer.waiter = "flush"
      <3>1. FlushStops /\ UNCHANGED call
        BY <2>2 DEF WaitTimesOut
      <3> QED BY <1>1, <2>2, <3>1, WaiterGoesOn
    <2> QED BY <1>1, <2>1, <2>2
  <1>3. writer' \in Write /\ writer'.waiter = "nobody"
    BY <1>1 DEF Write
  <1>4. SlotInv'
    BY <1>3 DEF SlotInv
  <1>5. faults' \in 0..MaxFaults
    BY FaultCount DEF WaitTimesOut
  <1>6. Len(outbox') <= MaxOutbox
    BY <1>1 DEF RecordTypeOK
  <1> QED BY <1>1, <1>2, <1>3, <1>4, <1>5, <1>6, Still, MoveKeepsAll

\* The flush lists, takes the next entry or stops, and returns.
LEMMA FlushStepKeeps ==
  ASSUME RecordTypeOK, RecordInv, FlushList \/ FlushNext \/ FlushReturns
  PROVE  RecordPart' /\ RecordInv'
  <1>1. /\ UNCHANGED <<rows, unseen, call, outbox, overflowed, faults>>
        /\ outbox \in Seq(Thought) /\ Distinct(outbox) /\ Len(outbox) <= MaxOutbox
        /\ faults \in 0..MaxFaults /\ writer \in Write \cup {NoWrite} /\ flush \in Flush
    BY DEF FlushList, FlushNext, FlushReturns, RecordTypeOK, RecordInv, ListInv
  <1>2. RowsExplained /\ CallsMove
    BY <1>1, Still
  <1>3. CASE FlushList
    <2> DEFINE k == IF Len(outbox) < FlushLimit THEN Len(outbox) ELSE FlushLimit
               part == SubSeq(outbox, 1, k)
    <2>1. /\ flush' = [Asleep EXCEPT !.at = "next", !.list = part]
          /\ flush.at = "sleep" /\ UNCHANGED writer
      BY <1>3 DEF FlushList
    <2>2. Len(outbox) \in Nat /\ k \in 0..Len(outbox)
      BY <1>1, LenProperties, RecordAssumption
    <2> HIDE DEF k
    <2>3. 1 \in 1..(Len(outbox) + 1) /\ k \in (1 - 1)..Len(outbox)
      BY <2>2
    <2>4. part \in Seq(Thought) /\ Distinct(part) /\ ToSet(part) \subseteq ToSet(outbox)
      BY <1>1, <2>3, Part
    <2> HIDE DEF part
    <2>5. /\ flush' \in Flush /\ flush'.at = "next" /\ flush'.list = part
      BY <2>1, <2>4 DEF Asleep, Flush
    <2>6. ListsMove /\ DeleteEnds
      BY <1>1, <2>1, <2>4, <2>5 DEF ListsMove, DeleteEnds
    <2>7. SlotInv'
      <3>1. writer # NoWrite => writer.waiter # "flush"
        BY <2>1 DEF RecordInv, SlotInv
      <3> QED BY <1>1, <2>1, <3>1 DEF RecordInv, SlotInv
    <2> QED BY <1>1, <1>2, <2>1, <2>5, <2>6, <2>7, MoveKeepsAll
  <1>4. CASE FlushNext /\ flush.list # <<>> /\ writer = NoWrite
    <2>1. /\ flush' = [flush EXCEPT !.at = "writing"] /\ flush.at = "next"
          /\ writer' = [thought |-> Head(flush.list), waiter |-> "flush"]
      BY <1>4 DEF FlushNext
    <2>2. flush.list \in Seq(Thought) /\ Head(flush.list) \in Thought
      BY <1>4, Shape, HeadAndTail
    <2>3. flush' \in Flush /\ flush'.at = "writing" /\ flush'.list = flush.list
      BY <1>1, <2>1 DEF Flush
    <2>4. writer' \in Write
      BY <2>1, <2>2 DEF Write
    <2>5. Distinct(flush.list)
      BY DEF RecordInv, ListInv
    <2>6. ListsMove /\ DeleteEnds
      BY <1>1, <2>1, <2>2, <2>3, <2>5 DEF ListsMove, DeleteEnds
    <2>7. SlotInv'
      BY <1>4, <2>1, <2>3 DEF SlotInv
    <2> QED BY <1>1, <1>2, <2>3, <2>4, <2>6, <2>7, MoveKeepsAll
  <1>5. CASE FlushNext /\ ~(flush.list # <<>> /\ writer = NoWrite)
    <2>1. FlushStops /\ UNCHANGED writer /\ flush.at = "next"
      BY <1>5 DEF FlushNext
    <2>2. ListsMove /\ DeleteEnds /\ flush' \in Flush
      BY <1>1, <2>1, StopsFacts, StopMoves
    <2>3. SlotInv'
      <3>1. writer # NoWrite => writer.waiter # "flush"
        BY <2>1 DEF RecordInv, SlotInv
      <3> QED BY <1>1, <2>1, <3>1 DEF RecordInv, SlotInv
    <2> QED BY <1>1, <1>2, <2>1, <2>2, <2>3, MoveKeepsAll
  <1>6. CASE FlushReturns
    <2>1. flush' = Asleep /\ UNCHANGED writer /\ flush.at = "follow"
      BY <1>6 DEF FlushReturns
    <2>2. /\ flush' \in Flush /\ flush'.at = "sleep" /\ flush'.list = <<>> /\ ~flush'.flushed
      BY <2>1, NoEntries DEF Asleep, Flush
    <2>3. ListsMove /\ DeleteEnds
      BY <1>1, <2>1, <2>2, StopMoves
    <2>4. SlotInv'
      <3>1. writer # NoWrite => writer.waiter # "flush"
        BY <2>1 DEF RecordInv, SlotInv
      <3> QED BY <1>1, <2>1, <3>1 DEF RecordInv, SlotInv
    <2> QED BY <1>1, <1>2, <2>1, <2>2, <2>3, <2>4, MoveKeepsAll
  <1> QED BY <1>3, <1>4, <1>5, <1>6

\* The entry that is written is deleted, or the delete fails.
LEMMA FlushDeleteKeeps ==
  ASSUME RecordTypeOK, RecordInv, NEW works \in BOOLEAN, FlushDelete(works)
  PROVE  RecordPart' /\ RecordInv'
  <1> DEFINE n == Head(flush.list)
  <1>1. /\ flush.at = "delete" /\ flush.list # <<>> /\ rows[n] > 0
        /\ flush' = [flush EXCEPT !.at = "next", !.list = Tail(@), !.flushed = TRUE]
        /\ UNCHANGED <<rows, call, writer, overflowed>>
    BY DEF FlushDelete, RecordInv, ListInv
  <1>2. /\ rows \in [Thought -> Nat] /\ unseen \in [Thought -> Nat]
        /\ outbox \in Seq(Thought) /\ Len(outbox) <= MaxOutbox /\ Len(outbox) \in Nat
        /\ MaxOutbox \in Nat
        /\ flush.list \in Seq(Thought) /\ Distinct(outbox) /\ Distinct(flush.list)
    BY Shape, LenProperties, RecordAssumption DEF RecordTypeOK, RecordInv, ListInv
  <1>3. /\ n \in Thought /\ Tail(flush.list) \in Seq(Thought) /\ Distinct(Tail(flush.list))
        /\ ToSet(Tail(flush.list)) \subseteq ToSet(flush.list) /\ n \notin ToSet(Tail(flush.list))
    BY <1>1, <1>2, HeadAndTail
  <1>4. flush' \in Flush /\ flush'.at = "next" /\ flush'.list = Tail(flush.list)
    BY <1>1, <1>3 DEF RecordTypeOK, Flush
  <1>5. works => DeleteEntry(n) /\ UNCHANGED <<unseen, faults>>
    BY DEF FlushDelete
  <1>6. ~works => /\ faults < MaxFaults /\ faults' = faults + 1 /\ UNCHANGED outbox
                  /\ unseen' = [unseen EXCEPT ![n] = @ + 1]
    BY DEF FlushDelete
  <1> HIDE DEF n
  <1> DEFINE Without ==
        /\ outbox' \in Seq(Thought) /\ Distinct(outbox') /\ ToSet(outbox') \subseteq ToSet(outbox)
        /\ ToSet(outbox) \subseteq ToSet(outbox') \cup {n} /\ Len(outbox') <= MaxOutbox
        /\ works => n \notin ToSet(outbox')
  <1>7. Without
    <2>1. ASSUME NEW i \in 1..Len(outbox), outbox[i] = n, outbox' = RemoveAt(outbox, i)
          PROVE  Without
      <3>1. /\ RemoveAt(outbox, i) \in Seq(Thought) /\ Len(RemoveAt(outbox, i)) = Len(outbox) - 1
            /\ ToSet(RemoveAt(outbox, i)) \subseteq ToSet(outbox)
            /\ ToSet(outbox) \subseteq ToSet(RemoveAt(outbox, i)) \cup {n}
            /\ Distinct(RemoveAt(outbox, i)) /\ n \notin ToSet(RemoveAt(outbox, i))
        BY <1>2, <2>1, WithoutEntry
      <3>2. Len(outbox') <= MaxOutbox
        BY <1>2, <2>1, <3>1
      <3> QED BY <2>1, <3>1, <3>2
    <2>2. ASSUME UNCHANGED outbox, works => n \notin ToSet(outbox) PROVE Without
      BY <1>2, <2>2
    <2>3. \/ \E i \in 1..Len(outbox) : outbox[i] = n /\ outbox' = RemoveAt(outbox, i)
          \/ UNCHANGED outbox /\ (works => n \notin ToSet(outbox))
      BY <1>5, <1>6 DEF DeleteEntry
    <2> QED BY <2>1, <2>2, <2>3
  <1>8. RowsExplained
    <2>1. CASE works
      BY <1>1, <1>5, <2>1, Still
    <2>2. CASE ~works
      <3>1. /\ unseen' \in [Thought -> Nat] /\ unseen'[n] = unseen[n] + 1
            /\ \A m \in Thought \ {n} : unseen'[m] = unseen[m]
        BY <1>2, <1>3, <1>6, <2>2
      <3>2. ASSUME NEW m \in Thought PROVE unseen[m] <= unseen'[m]
        <4>1. unseen[m] \in Nat
          BY <1>2
        <4>2. CASE m = n
          BY <3>1, <4>1, <4>2
        <4>3. CASE m # n
          BY <3>1, <4>1, <4>3
        <4> QED BY <4>2, <4>3
      <3> QED BY <1>1, <1>2, <3>1, <3>2 DEF RowsExplained
    <2> QED BY <2>1, <2>2
  <1>9. ListsMove
    <2>1. \A m \in ToSet(outbox) \ ToSet(outbox') : rows'[m] > 0
      BY <1>1, <1>7 DEF n
    <2>2. ToSet(flush'.list) \subseteq ToSet(outbox) \cup ToSet(flush.list)
      BY <1>3, <1>4
    <2> QED BY <1>1, <1>3, <1>4, <1>7, <2>1, <2>2 DEF ListsMove
  <1>10. DeleteEnds
    <2>1. CASE works
      BY <1>3, <1>4, <1>7, <2>1 DEF DeleteEnds, n
    <2>2. CASE ~works
      <3>1. rows[n] <= 1 + unseen[n]
        BY <1>3 DEF RecordInv, FewRows
      <3>2. rows'[n] <= unseen'[n]
        BY <1>1, <1>2, <1>3, <1>6, <2>2, <3>1
      <3> QED BY <3>2 DEF DeleteEnds, n
    <2> QED BY <2>1, <2>2
  <1>11. SlotInv'
    <2>1. writer # NoWrite => writer.waiter # "flush"
      BY <1>1 DEF RecordInv, SlotInv
    <2> QED BY <1>1, <2>1 DEF RecordInv, SlotInv
  <1>12. faults' \in 0..MaxFaults
    BY <1>5, <1>6, FaultCount
  <1>13. CallsMove /\ writer' \in Write \cup {NoWrite}
    BY <1>1, Still DEF RecordTypeOK
  <1> QED BY <1>4, <1>7, <1>8, <1>9, <1>10, <1>11, <1>12, <1>13, MoveKeepsAll

\* The daemon dies.
LEMMA CrashKeeps ==
  ASSUME RecordTypeOK, RecordInv, Crash
  PROVE  RecordPart' /\ RecordInv'
  <1> DEFINE n == Head(flush.list)
  <1>1. /\ call' = [m \in Thought |-> IF call[m] \in {"writing", "fallback", "follow"}
                                       THEN "error" ELSE call[m]]
        /\ unseen' = IF flush.at = "delete" THEN [unseen EXCEPT ![n] = @ + 1] ELSE unseen
        /\ writer' = NoWrite /\ flush' = Asleep
        /\ UNCHANGED <<rows, outbox, overflowed>>
    BY DEF Crash
  <1>2. /\ rows \in [Thought -> Nat] /\ unseen \in [Thought -> Nat]
        /\ call \in [Thought -> CallState]
        /\ outbox \in Seq(Thought) /\ Len(outbox) <= MaxOutbox
        /\ flush.list \in Seq(Thought) /\ Distinct(outbox)
    BY Shape DEF RecordTypeOK, RecordInv, ListInv, CallState
  <1>3. flush.at = "delete" => n \in Thought
    BY <1>2, HeadAndTail DEF RecordInv, ListInv
  <1> HIDE DEF n
  <1>4. /\ flush' \in Flush /\ flush'.at = "sleep" /\ flush'.list = <<>> /\ ~flush'.flushed
    BY <1>1, NoEntries DEF Asleep, Flush
  <1>5. CallsMove
    BY <1>1, <1>2 DEF CallsMove, CallState
  <1>6. RowsExplained
    <2>1. CASE flush.at = "delete"
      <3>1. /\ unseen' \in [Thought -> Nat] /\ unseen'[n] = unseen[n] + 1
            /\ \A m \in Thought \ {n} : unseen'[m] = unseen[m]
        BY <1>1, <1>2, <1>3, <2>1
      <3>2. ASSUME NEW m \in Thought PROVE unseen[m] <= unseen'[m]
        <4>1. unseen[m] \in Nat
          BY <1>2
        <4>2. CASE m = n
          BY <3>1, <4>1, <4>2
        <4>3. CASE m # n
          BY <3>1, <4>1, <4>3
        <4> QED BY <4>2, <4>3
      <3> QED BY <1>1, <1>2, <3>1, <3>2 DEF RowsExplained
    <2>2. CASE flush.at # "delete"
      BY <1>1, <2>2, Still
    <2> QED BY <2>1, <2>2
  <1>7. ListsMove
    BY <1>1, <1>2, <1>4, NoEntries DEF ListsMove
  <1>8. DeleteEnds
    <2> SUFFICES ASSUME flush.at = "delete" PROVE rows'[n] <= unseen'[n]
      BY DEF DeleteEnds, n
    <2>1. rows[n] <= 1 + unseen[n]
      BY <1>3 DEF RecordInv, FewRows
    <2> QED BY <1>1, <1>2, <1>3, <2>1
  <1>9. SlotInv' /\ writer' \in Write \cup {NoWrite}
    BY <1>1 DEF SlotInv
  <1>10. faults' \in 0..MaxFaults
    BY FaultCount DEF Crash
  <1> QED BY <1>1, <1>2, <1>4, <1>5, <1>6, <1>7, <1>8, <1>9, <1>10, MoveKeepsAll

\* Whatever happens, calls, slot, outbox and flush keep their invariant.
LEMMA RecordStepKeeps ==
  ASSUME RecordTypeOK, RecordInv, JournalInv, [Next]_vars
  PROVE  RecordPart' /\ RecordInv'
  <1>1. CASE UNCHANGED recordVars
    <2>1. /\ UNCHANGED <<rows, call, writer, outbox, flush, overflowed, unseen, faults>>
      BY <1>1 DEF recordVars
    <2>2. SlotInv'
      BY <2>1 DEF RecordInv, SlotInv
    <2>3. /\ writer' \in Write \cup {NoWrite} /\ Len(outbox') <= MaxOutbox
          /\ flush' \in Flush /\ faults' \in 0..MaxFaults
      BY <2>1 DEF RecordTypeOK
    <2> QED BY <2>1, <2>2, <2>3, Still, MoveKeepsAll
  <1>2. CASE RecordNext
    <2>1. ASSUME NEW n \in Thought, Record(n) \/ Queue(n) \/ QueueFails(n) \/ CallReturns(n)
          PROVE  RecordPart' /\ RecordInv'
      BY <2>1, RecordKeeps, QueueKeeps, CallEndKeeps
    <2>2. CASE WriteCommits
      <3>1. writer.waiter \in {"caller", "flush", "nobody"}
        BY <2>2, Shape DEF WriteCommits
      <3> QED BY <2>2, <3>1, CallerCommitKeeps, FlushCommitKeeps, LateCommitKeeps
    <2> QED BY <1>2, <2>1, <2>2, TimeoutKeeps, WriteFailsKeeps, FlushStepKeeps, FlushDeleteKeeps,
               CrashKeeps DEF RecordNext
  <1> QED BY <1>1, <1>2 DEF Next, vars

----------------------------------------------------------------------------
(* The schedulers *)

\* Everybody who schedules.
LEMMA Schedulers ==
  /\ Worker \in Scheduler /\ Boot \in Scheduler /\ Flusher \in Scheduler
  /\ Thought \subseteq Scheduler
  BY RecordAssumption DEF Scheduler

\* Where a scheduler may be put.
LEMMA StepValues ==
  /\ Off \in Step /\ Off.at = "off"
  /\ Begun \in Step /\ Begun.at = "count"
  /\ \A at \in {"off", "done", "raised", "find"} :
       [Off EXCEPT !.at = at] \in Step /\ [Off EXCEPT !.at = at].at = at
  BY DEF Off, Begun, Step, Active

\* One scheduler moves: if it was not looking, whoever was still is.
LEMMA OneStep ==
  ASSUME step \in [Scheduler -> Step], NEW p \in Scheduler, NEW v \in Step,
         step' = [step EXCEPT ![p] = v]
  PROVE  /\ step' \in [Scheduler -> Step] /\ step'[p] = v
         /\ v.at \in LookingAt => Looking'
         /\ Looking /\ step[p].at \notin LookingAt => Looking'
  <1>1. /\ step' \in [Scheduler -> Step] /\ step'[p] = v
        /\ \A q \in Scheduler \ {p} : step'[q] = step[q]
    OBVIOUS
  <1>2. ASSUME v.at \in LookingAt PROVE Looking'
    BY <1>1, <1>2 DEF Looking, LookingAt
  <1>3. ASSUME Looking, step[p].at \notin LookingAt PROVE Looking'
    <2>1. PICK q \in Scheduler : step[q].at \in LookingAt
      BY <1>3 DEF Looking
    <2>2. q # p /\ step'[q] = step[q]
      BY <1>1, <1>3, <2>1
    <2> QED BY <2>1, <2>2 DEF Looking, LookingAt
  <1> QED BY <1>1, <1>2, <1>3

\* A schedule ends.
LEMMA EndStep ==
  ASSUME step \in [Scheduler -> Step], NEW p \in Scheduler, NEW at \in {"done", "raised"}, Ends(p, at)
  PROVE  /\ step' \in [Scheduler -> Step]
         /\ Looking /\ step[p].at \notin LookingAt => Looking'
  <1>1. PICK v \in {"off", "done", "raised"} : step' = [step EXCEPT ![p] = [Off EXCEPT !.at = v]]
    BY DEF Ends, Leave
  <1>2. [Off EXCEPT !.at = v] \in Step
    BY StepValues
  <1> QED BY <1>1, <1>2, OneStep

\* The states of a task.
TaskState == {"none", "waiting", "running"}

\* A task is changed to an open state.
LEMMA OneTask ==
  ASSUME ScheduleTypeOK, ClaimsInv, NEW k \in IngestTask, NEW v \in {"waiting", "running"},
         ingest' = [ingest EXCEPT ![k] = v], k \notin working', working' \subseteq working,
         UNCHANGED claims
  PROVE  /\ ingest' \in [IngestTask -> TaskState] /\ ClaimsInv'
         /\ OpenTasks' # {}
  <1>1. /\ ingest' \in [IngestTask -> TaskState] /\ ingest'[k] = v
        /\ \A j \in IngestTask \ {k} : ingest'[j] = ingest[j]
    BY DEF ScheduleTypeOK, TaskState
  <1>2. working' \subseteq IngestTask
    BY DEF ScheduleTypeOK
  <1>3. \A j \in working' : ingest'[j] = "running"
    BY <1>1, <1>2 DEF ClaimsInv
  <1>4. \A j \in IngestTask : claims'[j] # {} => ingest'[j] # "none"
    BY <1>1 DEF ClaimsInv
  <1> QED BY <1>1, <1>3, <1>4 DEF OpenTasks, ClaimsInv

\* A task is closed; its claims stay under NoTask.
LEMMA CloseTask ==
  ASSUME ScheduleTypeOK, ClaimsInv, NEW k \in IngestTask, Close(k),
         k \notin working', working' \subseteq working
  PROVE  /\ ingest' \in [IngestTask -> TaskState] /\ ClaimsInv'
         /\ claims' \in [IngestTask \cup {NoTask} -> SUBSET Thought]
         /\ Claimed' = Claimed
  <1>0. claims \in [IngestTask \cup {NoTask} -> SUBSET Thought] /\ k # NoTask
    BY ScheduleAssumption DEF ScheduleTypeOK
  <1>1. /\ ingest' \in [IngestTask -> TaskState] /\ ingest'[k] = "none"
        /\ \A j \in IngestTask \ {k} : ingest'[j] = ingest[j]
    BY DEF ScheduleTypeOK, TaskState, Close
  <1>2. /\ claims' \in [IngestTask \cup {NoTask} -> SUBSET Thought]
        /\ claims'[k] = {} /\ claims'[NoTask] = claims[NoTask] \cup claims[k]
        /\ \A j \in IngestTask \ {k} : claims'[j] = claims[j]
    BY <1>0, ScheduleAssumption DEF Close
  <1>3. \A j \in working' : ingest'[j] = "running"
    BY <1>1 DEF ClaimsInv, ScheduleTypeOK
  <1>4. \A j \in IngestTask : claims'[j] # {} => ingest'[j] # "none"
    BY <1>1, <1>2 DEF ClaimsInv
  <1>5. Claimed' = Claimed
    <2>1. ASSUME NEW n \in Claimed PROVE n \in Claimed'
      <3>1. PICK j \in IngestTask \cup {NoTask} : n \in claims[j]
        BY <2>1 DEF Claimed
      <3>2. n \in claims'[j] \/ n \in claims'[NoTask]
        BY <1>2, <3>1
      <3> QED BY <3>2 DEF Claimed
    <2>2. ASSUME NEW n \in Claimed' PROVE n \in Claimed
      <3>1. PICK j \in IngestTask \cup {NoTask} : n \in claims'[j]
        BY <2>2 DEF Claimed
      <3>2. n \in claims[j] \/ n \in claims[k]
        BY <1>2, <3>1
      <3> QED BY <3>2 DEF Claimed
    <2> QED BY <2>1, <2>2
  <1> QED BY <1>1, <1>2, <1>3, <1>4, <1>5 DEF ClaimsInv

\* A step by which no pending thought loses the task or the scheduler it has.
StaysCovered ==
  pending' # {} /\ ~lapsed' =>
    \/ OpenTasks' # {} \/ Looking'
    \/ pending # {} /\ ~lapsed /\ OpenTasks = {} /\ ~Looking

\* A step that leaves every thought its row, or purges it.
JournalStays ==
  /\ Journal' \subseteq Journal /\ Journal \subseteq Journal' \cup purged'
  /\ purged \subseteq purged'

\* What is left alone.
LEMMA JournalStill ==
  ASSUME UNCHANGED <<pending, journalVars>>
  PROVE  Journal' = Journal /\ JournalStays
  BY DEF journalVars, Journal, Claimed, JournalStays

\* The same for tasks and worker.
LEMMA ClaimsStill ==
  ASSUME UNCHANGED <<claims, ingest, working>>
  PROVE  (ClaimsInv => ClaimsInv') /\ OpenTasks' = OpenTasks
  BY DEF ClaimsInv, OpenTasks

\* The transactions of a schedule, and the one that fails.
LEMMA SchedulerCovers ==
  ASSUME ScheduleTypeOK, ClaimsInv, NEW p \in Scheduler, Schedule(p) \/ ScheduleFails(p)
  PROVE  ScheduleTypeOK' /\ ClaimsInv' /\ JournalStays /\ StaysCovered
  <1>0. /\ step \in [Scheduler -> Step] /\ step[p] \in Step
        /\ ingest \in [IngestTask -> TaskState]
    BY DEF ScheduleTypeOK, TaskState
  <1>a. UNCHANGED <<pending, claims, kept, purged, working>> /\ JournalStays
    <2>1. UNCHANGED <<pending, journalVars, working>>
      BY DEF Schedule, Count, Find, Update, Insert, ScheduleFails
    <2> QED BY <2>1, JournalStill DEF journalVars
  <1>1. CASE Count(p)
    <2>1. UNCHANGED <<ingest, lapsed>>
      BY <1>1 DEF Count
    <2>2. ClaimsInv'
      BY <1>a, <2>1, ClaimsStill
    <2>3. CASE pending = {} /\ Ends(p, "done")
      BY <1>0, <1>a, <2>1, <2>2, <2>3, EndStep DEF ScheduleTypeOK, StaysCovered
    <2>4. CASE Leave(p, "find")
      <3>1. step' \in [Scheduler -> Step] /\ Looking'
        BY <1>0, <2>4, OneStep, StepValues DEF Leave, LookingAt
      <3> QED BY <1>a, <2>1, <2>2, <3>1 DEF ScheduleTypeOK, StaysCovered
    <2> QED BY <1>1, <2>3, <2>4 DEF Count
  <1>2. CASE Find(p)
    <2>1. UNCHANGED ingest
      BY <1>2 DEF Find
    <2>2. ClaimsInv'
      BY <1>a, <2>1, ClaimsStill
    <2>3. ASSUME NEW at \in {"unique", "insert"}, step' = [step EXCEPT ![p].at = at], UNCHANGED lapsed
          PROVE  ScheduleTypeOK' /\ StaysCovered
      <3> DEFINE v == [step[p] EXCEPT !.at = at]
      <3>1. v \in Step /\ v.at \in LookingAt /\ step' = [step EXCEPT ![p] = v]
        BY <1>0, <2>3 DEF Step, Active, LookingAt
      <3> HIDE DEF v
      <3>2. step' \in [Scheduler -> Step] /\ Looking'
        BY <1>0, <3>1, OneStep
      <3> QED BY <1>a, <2>1, <2>3, <3>2 DEF ScheduleTypeOK, StaysCovered
    <2>4. ASSUME NEW k \in OpenTasks, Found(p, k)
          PROVE  ScheduleTypeOK' /\ StaysCovered
      <3> DEFINE v == [step[p] EXCEPT !.at = "update", !.task = k]
      <3>1. v \in Step
        BY <1>0 DEF Step, Active, OpenTasks
      <3>2. lapsed' = FALSE /\ (Ends(p, "done") \/ step' = [step EXCEPT ![p] = v])
        BY <1>0, <2>4 DEF Found
      <3> HIDE DEF v
      <3>3. step' \in [Scheduler -> Step]
        BY <1>0, <3>1, <3>2, OneStep, EndStep
      <3>4. OpenTasks' # {}
        BY <2>1, <2>4 DEF OpenTasks
      <3> QED BY <1>a, <2>1, <3>2, <3>3, <3>4 DEF ScheduleTypeOK, StaysCovered
    <2>5. \/ \E at \in {"unique", "insert"} : step' = [step EXCEPT ![p].at = at] /\ UNCHANGED lapsed
          \/ \E k \in OpenTasks : Found(p, k)
      <3>1. CASE OpenTasks = {} /\ step[p].at = "find"
        BY <1>0, <1>2, <3>1 DEF Find
      <3>2. CASE OpenTasks = {} /\ step[p].at # "find"
        BY <1>0, <1>2, <3>2 DEF Find
      <3>3. CASE OpenTasks # {}
        BY <1>2, <3>3 DEF Find
      <3> QED BY <3>1, <3>2, <3>3
    <2> QED BY <1>a, <2>2, <2>3, <2>4, <2>5
  <1>3. CASE Update(p)
    <2>1. /\ UNCHANGED <<ingest, lapsed>> /\ step[p].at \notin LookingAt
          /\ \E at \in {"done", "raised"} : Ends(p, at)
      BY <1>3 DEF Update, LookingAt
    <2>2. step' \in [Scheduler -> Step] /\ (Looking => Looking')
      BY <1>0, <2>1, EndStep
    <2>3. ClaimsInv' /\ OpenTasks' = OpenTasks
      BY <1>a, <2>1, ClaimsStill
    <2> QED BY <1>a, <2>1, <2>2, <2>3 DEF ScheduleTypeOK, StaysCovered
  <1>4. CASE Insert(p)
    <2>1. lapsed' = FALSE /\ Ends(p, "done")
      BY <1>4 DEF Insert
    <2>2. step' \in [Scheduler -> Step]
      BY <1>0, <2>1, EndStep
    <2>3. ingest' \in [IngestTask -> TaskState] /\ OpenTasks' # {} /\ ClaimsInv'
      <3>1. ASSUME NEW k \in IngestTask \ OpenTasks, ingest' = [ingest EXCEPT ![k] = "waiting"]
            PROVE  ingest' \in [IngestTask -> TaskState] /\ OpenTasks' # {} /\ ClaimsInv'
        <4>1. k \notin working
          BY <3>1 DEF ClaimsInv, OpenTasks
        <4> QED BY <1>a, <3>1, <4>1, OneTask
      <3>2. CASE OpenTasks = IngestTask /\ UNCHANGED ingest
        BY <1>0, <1>a, <3>2, ClaimsStill, ScheduleAssumption
      <3> QED BY <1>4, <3>1, <3>2 DEF Insert
    <2> QED BY <1>a, <2>1, <2>2, <2>3 DEF ScheduleTypeOK, StaysCovered, TaskState
  <1>5. CASE ScheduleFails(p)
    <2>1. UNCHANGED ingest /\ lapsed' = TRUE /\ Ends(p, "raised")
      BY <1>5 DEF ScheduleFails
    <2>2. step' \in [Scheduler -> Step]
      BY <1>0, <2>1, EndStep
    <2>3. ClaimsInv'
      BY <1>a, <2>1, ClaimsStill
    <2> QED BY <1>a, <2>1, <2>2, <2>3 DEF ScheduleTypeOK, StaysCovered
  <1> QED BY <1>1, <1>2, <1>3, <1>4, <1>5, <1>a DEF Schedule

\* The worker takes, retries and ends an ingest task.
LEMMA TaskCovers ==
  ASSUME ScheduleTypeOK, ClaimsInv, NEW k \in IngestTask,
         Claim(k) \/ Completes(k) \/ Fails(k) \/ CancelTask(k)
  PROVE  ScheduleTypeOK' /\ ClaimsInv' /\ JournalStays /\ StaysCovered
  <1>0. /\ step \in [Scheduler -> Step] /\ working \subseteq IngestTask
        /\ ingest \in [IngestTask -> TaskState]
    BY DEF ScheduleTypeOK, TaskState
  <1>a. UNCHANGED <<pending, kept, purged>>
    BY DEF Claim, Completes, Fails, CancelTask, journalVars
  <1>b. ASSUME Claimed' = Claimed PROVE JournalStays
    BY <1>a, <1>b DEF JournalStays, Journal
  <1>1. CASE Claim(k)
    <2>1. /\ ingest' = [ingest EXCEPT ![k] = "running"] /\ working' = {k}
          /\ UNCHANGED <<claims, step, lapsed>>
      BY <1>1 DEF Claim, journalVars
    <2>2. /\ ingest' \in [IngestTask -> TaskState] /\ ingest'[k] = "running"
          /\ \A j \in IngestTask \ {k} : ingest'[j] = ingest[j]
      BY <1>0, <2>1 DEF TaskState
    <2>3. ClaimsInv' /\ OpenTasks' # {}
      BY <2>1, <2>2 DEF ClaimsInv, OpenTasks
    <2>4. Claimed' = Claimed
      BY <2>1 DEF Claimed
    <2> QED BY <1>a, <1>b, <2>1, <2>2, <2>3, <2>4 DEF ScheduleTypeOK, StaysCovered, TaskState
  <1>2. CASE Completes(k)
    <2>1. /\ Close(k) /\ working' = {}
          /\ step' = [step EXCEPT ![Worker] = Begun] /\ UNCHANGED lapsed
      BY <1>2 DEF Completes
    <2>2. step' \in [Scheduler -> Step] /\ Looking'
      BY <1>0, <2>1, OneStep, StepValues, Schedulers DEF LookingAt
    <2> QED BY <1>a, <1>b, <2>1, <2>2, CloseTask DEF ScheduleTypeOK, StaysCovered, TaskState
  <1>3. CASE Fails(k)
    <2>1. UNCHANGED step /\ working' = working \ {k}
      BY <1>3 DEF Fails
    <2>2. CASE ingest' = [ingest EXCEPT ![k] = "waiting"] /\ UNCHANGED <<claims, lapsed>>
      <3>1. ingest' \in [IngestTask -> TaskState] /\ OpenTasks' # {} /\ ClaimsInv'
        BY <2>1, <2>2, OneTask
      <3>2. Claimed' = Claimed
        BY <2>2 DEF Claimed
      <3> QED BY <1>a, <1>b, <2>1, <2>2, <3>1, <3>2 DEF ScheduleTypeOK, StaysCovered, TaskState
    <2>3. CASE Close(k) /\ lapsed' = TRUE
      BY <1>a, <1>b, <2>1, <2>3, CloseTask DEF ScheduleTypeOK, StaysCovered, TaskState
    <2> QED BY <1>3, <2>2, <2>3 DEF Fails
  <1>4. CASE CancelTask(k)
    <2>1. ingest[k] = "waiting" /\ Close(k) /\ lapsed' = TRUE /\ UNCHANGED <<step, working>>
      BY <1>4 DEF CancelTask
    <2>2. k \notin working
      BY <2>1 DEF ClaimsInv
    <2> QED BY <1>a, <1>b, <2>1, <2>2, CloseTask DEF ScheduleTypeOK, StaysCovered, TaskState
  <1> QED BY <1>1, <1>2, <1>3, <1>4

\* The handler claims thoughts, uses them and gives them back.
LEMMA HandlerCovers ==
  ASSUME ScheduleTypeOK, ClaimsInv, NEW k \in IngestTask, NEW some,
         TakeBatch(k, some) \/ KeepClaims(k, some) \/ ReleaseClaims(k, some)
  PROVE  ScheduleTypeOK' /\ ClaimsInv' /\ JournalStays /\ StaysCovered
  <1>0. /\ claims \in [IngestTask \cup {NoTask} -> SUBSET Thought]
        /\ pending \subseteq Thought /\ kept \subseteq Thought
    BY DEF ScheduleTypeOK
  <1>1. /\ k \in working /\ UNCHANGED <<purged, ingest, step, working, lapsed>>
        /\ ingest[k] = "running"
    BY DEF TakeBatch, KeepClaims, ReleaseClaims, ClaimsInv
  <1>2. OpenTasks' # {}
    BY <1>1 DEF OpenTasks
  <1>3. StaysCovered
    BY <1>2 DEF StaysCovered
  <1>4. /\ claims' \in [IngestTask \cup {NoTask} -> SUBSET Thought]
        /\ \A j \in (IngestTask \cup {NoTask}) \ {k} : claims'[j] = claims[j]
        /\ pending' \subseteq Thought /\ kept' \subseteq Thought
    BY <1>0 DEF TakeBatch, KeepClaims, ReleaseClaims
  <1>5. ClaimsInv'
    BY <1>1, <1>4 DEF ClaimsInv
  <1>6. pending' \cup claims'[k] \cup kept' = pending \cup claims[k] \cup kept
    BY <1>0 DEF TakeBatch, KeepClaims, ReleaseClaims
  <1>7. Journal' = Journal
    <2>1. Claimed = claims[k] \cup UNION {claims[j] : j \in (IngestTask \cup {NoTask}) \ {k}}
      BY DEF Claimed
    <2>2. Claimed' = claims'[k] \cup UNION {claims'[j] : j \in (IngestTask \cup {NoTask}) \ {k}}
      BY DEF Claimed
    <2>3. UNION {claims'[j] : j \in (IngestTask \cup {NoTask}) \ {k}}
            = UNION {claims[j] : j \in (IngestTask \cup {NoTask}) \ {k}}
      BY <1>4
    <2> QED BY <1>6, <2>1, <2>2, <2>3 DEF Journal
  <1> QED BY <1>1, <1>3, <1>4, <1>5, <1>7 DEF ScheduleTypeOK, JournalStays

\* The sweep: what it gives back has an open task, or the schedule has lapsed.
LEMMA SweepCovers ==
  ASSUME ScheduleTypeOK, ClaimsInv, NEW some, SweepRelease(some)
  PROVE  ScheduleTypeOK' /\ ClaimsInv' /\ JournalStays /\ StaysCovered
  <1>0. /\ claims \in [IngestTask \cup {NoTask} -> SUBSET Thought]
        /\ pending \subseteq Thought /\ lapsed \in BOOLEAN
    BY DEF ScheduleTypeOK
  <1>1. /\ some # {} /\ some \subseteq Claimed /\ pending' = pending \cup some
        /\ claims' = [j \in IngestTask \cup {NoTask} |-> claims[j] \ some]
        /\ lapsed' = (lapsed \/ some \cap claims[NoTask] # {})
        /\ UNCHANGED <<kept, purged, ingest, step, working>>
    BY <1>0 DEF SweepRelease
  <1>2. Claimed \subseteq Thought
    BY <1>0 DEF Claimed
  <1>3. /\ claims' \in [IngestTask \cup {NoTask} -> SUBSET Thought]
        /\ \A j \in IngestTask \cup {NoTask} : claims'[j] = claims[j] \ some
    BY <1>0, <1>1
  <1>4. ScheduleTypeOK'
    BY <1>0, <1>1, <1>2, <1>3 DEF ScheduleTypeOK
  <1>5. ClaimsInv'
    BY <1>1, <1>3 DEF ClaimsInv
  <1>6. JournalStays
    <2>1. Claimed' \subseteq Claimed
      BY <1>3 DEF Claimed
    <2>2. Claimed \subseteq Claimed' \cup some
      <3> SUFFICES ASSUME NEW n \in Claimed, n \notin some PROVE n \in Claimed'
        OBVIOUS
      <3>1. PICK j \in IngestTask \cup {NoTask} : n \in claims[j]
        BY DEF Claimed
      <3>2. n \in claims'[j]
        BY <1>3, <3>1
      <3> QED BY <3>2 DEF Claimed
    <2> QED BY <1>1, <2>1, <2>2 DEF JournalStays, Journal
  <1>7. StaysCovered
    <2> SUFFICES ASSUME ~lapsed' PROVE OpenTasks' # {}
      BY DEF StaysCovered
    <2>1. some \cap claims[NoTask] = {}
      BY <1>0, <1>1
    <2>2. PICK n \in some : n \in Claimed
      BY <1>1
    <2>3. PICK j \in IngestTask \cup {NoTask} : n \in claims[j]
      BY <2>2 DEF Claimed
    <2>4. j \in IngestTask /\ ingest[j] # "none"
      BY <2>1, <2>2, <2>3 DEF ClaimsInv
    <2> QED BY <1>1, <2>4 DEF OpenTasks
  <1> QED BY <1>4, <1>5, <1>6, <1>7

\* Housekeeping deletes a row that was used.
LEMMA PurgeCovers ==
  ASSUME ScheduleTypeOK, ClaimsInv, NEW n \in Thought, Purge(n)
  PROVE  ScheduleTypeOK' /\ ClaimsInv' /\ JournalStays /\ StaysCovered
  <1>1. /\ kept' = kept \ {n} /\ purged' = purged \cup {n}
        /\ UNCHANGED <<pending, claims, ingest, step, working, lapsed>>
    BY DEF Purge
  <1>2. ClaimsInv' /\ OpenTasks' = OpenTasks
    BY <1>1, ClaimsStill
  <1>3. Looking => Looking'
    BY <1>1 DEF Looking
  <1>4. Claimed' = Claimed
    BY <1>1 DEF Claimed
  <1> QED BY <1>1, <1>2, <1>3, <1>4 DEF ScheduleTypeOK, JournalStays, Journal, StaysCovered

\* Every step of schedulers, worker, sweep and housekeeping.
LEMMA ScheduleStep ==
  ASSUME ScheduleTypeOK, ClaimsInv, ScheduleNext
  PROVE  ScheduleTypeOK' /\ ClaimsInv' /\ JournalStays /\ StaysCovered
  <1>1. CASE \E p \in Scheduler : Schedule(p) \/ ScheduleFails(p)
    BY <1>1, SchedulerCovers
  <1>2. CASE \E k \in IngestTask : Claim(k) \/ Completes(k) \/ Fails(k) \/ CancelTask(k)
    BY <1>2, TaskCovers
  <1>3. CASE \E k \in IngestTask : \E batch \in SUBSET pending : TakeBatch(k, batch)
    BY <1>3, HandlerCovers
  <1>4. CASE \E k \in IngestTask : \E some \in SUBSET claims[k] :
               KeepClaims(k, some) \/ ReleaseClaims(k, some)
    BY <1>4, HandlerCovers
  <1>5. CASE \E some \in SUBSET Claimed : SweepRelease(some)
    BY <1>5, SweepCovers
  <1>6. CASE \E n \in Thought : Purge(n)
    BY <1>6, PurgeCovers
  <1> QED BY <1>1, <1>2, <1>3, <1>4, <1>5, <1>6 DEF ScheduleNext

\* A flush that stops hands what it has written to its scheduler.
LEMMA StopCovers ==
  ASSUME RecordTypeOK, RecordInv, FlushStops, flush.at # "delete"
  PROVE  /\ step' \in [Scheduler -> Step]
         /\ Looking => Looking'
         /\ flush.flushed => Looking'
  <1>0. step \in [Scheduler -> Step] /\ Begun \in Step /\ Begun.at = "count" /\ Flusher \in Scheduler
    BY StepValues, Schedulers DEF RecordTypeOK, ScheduleTypeOK
  <1>1. CASE step' = [step EXCEPT ![Flusher] = Begun]
    <2>1. step' \in [Scheduler -> Step] /\ Looking'
      BY <1>0, <1>1, OneStep DEF LookingAt
    <2> QED BY <2>1
  <1>2. CASE step' = step /\ ~flush.flushed
    BY <1>0, <1>2 DEF Looking
  <1> QED BY <1>1, <1>2, StopsFacts

\* A waiter that goes on without a row leaves every thought its scheduler.
LEMMA WaiterCovers ==
  ASSUME RecordTypeOK, RecordInv, ScheduledInv, writer # NoWrite,
         writer.waiter = "flush" => FlushStops,
         writer.waiter # "flush" => UNCHANGED <<flush, step>>,
         UNCHANGED <<pending, journalVars, ingest, working>>, lapsed' = lapsed \/ lapsed' = TRUE
  PROVE  ScheduleTypeOK' /\ ScheduledInv'
  <1>0. ScheduleTypeOK
    BY DEF RecordTypeOK
  <1>1. OpenTasks' = OpenTasks /\ (~lapsed' => ~lapsed) /\ lapsed' \in BOOLEAN
    BY <1>0 DEF OpenTasks, ScheduleTypeOK
  <1>2. CASE writer.waiter = "flush"
    <2>1. flush.at = "writing"
      BY <1>2 DEF RecordInv, SlotInv
    <2>2. /\ step' \in [Scheduler -> Step]
          /\ Looking => Looking'
          /\ flush.flushed => Looking'
      BY <1>2, <2>1, StopCovers
    <2> QED BY <1>0, <1>1, <2>1, <2>2 DEF ScheduledInv, ScheduleTypeOK, journalVars
  <1>3. CASE writer.waiter # "flush"
    <2>1. UNCHANGED <<flush, step>>
      BY <1>3
    <2>2. Looking => Looking'
      BY <2>1 DEF Looking
    <2> QED BY <1>0, <1>1, <2>1, <2>2 DEF ScheduledInv, ScheduleTypeOK, journalVars
  <1> QED BY <1>2, <1>3

\* Calls and writes: whoever adds a pending thought will schedule, or knows of
\* nothing and the schedule has lapsed.
LEMMA WriteCovers ==
  ASSUME RecordTypeOK, RecordInv, JournalInv, ScheduledInv, WriteCommits
  PROVE  ScheduleTypeOK' /\ ScheduledInv'
  <1>0. ScheduleTypeOK /\ step \in [Scheduler -> Step]
    BY DEF RecordTypeOK, ScheduleTypeOK
  <1>1. /\ writer # NoWrite /\ writer.thought \in Thought
        /\ UNCHANGED <<claims, kept, purged, ingest, working>>
        /\ writer.waiter \in {"caller", "flush", "nobody"} /\ Commit(writer.thought)
    BY Shape DEF WriteCommits, journalVars
  <1>2. pending' \subseteq Thought
    BY <1>0, <1>1, CommitFacts DEF ScheduleTypeOK
  <1>3. CASE writer.waiter = "caller"
    <2>1. step' = [step EXCEPT ![writer.thought] = Begun] /\ UNCHANGED lapsed
      BY <1>3 DEF WriteCommits
    <2>2. step' \in [Scheduler -> Step] /\ Looking'
      BY <1>0, <1>1, <2>1, OneStep, StepValues, Schedulers DEF LookingAt
    <2> QED BY <1>0, <1>1, <1>2, <2>1, <2>2 DEF ScheduleTypeOK, ScheduledInv
  <1>4. CASE writer.waiter = "flush"
    <2>1. flush' = [flush EXCEPT !.at = "delete"] /\ UNCHANGED <<lapsed, step>>
      BY <1>4 DEF WriteCommits
    <2>2. flush'.at = "delete"
      BY <2>1 DEF RecordTypeOK, Flush
    <2> QED BY <1>0, <1>1, <1>2, <2>1, <2>2 DEF ScheduleTypeOK, ScheduledInv
  <1>5. CASE writer.waiter = "nobody"
    <2>1. lapsed' = TRUE /\ UNCHANGED step
      BY <1>5 DEF WriteCommits
    <2> QED BY <1>0, <1>1, <1>2, <2>1 DEF ScheduleTypeOK, ScheduledInv
  <1> QED BY <1>1, <1>3, <1>4, <1>5

\* A write that fails, or is waited for no more.
LEMMA FailureCovers ==
  ASSUME RecordTypeOK, RecordInv, JournalInv, ScheduledInv, NEW fallback \in BOOLEAN, NEW committed \in BOOLEAN,
         WriteFails(fallback, committed) \/ WaitTimesOut
  PROVE  ScheduleTypeOK' /\ ScheduledInv'
  <1>0. ScheduleTypeOK /\ lapsed \in BOOLEAN
    BY DEF RecordTypeOK, ScheduleTypeOK
  <1>1. /\ writer # NoWrite /\ writer.thought \in Thought
        /\ writer.waiter \in {"caller", "flush", "nobody"}
        /\ UNCHANGED <<journalVars, ingest, working>>
    BY Shape DEF WriteFails, WaitTimesOut
  <1>2. /\ writer.waiter = "flush" => FlushStops
        /\ writer.waiter # "flush" => UNCHANGED <<flush, step>>
    BY <1>1 DEF WriteFails, WaitTimesOut
  <1>3. CASE UNCHANGED pending
    <2>1. lapsed' = lapsed \/ lapsed' = TRUE
      BY <1>0 DEF WriteFails, WaitTimesOut
    <2> QED BY <1>1, <1>2, <1>3, <2>1, WaiterCovers
  <1>4. CASE WriteFails(fallback, committed) /\ committed
    <2>1. Commit(writer.thought) /\ lapsed' = TRUE
      BY <1>0, <1>4 DEF WriteFails
    <2>3. pending' \subseteq Thought
      BY <1>0, <1>1, <2>1, CommitFacts DEF ScheduleTypeOK
    <2>2. step' \in [Scheduler -> Step]
      <3>1. CASE writer.waiter = "flush"
        <4>1. flush.at = "writing"
          BY <1>1, <3>1 DEF RecordInv, SlotInv
        <4> QED BY <1>2, <3>1, <4>1, StopCovers
      <3>2. CASE writer.waiter # "flush"
        BY <1>0, <1>2, <3>2 DEF ScheduleTypeOK
      <3> QED BY <3>1, <3>2
    <2> QED BY <1>0, <1>1, <2>1, <2>2, <2>3 DEF ScheduleTypeOK, ScheduledInv, journalVars
  <1>5. UNCHANGED pending \/ (WriteFails(fallback, committed) /\ committed)
    BY DEF WriteFails, WaitTimesOut
  <1> QED BY <1>3, <1>4, <1>5

\* The steps of a call that write nothing.
LEMMA CallCovers ==
  ASSUME RecordTypeOK, RecordInv, ScheduledInv, NEW n \in Thought,
         Record(n) \/ Queue(n) \/ QueueFails(n) \/ CallReturns(n)
  PROVE  ScheduleTypeOK' /\ ScheduledInv'
  <1>0. ScheduleTypeOK /\ step \in [Scheduler -> Step]
    BY DEF RecordTypeOK, ScheduleTypeOK
  <1>1. UNCHANGED <<pending, claims, kept, purged, ingest, working, lapsed, flush>>
    BY DEF Record, Queue, QueueFails, CallReturns, scheduleVars, journalVars
  <1>2. step' \in [Scheduler -> Step] /\ (Looking => Looking')
    <2>1. CASE CallReturns(n)
      <3>1. step[n].at \in {"done", "raised"} /\ Leave(n, "off")
        BY <2>1 DEF CallReturns
      <3> QED BY <1>0, <3>1, OneStep, StepValues, Schedulers DEF Leave, LookingAt
    <2>2. CASE Record(n) \/ Queue(n) \/ QueueFails(n)
      <3>1. step' = step
        BY <2>2 DEF Record, Queue, QueueFails, scheduleVars
      <3> QED BY <1>0, <3>1 DEF Looking
    <2> QED BY <2>1, <2>2
  <1>3. OpenTasks' = OpenTasks
    BY <1>1 DEF OpenTasks
  <1> QED BY <1>0, <1>1, <1>2, <1>3 DEF ScheduleTypeOK, ScheduledInv

\* The steps of the flush loop.
LEMMA FlushCovers ==
  ASSUME RecordTypeOK, RecordInv, ScheduledInv, NEW works \in BOOLEAN,
         FlushList \/ FlushNext \/ FlushReturns \/ FlushDelete(works)
  PROVE  ScheduleTypeOK' /\ ScheduledInv'
  <1>0. ScheduleTypeOK /\ step \in [Scheduler -> Step] /\ flush \in Flush
    BY DEF RecordTypeOK, ScheduleTypeOK
  <1>1. UNCHANGED <<pending, claims, kept, purged, ingest, working, lapsed>>
    BY DEF FlushList, FlushNext, FlushReturns, FlushDelete, scheduleVars, journalVars
  <1>2. OpenTasks' = OpenTasks
    BY <1>1 DEF OpenTasks
  <1>3. CASE FlushList
    <2>1. step' = step /\ flush.at = "sleep"
      BY <1>3 DEF FlushList, scheduleVars
    <2>2. ~flush.flushed
      BY <2>1 DEF RecordInv, ListInv
    <2>3. Looking => Looking'
      BY <2>1 DEF Looking
    <2> QED BY <1>0, <1>1, <1>2, <2>1, <2>2, <2>3 DEF ScheduleTypeOK, ScheduledInv
  <1>4. CASE FlushNext
    <2>1. flush.at = "next"
      BY <1>4 DEF FlushNext
    <2>2. CASE FlushStops
      <3>1. /\ step' \in [Scheduler -> Step]
            /\ Looking => Looking'
            /\ flush.flushed => Looking'
        BY <2>1, <2>2, StopCovers
      <3> QED BY <1>0, <1>1, <1>2, <2>1, <3>1 DEF ScheduleTypeOK, ScheduledInv
    <2>3. CASE flush' = [flush EXCEPT !.at = "writing"] /\ UNCHANGED step
      <3>1. flush'.flushed = flush.flushed
        BY <1>0, <2>3 DEF Flush
      <3>2. Looking => Looking'
        BY <2>3 DEF Looking
      <3> QED BY <1>0, <1>1, <1>2, <2>1, <2>3, <3>1, <3>2 DEF ScheduleTypeOK, ScheduledInv
    <2> QED BY <1>4, <2>2, <2>3 DEF FlushNext
  <1>5. CASE FlushReturns
    <2>1. flush.at = "follow" /\ step[Flusher].at \in {"done", "raised"} /\ Leave(Flusher, "off")
      BY <1>5 DEF FlushReturns
    <2>2. ~flush.flushed
      BY <2>1 DEF RecordInv, ListInv
    <2>3. step' \in [Scheduler -> Step] /\ (Looking => Looking')
      BY <1>0, <2>1, OneStep, StepValues, Schedulers DEF Leave, LookingAt
    <2> QED BY <1>0, <1>1, <1>2, <2>1, <2>2, <2>3 DEF ScheduleTypeOK, ScheduledInv
  <1>6. CASE FlushDelete(works)
    <2>1. step' = step /\ flush' = [flush EXCEPT !.at = "next", !.list = Tail(@), !.flushed = TRUE]
      BY <1>6 DEF FlushDelete, scheduleVars
    <2>2. flush'.flushed
      BY <1>0, <2>1 DEF Flush
    <2> QED BY <1>0, <1>1, <2>1, <2>2 DEF ScheduleTypeOK, ScheduledInv
  <1> QED BY <1>3, <1>4, <1>5, <1>6

\* The daemon that comes back schedules.
LEMMA CrashCovers ==
  ASSUME RecordTypeOK, Crash
  PROVE  ScheduleTypeOK' /\ ScheduledInv'
  <1>0. ScheduleTypeOK
    BY DEF RecordTypeOK
  <1>1. /\ step' = [p \in Scheduler |-> IF p = Boot THEN Begun ELSE Off]
        /\ working' = {} /\ UNCHANGED <<pending, claims, kept, purged, ingest, lapsed>>
    BY DEF Crash, journalVars
  <1>2. step' \in [Scheduler -> Step]
    BY <1>1, StepValues
  <1>3. Looking'
    <2>1. step'[Boot].at = "count"
      BY <1>1, StepValues, Schedulers
    <2> QED BY <2>1, Schedulers DEF Looking, LookingAt
  <1> QED BY <1>0, <1>1, <1>2, <1>3 DEF ScheduleTypeOK, ScheduledInv

----------------------------------------------------------------------------
(* The theorems *)

\* The rows of a step that records something.
LEMMA CommitJournal ==
  ASSUME RecordTypeOK, JournalInv, NEW n \in Thought, Commit(n), UNCHANGED journalVars
  PROVE  JournalInv'
  <1>0. rows \in [Thought -> Nat]
    BY DEF RecordTypeOK
  <1>1. CASE n \in Journal
    <2>1. UNCHANGED <<rows, pending, journalVars>>
      BY <1>1 DEF Commit
    <2>2. Journal' = Journal /\ purged' = purged
      BY <2>1, JournalStill DEF journalVars
    <2> QED BY <2>1, <2>2 DEF JournalInv
  <1>2. CASE n \notin Journal
    <2>1. /\ rows' = [rows EXCEPT ![n] = @ + 1] /\ pending' = pending \cup {n}
          /\ UNCHANGED <<claims, kept, purged>>
      BY <1>2 DEF Commit, journalVars
    <2>2. /\ rows'[n] = rows[n] + 1 /\ rows[n] \in Nat
          /\ \A m \in Thought \ {n} : rows'[m] = rows[m]
      BY <1>0, <2>1
    <2>3. Journal' = Journal \cup {n}
      BY <2>1 DEF Journal, Claimed
    <2>4. rows[n] > 0 => n \in purged
      BY <1>2 DEF JournalInv
    <2>5. Journal \subseteq Thought
      BY DEF RecordTypeOK, ScheduleTypeOK, Journal, Claimed
    <2>6. \A m \in Journal' : rows'[m] > 0
      BY <2>2, <2>3, <2>5 DEF JournalInv
    <2>7. ASSUME NEW m \in Thought
          PROVE  /\ rows'[m] > 0 => m \in Journal' \cup purged'
                 /\ rows'[m] > 1 => m \in purged'
      <3>1. CASE m = n
        BY <2>1, <2>2, <2>3, <2>4, <3>1
      <3>2. CASE m # n
        BY <2>1, <2>2, <2>3, <3>2 DEF JournalInv
      <3> QED BY <3>1, <3>2
    <2> QED BY <2>6, <2>7 DEF JournalInv
  <1> QED BY <1>1, <1>2

\* Rows and journal agree after every step, and tasks and claims do.
LEMMA JournalStep ==
  ASSUME RecordTypeOK, RecordInv, JournalInv, ClaimsInv, [Next]_vars
  PROVE  JournalInv' /\ ClaimsInv'
  <1>0. ScheduleTypeOK
    BY DEF RecordTypeOK
  <1>1. ASSUME UNCHANGED rows, JournalStays PROVE JournalInv'
    BY <1>1 DEF JournalStays, JournalInv, RecordTypeOK, ScheduleTypeOK, Journal, Claimed
  <1>2. ASSUME UNCHANGED <<rows, pending, journalVars>> PROVE JournalInv'
    BY <1>1, <1>2, JournalStill
  <1>3. CASE UNCHANGED vars
    <2>1. UNCHANGED <<rows, pending, journalVars, claims, ingest, working>>
      BY <1>3 DEF vars, scheduleVars, recordVars, journalVars
    <2> QED BY <1>2, <2>1, ClaimsStill
  <1>4. CASE ScheduleNext /\ UNCHANGED recordVars
    <2>1. UNCHANGED rows
      BY <1>4 DEF recordVars
    <2> QED BY <1>0, <1>1, <1>4, <2>1, ScheduleStep
  <1>5. CASE RecordNext
    <2>1. /\ UNCHANGED <<journalVars, ingest>> /\ working' \in {working, {}}
          /\ \/ UNCHANGED <<rows, pending>>
             \/ writer # NoWrite /\ Commit(writer.thought)
      <3>1. ASSUME NEW n \in Thought, Record(n) \/ Queue(n) \/ QueueFails(n) \/ CallReturns(n)
            PROVE  UNCHANGED <<journalVars, ingest, working, rows, pending>>
        BY <3>1 DEF Record, Queue, QueueFails, CallReturns, scheduleVars
      <3>2. ASSUME FlushList \/ FlushNext \/ FlushReturns \/ WaitTimesOut
            PROVE  UNCHANGED <<journalVars, ingest, working, rows, pending>>
        BY <3>2 DEF FlushList, FlushNext, FlushReturns, WaitTimesOut, scheduleVars
      <3>3. ASSUME NEW works \in BOOLEAN, FlushDelete(works)
            PROVE  UNCHANGED <<journalVars, ingest, working, rows, pending>>
        BY <3>3 DEF FlushDelete, scheduleVars
      <3>4. ASSUME WriteCommits
            PROVE  /\ UNCHANGED <<journalVars, ingest, working>>
                   /\ writer # NoWrite /\ Commit(writer.thought)
        BY <3>4 DEF WriteCommits
      <3>5. ASSUME NEW fallback \in BOOLEAN, NEW committed \in BOOLEAN, WriteFails(fallback, committed)
            PROVE  /\ UNCHANGED <<journalVars, ingest, working>>
                   /\ \/ UNCHANGED <<rows, pending>>
                      \/ writer # NoWrite /\ Commit(writer.thought)
        BY <3>5 DEF WriteFails
      <3>6. ASSUME Crash
            PROVE  UNCHANGED <<journalVars, ingest, rows, pending>> /\ working' = {}
        BY <3>6 DEF Crash
      <3> QED BY <1>5, <3>1, <3>2, <3>3, <3>4, <3>5, <3>6 DEF RecordNext
    <2>2. ClaimsInv'
      BY <2>1 DEF ClaimsInv, journalVars
    <2>3. JournalInv'
      BY <1>2, <2>1, CommitJournal, Shape
    <2> QED BY <2>2, <2>3
  <1> QED BY <1>3, <1>4, <1>5 DEF Next

\* All of it.
Invariant ==
  /\ RecordTypeOK /\ RecordInv /\ JournalInv /\ ClaimsInv /\ ScheduledInv

\* The parts together are inductive.
LEMMA StepKeeps ==
  ASSUME Invariant, [Next]_vars
  PROVE  Invariant'
  <1> USE DEF Invariant
  <1>1. ScheduleTypeOK' /\ ScheduledInv'
    <2>1. CASE RecordNext
      BY <2>1, WriteCovers, FailureCovers, CallCovers, FlushCovers, CrashCovers DEF RecordNext
    <2>2. CASE ScheduleNext /\ UNCHANGED recordVars
      <3>1. ScheduleTypeOK
        BY DEF RecordTypeOK
      <3>2. ScheduleTypeOK' /\ StaysCovered
        BY <2>2, <3>1, ScheduleStep
      <3>3. flush' = flush
        BY <2>2 DEF recordVars
      <3> QED BY <3>2, <3>3 DEF StaysCovered, ScheduledInv
    <2>3. CASE UNCHANGED vars
      <3>1. UNCHANGED <<pending, claims, kept, purged, ingest, step, working, lapsed, flush>>
        BY <2>3 DEF vars, scheduleVars, recordVars, journalVars
      <3>2. OpenTasks' = OpenTasks /\ (Looking => Looking')
        BY <3>1 DEF OpenTasks, Looking
      <3> QED BY <3>1, <3>2 DEF RecordTypeOK, ScheduleTypeOK, ScheduledInv
    <2> QED BY <2>1, <2>2, <2>3 DEF Next
  <1>2. RecordPart' /\ RecordInv'
    BY RecordStepKeeps
  <1>3. JournalInv' /\ ClaimsInv'
    BY JournalStep
  <1> QED BY <1>1, <1>2, <1>3, TypeParts DEF RecordTypeOK, RecordPart, CallState

\* And hold when nothing has been recorded.
LEMMA StartHolds == ASSUME Init PROVE Invariant
  <1>1. /\ pending = {} /\ claims = [k \in IngestTask \cup {NoTask} |-> {}]
        /\ kept = {} /\ purged = {} /\ ingest = [k \in IngestTask |-> "none"]
        /\ step = [p \in Scheduler |-> Off] /\ working = {} /\ lapsed = FALSE
        /\ rows = [n \in Thought |-> 0] /\ call = [n \in Thought |-> "none"]
        /\ writer = NoWrite /\ outbox = <<>> /\ flush = Asleep
        /\ overflowed = {} /\ unseen = [n \in Thought |-> 0] /\ faults = 0
    BY DEF Init, ScheduleInit
  <1>2. flush \in Flush /\ flush.at = "sleep" /\ flush.list = <<>> /\ flush.flushed = FALSE
    BY <1>1, NoEntries DEF Asleep, Flush
  <1>3. ScheduleTypeOK
    BY <1>1, StepValues DEF ScheduleTypeOK
  <1>4. RecordTypeOK
    <2>1. outbox \in Seq(Thought) /\ Len(outbox) <= MaxOutbox
      BY <1>1, NoEntries, EmptySeq, RecordAssumption
    <2> QED BY <1>1, <1>2, <1>3, <2>1, RecordAssumption DEF RecordTypeOK
  <1>5. ListInv
    BY <1>1, <1>2, NoEntries DEF ListInv
  <1>6. SlotInv /\ CreditInv /\ FollowInv /\ FewRows /\ ScheduledInv
    BY <1>1 DEF SlotInv, CreditInv, FollowInv, FewRows, ScheduledInv
  <1>7. AcknowledgedKept
    BY <1>1 DEF AcknowledgedKept
  <1>8. JournalInv /\ ClaimsInv
    <2>1. Journal = {}
      BY <1>1 DEF Journal, Claimed
    <2> QED BY <1>1, <2>1 DEF JournalInv, ClaimsInv
  <1> QED BY <1>4, <1>5, <1>6, <1>7, <1>8 DEF Invariant, RecordInv

\* The invariant of record_thought, the outbox and the schedulers.
THEOREM RecordInvariant == Spec => []Invariant
  <1>1. Init => Invariant
    BY StartHolds
  <1>2. Invariant /\ [Next]_vars => Invariant'
    BY StepKeeps
  <1> QED BY <1>1, <1>2, PTL DEF Spec

\* A thought whose caller was told "recorded" is in the journal or in the
\* outbox, or the limit of the outbox has dropped it: no flush, timeout, failing
\* delete or crash loses it, however many there are.
THEOREM AcknowledgedStays == Spec => []AcknowledgedKept
  <1>1. Invariant => AcknowledgedKept
    BY DEF Invariant, RecordInv
  <1> QED BY <1>1, RecordInvariant, PTL

\* A thought gets a second row only for one that its writer gave up or could
\* not delete from the outbox, and only when that one has been purged since.
THEOREM DuplicatesAreExplained == Spec => []DuplicatesExplained
  <1>1. Invariant => DuplicatesExplained
    BY DEF Invariant, RecordInv, JournalInv, FewRows, DuplicatesExplained
  <1> QED BY <1>1, RecordInvariant, PTL

\* No thought is left in the journal without a task or somebody who will
\* schedule one, for any number of schedulers at any step of each other, unless
\* a schedule was lost or a sweep gave back the claims of a closed task.
THEOREM PendingGetsTask == Spec => []PendingHasTask
  <1>1. Invariant => PendingHasTask
    BY DEF Invariant, ScheduledInv, PendingHasTask, AboutToSchedule, Looking, LookingAt, Active
  <1> QED BY <1>1, RecordInvariant, PTL

\* The types, the limit of the outbox among them.
THEOREM RecordTypes == Spec => []RecordTypeOK
  <1>1. Invariant => RecordTypeOK
    BY DEF Invariant
  <1> QED BY <1>1, RecordInvariant, PTL
============================================================================
