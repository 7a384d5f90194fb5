--------------------------- MODULE StorageProofs ---------------------------
(***************************************************************************)
(* Two stores that callers use without a transaction around what they do:  *)
(* the shared read cache, whose rows are read, validated and served in     *)
(* steps, and the leases of work items, which are claimed, kept, settled   *)
(* and cleaned up in steps.                                                *)
(*                                                                         *)
(* Part 1: the cache serves nothing stale as fresh but what its own order  *)
(* of reading explains, and a purge is final, for any number of callers,   *)
(* in-flight searches, mutations, purges and lost leaders.                 *)
(*                                                                         *)
(* Part 2: a lease that was granted with nothing left over and has not run *)
(* out is taken from nobody, for any number of items, tasks, attempts and  *)
(* crashes.                                                                *)
(***************************************************************************)
EXTENDS ReadCache, WorkItems, TLAPS

----------------------------------------------------------------------------
(* PART 1. THE READ CACHE *)

----------------------------------------------------------------------------
(* The inductive invariant *)

LeadAt == {"search", "epochs", "store", "finish", "failed"}

\* Epochs or a token that are current stand for data that is, or for data a
\* mutation overtook before they were captured.
Sound(p) == p.tag = "now" => p.shows \/ p.raced

\* What is known of a call by itself: between the read and the capture only a
\* mutation can have made the data old; what is validated or stored is sound.
CallInv(k) ==
  /\ k \in Call
  /\ k.at \in {"epochs", "token"} => k.held.shows \/ k.held.raced
  /\ k.at \in {"validate", "check", "store", "keep"} => Sound(k.held)
  /\ k.hit # "stale"
  /\ k.at \in LeadAt \cup {"wait"} => k.flight # None
  /\ k.at = "wake" /\ k.held.purged => k.purged

RowInv(row) == row # None => row \in Payload /\ Sound(row)

\* A leader that a purge has overtaken has lost its entry, and whoever still
\* waits for it was there before the purge.
FlightInv ==
  /\ \A c, d \in Caller : Leads(c) /\ Leads(d) /\ call[c].flight = call[d].flight => c = d
  /\ \A c \in Caller : Leads(c) /\ call[c].held.purged => inflight # call[c].flight
  /\ \A c, d \in Caller :
       Leads(c) /\ call[c].held.purged /\ WaitsFor(d, call[c].flight) => call[d].purged

CacheInv ==
  /\ call \in [Caller -> Call]
  /\ \A c \in Caller : CallInv(call[c])
  /\ RowInv(found) /\ RowInv(record)
  /\ found # None => ~found.purged
  /\ inflight \in Flight \cup {None}
  /\ FlightInv

----------------------------------------------------------------------------
(* Steps of one caller that leave the in-flight searches to the others      *)

\* The call goes on to k: it leads no search it has not led before, and waits
\* for none.
Quiet(c, k) ==
  /\ call' = [call EXCEPT ![c] = k]
  /\ k.at # "wait"
  /\ k.at \in LeadAt => /\ Leads(c) /\ k.flight = call[c].flight
                        /\ k.held.purged = call[c].held.purged
  /\ inflight' \in {inflight, None}

\* Such a step keeps what the other calls rest on.
LEMMA QuietKeeps ==
  ASSUME CacheInv, NEW c \in Caller, NEW k, CallInv(k), Quiet(c, k)
  PROVE  /\ call' \in [Caller -> Call]
         /\ \A d \in Caller : CallInv(call'[d])
         /\ inflight' \in Flight \cup {None}
         /\ FlightInv'
  <1>1. /\ call \in [Caller -> Call] /\ call' = [call EXCEPT ![c] = k] /\ k \in Call
        /\ call'[c] = k /\ \A d \in Caller : d # c => call'[d] = call[d]
        /\ \A d \in Caller : CallInv(call[d])
        /\ inflight \in Flight \cup {None}
    BY DEF CacheInv, Quiet, CallInv
  <1>2. call' \in [Caller -> Call] /\ \A d \in Caller : CallInv(call'[d])
    BY <1>1
  <1>3. inflight' \in Flight \cup {None}
    BY <1>1 DEF Quiet
  <1>4. ASSUME NEW d \in Caller, Leads(d)'
        PROVE  /\ Leads(d) /\ call'[d].flight = call[d].flight
               /\ call'[d].held.purged = call[d].held.purged
               /\ call[d].flight # None
    BY <1>1, <1>4 DEF Leads, LeadAt, Quiet, CallInv
  <1>5. ASSUME NEW d \in Caller, NEW f, WaitsFor(d, f)'
        PROVE  WaitsFor(d, f) /\ call'[d].purged = call[d].purged
    BY <1>1, <1>5 DEF WaitsFor, Quiet
  <1>6. \A a, b \in Caller : Leads(a)' /\ Leads(b)' /\ call'[a].flight = call'[b].flight => a = b
    BY <1>4 DEF CacheInv, FlightInv
  <1>7. \A a \in Caller : Leads(a)' /\ call'[a].held.purged => inflight' # call'[a].flight
    BY <1>4 DEF CacheInv, FlightInv, Quiet
  <1>8. \A a, b \in Caller :
          Leads(a)' /\ call'[a].held.purged /\ WaitsFor(b, call[a].flight)' => call'[b].purged
    BY <1>4, <1>5 DEF CacheInv, FlightInv
  <1> QED BY <1>2, <1>3, <1>4, <1>6, <1>7, <1>8 DEF FlightInv, WaitsFor

\* A call that is over, or starts anew, rests on nothing.
LEMMA IdleCall ==
  ASSUME NEW at \in {"idle", "begin", "read"}
  PROVE  /\ CallInv([Idle EXCEPT !.at = at])
         /\ CallInv([Idle EXCEPT !.at = "read", !.held.tag = "now"])
         /\ CallInv(Idle) /\ Idle.at = "idle"
  BY DEF CallInv, Call, At, Payload, Idle, Blank, Sound, LeadAt

\* A row that was sound when it was loaded can be validated.
LEMMA LoadedCall ==
  ASSUME NEW row \in Payload, Sound(row), NEW at \in {"validate", "check"}
  PROVE  CallInv([Idle EXCEPT !.at = at, !.held = row])
  BY DEF CallInv, Call, At, Payload, Idle, Blank, Sound, LeadAt

\* Served as fresh is only what shows the store, or was raced.
LEMMA ServedCall ==
  ASSUME CacheInv, NEW c \in Caller, call[c].at \in {"validate", "check"},
         call[c].held.tag = "now", Serve(c),
         inflight' = inflight
  PROVE  \E k : CallInv(k) /\ Quiet(c, k)
  <1> DEFINE h == CASE call[c].held.shows -> "current"
                    [] call[c].held.raced -> "raced"
                    [] OTHER              -> "stale"
             k == [Idle EXCEPT !.hit = h]
  <1>1. call[c].held.shows \/ call[c].held.raced
    BY DEF CacheInv, CallInv, Sound
  <1>2. h \in {"current", "raced"}
    BY <1>1
  <1>3. CallInv(k) /\ k.at = "idle"
    <2> HIDE DEF h
    <2> QED BY <1>2 DEF CallInv, Call, At, Payload, Idle, Blank, Sound, LeadAt
  <1>4. Quiet(c, k)
    BY <1>3 DEF Quiet, Serve, LeadAt
  <1> QED BY <1>3, <1>4

----------------------------------------------------------------------------
(* The steps *)

\* Nothing is known or in flight at first.
LEMMA InitInv == Init => CacheInv
  <1> SUFFICES ASSUME Init PROVE CacheInv
    OBVIOUS
  <1>1. CallInv(Idle) /\ Idle \in Call /\ Idle.at = "idle"
    BY IdleCall DEF CallInv
  <1>2. \A c \in Caller : call[c] = Idle
    BY DEF Init
  <1>3. call \in [Caller -> Call]
    BY <1>1 DEF Init
  <1>4. \A c \in Caller : ~Leads(c)
    BY <1>1, <1>2 DEF Leads
  <1> QED BY <1>1, <1>2, <1>3, <1>4 DEF CacheInv, FlightInv, Init, RowInv

\* Steps that change no row: it is enough to say what becomes of the call.
LEMMA QuietStep ==
  ASSUME CacheInv, UNCHANGED cacheVars,
         \E c \in Caller : \E k : CallInv(k) /\ Quiet(c, k)
  PROVE  CacheInv'
  BY QuietKeeps DEF CacheInv, cacheVars, RowInv

\* The lookup of a search or of a record.
LEMMA LookupKeeps ==
  ASSUME CacheInv, NEW c \in Caller, SearchBegins(c) \/ ReadBegins(c)
  PROVE  CacheInv'
  <1>1. UNCHANGED cacheVars /\ inflight' = inflight
    BY DEF SearchBegins, ReadBegins, cacheVars
  <1>2. \E k : CallInv(k) /\ Quiet(c, k)
    <2>1. CASE call' = [call EXCEPT ![c] = [Idle EXCEPT !.at = "begin"]]
      BY <1>1, <2>1, IdleCall DEF Quiet, LeadAt, Idle
    <2>2. CASE call' = [call EXCEPT ![c] = [Idle EXCEPT !.at = "read"]]
      BY <1>1, <2>2, IdleCall DEF Quiet, LeadAt, Idle
    <2>3. CASE found # None /\ call' = [call EXCEPT ![c] = [Idle EXCEPT !.at = "validate", !.held = found]]
      <3>1. CallInv([Idle EXCEPT !.at = "validate", !.held = found])
        BY <2>3, LoadedCall DEF CacheInv, RowInv
      <3> QED BY <1>1, <2>3, <3>1 DEF Quiet, LeadAt, Idle
    <2>4. CASE record # None /\ call' = [call EXCEPT ![c] = [Idle EXCEPT !.at = "check", !.held = record]]
      <3>1. CallInv([Idle EXCEPT !.at = "check", !.held = record])
        BY <2>4, LoadedCall DEF CacheInv, RowInv
      <3> QED BY <1>1, <2>4, <3>1 DEF Quiet, LeadAt, Idle
    <2> QED BY <2>1, <2>2, <2>3, <2>4 DEF SearchBegins, ReadBegins
  <1> QED BY <1>1, <1>2, QuietStep

\* The check of epochs or token.
LEMMA CheckKeeps ==
  ASSUME CacheInv, NEW c \in Caller, Validate(c) \/ ReadCheck(c)
  PROVE  CacheInv'
  <1>1. UNCHANGED cacheVars /\ inflight' = inflight
    BY DEF Validate, ReadCheck, cacheVars
  <1>2. \E k : CallInv(k) /\ Quiet(c, k)
    <2>1. CASE Serve(c) /\ call[c].held.tag = "now" /\ call[c].at \in {"validate", "check"}
      BY <1>1, <2>1, ServedCall
    <2>2. CASE Goto(c, "begin") /\ call[c].at = "validate"
      <3> DEFINE k == [call[c] EXCEPT !.at = "begin"]
      <3>1. CallInv(k) /\ k.at = "begin"
        BY DEF CacheInv, CallInv, Call, At, LeadAt
      <3> QED BY <1>1, <2>2, <3>1 DEF Quiet, Goto, LeadAt
    <2>3. CASE call' = [call EXCEPT ![c] = [Idle EXCEPT !.at = "read", !.held.tag = "now"]]
      BY <1>1, <2>3, IdleCall DEF Quiet, LeadAt, Idle
    <2>4. CASE call' = [call EXCEPT ![c] = [Idle EXCEPT !.at = "read"]]
      BY <1>1, <2>4, IdleCall DEF Quiet, LeadAt, Idle
    <2> QED BY <2>1, <2>2, <2>3, <2>4 DEF Validate, ReadCheck, FreshHit
  <1> QED BY <1>1, <1>2, QuietStep

\* A call that ends without a hit.
LEMMA AnswerKeeps ==
  ASSUME CacheInv, NEW c \in Caller,
         FollowerWakes(c) \/ Fallback(c) \/ ReadFallback(c) \/ LeaderLost(c)
  PROVE  CacheInv'
  <1>1. UNCHANGED cacheVars /\ inflight' = inflight /\ Answer(c)
    BY DEF FollowerWakes, Fallback, ReadFallback, LeaderLost, cacheVars
  <1>2. CallInv(Idle) /\ Quiet(c, Idle)
    BY <1>1, IdleCall DEF Quiet, Answer, LeadAt
  <1> QED BY <1>1, <1>2, QuietStep

\* A follower that gives up takes at most an entry away.
LEMMA TimeOutKeeps ==
  ASSUME CacheInv, NEW c \in Caller, FollowerTimesOut(c)
  PROVE  CacheInv'
  <1> DEFINE k == [call[c] EXCEPT !.at = "fallback"]
  <1>1. UNCHANGED cacheVars /\ inflight' \in {inflight, None} /\ Goto(c, "fallback")
    BY DEF FollowerTimesOut, cacheVars
  <1>2. CallInv(k) /\ k.at = "fallback"
    BY DEF CacheInv, CallInv, Call, At, LeadAt
  <1>3. Quiet(c, k)
    BY <1>1, <1>2 DEF Quiet, Goto, LeadAt
  <1> QED BY <1>1, <1>2, <1>3, QuietStep

\* The work of a leader or of a reader between the lookup and the row.
LEMMA WorkKeeps ==
  ASSUME CacheInv, NEW c \in Caller,
         Search(c) \/ CaptureEpochs(c) \/ Read(c) \/ CaptureToken(c)
  PROVE  CacheInv'
  <1>1. /\ UNCHANGED cacheVars /\ inflight' = inflight
        /\ CallInv(call[c]) /\ call[c] \in Call /\ call \in [Caller -> Call]
    BY DEF Search, CaptureEpochs, Read, CaptureToken, cacheVars, CacheInv
  <1>2. \E k : CallInv(k) /\ Quiet(c, k)
    <2>1. CASE call[c].at = "search" /\ call' = [call EXCEPT ![c].at = "epochs", ![c].held.shows = TRUE]
      <3> DEFINE k == [call[c] EXCEPT !.at = "epochs", !.held.shows = TRUE]
      <3>1. CallInv(k) /\ k.at = "epochs" /\ k.flight = call[c].flight /\ k.held.purged = call[c].held.purged
        BY <1>1, <2>1 DEF CallInv, Call, At, Payload, LeadAt
      <3>2. call' = [call EXCEPT ![c] = k]
        BY <1>1, <2>1
      <3> QED BY <1>1, <2>1, <3>1, <3>2 DEF Quiet, Leads
    <2>2. CASE call[c].at = "search" /\ Goto(c, "failed")
      <3> DEFINE k == [call[c] EXCEPT !.at = "failed"]
      <3>1. CallInv(k) /\ k.at = "failed" /\ k.flight = call[c].flight /\ k.held = call[c].held
        BY <1>1, <2>2 DEF CallInv, Call, At, LeadAt
      <3> QED BY <1>1, <2>2, <3>1 DEF Quiet, Leads, Goto
    <2>3. ASSUME NEW tag \in {"now", "none"}, call[c].at = "epochs",
                 call' = [call EXCEPT ![c].at = "store", ![c].held.tag = tag]
          PROVE  \E k : CallInv(k) /\ Quiet(c, k)
      <3> DEFINE k == [call[c] EXCEPT !.at = "store", !.held.tag = tag]
      <3>1. CallInv(k) /\ k.at = "store" /\ k.flight = call[c].flight /\ k.held.purged = call[c].held.purged
        BY <1>1, <2>3 DEF CallInv, Call, At, Payload, LeadAt, Sound
      <3>2. call' = [call EXCEPT ![c] = k]
        BY <1>1, <2>3
      <3> QED BY <1>1, <2>3, <3>1, <3>2 DEF Quiet, Leads
    <2>4. CASE call[c].at = "read" /\ Goto(c, "readfailed")
      <3> DEFINE k == [call[c] EXCEPT !.at = "readfailed"]
      <3>1. CallInv(k) /\ k.at = "readfailed"
        BY <1>1, <2>4 DEF CallInv, Call, At, LeadAt
      <3> QED BY <1>1, <2>4, <3>1 DEF Quiet, LeadAt, Goto
    <2>5. ASSUME NEW at \in {"token", "keep"}, call[c].at = "read",
                 call' = [call EXCEPT ![c].held.shows = TRUE, ![c].at = at]
          PROVE  \E k : CallInv(k) /\ Quiet(c, k)
      <3> DEFINE k == [call[c] EXCEPT !.at = at, !.held.shows = TRUE]
      <3>1. CallInv(k) /\ k.at \in {"token", "keep"}
        BY <1>1, <2>5 DEF CallInv, Call, At, Payload, LeadAt, Sound
      <3>2. call' = [call EXCEPT ![c] = k]
        BY <1>1, <2>5
      <3> QED BY <1>1, <3>1, <3>2 DEF Quiet, LeadAt
    <2>6. ASSUME NEW tag \in {"now", "none"}, call[c].at = "token",
                 call' = [call EXCEPT ![c].at = "keep", ![c].held.tag = tag]
          PROVE  \E k : CallInv(k) /\ Quiet(c, k)
      <3> DEFINE k == [call[c] EXCEPT !.at = "keep", !.held.tag = tag]
      <3>1. CallInv(k) /\ k.at = "keep"
        BY <1>1, <2>6 DEF CallInv, Call, At, Payload, LeadAt, Sound
      <3>2. call' = [call EXCEPT ![c] = k]
        BY <1>1, <2>6
      <3> QED BY <1>1, <3>1, <3>2 DEF Quiet, LeadAt
    <2>7. CASE Search(c)
      BY <2>1, <2>2, <2>7 DEF Search
    <2>8. CASE CaptureEpochs(c)
      BY <2>3, <2>8 DEF CaptureEpochs
    <2>9. CASE Read(c)
      BY <2>4, <2>5, <2>9 DEF Read
    <2>10. CASE CaptureToken(c)
      BY <2>6, <2>10 DEF CaptureToken
    <2> QED BY <2>7, <2>8, <2>9, <2>10
  <1> QED BY <1>1, <1>2, QuietStep

\* A leader stores a response only while the entry is its own, and a purge has
\* taken that from it.
LEMMA StoreKeeps ==
  ASSUME CacheInv, NEW c \in Caller, Store(c)
  PROVE  CacheInv'
  <1> DEFINE k == [call[c] EXCEPT !.at = "finish"]
  <1>1. /\ record' = record /\ inflight' = inflight /\ Goto(c, "finish")
        /\ found' = found \/ (inflight = call[c].flight /\ found' = call[c].held)
        /\ call[c].at = "store" /\ call[c] \in Call /\ CallInv(call[c]) /\ Leads(c)
    BY DEF Store, MayStore, CacheInv, Leads
  <1>2. CallInv(k) /\ k.at = "finish" /\ k.flight = call[c].flight /\ k.held = call[c].held
    BY <1>1 DEF CallInv, Call, At, LeadAt
  <1>3. Quiet(c, k)
    BY <1>1, <1>2 DEF Quiet, Goto
  <1>4. call[c].held \in Payload /\ Sound(call[c].held)
    BY <1>1 DEF CallInv, Call
  <1>5. inflight = call[c].flight => ~call[c].held.purged
    BY <1>1 DEF CacheInv, FlightInv
  <1>6. RowInv(found') /\ (found' # None => ~found'.purged) /\ RowInv(record')
    BY <1>1, <1>4, <1>5 DEF RowInv, CacheInv
  <1> QED BY <1>2, <1>3, <1>6, QuietKeeps DEF CacheInv, RowInv, Sound

\* The record row takes what the read has found, with its token.
LEMMA KeepKeeps ==
  ASSUME CacheInv, NEW c \in Caller, Keep(c)
  PROVE  CacheInv'
  <1>1. /\ found' = found /\ inflight' = inflight /\ Answer(c)
        /\ record' = call[c].held /\ CallInv(call[c]) /\ call[c].at = "keep"
    BY DEF Keep, CacheInv
  <1>2. CallInv(Idle) /\ Quiet(c, Idle)
    BY <1>1, IdleCall DEF Quiet, Answer, LeadAt
  <1>3. RowInv(record')
    BY <1>1 DEF RowInv, CallInv, Call
  <1> QED BY <1>1, <1>2, <1>3, QuietKeeps DEF CacheInv, RowInv

\* The first caller leads with an entry nobody refers to; a follower joins an
\* entry that no purged leader has.
LEMMA BeginKeeps ==
  ASSUME CacheInv, NEW c \in Caller, BeginInflight(c)
  PROVE  CacheInv'
  <1>1. /\ UNCHANGED cacheVars /\ call \in [Caller -> Call]
        /\ \A d \in Caller : CallInv(call[d])
        /\ inflight \in Flight \cup {None}
    BY DEF BeginInflight, cacheVars, CacheInv
  <1>2. CASE inflight = None
    <2>1. PICK f \in FreeFlights : /\ inflight' = f
                                   /\ call' = [call EXCEPT ![c] = [Idle EXCEPT !.at = "search", !.flight = f]]
      BY <1>2 DEF BeginInflight
    <2> DEFINE k == [Idle EXCEPT !.at = "search", !.flight = f]
    <2>2. f \in Flight /\ f # None /\ \A d \in Caller : call[d].flight # f
      BY CacheAssumption DEF FreeFlights
    <2>3. /\ CallInv(k) /\ k \in Call /\ k.at = "search" /\ k.flight = f /\ ~k.held.purged
      BY <2>2 DEF CallInv, Call, At, Payload, Idle, Blank, Sound, LeadAt
    <2> HIDE DEF k
    <2>4. call' = [call EXCEPT ![c] = k]
      BY <2>1 DEF k
    <2>5. call'[c] = k /\ \A d \in Caller : d # c => call'[d] = call[d]
      BY <1>1, <2>4
    <2>6. call' \in [Caller -> Call] /\ \A d \in Caller : CallInv(call'[d])
      BY <1>1, <2>3, <2>4, <2>5
    <2>7. \A d \in Caller : Leads(d)' => d = c \/ (Leads(d) /\ call'[d] = call[d] /\ call[d].flight # f)
      BY <2>2, <2>5 DEF Leads
    <2>8. \A d \in Caller : \A g : WaitsFor(d, g)' => d # c /\ WaitsFor(d, g) /\ call'[d] = call[d]
      BY <2>3, <2>5 DEF WaitsFor
    <2>9. \A a, b \in Caller : Leads(a)' /\ Leads(b)' /\ call'[a].flight = call'[b].flight => a = b
      BY <2>3, <2>5, <2>7 DEF CacheInv, FlightInv
    <2>10. \A a \in Caller : Leads(a)' /\ call'[a].held.purged => inflight' # call'[a].flight
      BY <2>1, <2>3, <2>5, <2>7
    <2>11. \A a, b \in Caller :
             Leads(a)' /\ call'[a].held.purged /\ WaitsFor(b, call[a].flight)' => call'[b].purged
      BY <2>3, <2>5, <2>7, <2>8 DEF CacheInv, FlightInv, WaitsFor
    <2>12. FlightInv'
      BY <2>9, <2>10, <2>11 DEF FlightInv, WaitsFor
    <2> QED BY <1>1, <2>1, <2>2, <2>6, <2>12 DEF CacheInv, RowInv, cacheVars
  <1>3. CASE inflight # None
    <2> DEFINE k == [Idle EXCEPT !.at = "wait", !.flight = inflight]
    <2>1. call' = [call EXCEPT ![c] = k] /\ inflight' = inflight
      BY <1>3 DEF BeginInflight
    <2>2. CallInv(k) /\ k \in Call /\ k.at = "wait" /\ k.flight = inflight
      BY <1>1, <1>3 DEF CallInv, Call, At, Payload, Idle, Blank, Sound, LeadAt
    <2> HIDE DEF k
    <2>3. call'[c] = k /\ \A d \in Caller : d # c => call'[d] = call[d]
      BY <1>1, <2>1
    <2>4. call' \in [Caller -> Call] /\ \A d \in Caller : CallInv(call'[d])
      BY <1>1, <2>1, <2>2, <2>3
    <2>5. \A d \in Caller : Leads(d)' => d # c /\ Leads(d) /\ call'[d] = call[d]
      BY <2>2, <2>3 DEF Leads
    <2>6. \A d \in Caller : \A g : WaitsFor(d, g)' =>
             (d = c /\ g = inflight) \/ (WaitsFor(d, g) /\ call'[d] = call[d])
      BY <2>2, <2>3 DEF WaitsFor
    <2>7. FlightInv'
      BY <2>1, <2>5, <2>6 DEF CacheInv, FlightInv, WaitsFor
    <2> QED BY <1>1, <2>1, <2>4, <2>7 DEF CacheInv, RowInv, cacheVars
  <1> QED BY <1>2, <1>3

\* What the followers of a purged leader are told, they asked for before.
LEMMA FinishKeeps ==
  ASSUME CacheInv, NEW c \in Caller, LeaderFinishes(c)
  PROVE  CacheInv'
  <1> DEFINE f == call[c].flight
             Told(d) == IF call[c].at = "failed" THEN [call[d] EXCEPT !.at = "fallback"]
                        ELSE [call[d] EXCEPT !.at = "wake", !.held = call[c].held]
             Over(d) == IF d = c THEN IF call[c].at = "failed" THEN Told(c) ELSE Idle
                        ELSE IF WaitsFor(d, f) THEN Told(d) ELSE call[d]
  <1>1. /\ UNCHANGED cacheVars /\ call \in [Caller -> Call]
        /\ \A d \in Caller : CallInv(call[d])
        /\ inflight \in Flight \cup {None} /\ inflight' \in {inflight, None}
        /\ call[c].at \in {"finish", "failed"} /\ Leads(c)
    BY DEF LeaderFinishes, cacheVars, CacheInv, Leads
  <1>2. \A d \in Caller : call'[d] = Over(d)
    BY DEF LeaderFinishes
  <1>3. \A d \in Caller : WaitsFor(d, f) /\ call[c].held.purged => call[d].purged
    BY <1>1 DEF CacheInv, FlightInv
  <1>4. ASSUME NEW d \in Caller, WaitsFor(d, f) \/ (d = c /\ call[c].at = "failed")
        PROVE  CallInv(Told(d))
    <2>1. CASE call[c].at = "failed"
      <3>1. Told(d) = [call[d] EXCEPT !.at = "fallback"] /\ CallInv(call[d])
        BY <1>1, <2>1
      <3> QED BY <3>1 DEF CallInv, Call, At, LeadAt
    <2>2. CASE call[c].at = "finish" /\ WaitsFor(d, f)
      <3>1. Told(d) = [call[d] EXCEPT !.at = "wake", !.held = call[c].held] /\ CallInv(call[d])
        BY <1>1, <2>2
      <3>2. call[c].held \in Payload /\ (call[c].held.purged => call[d].purged)
        BY <1>1, <1>3, <2>2 DEF CallInv, Call
      <3> HIDE DEF Told
      <3> QED BY <3>1, <3>2 DEF CallInv, Call, At, LeadAt
    <2> QED BY <1>1, <1>4, <2>1, <2>2
  <1>5. \A d \in Caller : CallInv(Over(d)) /\ (d = c \/ WaitsFor(d, f) => Over(d).at \in {"idle", "fallback", "wake"})
    BY <1>1, <1>4, IdleCall DEF Call, WaitsFor
  <1>6. \A d \in Caller : ~(d = c \/ WaitsFor(d, f)) => Over(d) = call[d]
    OBVIOUS
  <1>7. call' = [d \in Caller |-> Over(d)]
    BY DEF LeaderFinishes
  <1> HIDE DEF Over, Told
  <1>8. call' \in [Caller -> Call] /\ \A d \in Caller : CallInv(call'[d])
    BY <1>2, <1>5, <1>7 DEF CallInv
  <1>9. \A d \in Caller : Leads(d)' => Leads(d) /\ call'[d] = call[d]
    BY <1>2, <1>5, <1>6 DEF Leads
  <1>10. \A d \in Caller : \A g : WaitsFor(d, g)' => WaitsFor(d, g) /\ call'[d] = call[d]
    BY <1>2, <1>5, <1>6 DEF WaitsFor
  <1>11. \A d \in Caller : Leads(d) => call[d].flight # None
    BY <1>1 DEF Leads, CallInv, LeadAt
  <1>12. FlightInv'
    BY <1>1, <1>9, <1>10, <1>11 DEF CacheInv, FlightInv, WaitsFor
  <1> QED BY <1>1, <1>8, <1>12 DEF CacheInv, RowInv, cacheVars

\* A mutation leaves no epochs and no token current, and marks what is between
\* the data and the capture.
LEMMA CommitKeeps ==
  ASSUME CacheInv, NEW invalidates \in BOOLEAN, Commit(invalidates)
  PROVE  CacheInv'
  <1> DEFINE held(c) == Overtaken(call[c])
             k(c) == [call[c] EXCEPT !.held = held(c)]
  <1>1. /\ call \in [Caller -> Call] /\ inflight' = inflight
        /\ \A c \in Caller : CallInv(call[c]) /\ call[c] \in Call
    BY DEF Commit, CacheInv, CallInv
  <1>2. call' = [c \in Caller |-> k(c)]
    BY DEF Commit
  <1>3. ASSUME NEW p \in Payload
        PROVE  /\ Outdated(p) \in Payload /\ Outdated(p).tag # "now"
               /\ Outdated(p).purged = p.purged /\ Outdated(p).raced = p.raced
    BY DEF Outdated, Payload
  <1>4. ASSUME NEW row, RowInv(row)
        PROVE  RowInv(OutdatedRow(row)) /\ (row = None <=> OutdatedRow(row) = None)
    BY <1>3, <1>4, NoneAssumption DEF RowInv, OutdatedRow, Sound
  <1>5. ASSUME NEW c \in Caller
        PROVE  /\ held(c) \in Payload /\ held(c).tag # "now" /\ held(c).purged = call[c].held.purged
               /\ call[c].at \in {"epochs", "token"} => held(c).raced
    <2>1. call[c].held \in Payload
      BY <1>1 DEF Call
    <2>2. Outdated(call[c].held) \in Payload
      BY <1>3, <2>1
    <2> QED BY <1>3, <2>1, <2>2 DEF Payload, Overtaken
  <1> HIDE DEF held
  <1>6. ASSUME NEW c \in Caller
        PROVE  /\ k(c) \in Call /\ k(c).at = call[c].at /\ k(c).flight = call[c].flight
               /\ k(c).held = held(c) /\ k(c).purged = call[c].purged /\ k(c).hit = call[c].hit
    BY <1>1, <1>5 DEF Call
  <1> HIDE DEF k
  <1>7. \A c \in Caller : call'[c] = k(c) /\ CallInv(k(c))
    BY <1>1, <1>2, <1>5, <1>6 DEF CallInv, Sound
  <1>8. call' \in [Caller -> Call]
    BY <1>2, <1>6
  <1>9. FlightInv'
    BY <1>1, <1>5, <1>6, <1>7 DEF CacheInv, FlightInv, Leads, WaitsFor
  <1>10. RowInv(found') /\ RowInv(record') /\ (found' # None => ~found'.purged)
    BY <1>3, <1>4 DEF CacheInv, Commit, OutdatedRow, RowInv
  <1> QED BY <1>1, <1>7, <1>8, <1>9, <1>10 DEF CacheInv, RowInv, Sound

\* A purge marks every leader and everybody who waits for one.
LEMMA PurgeKeeps ==
  ASSUME CacheInv, Purge
  PROVE  CacheInv'
  <1> DEFINE k(c) == [call[c] EXCEPT !.at = IF WaitsFor(c, inflight) THEN "fallback" ELSE @,
                                     !.purged = call[c].flight # None,
                                     !.held.purged = call[c].flight # None]
  <1>1. /\ call \in [Caller -> Call] /\ inflight' = None
        /\ \A c \in Caller : CallInv(call[c]) /\ call[c] \in Call
    BY DEF Purge, CacheInv, CallInv
  <1>2. call' = [c \in Caller |-> k(c)]
    BY DEF Purge
  <1>3. ASSUME NEW c \in Caller
        PROVE  /\ k(c) \in Call /\ k(c).flight = call[c].flight /\ k(c).hit = call[c].hit
               /\ k(c).at = IF WaitsFor(c, inflight) THEN "fallback" ELSE call[c].at
               /\ k(c).held.shows = call[c].held.shows /\ k(c).held.tag = call[c].held.tag
               /\ k(c).held.raced = call[c].held.raced
               /\ k(c).held.purged = (call[c].flight # None)
               /\ k(c).purged = (call[c].flight # None)
    <2> DEFINE gone == call[c].flight # None
               at == IF WaitsFor(c, inflight) THEN "fallback" ELSE call[c].at
    <2>1. call[c] \in Call /\ gone \in BOOLEAN /\ at \in At
      BY <1>1 DEF Call, At
    <2>2. k(c) = [call[c] EXCEPT !.at = at, !.purged = gone, !.held.purged = gone]
      OBVIOUS
    <2> HIDE DEF gone, at, k
    <2> DEFINE h == [call[c].held EXCEPT !.purged = gone]
    <2>3. /\ h \in Payload /\ h.shows = call[c].held.shows /\ h.tag = call[c].held.tag
          /\ h.raced = call[c].held.raced /\ h.purged = gone
      BY <2>1 DEF Call, Payload
    <2>4. k(c) = [call[c] EXCEPT !.at = at, !.purged = gone, !.held = h]
      BY <2>1, <2>2 DEF Call
    <2> HIDE DEF h
    <2>5. /\ k(c) \in Call /\ k(c).flight = call[c].flight /\ k(c).hit = call[c].hit
          /\ k(c).at = at /\ k(c).held = h /\ k(c).purged = gone
      BY <2>1, <2>3, <2>4 DEF Call
    <2> QED BY <2>3, <2>5 DEF gone, at
  <1> HIDE DEF k
  <1>4. \A c \in Caller : call'[c] = k(c) /\ CallInv(k(c))
    BY <1>1, <1>2, <1>3 DEF CallInv, Sound, LeadAt, WaitsFor
  <1>5. call' \in [Caller -> Call]
    BY <1>2, <1>3
  <1>6. \A c \in Caller : Leads(c)' => Leads(c) /\ call'[c].flight = call[c].flight /\ call[c].flight # None
    BY <1>1, <1>3, <1>4 DEF Leads, WaitsFor, CallInv, LeadAt
  <1>7. \A c \in Caller : \A g : WaitsFor(c, g)' /\ g # None => call'[c].purged
    BY <1>3, <1>4 DEF WaitsFor
  <1>8. FlightInv'
    BY <1>1, <1>6, <1>7 DEF CacheInv, FlightInv, WaitsFor
  <1>9. found' = None /\ record' = record
    BY DEF Purge
  <1> QED BY <1>1, <1>4, <1>5, <1>8, <1>9 DEF CacheInv, RowInv

\* The invalidation after a mutation only takes rows away.
LEMMA InvalidateKeeps ==
  ASSUME CacheInv, InvalidateForMutation
  PROVE  CacheInv'
  <1>1. found' = None /\ record' = None /\ UNCHANGED <<inflight, call>>
    BY DEF InvalidateForMutation
  <1> QED BY <1>1 DEF CacheInv, RowInv, FlightInv, Leads, WaitsFor

\* Every step keeps the invariant.
LEMMA NextInv == CacheInv /\ [Next]_vars => CacheInv'
  <1> SUFFICES ASSUME CacheInv, [Next]_vars PROVE CacheInv'
    OBVIOUS
  <1>1. ASSUME NEW c \in Caller, SearchBegins(c) \/ ReadBegins(c) \/ Steps(c) \/ LeaderLost(c)
        PROVE  CacheInv'
    BY <1>1, LookupKeeps, CheckKeeps, AnswerKeeps, TimeOutKeeps, WorkKeeps, StoreKeeps,
       KeepKeeps, BeginKeeps, FinishKeeps DEF Steps
  <1>2. ASSUME NEW invalidates \in BOOLEAN, Commit(invalidates)
        PROVE  CacheInv'
    BY <1>2, CommitKeeps
  <1>3. CASE InvalidateForMutation
    BY <1>3, InvalidateKeeps
  <1>4. CASE Purge
    BY <1>4, PurgeKeeps
  <1>5. CASE UNCHANGED vars
    BY <1>5 DEF CacheInv, RowInv, FlightInv, Leads, WaitsFor, vars
  <1> QED BY <1>1, <1>2, <1>3, <1>4, <1>5 DEF Next

----------------------------------------------------------------------------
(* The theorems *)

\* A fresh hit is current when it is validated, except for what was raced, for
\* any number of callers (_load_fresh_cached_search_hit,
\* _load_validated_cached_read_hit).
THEOREM HitsStayCurrent == Spec => []HitsAreCurrent
  <1>1. CacheInv => HitsAreCurrent
    BY DEF CacheInv, CallInv, HitsAreCurrent
  <1> QED BY <1>1, InitInv, NextInv, PTL DEF Spec

\* What a purge removed does not come back, neither as a row nor as the answer
\* to a later caller (purge_search_responses).
THEOREM PurgesAreFinal == Spec => []PurgeIsFinal
  <1>1. CacheInv => PurgeIsFinal
    BY DEF CacheInv, CallInv, PurgeIsFinal
  <1> QED BY <1>1, InitInv, NextInv, PTL DEF Spec

\* The types and bounds, and one leader for each in-flight search
\* (begin_inflight_search).
THEOREM CacheTypes == Spec => []CacheTypeOK
  <1> DEFINE Count == commits \in 0..MaxPending /\ faults \in 0..MaxFaults
  <1>1. Init => Count
    BY CacheAssumption DEF Init
  <1>2. Count /\ [Next]_vars => Count'
    <2> SUFFICES ASSUME Count, [Next]_vars PROVE Count'
      OBVIOUS
    <2>1. \/ UNCHANGED <<commits, faults>>
          \/ \E invalidates \in BOOLEAN : Commit(invalidates)
          \/ InvalidateForMutation
          \/ \E c \in Caller : LeaderLost(c)
      BY DEF Next, Steps, SearchBegins, ReadBegins, Validate, BeginInflight, Search, CaptureEpochs,
             Store, LeaderFinishes, FollowerWakes, FollowerTimesOut, Fallback, ReadCheck, Read,
             ReadFallback, CaptureToken, Keep, Purge, vars
    <2> QED BY <2>1, CacheAssumption DEF Commit, InvalidateForMutation, LeaderLost
  <1>3. CacheInv /\ Count => CacheTypeOK
    BY DEF CacheInv, FlightInv, RowInv, CacheTypeOK
  <1> QED BY <1>1, <1>2, <1>3, InitInv, NextInv, PTL DEF Spec
----------------------------------------------------------------------------
(* PART 2. THE LEASES *)

----------------------------------------------------------------------------
(* Leases: the inductive invariant *)

CleanupState == [at : {"off", "list", "release"}, todo : SUBSET Item]
PassState == [rows : SUBSET (Item \X Task), found : SUBSET Item]

\* The types, with those of the tasks.
LeaseTypes ==
  /\ phase \in [Task -> {"waiting", "held", "closed"}]
  /\ attempt \in [Task -> 0..MaxAttempts]
  /\ item \in [Item -> Row]
  /\ \A i \in Item : Running(i) <=> item[i].owner # NoOwner
  /\ alive \subseteq Run /\ holds \in [Run -> SUBSET Item]
  /\ cleanup \in [Run -> CleanupState] /\ pass \in PassState
  /\ lapsed \subseteq Item /\ crashes \in 0..MaxCrashes

\* Handlers run for attempts that were granted, and only handlers hold items.
HandlersInv ==
  /\ \A r \in alive : r[2] <= attempt[r[1]]
  /\ \A r \in Run \ alive : holds[r] = {}

\* The task's running attempt has leased i in time, with nothing left over.
Leased(r, i) == r \in alive /\ i \in holds[r] /\ Current(r) /\ i \notin lapsed

\* Nobody can take the item away: it is not due, no other handler counts it
\* among its own, no clean-up will release it or list the task's leases, and
\* the pass has either not seen it or seen it with an owner that still runs.
Untouchable(r, i) ==
  /\ Running(i) /\ item[i].owner = r[1] /\ ~item[i].due
  /\ \A q \in alive \ {r} : i \notin holds[q]
  /\ \A q \in Run : i \notin cleanup[q].todo /\ (q[1] = r[1] => cleanup[q].at # "list")
  /\ i \notin pass.found /\ \A t \in Task : <<i, t>> \in pass.rows => t = r[1]

LeaseInv == \A r \in Run, i \in Item : Leased(r, i) => Untouchable(r, i)

LeaseAll == LeaseTypes /\ HandlersInv /\ LeaseInv

\* What the types say of one row and one clean-up.
LEMMA LeaseShape ==
  ASSUME LeaseTypes
  PROVE  /\ \A i \in Item : /\ item[i] \in Row /\ item[i].owner \in Task \cup {NoOwner}
                            /\ Running(i) => item[i].owner \in Task
         /\ \A r \in Run : /\ r[1] \in Task /\ r[2] \in 1..MaxAttempts /\ holds[r] \subseteq Item
                           /\ cleanup[r] \in CleanupState
         /\ pass.rows \subseteq Item \X Task /\ pass.found \subseteq Item
  BY DEF LeaseTypes, Row, Run, PassState

\* Rows keep an owner exactly while they run, and what is leased keeps its own.
RowsMove ==
  /\ item' \in [Item -> Row]
  /\ \A i \in Item : item'[i].status = "running" <=> item'[i].owner # NoOwner
  /\ lapsed \subseteq lapsed' /\ lapsed' \subseteq Item
  /\ \A r \in Run, i \in Item : Leased(r, i) /\ i \in holds'[r] /\ i \notin lapsed' =>
       item'[i].status = "running" /\ item'[i].owner = r[1] /\ ~item'[i].due

\* Clean-ups and pass have less to do than before.
CleanupsMove ==
  /\ cleanup' \in [Run -> CleanupState]
  /\ \A q \in Run : /\ cleanup'[q].todo \subseteq cleanup[q].todo
                    /\ cleanup'[q].at = "list" => cleanup[q].at = "list"

PassMoves ==
  /\ pass' \in PassState
  /\ pass'.rows \subseteq pass.rows /\ pass'.found \subseteq pass.found

\* Handlers hold less than before.
HoldsMove ==
  /\ alive' \subseteq alive /\ holds' \in [Run -> SUBSET Item]
  /\ \A q \in Run : /\ holds'[q] \subseteq holds[q]
                    /\ q \in alive \ alive' => holds'[q] = {}

\* Such a step takes no lease away.
LEMMA RowsKeep ==
  ASSUME LeaseAll, RowsMove, CleanupsMove, PassMoves, HoldsMove,
         UNCHANGED <<phase, attempt>>, crashes' \in 0..MaxCrashes
  PROVE  LeaseAll'
  <1>1. LeaseTypes'
    BY DEF LeaseAll, LeaseTypes, Running, RowsMove, CleanupsMove, PassMoves, HoldsMove
  <1>2. HandlersInv'
    <2>1. \A r \in alive' : r[2] <= attempt'[r[1]]
      BY DEF LeaseAll, HandlersInv, HoldsMove
    <2>2. \A r \in Run \ alive' : holds'[r] = {}
      BY DEF LeaseAll, HandlersInv, HoldsMove
    <2> QED BY <2>1, <2>2 DEF HandlersInv
  <1>3. LeaseInv'
    <2> SUFFICES ASSUME NEW r \in Run, NEW i \in Item, Leased(r, i)' PROVE Untouchable(r, i)'
      BY DEF LeaseInv
    <2>1. Leased(r, i) /\ i \in holds'[r] /\ i \notin lapsed'
      BY DEF Leased, Current, HoldsMove, RowsMove
    <2>2. Untouchable(r, i)
      BY <2>1 DEF LeaseAll, LeaseInv
    <2>3. item'[i].status = "running" /\ item'[i].owner = r[1] /\ ~item'[i].due
      BY <2>1 DEF RowsMove
    <2>4. ASSUME NEW q \in alive' \ {r} PROVE i \notin holds'[q]
      <3>1. q \in alive /\ q \in Run
        BY DEF HoldsMove, LeaseAll, LeaseTypes
      <3> QED BY <2>2, <3>1 DEF Untouchable, HoldsMove
    <2>5. ASSUME NEW q \in Run
          PROVE  i \notin cleanup'[q].todo /\ (q[1] = r[1] => cleanup'[q].at # "list")
      <3>1. i \notin cleanup[q].todo /\ (q[1] = r[1] => cleanup[q].at # "list")
        BY <2>2 DEF Untouchable
      <3> QED BY <3>1 DEF CleanupsMove
    <2>6. i \notin pass'.found /\ \A t \in Task : <<i, t>> \in pass'.rows => t = r[1]
      BY <2>2 DEF Untouchable, PassMoves
    <2> QED BY <2>3, <2>4, <2>5, <2>6 DEF Untouchable, Running
  <1> QED BY <1>1, <1>2, <1>3 DEF LeaseAll

\* What is left alone.
LEMMA LeftAlone ==
  ASSUME LeaseAll
  PROVE  /\ UNCHANGED <<item, lapsed>> => RowsMove
         /\ UNCHANGED cleanup => CleanupsMove
         /\ UNCHANGED pass => PassMoves
         /\ UNCHANGED <<alive, holds>> => HoldsMove
  <1>0. LeaseTypes
    BY DEF LeaseAll
  <1>1. ASSUME UNCHANGED <<item, lapsed>> PROVE RowsMove
    <2>1. \A r \in Run, i \in Item : Leased(r, i) =>
            item[i].status = "running" /\ item[i].owner = r[1] /\ ~item[i].due
      BY DEF LeaseAll, LeaseInv, Untouchable, Running
    <2> QED BY <1>0, <1>1, <2>1 DEF RowsMove, LeaseTypes, Running
  <1>2. ASSUME UNCHANGED cleanup PROVE CleanupsMove
    BY <1>0, <1>2 DEF CleanupsMove, LeaseTypes
  <1>3. ASSUME UNCHANGED pass PROVE PassMoves
    BY <1>0, <1>3 DEF PassMoves, LeaseTypes
  <1>4. ASSUME UNCHANGED <<alive, holds>> PROVE HoldsMove
    BY <1>0, <1>4 DEF HoldsMove, LeaseTypes
  <1> QED BY <1>1, <1>2, <1>3, <1>4

\* A row is put to a new value.
LEMMA OneRow ==
  ASSUME LeaseTypes, NEW j \in Item, NEW v \in Row, v.status = "running" <=> v.owner # NoOwner,
         item' = [item EXCEPT ![j] = v]
  PROVE  /\ item' \in [Item -> Row] /\ item'[j] = v
         /\ \A i \in Item \ {j} : item'[i] = item[i]
         /\ \A i \in Item : item'[i].status = "running" <=> item'[i].owner # NoOwner
  <1>1. /\ item' \in [Item -> Row] /\ item'[j] = v
        /\ \A i \in Item \ {j} : item'[i] = item[i]
    BY DEF LeaseTypes
  <1>2. \A i \in Item : item[i].status = "running" <=> item[i].owner # NoOwner
    BY DEF LeaseTypes, Running
  <1> QED BY <1>1, <1>2

\* The values that rows are put to.
LEMMA RowValues ==
  /\ Absent \in Row /\ Absent.status = "absent" /\ Absent.owner = NoOwner
  /\ \A status \in {"pending", "deferred", "completed"}, due \in BOOLEAN :
       [status |-> status, owner |-> NoOwner, due |-> due] \in Row
  /\ \A t \in Task : [status |-> "running", owner |-> t, due |-> FALSE] \in Row
  BY DEF Absent, Row

\* What is in a lease is running and not due.
LEMMA LeasedRow ==
  ASSUME LeaseAll, NEW r \in Run, NEW i \in Item, Leased(r, i)
  PROVE  /\ item[i].status = "running" /\ item[i].owner = r[1] /\ ~item[i].due
         /\ Untouchable(r, i)
  BY DEF LeaseAll, LeaseInv, Untouchable, Running

\* Enqueue, prune, heartbeat, and time that passes.
LEMMA RowStepsKeep ==
  ASSUME LeaseAll, NEW i \in Item, NEW r \in Run,
         EnqueueUnique(i) \/ Due(i) \/ Heartbeat(r, i) \/ PruneCompleted(r)
  PROVE  LeaseAll'
  <1>0. LeaseTypes /\ item[i] \in Row
    BY LeaseShape DEF LeaseAll
  <1>1. UNCHANGED <<phase, attempt, alive, holds, cleanup, pass, crashes>>
    BY DEF EnqueueUnique, Due, Heartbeat, PruneCompleted, taskVars
  <1>2. /\ holds \in [Run -> SUBSET Item] /\ cleanup \in [Run -> CleanupState] /\ pass \in PassState
        /\ lapsed \subseteq Item
    BY <1>0 DEF LeaseTypes
  <1>3. ASSUME NEW j \in Item, NEW v \in Row, v.status = "running" <=> v.owner # NoOwner,
               item' = [item EXCEPT ![j] = v], lapsed \subseteq lapsed', lapsed' \subseteq Item,
               item[j].status = "running" /\ j \notin lapsed' =>
                 v.status = "running" /\ v.owner = item[j].owner /\ ~v.due
        PROVE  LeaseAll'
    <2>1. /\ item' \in [Item -> Row] /\ item'[j] = v
          /\ \A k \in Item \ {j} : item'[k] = item[k]
          /\ \A k \in Item : item'[k].status = "running" <=> item'[k].owner # NoOwner
      BY <1>0, <1>3, OneRow
    <2>2. ASSUME NEW q \in Run, NEW k \in Item, Leased(q, k), k \notin lapsed'
          PROVE  item'[k].status = "running" /\ item'[k].owner = q[1] /\ ~item'[k].due
      <3>1. item[k].status = "running" /\ item[k].owner = q[1] /\ ~item[k].due
        BY <2>2, LeasedRow
      <3> QED BY <1>3, <2>1, <2>2, <3>1
    <2>3. RowsMove
      BY <1>3, <2>1, <2>2 DEF RowsMove
    <2> QED BY <1>0, <1>1, <2>3, LeftAlone, RowsKeep DEF LeaseTypes
  <1>4. CASE EnqueueUnique(i)
    <2>1. /\ item[i].status = "absent" /\ lapsed' = lapsed
          /\ item' = [item EXCEPT ![i] = [status |-> "pending", owner |-> NoOwner, due |-> TRUE]]
      BY <1>4 DEF EnqueueUnique, Set
    <2> QED BY <1>2, <1>3, <2>1, RowValues
  <1>5. CASE Due(i)
    <2> DEFINE v == [item[i] EXCEPT !.due = TRUE]
    <2>1. /\ item' = [item EXCEPT ![i] = v]
          /\ lapsed' = IF Running(i) THEN lapsed \cup {i} ELSE lapsed
      BY <1>0, <1>5 DEF Due, LeaseTypes
    <2>2. v \in Row /\ v.status = item[i].status /\ v.owner = item[i].owner
      BY <1>0 DEF Row
    <2>3. item[i].status = "running" <=> item[i].owner # NoOwner
      BY <1>0 DEF LeaseTypes, Running
    <2> HIDE DEF v
    <2>4. lapsed \subseteq lapsed' /\ lapsed' \subseteq Item /\ (item[i].status = "running" => i \in lapsed')
      BY <1>2, <2>1 DEF Running
    <2> QED BY <1>3, <2>1, <2>2, <2>3, <2>4
  <1>6. CASE Heartbeat(r, i)
    <2> DEFINE v == [item[i] EXCEPT !.due = FALSE]
    <2>1. item' = [item EXCEPT ![i] = v] /\ lapsed' = lapsed
      BY <1>0, <1>6 DEF Heartbeat, LeaseTypes
    <2>2. v \in Row /\ v.status = item[i].status /\ v.owner = item[i].owner /\ ~v.due
      BY <1>0 DEF Row
    <2>3. item[i].status = "running" <=> item[i].owner # NoOwner
      BY <1>0 DEF LeaseTypes, Running
    <2> HIDE DEF v
    <2> QED BY <1>2, <1>3, <2>1, <2>2, <2>3
  <1>7. CASE PruneCompleted(r)
    <2>1. PICK j \in Item : item[j].status = "completed" /\ item' = [item EXCEPT ![j] = Absent]
      BY <1>7 DEF PruneCompleted
    <2>2. lapsed' = lapsed
      BY <1>7 DEF PruneCompleted
    <2> QED BY <1>2, <1>3, <2>1, <2>2, RowValues
  <1> QED BY <1>4, <1>5, <1>6, <1>7

\* A row that is in nobody's lease is given back or settled.
LEMMA Freed ==
  ASSUME LeaseAll, NEW i \in Item, NEW v \in Row, v.status # "running", v.owner = NoOwner,
         item' = [item EXCEPT ![i] = v] \/ item' = item, UNCHANGED lapsed,
         \A q \in Run : Leased(q, i) => i \notin holds'[q]
  PROVE  RowsMove
  <1>0. LeaseTypes /\ lapsed \subseteq Item
    BY DEF LeaseAll, LeaseTypes
  <1>1. CASE item' = [item EXCEPT ![i] = v]
    <2>1. /\ item' \in [Item -> Row] /\ item'[i] = v
          /\ \A k \in Item \ {i} : item'[k] = item[k]
          /\ \A k \in Item : item'[k].status = "running" <=> item'[k].owner # NoOwner
      BY <1>0, <1>1, OneRow
    <2>2. ASSUME NEW q \in Run, NEW k \in Item, Leased(q, k), k \in holds'[q]
          PROVE  item'[k].status = "running" /\ item'[k].owner = q[1] /\ ~item'[k].due
      <3>1. item[k].status = "running" /\ item[k].owner = q[1] /\ ~item[k].due
        BY <2>2, LeasedRow
      <3>2. k # i
        BY <2>2
      <3> QED BY <2>1, <3>1, <3>2
    <2> QED BY <1>0, <2>1, <2>2 DEF RowsMove
  <1>2. CASE item' = item
    BY <1>2, LeftAlone
  <1> QED BY <1>1, <1>2

\* release_item gives a row back or leaves it.
LEMMA Released ==
  ASSUME NEW i \in Item, ReleaseItem(i)
  PROVE  \/ item' = [item EXCEPT ![i] = [status |-> "pending", owner |-> NoOwner, due |-> TRUE]]
         \/ item' = item
  BY DEF ReleaseItem, Set

\* A handler completes, defers or releases what it holds: if that is a lease of
\* somebody, it is its own.
LEMMA SettleKeeps ==
  ASSUME LeaseAll, NEW r \in Run, NEW i \in Item, SettleItem(r, i)
  PROVE  LeaseAll'
  <1>0. LeaseTypes /\ holds \in [Run -> SUBSET Item] /\ crashes \in 0..MaxCrashes
    BY DEF LeaseAll, LeaseTypes
  <1>1. /\ r \in alive /\ i \in holds[r] /\ holds' = [holds EXCEPT ![r] = @ \ {i}]
        /\ UNCHANGED <<phase, attempt, alive, cleanup, pass, lapsed, crashes>>
    BY DEF SettleItem, taskVars
  <1>2. \E status \in {"pending", "deferred", "completed"}, due \in BOOLEAN :
          \/ item' = [item EXCEPT ![i] = [status |-> status, owner |-> NoOwner, due |-> due]]
          \/ item' = item
    BY Released DEF SettleItem, Set
  <1>3. HoldsMove
    BY <1>0, <1>1 DEF HoldsMove
  <1>4. ASSUME NEW q \in Run, Leased(q, i) PROVE i \notin holds'[q]
    <2>1. CASE q = r
      BY <1>0, <1>1, <2>1
    <2>2. CASE q # r
      <3>1. Untouchable(q, i)
        BY <1>4, LeasedRow
      <3> QED BY <1>1, <2>2, <3>1 DEF Untouchable
    <2> QED BY <2>1, <2>2
  <1>5. RowsMove
    <2>1. PICK status \in {"pending", "deferred", "completed"}, due \in BOOLEAN :
            \/ item' = [item EXCEPT ![i] = [status |-> status, owner |-> NoOwner, due |-> due]]
            \/ item' = item
      BY <1>2
    <2> DEFINE v == [status |-> status, owner |-> NoOwner, due |-> due]
    <2>2. v \in Row /\ v.status # "running" /\ v.owner = NoOwner
      BY RowValues
    <2> HIDE DEF v
    <2>3. item' = [item EXCEPT ![i] = v] \/ item' = item
      BY <2>1 DEF v
    <2> QED BY <1>1, <1>4, <2>2, <2>3, Freed
  <1> QED BY <1>0, <1>1, <1>3, <1>5, LeftAlone, RowsKeep

\* What a clean-up or the pass releases is in nobody's lease.
LEMMA ReleaseMoves ==
  ASSUME LeaseAll, NEW i \in Item, ReleaseItem(i), UNCHANGED lapsed,
         (\E q \in Run : i \in cleanup[q].todo) \/ i \in pass.found
  PROVE  RowsMove
  <1> DEFINE v == [status |-> "pending", owner |-> NoOwner, due |-> TRUE]
  <1>1. v \in Row /\ v.status # "running" /\ v.owner = NoOwner
    BY RowValues
  <1>2. item' = [item EXCEPT ![i] = v] \/ item' = item
    BY Released
  <1> HIDE DEF v
  <1>3. \A q \in Run : ~Leased(q, i)
    BY LeasedRow DEF Untouchable
  <1> QED BY <1>1, <1>2, <1>3, Freed

\* The clean-up after an attempt releases what it has listed.
LEMMA CleanupReleasesKeeps ==
  ASSUME LeaseAll, NEW r \in Run, CleanupReleases(r)
  PROVE  LeaseAll'
  <1>0. /\ cleanup \in [Run -> CleanupState] /\ cleanup[r] \in CleanupState
        /\ crashes \in 0..MaxCrashes
    BY DEF LeaseAll, LeaseTypes
  <1>1. /\ UNCHANGED <<phase, attempt, alive, holds, pass, lapsed, crashes>>
    BY DEF CleanupReleases, taskVars
  <1>2. CASE cleanup[r].todo = {}
    <2> DEFINE c == [cleanup[r] EXCEPT !.at = "off"]
    <2>1. cleanup' = [cleanup EXCEPT ![r] = c] /\ UNCHANGED item
      BY <1>0, <1>2 DEF CleanupReleases
    <2>2. c \in CleanupState /\ c.at = "off" /\ c.todo = cleanup[r].todo
      BY <1>0 DEF CleanupState
    <2> HIDE DEF c
    <2>3. CleanupsMove
      BY <1>0, <2>1, <2>2 DEF CleanupsMove
    <2> QED BY <1>0, <1>1, <2>1, <2>3, LeftAlone, RowsKeep
  <1>3. CASE cleanup[r].todo # {}
    <2>1. PICK i \in cleanup[r].todo :
            ReleaseItem(i) /\ cleanup' = [cleanup EXCEPT ![r].todo = @ \ {i}]
      BY <1>3 DEF CleanupReleases
    <2> DEFINE c == [cleanup[r] EXCEPT !.todo = @ \ {i}]
    <2>2. i \in Item /\ cleanup' = [cleanup EXCEPT ![r] = c]
      BY <1>0, <2>1 DEF CleanupState
    <2>3. c \in CleanupState /\ c.at = cleanup[r].at /\ c.todo \subseteq cleanup[r].todo
      BY <1>0 DEF CleanupState
    <2> HIDE DEF c
    <2>4. CleanupsMove
      BY <1>0, <2>2, <2>3 DEF CleanupsMove
    <2>5. RowsMove
      BY <1>1, <2>1, <2>2, ReleaseMoves
    <2> QED BY <1>0, <1>1, <2>4, <2>5, LeftAlone, RowsKeep
  <1> QED BY <1>2, <1>3

\* The pass releases what it has found.
LEMMA PassReleasesKeeps ==
  ASSUME LeaseAll, PassReleases
  PROVE  LeaseAll'
  <1>0. pass \in PassState /\ crashes \in 0..MaxCrashes
    BY DEF LeaseAll, LeaseTypes
  <1>1. /\ pass' = [pass EXCEPT !.found = {}]
        /\ UNCHANGED <<phase, attempt, alive, holds, cleanup, lapsed, crashes>>
    BY DEF PassReleases, taskVars
  <1>2. PassMoves
    BY <1>0, <1>1 DEF PassMoves, PassState
  <1>3. PICK i \in pass.found : ReleaseItem(i)
    BY DEF PassReleases
  <1>4. i \in Item
    BY <1>0, <1>3 DEF PassState
  <1>5. RowsMove
    BY <1>1, <1>3, <1>4, ReleaseMoves
  <1> QED BY <1>0, <1>1, <1>2, <1>5, LeftAlone, RowsKeep

\* A handler is gone.
LEMMA GoneMoves ==
  ASSUME LeaseAll, NEW r \in Run, Gone(r)
  PROVE  HoldsMove
  <1>1. holds \in [Run -> SUBSET Item]
    BY DEF LeaseAll, LeaseTypes
  <1> QED BY <1>1 DEF HoldsMove, Gone

\* The monitor cancels a handler, or the daemon dies with all it was doing.
LEMMA LossKeeps ==
  ASSUME LeaseAll, NEW r \in Run, HandlerCancelled(r) \/ Crash(r)
  PROVE  LeaseAll'
  <1>0. LeaseTypes /\ cleanup \in [Run -> CleanupState] /\ crashes \in 0..MaxCrashes
    BY DEF LeaseAll, LeaseTypes
  <1>1. HoldsMove /\ UNCHANGED <<phase, attempt, item, lapsed>>
    BY GoneMoves DEF HandlerCancelled, Crash, taskVars
  <1>2. CASE HandlerCancelled(r)
    <2>1. UNCHANGED <<cleanup, pass, crashes>>
      BY <1>2 DEF HandlerCancelled
    <2> QED BY <1>0, <1>1, <2>1, LeftAlone, RowsKeep
  <1>3. CASE Crash(r)
    <2>1. /\ cleanup' = [cleanup EXCEPT ![r] = Cleanup0] /\ pass' = Pass0
          /\ crashes < MaxCrashes /\ crashes' = crashes + 1
      BY <1>3 DEF Crash
    <2>2. Cleanup0 \in CleanupState /\ Cleanup0.todo = {} /\ Cleanup0.at = "off"
      BY DEF Cleanup0, CleanupState
    <2>3. CleanupsMove
      BY <1>0, <2>1, <2>2 DEF CleanupsMove
    <2>4. PassMoves
      BY <2>1 DEF Pass0, PassMoves, PassState
    <2>5. crashes' \in 0..MaxCrashes
      BY <1>0, <2>1, ItemAssumption
    <2> QED BY <1>1, <2>3, <2>4, <2>5, LeftAlone, RowsKeep
  <1> QED BY <1>2, <1>3

\* A step that leaves tasks, handlers and rows alone, and whose clean-ups and
\* pass have nothing of a lease.
LEMMA ListingKeeps ==
  ASSUME LeaseAll, UNCHANGED <<phase, attempt, item, alive, holds, lapsed, crashes>>,
         cleanup' \in [Run -> CleanupState], pass' \in PassState,
         \A r \in Run, i \in Item : Leased(r, i) =>
           /\ \A q \in Run : i \notin cleanup'[q].todo /\ (q[1] = r[1] => cleanup'[q].at # "list")
           /\ i \notin pass'.found /\ \A t \in Task : <<i, t>> \in pass'.rows => t = r[1]
  PROVE  LeaseAll'
  <1>1. LeaseTypes'
    BY DEF LeaseAll, LeaseTypes, Running
  <1>2. HandlersInv'
    BY DEF LeaseAll, HandlersInv
  <1>3. LeaseInv'
    <2> SUFFICES ASSUME NEW r \in Run, NEW i \in Item, Leased(r, i)' PROVE Untouchable(r, i)'
      BY DEF LeaseInv
    <2>1. Leased(r, i)
      BY DEF Leased, Current
    <2>2. /\ Running(i) /\ item[i].owner = r[1] /\ ~item[i].due
          /\ \A q \in alive \ {r} : i \notin holds[q]
      BY <2>1, LeasedRow DEF Untouchable
    <2> QED BY <2>1, <2>2 DEF Untouchable, Running
  <1> QED BY <1>1, <1>2, <1>3 DEF LeaseAll

\* The clean-up lists the leases of a task: none of them is one of the task's
\* running attempt, or nothing is left over.
LEMMA CleanupListsKeeps ==
  ASSUME LeaseAll, NEW r \in Run, CleanupLists(r)
  PROVE  LeaseAll'
  <1> DEFINE c == [at |-> "release", todo |-> ListLeases(r[1])]
  <1>0. cleanup \in [Run -> CleanupState] /\ pass \in PassState
    BY DEF LeaseAll, LeaseTypes
  <1>1. /\ cleanup[r].at = "list" /\ cleanup' = [cleanup EXCEPT ![r] = c]
        /\ UNCHANGED <<phase, attempt, item, alive, holds, lapsed, crashes, pass>>
    BY DEF CleanupLists, taskVars
  <1>2. c \in CleanupState /\ c.at = "release" /\ c.todo = ListLeases(r[1])
    BY DEF CleanupState, ListLeases
  <1> HIDE DEF c
  <1>3. /\ cleanup' \in [Run -> CleanupState] /\ cleanup'[r] = c
        /\ \A q \in Run \ {r} : cleanup'[q] = cleanup[q]
    BY <1>0, <1>1, <1>2
  <1>4. ASSUME NEW p \in Run, NEW i \in Item, Leased(p, i), NEW q \in Run
        PROVE  i \notin cleanup'[q].todo /\ (q[1] = p[1] => cleanup'[q].at # "list")
    <2>1. Untouchable(p, i)
      BY <1>4, LeasedRow
    <2>2. CASE q = r
      <3>1. r[1] # p[1]
        BY <1>1, <2>1 DEF Untouchable
      <3>2. i \notin ListLeases(r[1])
        BY <2>1, <3>1 DEF Untouchable, ListLeases
      <3> QED BY <1>2, <1>3, <2>2, <3>2
    <2>3. CASE q # r
      BY <1>3, <2>1, <2>3 DEF Untouchable
    <2> QED BY <2>2, <2>3
  <1>5. ASSUME NEW p \in Run, NEW i \in Item, Leased(p, i)
        PROVE  i \notin pass'.found /\ \A t \in Task : <<i, t>> \in pass'.rows => t = p[1]
    BY <1>1, <1>5, LeasedRow DEF Untouchable
  <1> QED BY <1>0, <1>1, <1>3, <1>4, <1>5, ListingKeeps

\* The pass lists the leases with their owners, and asks for the owner of one.
LEMMA PassLooksKeeps ==
  ASSUME LeaseAll, PassLists \/ PassChecks
  PROVE  LeaseAll'
  <1>0. cleanup \in [Run -> CleanupState] /\ pass \in PassState
    BY DEF LeaseAll, LeaseTypes
  <1>1. UNCHANGED <<phase, attempt, item, alive, holds, lapsed, crashes, cleanup>>
    BY DEF PassLists, PassChecks, taskVars
  <1>2. ASSUME NEW p \in Run, NEW i \in Item, Leased(p, i), NEW q \in Run
        PROVE  i \notin cleanup'[q].todo /\ (q[1] = p[1] => cleanup'[q].at # "list")
    BY <1>1, <1>2, LeasedRow DEF Untouchable
  <1>3. CASE PassLists
    <2> DEFINE listed == {<<i, item[i].owner>> : i \in {j \in Item : Running(j)}}
    <2>1. pass = Pass0 /\ pass' = [pass EXCEPT !.rows = listed]
      BY <1>3 DEF PassLists
    <2>2. listed \subseteq Item \X Task
      BY LeaseShape DEF LeaseAll
    <2>3. \A i \in Item, t \in Task : <<i, t>> \in listed => item[i].owner = t
      OBVIOUS
    <2> HIDE DEF listed
    <2>4. pass' \in PassState /\ pass'.rows = listed /\ pass'.found = {}
      BY <2>1, <2>2 DEF Pass0, PassState
    <2>5. ASSUME NEW p \in Run, NEW i \in Item, Leased(p, i)
          PROVE  i \notin pass'.found /\ \A t \in Task : <<i, t>> \in pass'.rows => t = p[1]
      BY <2>3, <2>4, <2>5, LeasedRow
    <2> QED BY <1>0, <1>1, <1>2, <2>4, <2>5, ListingKeeps
  <1>4. CASE PassChecks
    <2>1. PICK row \in pass.rows :
            pass' = [rows |-> pass.rows \ {row}, found |-> IF Leaked(row[2]) THEN {row[1]} ELSE {}]
      BY <1>4 DEF PassChecks
    <2>2. row \in Item \X Task
      BY <1>0, <2>1 DEF PassState
    <2>3. PICK i0 \in Item, t0 \in Task : row = <<i0, t0>>
      BY <2>2
    <2>4. /\ pass'.rows = pass.rows \ {row}
          /\ pass'.found = IF Leaked(t0) THEN {i0} ELSE {}
      BY <2>1, <2>3
    <2>5. pass' \in PassState
      BY <1>0, <2>1, <2>3 DEF PassState
    <2>6. ASSUME NEW p \in Run, NEW i \in Item, Leased(p, i)
          PROVE  i \notin pass'.found /\ \A t \in Task : <<i, t>> \in pass'.rows => t = p[1]
      <3>1. /\ \A t \in Task : <<i, t>> \in pass.rows => t = p[1]
            /\ phase[p[1]] = "held"
        BY <2>6, LeasedRow DEF Untouchable, Leased, Current
      <3>2. i = i0 => ~Leaked(t0)
        BY <2>1, <2>3, <3>1 DEF Leaked
      <3> QED BY <2>4, <3>1, <3>2
    <2> QED BY <1>0, <1>1, <1>2, <2>5, <2>6, ListingKeeps
  <1> QED BY <1>3, <1>4

\* The end of an attempt: its leases are those of a running attempt no more.
LEMMA EndKeeps ==
  ASSUME LeaseAll, NEW t \in Task, NEW byHandler \in BOOLEAN, EndAttempt(t, byHandler)
  PROVE  LeaseAll'
  <1> DEFINE r0 == Attempt(t)
  <1>0. /\ LeaseTypes /\ cleanup \in [Run -> CleanupState] /\ holds \in [Run -> SUBSET Item]
        /\ phase \in [Task -> {"waiting", "held", "closed"}] /\ alive \subseteq Run
    BY DEF LeaseAll, LeaseTypes
  <1>1. /\ cleanup' = [cleanup EXCEPT ![r0].at = "list"] /\ r0[1] = t
        /\ UNCHANGED <<attempt, item, pass, lapsed, crashes>>
        /\ (r0 \in alive /\ Gone(r0)) \/ UNCHANGED <<alive, holds>>
    BY DEF EndAttempt, Attempt
  <1>2. PICK p \in {"waiting", "closed"} : phase' = [phase EXCEPT ![t] = p]
    BY DEF EndAttempt
  <1> HIDE DEF r0
  <1>3. /\ phase' \in [Task -> {"waiting", "held", "closed"}] /\ phase'[t] # "held"
        /\ \A u \in Task \ {t} : phase'[u] = phase[u]
    BY <1>0, <1>2
  <1>4. HoldsMove
    <2>1. CASE r0 \in alive /\ Gone(r0)
      BY <1>0, <2>1, GoneMoves
    <2>2. CASE UNCHANGED <<alive, holds>>
      BY <2>2, LeftAlone
    <2> QED BY <1>1, <2>1, <2>2
  <1>5. /\ cleanup' \in [Run -> CleanupState]
        /\ \A q \in Run : cleanup'[q].todo = cleanup[q].todo
        /\ \A q \in Run : q[1] # t => cleanup'[q] = cleanup[q]
    <2>1. ASSUME NEW q \in Run
          PROVE  /\ cleanup'[q] \in CleanupState /\ cleanup'[q].todo = cleanup[q].todo
                 /\ q[1] # t => cleanup'[q] = cleanup[q]
      <3>1. cleanup[q] \in CleanupState
        BY <1>0
      <3>2. CASE q = r0
        <4>1. cleanup'[q] = [cleanup[q] EXCEPT !.at = "list"]
          BY <1>0, <1>1, <3>2
        <4> QED BY <1>1, <3>1, <3>2, <4>1 DEF CleanupState
      <3>3. CASE q # r0
        BY <1>0, <1>1, <3>1, <3>3
      <3> QED BY <3>2, <3>3
    <2>2. cleanup' = [q \in Run |-> cleanup'[q]]
      BY <1>0, <1>1
    <2> QED BY <2>1, <2>2
  <1>6. LeaseTypes'
    BY <1>0, <1>1, <1>3, <1>4, <1>5 DEF LeaseTypes, HoldsMove, Running
  <1>7. HandlersInv'
    BY <1>1, <1>4 DEF LeaseAll, HandlersInv, HoldsMove
  <1>8. LeaseInv'
    <2> SUFFICES ASSUME NEW r \in Run, NEW i \in Item, Leased(r, i)' PROVE Untouchable(r, i)'
      BY DEF LeaseInv
    <2>1. r[1] # t /\ r[1] \in Task
      BY <1>0, <1>3, LeaseShape DEF Leased, Current
    <2>2. Leased(r, i)
      BY <1>1, <1>3, <1>4, <2>1 DEF Leased, Current, HoldsMove
    <2>3. Untouchable(r, i)
      BY <2>2, LeasedRow
    <2>4. ASSUME NEW q \in alive' \ {r} PROVE i \notin holds'[q]
      <3>1. q \in alive /\ q \in Run
        BY <1>0, <1>4 DEF HoldsMove
      <3> QED BY <1>4, <2>3, <3>1 DEF Untouchable, HoldsMove
    <2>5. ASSUME NEW q \in Run
          PROVE  i \notin cleanup'[q].todo /\ (q[1] = r[1] => cleanup'[q].at # "list")
      BY <1>5, <2>1, <2>3 DEF Untouchable
    <2> QED BY <1>1, <2>3, <2>4, <2>5 DEF Untouchable, Running
  <1> QED BY <1>6, <1>7, <1>8 DEF LeaseAll

\* A new attempt holds nothing yet, and no earlier one becomes current again.
LEMMA GrantKeeps ==
  ASSUME LeaseAll, NEW t \in Task, Grant(t)
  PROVE  LeaseAll'
  <1> DEFINE new == <<t, attempt[t] + 1>>
  <1>0. /\ LeaseTypes /\ holds \in [Run -> SUBSET Item] /\ alive \subseteq Run
        /\ phase \in [Task -> {"waiting", "held", "closed"}]
        /\ attempt \in [Task -> 0..MaxAttempts] /\ MaxAttempts \in Nat
    BY ItemAssumption DEF LeaseAll, LeaseTypes
  <1>1. /\ phase[t] = "waiting" /\ attempt[t] < MaxAttempts
        /\ phase' = [phase EXCEPT ![t] = "held"] /\ attempt' = [attempt EXCEPT ![t] = @ + 1]
        /\ alive' = alive \cup {new}
        /\ UNCHANGED <<item, holds, cleanup, pass, lapsed, crashes>>
    BY DEF Grant
  <1>2. new \in Run /\ new[1] = t /\ new[2] = attempt[t] + 1
    BY <1>0, <1>1 DEF Run
  <1>3. new \notin alive
    BY <1>0, <1>2 DEF LeaseAll, HandlersInv
  <1>4. holds[new] = {}
    BY <1>2, <1>3 DEF LeaseAll, HandlersInv
  <1>5. /\ phase' \in [Task -> {"waiting", "held", "closed"}]
        /\ attempt' \in [Task -> 0..MaxAttempts] /\ attempt'[t] = attempt[t] + 1
        /\ \A u \in Task \ {t} : phase'[u] = phase[u] /\ attempt'[u] = attempt[u]
    BY <1>0, <1>1
  <1>6. LeaseTypes'
    BY <1>0, <1>1, <1>2, <1>5 DEF LeaseTypes, Running
  <1>7. HandlersInv'
    <2>1. ASSUME NEW r \in alive' PROVE r[2] <= attempt'[r[1]]
      <3>1. CASE r = new
        BY <1>0, <1>2, <1>5, <3>1
      <3>2. CASE r # new
        <4>1. r \in alive /\ r[1] \in Task /\ r[2] \in Nat /\ r[2] <= attempt[r[1]]
          BY <1>0, <1>1, <3>2, LeaseShape DEF LeaseAll, HandlersInv
        <4> QED BY <1>0, <1>5, <4>1
      <3> QED BY <3>1, <3>2
    <2> QED BY <1>1, <2>1 DEF LeaseAll, HandlersInv
  <1>8. LeaseInv'
    <2> SUFFICES ASSUME NEW r \in Run, NEW i \in Item, Leased(r, i)' PROVE Untouchable(r, i)'
      BY DEF LeaseInv
    <2>1. r # new /\ r \in alive /\ i \in holds[r] /\ i \notin lapsed
      BY <1>1, <1>4 DEF Leased
    <2>2. /\ phase'[r[1]] = "held" /\ attempt'[r[1]] = r[2]
      BY DEF Leased, Current
    <2>3. r[1] # t /\ r[1] \in Task
      <3>1. PICK u \in Task, a \in 1..MaxAttempts : r = <<u, a>>
        BY DEF Run
      <3> QED BY <1>5, <2>1, <2>2, <3>1
    <2>4. Leased(r, i)
      BY <1>5, <2>1, <2>2, <2>3 DEF Leased, Current
    <2>5. Untouchable(r, i)
      BY <2>4, LeasedRow
    <2>6. \A q \in alive' \ {r} : i \notin holds[q]
      BY <1>1, <1>4, <2>5 DEF Untouchable
    <2> QED BY <1>1, <2>5, <2>6 DEF Untouchable, Running
  <1> QED BY <1>6, <1>7, <1>8 DEF LeaseAll

\* A claim takes nobody's lease, and grants one that nothing can take away
\* unless something was left over.
LEMMA ClaimKeeps ==
  ASSUME LeaseAll, NEW r \in Run, NEW batch \in SUBSET Item, Claim(r, batch)
  PROVE  LeaseAll'
  <1>0. /\ LeaseTypes /\ holds \in [Run -> SUBSET Item] /\ item \in [Item -> Row]
        /\ lapsed \subseteq Item /\ alive \subseteq Run /\ NoOwner \notin Task
        /\ \A i \in Item : item[i].status = "running" <=> item[i].owner # NoOwner
    BY ItemAssumption DEF LeaseAll, LeaseTypes, Running
  <1>1. /\ r \in alive /\ \A i \in batch : Claimable(i)
        /\ item' = [i \in Item |->
                      IF i \in batch THEN [status |-> "running", owner |-> r[1], due |-> FALSE]
                      ELSE item[i]]
        /\ holds' = [holds EXCEPT ![r] = @ \cup batch]
        /\ lapsed' = (lapsed \ batch) \cup {i \in batch : Leftover(i, r)}
        /\ UNCHANGED <<phase, attempt, alive, cleanup, pass, crashes>>
    BY DEF Claim, taskVars
  <1>2. r[1] \in Task
    BY <1>0, LeaseShape
  <1>3. /\ item' \in [Item -> Row]
        /\ \A i \in batch : /\ item'[i].status = "running" /\ item'[i].owner = r[1]
                            /\ ~item'[i].due
        /\ \A i \in Item \ batch : item'[i] = item[i]
    BY <1>0, <1>1, <1>2, RowValues
  <1>4. /\ holds' \in [Run -> SUBSET Item] /\ holds'[r] = holds[r] \cup batch
        /\ \A q \in Run \ {r} : holds'[q] = holds[q]
    BY <1>0, <1>1
  <1>5. LeaseTypes'
    <2>1. \A i \in Item : item'[i].status = "running" <=> item'[i].owner # NoOwner
      BY <1>0, <1>2, <1>3
    <2>2. lapsed' \subseteq Item
      BY <1>0, <1>1
    <2> QED BY <1>0, <1>1, <1>3, <1>4, <2>1, <2>2 DEF LeaseTypes, Running
  <1>6. HandlersInv'
    BY <1>1, <1>4 DEF LeaseAll, HandlersInv
  <1>7. LeaseInv'
    <2> SUFFICES ASSUME NEW p \in Run, NEW i \in Item, Leased(p, i)' PROVE Untouchable(p, i)'
      BY DEF LeaseInv
    <2>1. p \in alive /\ i \in holds'[p] /\ Current(p) /\ i \notin lapsed'
      BY <1>1 DEF Leased, Current
    <2>2. CASE i \notin batch
      <3>1. i \in holds[p] /\ i \notin lapsed
        BY <1>1, <1>4, <2>1, <2>2
      <3>2. Leased(p, i)
        BY <2>1, <3>1 DEF Leased
      <3>3. Untouchable(p, i)
        BY <3>2, LeasedRow
      <3>4. item'[i] = item[i]
        BY <1>3, <2>2
      <3>5. \A q \in alive' \ {p} : i \notin holds'[q]
        BY <1>0, <1>1, <1>4, <2>2, <3>3 DEF Untouchable
      <3> QED BY <1>1, <3>3, <3>4, <3>5 DEF Untouchable, Running
    <2>3. CASE i \in batch
      <3>1. ~Leftover(i, r) /\ item[i].due
        BY <1>1, <2>1, <2>3 DEF Claimable
      <3>2. ASSUME NEW q \in alive \ {r}, i \in holds[q] PROVE FALSE
        <4>1. i \notin lapsed /\ Current(q)
          BY <3>1, <3>2 DEF Leftover
        <4>2. Leased(q, i) /\ q \in Run
          BY <1>0, <3>2, <4>1 DEF Leased
        <4> QED BY <3>1, <4>2, LeasedRow
      <3>3. p = r
        BY <1>4, <2>1, <3>2
      <3>4. \A q \in alive' \ {p} : i \notin holds'[q]
        BY <1>0, <1>1, <1>4, <3>2, <3>3
      <3>5. /\ \A q \in Run : i \notin cleanup[q].todo /\ (q[1] = r[1] => cleanup[q].at # "list")
            /\ i \notin pass.found /\ \A t \in Task : <<i, t>> \notin pass.rows
        BY <3>1 DEF Leftover
      <3>6. item'[i].status = "running" /\ item'[i].owner = p[1] /\ ~item'[i].due
        BY <1>3, <2>3, <3>3
      <3> QED BY <1>1, <3>3, <3>4, <3>5, <3>6 DEF Untouchable, Running
    <2> QED BY <2>2, <2>3
  <1> QED BY <1>5, <1>6, <1>7 DEF LeaseAll

\* Every step keeps the invariant.
LEMMA LeaseStep ==
  ASSUME LeaseAll, [ItemNext]_leaseVars
  PROVE  LeaseAll'
  <1>1. CASE UNCHANGED leaseVars
    <2>1. UNCHANGED <<phase, attempt, item, alive, holds, cleanup, pass, lapsed, crashes>>
      BY <1>1 DEF leaseVars, itemVars, taskVars
    <2>2. crashes' \in 0..MaxCrashes
      BY <2>1 DEF LeaseAll, LeaseTypes
    <2> QED BY <2>1, <2>2, LeftAlone, RowsKeep
  <1>2. ASSUME NEW i \in Item, EnqueueUnique(i) \/ Due(i) PROVE LeaseAll'
    <2>1. CASE Run # {}
      BY <1>2, <2>1, RowStepsKeep
    <2>2. CASE Run = {}
      <3>1. UNCHANGED <<phase, attempt, alive, holds, cleanup, pass, crashes>>
        BY <1>2 DEF EnqueueUnique, Due, taskVars
      <3>2. LeaseTypes /\ item[i] \in Row /\ lapsed \subseteq Item
        BY LeaseShape DEF LeaseAll, LeaseTypes
      <3>3. item' \in [Item -> Row] /\ lapsed \subseteq lapsed' /\ lapsed' \subseteq Item
            /\ \A k \in Item : item'[k].status = "running" <=> item'[k].owner # NoOwner
        <4>1. CASE EnqueueUnique(i)
          <5>1. /\ item' = [item EXCEPT ![i] = [status |-> "pending", owner |-> NoOwner, due |-> TRUE]]
                /\ lapsed' = lapsed
            BY <4>1 DEF EnqueueUnique, Set
          <5> QED BY <3>2, <5>1, OneRow, RowValues
        <4>2. CASE Due(i)
          <5> DEFINE v == [item[i] EXCEPT !.due = TRUE]
          <5>1. v \in Row /\ v.status = item[i].status /\ v.owner = item[i].owner
            BY <3>2 DEF Row
          <5>2. v.status = "running" <=> v.owner # NoOwner
            BY <3>2, <5>1 DEF LeaseTypes, Running
          <5>3. item' = [item EXCEPT ![i] = v]
            BY <3>2, <4>2 DEF Due, LeaseTypes
          <5>4. lapsed \subseteq lapsed' /\ lapsed' \subseteq Item
            BY <3>2, <4>2 DEF Due
          <5> HIDE DEF v
          <5> QED BY <3>2, <5>1, <5>2, <5>3, <5>4, OneRow
        <4> QED BY <1>2, <4>1, <4>2
      <3>4. RowsMove
        BY <2>2, <3>3 DEF RowsMove
      <3>5. crashes' \in 0..MaxCrashes
        BY <3>1, <3>2 DEF LeaseTypes
      <3> QED BY <3>1, <3>4, <3>5, LeftAlone, RowsKeep
    <2> QED BY <2>1, <2>2
  <1>3. ASSUME NEW t \in Task, TaskStep(t) PROVE LeaseAll'
    BY <1>3, GrantKeeps, EndKeeps DEF TaskStep
  <1>4. ASSUME NEW r \in Run, RunStep(r) PROVE LeaseAll'
    <2>1. ASSUME NEW i \in Item, Heartbeat(r, i) \/ SettleItem(r, i) PROVE LeaseAll'
      BY <2>1, RowStepsKeep, SettleKeeps
    <2>2. CASE PruneCompleted(r)
      <3>1. PICK i \in Item : item[i].status = "completed"
        BY <2>2 DEF PruneCompleted
      <3> QED BY <2>2, RowStepsKeep
    <2> QED BY <1>4, <2>1, <2>2, ClaimKeeps DEF RunStep
  <1>5. ASSUME NEW r \in Run, HandlerCancelled(r) \/ CleanupLists(r) \/ CleanupReleases(r) \/ Crash(r)
        PROVE  LeaseAll'
    BY <1>5, LossKeeps, CleanupListsKeeps, CleanupReleasesKeeps
  <1>6. CASE Pass
    BY <1>6, PassLooksKeeps, PassReleasesKeeps DEF Pass
  <1> QED BY <1>1, <1>2, <1>3, <1>4, <1>5, <1>6 DEF ItemNext

\* And it holds of empty tables.
LEMMA LeaseStart == ASSUME ItemInit PROVE LeaseAll
  <1>1. /\ phase = [t \in Task |-> "waiting"] /\ attempt = [t \in Task |-> 0]
        /\ item = [i \in Item |-> Absent] /\ alive = {} /\ holds = [r \in Run |-> {}]
        /\ cleanup = [r \in Run |-> Cleanup0] /\ pass = Pass0 /\ lapsed = {} /\ crashes = 0
    BY DEF ItemInit
  <1>2. Cleanup0 \in CleanupState /\ Pass0 \in PassState
    BY DEF Cleanup0, CleanupState, Pass0, PassState
  <1>3. \A i \in Item : item[i].status # "running" /\ item[i].owner = NoOwner
    BY <1>1, RowValues
  <1>4. LeaseTypes
    BY <1>1, <1>2, <1>3, RowValues, ItemAssumption DEF LeaseTypes, Running
  <1>5. HandlersInv /\ LeaseInv
    BY <1>1 DEF HandlersInv, LeaseInv, Leased
  <1> QED BY <1>4, <1>5 DEF LeaseAll

\* The invariant of leases.
THEOREM LeaseInvariant == ItemSpec => []LeaseAll
  <1> QED BY LeaseStart, LeaseStep, PTL DEF ItemSpec

\* What a running attempt has leased in time is taken from it by nobody: no
\* claim, no clean-up of an earlier attempt, no reconciliation pass and no other
\* handler, for any number of tasks, attempts, items and crashes.
THEOREM LeasesStayIntact == ItemSpec => []LeaseIntact
  <1>1. LeaseAll => LeaseIntact
    BY DEF LeaseAll, LeaseTypes, LeaseInv, Leased, Untouchable, LeaseIntact
  <1> QED BY <1>1, LeaseInvariant, PTL

\* The types; an item has an owner exactly while it is running.
THEOREM LeaseTypesHold == ItemSpec => []ItemTypeOK
  <1>1. LeaseAll => ItemTypeOK
    BY DEF LeaseAll, LeaseTypes, ItemTypeOK, CleanupState, PassState
  <1> QED BY <1>1, LeaseInvariant, PTL
============================================================================
