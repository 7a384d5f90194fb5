----------------------------- MODULE ReadCache -----------------------------
(***************************************************************************)
(* The shared read cache in front of the authoritative store: responses to *)
(* one search request, with the coalescing of concurrent searches, and the *)
(* record of one memory.  A search response is served for some seconds if  *)
(* the search epochs have not moved, a record as long as its validation    *)
(* token has not.  Epochs and tokens are read in transactions of their     *)
(* own, before or after the data they stand for.                           *)
(*                                                                         *)
(* Of the data, the epochs and the tokens only this is ever compared: are  *)
(* they those of the store as it is now?  So every payload carries that    *)
(* and a mutation, of which there may be any number, makes it FALSE.       *)
(***************************************************************************)
EXTENDS Naturals

CONSTANTS
  Caller,       \* threads that search and read, one call after the other
  Flight,       \* identities of _SharedReadCacheInFlightSearchState objects
  MaxPending,   \* bound: mutations that have yet to invalidate the cache
  MaxFaults,    \* bound: leaders lost between the search and its end
  None

ASSUME CacheAssumption ==
  /\ MaxPending \in Nat /\ MaxFaults \in Nat
  /\ None \notin Flight

VARIABLES
  commits,      \* committed mutations that have yet to invalidate the cache
  found,        \* the row of cached_search_results
  record,       \* the row of cached_memory_records
  inflight,     \* the entry of the request in _inflight_searches
  call,         \* what each caller is doing, and the hit of its last call
  faults        \* how many leaders were lost

vars == <<commits, found, record, inflight, call, faults>>

----------------------------------------------------------------------------
\* A response: does it show the store as it is; were epochs or token captured
\* for it, and are they still those of the store; and (history) has a mutation
\* come between the data and the capture, or a purge since its search began?
Payload == [shows  : BOOLEAN,
            tag    : {"none", "old", "now"},
            raced  : BOOLEAN,
            purged : BOOLEAN]

ASSUME NoneAssumption == None \notin Payload

Blank == [shows |-> FALSE, tag |-> "none", raced |-> FALSE, purged |-> FALSE]

At == {"idle", "validate", "begin", "search", "epochs", "store", "finish", "failed",
       "wait", "wake", "fallback", "check", "read", "token", "keep", "readfailed"}

\* `held` is what the call works on; `flight` is the in-flight state it leads
\* or waits for; `hit` (history) says what a fresh hit has shown its caller;
\* `purged` (history) tells that a purge came after the call had begun.
Call == [at     : At,
         held   : Payload,
         flight : Flight \cup {None},
         hit    : {"none", "current", "raced", "stale"},
         purged : BOOLEAN]

Idle == [at |-> "idle", held |-> Blank, flight |-> None, hit |-> "none", purged |-> FALSE]

Init ==
  /\ commits = 0
  /\ found = None /\ record = None
  /\ inflight = None
  /\ call = [c \in Caller |-> Idle]
  /\ faults = 0

cacheVars == <<found, record>>

\* The call is that of a leader: is_leader of its in-flight entry.
Leads(c) == call[c].at \in {"search", "epochs", "store", "finish", "failed"}

Goto(c, at) == call' = [call EXCEPT ![c].at = at]

\* The call is over: with a fresh hit, or with any other answer or error.
Serve(c) ==
  call' = [call EXCEPT ![c] = [Idle EXCEPT !.hit = CASE call[c].held.shows -> "current"
                                                     [] call[c].held.raced -> "raced"
                                                     [] OTHER              -> "stale"]]

Answer(c) == call' = [call EXCEPT ![c] = Idle]

----------------------------------------------------------------------------
(* _search_memory_records: the lookup                                       *)

\* load_fresh_search_response: a row that is not too old (the environment
\* decides) and has epochs; one without is refused by the check that follows.
SearchBegins(c) ==
  /\ call[c].at = "idle"
  /\ \/ /\ found # None
        /\ call' = [call EXCEPT ![c] = [Idle EXCEPT !.at = "validate", !.held = found]]
     \/ call' = [call EXCEPT ![c] = [Idle EXCEPT !.at = "begin"]]
  /\ UNCHANGED <<commits, cacheVars, inflight, faults>>

\* The epochs stored with the row are the current ones.
FreshHit(c) == call[c].held.tag = "now"

\* _load_fresh_cached_search_hit.  (The tokens of the records in the response
\* were captured after the epochs and are compared after them; a mutation
\* moves both, and what they refuse in addition is left out.)
Validate(c) ==
  /\ call[c].at = "validate"
  /\ IF FreshHit(c) THEN Serve(c) ELSE Goto(c, "begin")
  /\ UNCHANGED <<commits, cacheVars, inflight, faults>>

\* Objects of no further use: nobody refers to them.
FreeFlights == {f \in Flight : f # inflight /\ \A c \in Caller : call[c].flight # f}

\* Mutant of BeginInflight: whoever finds the entry takes the lead of it.
BeginInflightShared(c) ==
  /\ call[c].at = "begin"
  /\ inflight' = IF inflight = None THEN CHOOSE f \in FreeFlights : TRUE ELSE inflight
  /\ call' = [call EXCEPT ![c] = [Idle EXCEPT !.at = "search", !.flight = inflight']]
  /\ UNCHANGED <<commits, cacheVars, faults>>

\* begin_inflight_search: the first caller leads, the others follow it.
BeginInflight(c) ==
  /\ call[c].at = "begin"
  /\ IF inflight = None
     THEN \E f \in FreeFlights :
            /\ inflight' = f
            /\ call' = [call EXCEPT ![c] = [Idle EXCEPT !.at = "search", !.flight = f]]
     ELSE /\ call' = [call EXCEPT ![c] = [Idle EXCEPT !.at = "wait", !.flight = inflight]]
          /\ UNCHANGED inflight
  /\ UNCHANGED <<commits, cacheVars, faults>>

----------------------------------------------------------------------------
(* The leader                                                               *)

\* The authoritative search returns, or raises.
Search(c) ==
  /\ call[c].at = "search"
  /\ \/ call' = [call EXCEPT ![c].at = "epochs", ![c].held.shows = TRUE]
     \/ Goto(c, "failed")
  /\ UNCHANGED <<commits, cacheVars, inflight, faults>>

\* _resolve_search_epochs, after the search; it may fail.
CaptureEpochs(c) ==
  /\ call[c].at = "epochs"
  /\ \E tag \in {"now", "none"} : call' = [call EXCEPT ![c].at = "store", ![c].held.tag = tag]
  /\ UNCHANGED <<commits, cacheVars, inflight, faults>>

\* Mutant of MayStore: the in-flight entry is not looked at again.
MayStoreAlways(c) == TRUE

\* The entry of the request is still the caller's own (see _ACTIVE_INFLIGHT_SEARCH).
MayStore(c) == inflight = call[c].flight

\* store_search_response, under the lock of the in-flight searches.
Store(c) ==
  /\ call[c].at = "store"
  /\ found' = IF MayStore(c) THEN call[c].held ELSE found
  /\ Goto(c, "finish")
  /\ UNCHANGED <<commits, record, inflight, faults>>

WaitsFor(d, f) == call[d].at = "wait" /\ call[d].flight = f

\* finish_inflight_search: the followers that still wait for the entry are
\* woken, with the payload or with the error.  (Those of a purged entry have
\* been woken already.)
LeaderFinishes(c) ==
  LET f == call[c].flight
      Told(d) == IF call[c].at = "failed" THEN [call[d] EXCEPT !.at = "fallback"]
                 ELSE [call[d] EXCEPT !.at = "wake", !.held = call[c].held]
  IN  /\ call[c].at \in {"finish", "failed"}
      /\ call' = [d \in Caller |->
                    IF d = c THEN IF call[c].at = "failed" THEN Told(c) ELSE Idle
                    ELSE IF WaitsFor(d, f) THEN Told(d) ELSE call[d]]
      /\ inflight' = IF inflight = f THEN None ELSE inflight
      /\ UNCHANGED <<commits, cacheVars, faults>>

\* Something between the search and its end raises (surface tracking,
\* telemetry, payload building): finish_inflight_search is never called.
LeaderLost(c) ==
  /\ call[c].at \in {"epochs", "store"} /\ faults < MaxFaults
  /\ faults' = faults + 1
  /\ Answer(c)
  /\ UNCHANGED <<commits, cacheVars, inflight>>

----------------------------------------------------------------------------
(* The followers: wait_for_inflight_search                                  *)

\* The answer of the leader.
FollowerWakes(c) ==
  /\ call[c].at = "wake"
  /\ Answer(c)
  /\ UNCHANGED <<commits, cacheVars, inflight, faults>>

\* A second has passed: the entry is taken from the leader, whose search goes
\* on; whoever comes next leads a search of its own.
FollowerTimesOut(c) ==
  /\ call[c].at \in {"wait", "wake"}
  /\ inflight' = IF inflight = call[c].flight THEN None ELSE inflight
  /\ Goto(c, "fallback")
  /\ UNCHANGED <<commits, cacheVars, faults>>

\* The stale response, marked as degraded; without one, a projection or the
\* error.
Fallback(c) ==
  /\ call[c].at = "fallback"
  /\ Answer(c)
  /\ UNCHANGED <<commits, cacheVars, inflight, faults>>

----------------------------------------------------------------------------
(* _read_memory_record                                                      *)

\* load_read_entry; a row without a token is not looked at further.
ReadBegins(c) ==
  /\ call[c].at = "idle"
  /\ IF record # None /\ record.tag # "none"
     THEN call' = [call EXCEPT ![c] = [Idle EXCEPT !.at = "check", !.held = record]]
     ELSE call' = [call EXCEPT ![c] = [Idle EXCEPT !.at = "read"]]
  /\ UNCHANGED <<commits, cacheVars, inflight, faults>>

\* _load_validated_cached_read_hit: a hit; or the token that did not match,
\* which is kept for the row to come; or no token could be had.
ReadCheck(c) ==
  /\ call[c].at = "check"
  /\ \/ /\ call[c].held.tag = "now"
        /\ Serve(c)
     \/ /\ call[c].held.tag # "now"
        /\ call' = [call EXCEPT ![c] = [Idle EXCEPT !.at = "read", !.held.tag = "now"]]
     \/ call' = [call EXCEPT ![c] = [Idle EXCEPT !.at = "read"]]
  /\ UNCHANGED <<commits, cacheVars, inflight, faults>>

\* The authoritative read, or the stale row after its failure.
Read(c) ==
  /\ call[c].at = "read"
  /\ \/ call' = [call EXCEPT ![c].held.shows = TRUE,
                             ![c].at = IF call[c].held.tag = "none" THEN "token" ELSE "keep"]
     \/ Goto(c, "readfailed")
  /\ UNCHANGED <<commits, cacheVars, inflight, faults>>

ReadFallback(c) ==
  /\ call[c].at = "readfailed"
  /\ Answer(c)
  /\ UNCHANGED <<commits, cacheVars, inflight, faults>>

\* Without a token from the check, one is captured after the read.
CaptureToken(c) ==
  /\ call[c].at = "token"
  /\ \E tag \in {"now", "none"} : call' = [call EXCEPT ![c].at = "keep", ![c].held.tag = tag]
  /\ UNCHANGED <<commits, cacheVars, inflight, faults>>

\* Mutant of Keep: the token of the row is always the newest.
KeepNewestToken(c) ==
  /\ call[c].at = "keep"
  /\ record' = [call[c].held EXCEPT !.tag = "now"]
  /\ Answer(c)
  /\ UNCHANGED <<commits, found, inflight, faults>>

\* _store_cached_read_response
Keep(c) ==
  /\ call[c].at = "keep"
  /\ record' = call[c].held
  /\ Answer(c)
  /\ UNCHANGED <<commits, found, inflight, faults>>

----------------------------------------------------------------------------
(* Mutations and purges                                                     *)

\* Of anything captured before it, a mutation leaves nothing current.
Outdated(p) == [p EXCEPT !.shows = FALSE, !.tag = IF @ = "now" THEN "old" ELSE @]

OutdatedRow(row) == IF row = None THEN None ELSE Outdated(row)

\* A call that has its data and not yet its epochs or its token is raced.
Overtaken(k) ==
  [Outdated(k.held) EXCEPT !.raced = k.held.raced \/ k.at \in {"epochs", "token"}]

\* A mutation commits, with its epochs and tokens.  Only the curation actions
\* invalidate the cache afterwards.
Commit(invalidates) ==
  /\ invalidates => commits < MaxPending
  /\ commits' = IF invalidates THEN commits + 1 ELSE commits
  /\ found' = OutdatedRow(found) /\ record' = OutdatedRow(record)
  /\ call' = [c \in Caller |-> [call[c] EXCEPT !.held = Overtaken(call[c])]]
  /\ UNCHANGED <<inflight, faults>>

\* invalidate_for_mutation: the rows, not the searches in flight.
InvalidateForMutation ==
  /\ commits > 0
  /\ commits' = commits - 1
  /\ found' = None /\ record' = None
  /\ UNCHANGED <<inflight, call, faults>>

\* purge_search_responses: the rows and the search in flight, under the lock.
Purge ==
  /\ found' = None
  /\ inflight' = None
  /\ call' = [c \in Caller |->
                [call[c] EXCEPT !.at = IF WaitsFor(c, inflight) THEN "fallback" ELSE @,
                                !.purged = call[c].flight # None,
                                !.held.purged = call[c].flight # None]]
  /\ UNCHANGED <<commits, record, faults>>

----------------------------------------------------------------------------
Steps(c) ==
  \/ Validate(c) \/ BeginInflight(c) \/ Search(c) \/ CaptureEpochs(c) \/ Store(c)
  \/ LeaderFinishes(c) \/ FollowerWakes(c) \/ FollowerTimesOut(c) \/ Fallback(c)
  \/ ReadCheck(c) \/ Read(c) \/ ReadFallback(c) \/ CaptureToken(c) \/ Keep(c)

Next ==
  \/ \E c \in Caller : SearchBegins(c) \/ ReadBegins(c) \/ Steps(c) \/ LeaderLost(c)
  \/ \E invalidates \in BOOLEAN : Commit(invalidates)
  \/ InvalidateForMutation \/ Purge

Spec == Init /\ [][Next]_vars

----------------------------------------------------------------------------
(* Properties *)

\* The types; an in-flight state has one leader (begin_inflight_search).
CacheTypeOK ==
  /\ commits \in 0..MaxPending
  /\ found \in Payload \cup {None} /\ record \in Payload \cup {None}
  /\ inflight \in Flight \cup {None}
  /\ call \in [Caller -> Call]
  /\ faults \in 0..MaxFaults
  /\ \A c, d \in Caller : Leads(c) /\ Leads(d) /\ call[c].flight = call[d].flight => c = d

\* A response that the cache serves as fresh shows what was in the store when
\* its epochs or its token were compared (_load_fresh_cached_search_hit,
\* _load_validated_cached_read_hit), whatever was invalidated, purged or
\* overwritten meanwhile.  Excepted are rows whose epochs or token were
\* captured after a mutation that their data does not show yet.
HitsAreCurrent == \A c \in Caller : call[c].hit # "stale"

\* A purge is final: no search that began before it is cached after it, and
\* no caller that came after it gets the answer of one (purge_search_responses
\* against store_search_response and finish_inflight_search).
PurgeIsFinal ==
  /\ found # None => ~found.purged
  /\ \A c \in Caller : call[c].at = "wake" /\ call[c].held.purged => call[c].purged
============================================================================
