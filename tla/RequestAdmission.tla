---------------------------- MODULE RequestAdmission ----------------------------
(***************************************************************************)
(* What becomes of a request that the store could not decide: each         *)
(* function instance keeps an InstanceLocalLimiter in memory, and          *)
(* decideFromDegraded asks it in the same turn in which the store call     *)
(* failed.  The limiter keeps one entry per key, expires it when the key   *)
(* is next looked up with another window, and tracks no more than          *)
(* MaxEntries keys.                                                        *)
(***************************************************************************)
EXTENDS ThrottleRequests

CONSTANTS
  FallbackFactor,  \* THROTTLE_LOCAL_FALLBACK_FACTOR
  MaxEntries,      \* THROTTLE_LOCAL_CACHE_MAX_ENTRIES
  OneAtATime,      \* an instance serves one request at a time, as on Lambda
  MaxLocal         \* bound: no request begins once an entry's count is so high

ASSUME AdmissionAssumption ==
  /\ FallbackFactor \in Nat \ {0}
  /\ MaxEntries \in Nat \ {0}
  /\ OneAtATime \in BOOLEAN
  /\ MaxLocal \in Nat

VARIABLES
  entries,      \* instance -> key -> the limiter's entry, or None
  localServed,  \* history: instance -> key -> window -> admissions it recorded
  fallback      \* what the limiter was just asked and said, or None

limiterVars == <<entries, localServed, fallback>>
admissionVars == <<vars, limiterVars>>

Entry == [windowStart : Starts, count : Nat \ {0}]

Answer == [instance : Instances, key : Keys, start : Starts, underCeiling : BOOLEAN]

ASSUME EntryAssumption == None \notin Entry /\ None \notin Answer

Tracked(i) == {k \in Keys : entries[i][k] # None}

AdmissionTypeOK ==
  /\ TypeOK
  /\ entries \in [Instances -> [Keys -> Entry \cup {None}]]
  /\ \A i \in Instances : Cardinality(Tracked(i)) <= MaxEntries
  /\ localServed \in [Instances -> [Keys -> [Starts -> Nat]]]
  /\ fallback \in Answer \cup {None}

AdmissionInit ==
  /\ Init
  /\ entries = [i \in Instances |-> [k \in Keys |-> None]]
  /\ localServed = [i \in Instances |-> [k \in Keys |-> [w \in Starts |-> 0]]]
  /\ fallback = None

-----------------------------------------------------------------------------
(* instance-local-limiter.ts                                               *)

FallbackCeiling == Limit * FallbackFactor

\* The entry a lookup finds; one of any other window is deleted first.
Unexpired(i, k, start) ==
  IF entries[i][k] # None /\ entries[i][k].windowStart = start
    THEN entries[i][k] ELSE None

\* Mutant: the cap is checked one entry too late.
CacheIsFull_OneOver(i, k, start) ==
  Cardinality(Tracked(i) \ (IF Unexpired(i, k, start) = None THEN {k} ELSE {})) > MaxEntries

\* The size of the map once the key's expired entry is gone.
CacheIsFull(i, k, start) ==
  Cardinality(Tracked(i) \ (IF Unexpired(i, k, start) = None THEN {k} ELSE {})) >= MaxEntries

\* The entry recordAndCheck leaves behind.
Recorded(i, k, start) ==
  LET entry == Unexpired(i, k, start)
  IN  IF entry # None THEN [entry EXCEPT !.count = @ + 1]
      ELSE IF CacheIsFull(i, k, start) THEN None
      ELSE [windowStart |-> start, count |-> 1]

\* Mutant: a key that cannot be tracked is refused.
UnderCeiling_RefusesWhenFull(i, k, start) ==
  Recorded(i, k, start) # None /\ Recorded(i, k, start).count <= FallbackCeiling

\* Mutant: the ceiling is compared with the count before this request.
UnderCeiling_CountBefore(i, k, start) ==
  Recorded(i, k, start) # None => Recorded(i, k, start).count - 1 <= FallbackCeiling

\* A key that is not tracked because the map is full is admitted.
UnderCeiling(i, k, start) ==
  Recorded(i, k, start) # None => Recorded(i, k, start).count <= FallbackCeiling

\* decideFromDegraded, on the window the request began with.
DecideFromDegraded(c) ==
  LET i == call[c].instance
      k == call[c].key
      start == call[c].start
  IN
  /\ entries' = [entries EXCEPT ![i][k] = Recorded(i, k, start)]
  /\ fallback' = [instance |-> i, key |-> k, start |-> start,
                  underCeiling |-> UnderCeiling(i, k, start)]
  /\ localServed' = IF UnderCeiling(i, k, start) /\ Recorded(i, k, start) # None
                      THEN [localServed EXCEPT ![i][k][start] = @ + 1] ELSE localServed

-----------------------------------------------------------------------------

NothingLocal ==
  /\ fallback' = None
  /\ UNCHANGED <<entries, localServed>>

BelowBound(i, k) == entries[i][k] # None => entries[i][k].count < MaxLocal

Enters(c, k, i) ==
  /\ OneAtATime => \A d \in InFlight : call[d].instance # i
  /\ BelowBound(i, k)
  /\ BeginRequest(c, k, i)
  /\ NothingLocal

DecidedByStore(c) == StoreAnswers(c) /\ NothingLocal

DecidedLocally(c) == Degrades(c) /\ DecideFromDegraded(c)

\* decide's outer catch, which asks the limiter nothing.
AdmittedUnclassified(c) == FailOpen(c) /\ NothingLocal

AdmissionNext ==
  \/ \E c \in Callers :
       \/ \E k \in Keys, i \in Instances : Enters(c, k, i)
       \/ DecidedByStore(c)
       \/ DecidedLocally(c)
       \/ AdmittedUnclassified(c)
  \/ Environment /\ NothingLocal

AdmissionSpec == AdmissionInit /\ [][AdmissionNext]_admissionVars

-----------------------------------------------------------------------------
(* Properties                                                              *)

(* An instance admits a caller that it tracks no more often in one window  *)
(* than the ceiling derived from the route's limit, for as long as the     *)
(* store is out and however the outage comes and goes (FR20a).             *)
LocalCeilingHolds ==
  \A i \in Instances, k \in Keys, w \in Starts : localServed[i][k][w] <= FallbackCeiling

(* Trouble at the store is no reason to refuse: the limiter refuses a      *)
(* caller only when this instance has itself served it up to the ceiling   *)
(* in this window, and never for want of room (FR20, AC-17, AC-19, AC-21). *)
TroubleAloneNeverRefuses ==
  fallback # None /\ ~fallback.underCeiling
    => localServed[fallback.instance][fallback.key][fallback.start] >= FallbackCeiling

=============================================================================
