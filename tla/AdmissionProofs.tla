----------------------------- MODULE AdmissionProofs -----------------------------
(***************************************************************************)
(* Proofs about RequestAdmission, for every number of keys, instances and  *)
(* requests, whatever the clocks and the trouble at the store.             *)
(***************************************************************************)
EXTENDS RequestAdmission, ThrottleProofs, FiniteSetTheorems

\* Every step of an admission is one of the request's decision, or of none.
THEOREM AdmissionsAreDecisions == AdmissionSpec => Spec
<1>1. AdmissionInit => Init
  BY DEF AdmissionInit
<1>2. [AdmissionNext]_admissionVars => [Next]_vars
  BY DEF AdmissionNext, Enters, DecidedByStore, DecidedLocally, AdmittedUnclassified, Next,
     Environment, admissionVars
<1> QED
  BY <1>1, <1>2, PTL DEF AdmissionSpec, Spec

-----------------------------------------------------------------------------
(* Types: the limiter's map never holds more than its cap.                 *)

LimiterTyped ==
  /\ entries \in [Instances -> [Keys -> Entry \cup {None}]]
  /\ \A i \in Instances : IsFiniteSet(Tracked(i)) /\ Cardinality(Tracked(i)) <= MaxEntries
  /\ localServed \in [Instances -> [Keys -> [Starts -> Nat]]]
  /\ fallback \in Answer \cup {None}

LEMMA RecordedTyped ==
  ASSUME LimiterTyped, NEW i \in Instances, NEW k \in Keys, NEW start \in Starts
  PROVE  Recorded(i, k, start) \in Entry \cup {None}
<1>1. entries[i][k] \in Entry \cup {None}
  BY DEF LimiterTyped
<1>2. Unexpired(i, k, start) \in Entry \cup {None}
  BY <1>1 DEF Unexpired
<1>3. ASSUME NEW e \in Entry PROVE [e EXCEPT !.count = @ + 1] \in Entry
  BY DEF Entry
<1>4. [windowStart |-> start, count |-> 1] \in Entry
  BY DEF Entry
<1> QED
  BY <1>2, <1>3, <1>4 DEF Recorded

\* Recording a request tracks a new key only where there is room for it.
LEMMA RoomIsKept ==
  ASSUME LimiterTyped, NEW i \in Instances, NEW k \in Keys, NEW start \in Starts,
         entries' = [entries EXCEPT ![i][k] = Recorded(i, k, start)]
  PROVE  \A j \in Instances : IsFiniteSet(Tracked(j)') /\ Cardinality(Tracked(j)') <= MaxEntries
<1> DEFINE r == Recorded(i, k, start)
           T == Tracked(i)
<1>1. /\ IsFiniteSet(T) /\ Cardinality(T) <= MaxEntries /\ Cardinality(T) \in Nat
      /\ MaxEntries \in Nat
      /\ IsFiniteSet(T \ {k}) /\ Cardinality(T \ {k}) \in Nat
      /\ Cardinality(T \ {k}) <= Cardinality(T)
  BY FS_CardinalityType, FS_RemoveElement, FS_Subset, AdmissionAssumption DEF LimiterTyped
<1>2. /\ entries'[i][k] = r
      /\ \A j \in Instances, l \in Keys : j # i \/ l # k => entries'[j][l] = entries[j][l]
  BY DEF LimiterTyped
<1>3. ASSUME NEW j \in Instances, j # i PROVE Tracked(j)' = Tracked(j)
  BY <1>2, <1>3 DEF Tracked
<1>4. Tracked(i)' = IF r = None THEN T \ {k} ELSE (T \ {k}) \cup {k}
  BY <1>2 DEF Tracked
<1> SUFFICES IsFiniteSet(Tracked(i)') /\ Cardinality(Tracked(i)') <= MaxEntries
  BY <1>3 DEF LimiterTyped
<1>5. CASE r = None
  <2>1. Tracked(i)' = T \ {k}
    BY <1>4, <1>5
  <2> HIDE DEF T
  <2> QED
    BY <1>1, <2>1
<1>6. CASE r # None /\ Unexpired(i, k, start) # None
  <2>1. k \in T
    BY <1>6 DEF Unexpired, Tracked
  <2>2. Tracked(i)' = T
    BY <1>4, <1>6, <2>1
  <2> QED
    BY <1>1, <2>2
<1>7. CASE r # None /\ Unexpired(i, k, start) = None
  <2>1. ~CacheIsFull(i, k, start)
    BY <1>7 DEF Recorded
  <2>2. Cardinality(T \ {k}) < MaxEntries
    BY <1>1, <1>7, <2>1 DEF CacheIsFull
  <2>3. /\ IsFiniteSet((T \ {k}) \cup {k})
        /\ Cardinality((T \ {k}) \cup {k}) = Cardinality(T \ {k}) + 1
    BY <1>1, FS_AddElement
  <2>4. Tracked(i)' = (T \ {k}) \cup {k}
    BY <1>4, <1>7
  <2> HIDE DEF T
  <2> QED
    BY <1>1, <2>2, <2>3, <2>4
<1> QED
  BY <1>5, <1>6, <1>7

LEMMA RecordingTyped ==
  ASSUME TypeOK, CallsTyped, LimiterTyped, NEW c \in Callers, stage[c] # "idle",
         DecideFromDegraded(c)
  PROVE  LimiterTyped'
<1> DEFINE i == call[c].instance
           k == call[c].key
           start == call[c].start
<1>1. /\ i \in Instances /\ k \in Keys /\ start \in Starts
  BY CallFields DEF CallsTyped, Call
<1>2. /\ entries' = [entries EXCEPT ![i][k] = Recorded(i, k, start)]
      /\ fallback' = [instance |-> i, key |-> k, start |-> start,
                      underCeiling |-> UnderCeiling(i, k, start)]
      /\ localServed' = IF UnderCeiling(i, k, start) /\ Recorded(i, k, start) # None
                          THEN [localServed EXCEPT ![i][k][start] = @ + 1] ELSE localServed
  BY DEF DecideFromDegraded
<1> HIDE DEF i, k, start
<1>3. Recorded(i, k, start) \in Entry \cup {None}
  BY <1>1, RecordedTyped
<1>4. entries' \in [Instances -> [Keys -> Entry \cup {None}]]
  BY <1>1, <1>2, <1>3 DEF LimiterTyped
<1>5. \A j \in Instances : IsFiniteSet(Tracked(j)') /\ Cardinality(Tracked(j)') <= MaxEntries
  BY <1>1, <1>2, RoomIsKept
<1>6. localServed' \in [Instances -> [Keys -> [Starts -> Nat]]]
  BY <1>1, <1>2 DEF LimiterTyped
<1>7. UnderCeiling(i, k, start) \in BOOLEAN
  BY DEF UnderCeiling
<1>8. fallback' \in Answer
  BY <1>1, <1>2, <1>7 DEF Answer
<1> QED
  BY <1>4, <1>5, <1>6, <1>8 DEF LimiterTyped

\* A request that asks the limiter is one that the store could not decide.
LEMMA LimiterSteps ==
  ASSUME [AdmissionNext]_admissionVars
  PROVE  \/ UNCHANGED <<entries, localServed>> /\ (fallback' = None \/ fallback' = fallback)
         \/ \E c \in Callers : stage[c] # "idle" /\ Degrades(c) /\ DecideFromDegraded(c)
<1>1. ASSUME NEW c \in Callers, DecidedLocally(c)
      PROVE  stage[c] # "idle" /\ Degrades(c) /\ DecideFromDegraded(c)
  BY <1>1 DEF DecidedLocally, Degrades, BudgetIsSpent, StoreFails, IncrementConflicts
<1> QED
  BY <1>1 DEF AdmissionNext, Enters, DecidedByStore, AdmittedUnclassified, NothingLocal,
     admissionVars, limiterVars

LEMMA LimiterTypesKeep ==
  ASSUME TypeOK, CallsTyped, LimiterTyped, [AdmissionNext]_admissionVars
  PROVE  LimiterTyped'
<1>1. CASE UNCHANGED <<entries, localServed>> /\ (fallback' = None \/ fallback' = fallback)
  BY <1>1 DEF LimiterTyped, Tracked
<1> QED
  BY <1>1, LimiterSteps, RecordingTyped

\* Type correctness of the limiter; with it the bound on its memory: whatever
\* keys come, an instance tracks no more of them than the cap (maxEntries).
THEOREM AdmissionTypeCorrect == AdmissionSpec => []AdmissionTypeOK
<1> DEFINE Typed == TypeOK /\ CallsTyped /\ LimiterTyped
<1>1. AdmissionInit => Typed
  <2>1. SUFFICES ASSUME AdmissionInit PROVE Typed
    OBVIOUS
  <2>2. \A i \in Instances : Tracked(i) = {}
    BY <2>1 DEF AdmissionInit, Tracked
  <2>3. LimiterTyped
    <3>1. 0 <= MaxEntries
      BY AdmissionAssumption
    <3>2. \A i \in Instances : IsFiniteSet(Tracked(i)) /\ Cardinality(Tracked(i)) <= MaxEntries
      BY <2>2, <3>1, FS_EmptySet
    <3>3. /\ entries = [i \in Instances |-> [k \in Keys |-> None]]
          /\ localServed = [i \in Instances |-> [k \in Keys |-> [w \in Starts |-> 0]]]
          /\ fallback = None
      BY <2>1 DEF AdmissionInit
    <3> QED
      BY <3>2, <3>3 DEF LimiterTyped
  <2> QED
    BY <2>1, <2>3, InitTyped DEF AdmissionInit
<1>2. Typed /\ [AdmissionNext]_admissionVars => Typed'
  <2>1. [AdmissionNext]_admissionVars => [Next]_vars
    BY DEF AdmissionNext, Enters, DecidedByStore, DecidedLocally, AdmittedUnclassified, Next,
       Environment, admissionVars
  <2> QED
    BY <2>1, TypesKeep, LimiterTypesKeep
<1>3. Typed => AdmissionTypeOK
  BY DEF LimiterTyped, AdmissionTypeOK
<1> QED
  BY <1>1, <1>2, <1>3, PTL DEF AdmissionSpec

-----------------------------------------------------------------------------
(* The limiter of an instance that serves one request at a time.           *)

\* A request began at a reading of its instance's clock, and not before any
\* window that the instance's limiter holds an entry of.
RequestInOrder(c) ==
  stage[c] # "idle" =>
    /\ call[c].start <= ReadingOf(call[c].instance)
    /\ \A k \in Keys : entries[call[c].instance][k] # None
          => entries[call[c].instance][k].windowStart <= call[c].start

OneInFlight ==
  \A c, d \in InFlight : call[c].instance = call[d].instance => c = d

\* What was admitted in the window of an entry is what the entry counts, as
\* far as the ceiling; nothing was admitted in a later window.
EntrySound(i, k) ==
  /\ \A w \in Starts : localServed[i][k][w] # 0
       => entries[i][k] # None /\ w <= entries[i][k].windowStart
  /\ entries[i][k] # None =>
       /\ localServed[i][k][entries[i][k].windowStart] = Least(entries[i][k].count, FallbackCeiling)
       /\ entries[i][k].windowStart <= ReadingOf(i)

RequestsInOrder == \A c \in Callers : RequestInOrder(c)

EntriesSound == \A i \in Instances, k \in Keys : EntrySound(i, k)

AdmissionInv ==
  /\ TypeOK
  /\ CallsTyped
  /\ LimiterTyped
  /\ OneInFlight
  /\ RequestsInOrder
  /\ EntriesSound
  /\ LocalCeilingHolds
  /\ TroubleAloneNeverRefuses

LEMMA CeilingPositive == FallbackCeiling \in Nat \ {0}
  BY RequestsAssumption, AdmissionAssumption DEF FallbackCeiling

LEMMA EntryFields ==
  ASSUME LimiterTyped, NEW i \in Instances, NEW k \in Keys
  PROVE  /\ localServed[i][k] \in [Starts -> Nat]
         /\ entries[i][k] # None =>
              /\ entries[i][k] \in Entry
              /\ entries[i][k].windowStart \in Starts /\ entries[i][k].windowStart \in Nat
              /\ entries[i][k].count \in Nat \ {0}
  BY StartIsMultiple DEF LimiterTyped, Entry

\* A request that ends or goes on keeps its instance and its clock reading.
LEMMA CallSteps ==
  ASSUME TypeOK, CallsTyped, NEW c \in Callers,
         StoreAnswers(c) \/ Degrades(c) \/ FailOpen(c)
  PROVE  /\ stage[c] # "idle" /\ now' = now
         /\ \A d \in Callers \ {c} : stage'[d] = stage[d] /\ call'[d] = call[d]
         /\ \/ stage'[c] = "idle"
            \/ call'[c].start = call[c].start /\ call'[c].instance = call[c].instance
<1>1. ASSUME NEW kind, Decide(c, kind)
      PROVE  /\ \A d \in Callers \ {c} : stage'[d] = stage[d] /\ call'[d] = call[d]
             /\ stage'[c] = "idle"
  BY <1>1 DEF Decide, TypeOK
<1>2. ASSUME NEW at, NEW locals, GoTo(c, at, locals),
             locals.start = call[c].start, locals.instance = call[c].instance
      PROVE  /\ \A d \in Callers \ {c} : stage'[d] = stage[d] /\ call'[d] = call[d]
             /\ call'[c].start = call[c].start /\ call'[c].instance = call[c].instance
  BY <1>2 DEF GoTo, TypeOK
<1>3. stage[c] # "idle" /\ now' = now
  BY DEF StoreAnswers, Degrades, FailOpen, IncrementCounts, FindSaturated, AdoptStoredWindow,
     ChooseTransition, ApplyWindowTransition, BudgetIsSpent, StoreFails, IncrementConflicts
<1>4. call[c] \in Call
  BY <1>3, CallFields DEF CallsTyped
<1>5. CASE IncrementCounts(c) \/ FindSaturated(c) \/ Degrades(c) \/ FailOpen(c)
  <2>1. \E kind : Decide(c, kind)
    BY <1>5 DEF IncrementCounts, FindSaturated, Degrades, BudgetIsSpent, StoreFails, FailOpen
  <2> QED
    BY <1>1, <1>3, <2>1
<1>6. CASE AdoptStoredWindow(c)
  <2> DEFINE locals == [call[c] EXCEPT !.target = item[call[c].key].windowStart, !.attempt = @ + 1]
  <2>1. GoTo(c, "incrementing", locals)
    BY <1>6 DEF AdoptStoredWindow
  <2>2. locals.start = call[c].start /\ locals.instance = call[c].instance
    BY <1>4 DEF Call
  <2> HIDE DEF locals
  <2> QED
    BY <1>2, <1>3, <2>1, <2>2
<1>7. CASE ChooseTransition(c)
  <2> DEFINE locals == [call[c] EXCEPT !.stored = item[call[c].key], !.branch = BranchOf(c)]
  <2>1. GoTo(c, "transitioning", locals)
    BY <1>7 DEF ChooseTransition
  <2>2. locals.start = call[c].start /\ locals.instance = call[c].instance
    BY <1>4 DEF Call
  <2> HIDE DEF locals
  <2> QED
    BY <1>2, <1>3, <2>1, <2>2
<1>8. CASE ApplyWindowTransition(c)
  <2> DEFINE locals == [call[c] EXCEPT !.stored = None, !.branch = "none", !.attempt = @ + 1]
  <2>1. GoTo(c, "incrementing", locals)
    BY <1>8 DEF ApplyWindowTransition, Retry
  <2>2. locals.start = call[c].start /\ locals.instance = call[c].instance
    BY <1>4 DEF Call
  <2> HIDE DEF locals
  <2> QED
    BY <1>2, <1>3, <2>1, <2>2
<1> QED
  BY <1>5, <1>6, <1>7, <1>8 DEF StoreAnswers

LEMMA ReadingAdvances ==
  ASSUME TypeOK, TypeOK', [Next]_vars, NEW i
  PROVE  /\ ReadingOf(i) \in 0..Horizon /\ ReadingOf(i)' \in 0..Horizon
         /\ ReadingOf(i) <= ReadingOf(i)'
<1>1. now \in 0..MaxTime /\ now' \in 0..MaxTime
  BY DEF TypeOK
<1>2. now' = now \/ now' = now + 1
  BY DEF Next, StoreAnswers, Degrades, Environment, BeginRequest, IncrementCounts, FindSaturated,
     AdoptStoredWindow, ChooseTransition, ApplyWindowTransition, BudgetIsSpent, StoreFails,
     FailOpen, AdriftSettles, CollectExpired, Tick, vars
<1>3. Skew \in Nat /\ MaxTime \in Nat /\ Horizon \in Nat /\ MaxTime + Skew <= Horizon
  BY RequestsAssumption, CounterAssumption
<1>4. CASE i \in FastInstances
  <2>1. ReadingOf(i) = now + Skew /\ ReadingOf(i)' = now' + Skew
    BY <1>4 DEF ReadingOf
  <2>2. now + Skew \in 0..Horizon /\ now' + Skew \in 0..Horizon /\ now + Skew <= now' + Skew
    <3>1. ASSUME NEW n \in 0..MaxTime PROVE n + Skew \in 0..Horizon
      BY <1>3
    <3>2. ASSUME NEW m \in Nat, NEW n \in Nat, n = m \/ n = m + 1 PROVE m + Skew <= n + Skew
      BY <1>3, <3>2
    <3>3. now \in Nat /\ now' \in Nat
      BY <1>1, <1>3
    <3>4. now + Skew <= now' + Skew
      BY <1>2, <3>2, <3>3
    <3> QED
      BY <1>1, <3>1, <3>4
  <2> QED
    BY <2>1, <2>2
<1>5. CASE ~(i \in FastInstances)
  <2>1. ReadingOf(i) = now /\ ReadingOf(i)' = now'
    BY <1>5 DEF ReadingOf
  <2>2. now \in 0..Horizon /\ now' \in 0..Horizon /\ now <= now'
    BY <1>1, <1>2, <1>3
  <2> QED
    BY <2>1, <2>2
<1> QED
  BY <1>4, <1>5

\* What a step may do to the requests of an instance.
LEMMA RequestMoves ==
  ASSUME TypeOK, CallsTyped, [AdmissionNext]_admissionVars, NEW c \in Callers, stage'[c] # "idle"
  PROVE  \/ /\ stage[c] # "idle"
            /\ call'[c].start = call[c].start /\ call'[c].instance = call[c].instance
         \/ /\ now' = now
            /\ \E i \in Instances :
                 /\ call'[c].instance = i
                 /\ call'[c].start = WindowStartOf(ReadingOf(i), Window)
                 /\ OneAtATime => \A d \in InFlight : call[d].instance # i
            /\ UNCHANGED <<entries, localServed>>
            /\ \A d \in Callers \ {c} : stage'[d] = stage[d] /\ call'[d] = call[d]
<1> DEFINE Goal == \/ /\ stage[c] # "idle"
                      /\ call'[c].start = call[c].start /\ call'[c].instance = call[c].instance
                   \/ /\ now' = now
                      /\ \E i \in Instances :
                           /\ call'[c].instance = i
                           /\ call'[c].start = WindowStartOf(ReadingOf(i), Window)
                           /\ OneAtATime => \A d \in InFlight : call[d].instance # i
                      /\ UNCHANGED <<entries, localServed>>
                      /\ \A d \in Callers \ {c} : stage'[d] = stage[d] /\ call'[d] = call[d]
<1>1. ASSUME NEW d \in Callers, StoreAnswers(d) \/ Degrades(d) \/ FailOpen(d) PROVE Goal
  BY <1>1, CallSteps
<1>2. ASSUME UNCHANGED <<stage, call>> PROVE Goal
  BY <1>2
<1>3. ASSUME NEW d \in Callers, NEW k \in Keys, NEW i \in Instances, Enters(d, k, i) PROVE Goal
  <2> DEFINE new == [key |-> k, instance |-> i, beganAt |-> now,
                     start |-> WindowStartOf(ReadingOf(i), Window),
                     elapsed |-> ReadingOf(i) - WindowStartOf(ReadingOf(i), Window),
                     target |-> WindowStartOf(ReadingOf(i), Window), attempt |-> 1,
                     stored |-> None, branch |-> "none"]
  <2>1. /\ now' = now /\ UNCHANGED <<entries, localServed>>
        /\ stage' = [stage EXCEPT ![d] = "incrementing"]
        /\ call' = [call EXCEPT ![d] = new]
        /\ OneAtATime => \A e \in InFlight : call[e].instance # i
    BY <1>3 DEF Enters, BeginRequest, NothingLocal
  <2>2. new.instance = i /\ new.start = WindowStartOf(ReadingOf(i), Window)
    OBVIOUS
  <2> HIDE DEF new
  <2>3. CASE d # c
    BY <2>1, <2>3 DEF TypeOK
  <2>4. CASE d = c
    BY <2>1, <2>2, <2>4 DEF TypeOK
  <2> QED
    BY <2>3, <2>4
<1>4. Environment => UNCHANGED <<stage, call>>
  BY DEF Environment, AdriftSettles, CollectExpired, Tick
<1>5. UNCHANGED admissionVars => UNCHANGED <<stage, call>>
  BY DEF admissionVars, vars
<1> QED
  BY <1>1, <1>2, <1>3, <1>4, <1>5 DEF AdmissionNext, DecidedByStore, DecidedLocally,
     AdmittedUnclassified

LEMMA OneInFlightKeeps ==
  ASSUME TypeOK, CallsTyped, OneInFlight, OneAtATime, [AdmissionNext]_admissionVars
  PROVE  OneInFlight'
<1> SUFFICES ASSUME NEW c \in Callers, NEW d \in Callers, stage'[c] # "idle", stage'[d] # "idle",
                    call'[c].instance = call'[d].instance, c # d
             PROVE  FALSE
  BY DEF OneInFlight, InFlight
<1> DEFINE Old(e) == stage[e] # "idle" /\ call'[e].instance = call[e].instance
           Fresh(e) == /\ \A f \in InFlight : call[f].instance # call'[e].instance
                       /\ \A f \in Callers \ {e} : stage'[f] = stage[f] /\ call'[f] = call[f]
<1>1. (Old(c) \/ Fresh(c)) /\ (Old(d) \/ Fresh(d))
  BY RequestMoves
<1>2. CASE Old(c) /\ Old(d)
  BY <1>2 DEF OneInFlight, InFlight
<1>3. CASE Fresh(c)
  BY <1>3 DEF InFlight
<1>4. CASE Fresh(d)
  BY <1>4 DEF InFlight
<1> QED
  BY <1>1, <1>2, <1>3, <1>4

\* A window is behind the one a later reading falls into, or is that one.
LEMMA LaterReading ==
  ASSUME NEW s \in Starts, NEW t \in 0..Horizon, s <= t
  PROVE  s <= WindowStartOf(t, Window)
<1>1. /\ WindowStartOf(t, Window) \in Starts /\ WindowStartOf(t, Window) \in Nat
      /\ t < WindowStartOf(t, Window) + Window /\ s \in Nat /\ t \in Nat /\ Window \in Nat
  BY ReadingInWindow, StartIsMultiple, CounterAssumption
<1>2. ~(WindowStartOf(t, Window) < s)
  BY <1>1, StartsApart
<1> QED
  BY <1>1, <1>2

\* Where the limiter is not asked, its entries stay in step with the clock.
LEMMA QuietKeeps ==
  ASSUME TypeOK, TypeOK', CallsTyped, LimiterTyped, RequestsInOrder, EntriesSound,
         [AdmissionNext]_admissionVars, [Next]_vars, UNCHANGED <<entries, localServed>>
  PROVE  RequestsInOrder' /\ EntriesSound'
<1>1. ASSUME NEW i \in Instances, NEW k \in Keys PROVE EntrySound(i, k)'
  <2>1. entries[i][k] # None => /\ entries[i][k].windowStart <= ReadingOf(i)
                               /\ entries[i][k].windowStart \in Nat
    BY EntryFields DEF EntriesSound, EntrySound
  <2>2. /\ ReadingOf(i) \in Int /\ ReadingOf(i)' \in Int /\ ReadingOf(i) <= ReadingOf(i)'
    BY ReadingAdvances
  <2>3. entries[i][k] # None => entries[i][k].windowStart <= ReadingOf(i)'
    BY <2>1, <2>2
  <2> QED
    BY <2>3 DEF EntriesSound, EntrySound
<1>2. ASSUME NEW c \in Callers, stage'[c] # "idle" PROVE RequestInOrder(c)'
  <2>1. CASE /\ stage[c] # "idle"
             /\ call'[c].start = call[c].start /\ call'[c].instance = call[c].instance
    <3>1. /\ call[c].start <= ReadingOf(call[c].instance)
          /\ \A k \in Keys : entries[call[c].instance][k] # None
               => entries[call[c].instance][k].windowStart <= call[c].start
          /\ call[c].start \in Nat
      BY <2>1, CallFields, StartIsMultiple DEF RequestsInOrder, RequestInOrder, CallsTyped, Call
    <3>2. ASSUME NEW i, i = call[c].instance PROVE call[c].start <= ReadingOf(i)'
      <4>1. /\ ReadingOf(i) \in Int /\ ReadingOf(i)' \in Int /\ ReadingOf(i) <= ReadingOf(i)'
        BY ReadingAdvances
      <4> QED
        BY <3>1, <3>2, <4>1
    <3>3. (call[c].start <= ReadingOf(call[c].instance))'
      BY <2>1, <3>2 DEF ReadingOf
    <3> QED
      BY <2>1, <3>1, <3>3 DEF RequestInOrder, ReadingOf
  <2>2. ASSUME NEW i \in Instances, call'[c].instance = i, now' = now,
               call'[c].start = WindowStartOf(ReadingOf(i), Window)
        PROVE  RequestInOrder(c)'
    <3>1. ReadingOf(i) \in 0..Horizon /\ ReadingOf(i)' = ReadingOf(i)
      BY <2>2, ReadingAdvances DEF ReadingOf
    <3>2. WindowStartOf(ReadingOf(i), Window) <= ReadingOf(i)
      BY <3>1, ReadingInWindow
    <3>3. \A k \in Keys : entries[i][k] # None
           => entries[i][k].windowStart <= WindowStartOf(ReadingOf(i), Window)
      BY <3>1, EntryFields, LaterReading DEF EntriesSound, EntrySound
    <3>4. (call[c].start <= ReadingOf(call[c].instance))'
      BY <2>2, <3>1, <3>2 DEF ReadingOf
    <3> QED
      BY <2>2, <3>3, <3>4 DEF RequestInOrder, ReadingOf
  <2> QED
    BY <1>2, <2>1, <2>2, RequestMoves
<1> QED
  BY <1>1, <1>2 DEF RequestsInOrder, EntriesSound, RequestInOrder

\* A request asks the limiter with the latest window the limiter has seen:
\* it finds the window's entry, or nothing has been admitted in the window.
LEMMA RecordedIsExact ==
  ASSUME LimiterTyped, EntriesSound, LocalCeilingHolds, NEW i \in Instances, NEW k \in Keys,
         NEW start \in Starts, entries[i][k] # None => entries[i][k].windowStart <= start
  PROVE  LET admitted == localServed[i][k][start]
             entry == Recorded(i, k, start)
         IN  /\ admitted \in Nat
             /\ entry # None =>
                  /\ entry \in Entry /\ entry.windowStart = start /\ entry.count \in Nat \ {0}
                  /\ admitted = Least(entry.count - 1, FallbackCeiling)
             /\ entry = None =>
                  /\ entries[i][k] = None
                  /\ \A w \in Starts : localServed[i][k][w] = 0
<1> DEFINE admitted == localServed[i][k][start]
           entry == Recorded(i, k, start)
           old == entries[i][k]
<1>1. /\ localServed[i][k] \in [Starts -> Nat]
      /\ old # None => /\ old \in Entry /\ old.windowStart \in Starts /\ old.windowStart \in Nat
                       /\ old.count \in Nat \ {0}
      /\ start \in Nat
      /\ FallbackCeiling \in Nat \ {0}
  BY EntryFields, StartIsMultiple, CeilingPositive
<1>2. /\ \A w \in Starts : localServed[i][k][w] # 0 => old # None /\ w <= old.windowStart
      /\ old # None => localServed[i][k][old.windowStart] = Least(old.count, FallbackCeiling)
  BY DEF EntriesSound, EntrySound
<1>3. admitted \in Nat
  BY <1>1
<1>4. CASE Unexpired(i, k, start) # None
  <2>1. old # None /\ old.windowStart = start /\ entry = [old EXCEPT !.count = @ + 1]
    BY <1>4 DEF Unexpired, Recorded
  <2>2. entry \in Entry /\ entry.windowStart = start /\ entry.count = old.count + 1
    BY <1>1, <2>1 DEF Entry
  <2>3. entry # None
    BY <2>2, EntryAssumption
  <2>4. entry.count \in Nat \ {0} /\ entry.count - 1 = old.count
    BY <1>1, <2>1, <2>2
  <2> QED
    BY <1>2, <1>3, <2>1, <2>2, <2>3, <2>4
<1>5. CASE Unexpired(i, k, start) = None /\ ~CacheIsFull(i, k, start)
  <2>1. entry = [windowStart |-> start, count |-> 1]
    BY <1>5 DEF Recorded
  <2>2. /\ entry \in Entry /\ entry.windowStart = start /\ entry.count = 1
    BY <2>1 DEF Entry
  <2>3. entry # None
    BY <2>2, EntryAssumption
  <2>4. admitted = 0
    <3>1. old # None => old.windowStart # start
      BY <1>5 DEF Unexpired
    <3> QED
      BY <1>1, <1>2, <3>1
  <2>5. Least(1 - 1, FallbackCeiling) = 0
    BY <1>1 DEF Least
  <2> QED
    BY <1>3, <2>2, <2>3, <2>4, <2>5
<1>6. CASE Unexpired(i, k, start) = None /\ CacheIsFull(i, k, start)
  <2>1. entry = None
    BY <1>6 DEF Recorded
  <2>2. old = None
    <3>1. SUFFICES ASSUME old # None PROVE FALSE
      OBVIOUS
    <3>2. /\ IsFiniteSet(Tracked(i)) /\ Cardinality(Tracked(i)) <= MaxEntries
          /\ Cardinality(Tracked(i)) \in Nat /\ MaxEntries \in Nat
      BY FS_CardinalityType, AdmissionAssumption DEF LimiterTyped
    <3>3. k \in Tracked(i)
      BY <3>1 DEF Tracked
    <3>4. Cardinality(Tracked(i) \ {k}) = Cardinality(Tracked(i)) - 1
      BY <3>2, <3>3, FS_RemoveElement
    <3>5. Cardinality(Tracked(i) \ {k}) >= MaxEntries
      BY <1>6 DEF CacheIsFull
    <3> QED
      BY <3>2, <3>4, <3>5
  <2>3. \A w \in Starts : localServed[i][k][w] = 0
    BY <1>2, <2>2
  <2> QED
    BY <1>3, <2>1, <2>2, <2>3
<1> QED
  BY <1>4, <1>5, <1>6

LEMMA RecordingKeeps ==
  ASSUME AdmissionInv, OneAtATime, [AdmissionNext]_admissionVars, TypeOK', LimiterTyped',
         NEW c \in Callers, stage[c] # "idle", Degrades(c), DecideFromDegraded(c)
  PROVE  RequestsInOrder' /\ EntriesSound' /\ LocalCeilingHolds' /\ TroubleAloneNeverRefuses'
<1> DEFINE i == call[c].instance
           k == call[c].key
           start == call[c].start
           entry == Recorded(i, k, start)
           under == UnderCeiling(i, k, start)
           admitted == localServed[i][k][start]
<1>1. /\ TypeOK /\ CallsTyped /\ LimiterTyped /\ OneInFlight /\ RequestsInOrder /\ EntriesSound
      /\ LocalCeilingHolds
  BY DEF AdmissionInv
<1>2. /\ i \in Instances /\ k \in Keys /\ start \in Starts /\ start \in Nat
      /\ start <= ReadingOf(i)
      /\ \A l \in Keys : entries[i][l] # None => entries[i][l].windowStart <= start
  <2>1. call[c] \in Call
    BY <1>1, CallFields DEF CallsTyped
  <2> QED
    BY <1>1, <2>1, StartIsMultiple DEF RequestsInOrder, RequestInOrder, Call
<1>3. /\ entries' = [entries EXCEPT ![i][k] = entry]
      /\ fallback' = [instance |-> i, key |-> k, start |-> start, underCeiling |-> under]
      /\ localServed' = IF under /\ entry # None
                          THEN [localServed EXCEPT ![i][k][start] = @ + 1] ELSE localServed
  BY DEF DecideFromDegraded
<1>4. /\ now' = now
      /\ \A d \in Callers \ {c} : stage'[d] = stage[d] /\ call'[d] = call[d]
      /\ stage'[c] = "idle"
  BY <1>1 DEF Degrades, BudgetIsSpent, StoreFails, Decide, TypeOK
<1>5. /\ admitted \in Nat
      /\ entry # None =>
           /\ entry \in Entry /\ entry.windowStart = start /\ entry.count \in Nat \ {0}
           /\ admitted = Least(entry.count - 1, FallbackCeiling)
      /\ entry = None =>
           /\ entries[i][k] = None
           /\ \A w \in Starts : localServed[i][k][w] = 0
  BY <1>1, <1>2, RecordedIsExact
<1>6. under <=> (entry # None => entry.count <= FallbackCeiling)
  BY DEF UnderCeiling
<1>7. FallbackCeiling \in Nat \ {0}
  BY CeilingPositive
<1> HIDE DEF i, k, start, entry, under
<1>8. /\ entries'[i][k] = entry
      /\ \A j \in Instances, l \in Keys : j # i \/ l # k =>
           entries'[j][l] = entries[j][l] /\ localServed'[j][l] = localServed[j][l]
      /\ \A w \in Starts \ {start} : localServed'[i][k][w] = localServed[i][k][w]
      /\ localServed'[i][k][start] = IF under /\ entry # None THEN admitted + 1 ELSE admitted
  BY <1>1, <1>2, <1>3 DEF LimiterTyped
<1>9. entry # None => localServed'[i][k][start] = Least(entry.count, FallbackCeiling)
  BY <1>5, <1>6, <1>7, <1>8 DEF Least
<1>10. ASSUME NEW j \in Instances, NEW l \in Keys, j = i, l = k PROVE EntrySound(j, l)'
  <2>1. CASE entry = None
    <3>1. \A w \in Starts : localServed'[i][k][w] = 0
      BY <1>2, <1>5, <1>8, <2>1
    <3> QED
      BY <1>8, <1>10, <2>1, <3>1 DEF EntrySound
  <2>2. CASE entry # None
    <3>1. \A w \in Starts : localServed'[i][k][w] # 0 => w <= start
      <4>1. SUFFICES ASSUME NEW w \in Starts, w # start, localServed[i][k][w] # 0
                     PROVE  w <= start
        BY <1>2, <1>8
      <4>2. entries[i][k] # None /\ w <= entries[i][k].windowStart
        BY <1>1, <1>2, <4>1 DEF EntriesSound, EntrySound
      <4>3. entries[i][k].windowStart \in Nat /\ entries[i][k].windowStart <= start /\ w \in Nat
        BY <1>1, <1>2, <4>2, EntryFields, StartIsMultiple
      <4> QED
        BY <1>2, <4>2, <4>3
    <3>2. start <= ReadingOf(j)'
      BY <1>2, <1>4, <1>10 DEF ReadingOf
    <3> QED
      BY <1>5, <1>8, <1>9, <1>10, <2>2, <3>1, <3>2 DEF EntrySound
  <2> QED
    BY <2>1, <2>2
<1>11. ASSUME NEW j \in Instances, NEW l \in Keys, j # i \/ l # k PROVE EntrySound(j, l)'
  <2>1. EntrySound(j, l) /\ entries'[j][l] = entries[j][l] /\ localServed'[j][l] = localServed[j][l]
    BY <1>1, <1>8, <1>11 DEF EntriesSound
  <2>2. ReadingOf(j)' = ReadingOf(j)
    BY <1>4 DEF ReadingOf
  <2> QED
    BY <2>1, <2>2 DEF EntrySound
<1>12. EntriesSound'
  BY <1>10, <1>11 DEF EntriesSound
<1>13. ASSUME NEW d \in Callers, stage'[d] # "idle" PROVE RequestInOrder(d)'
  <2>1. d # c /\ stage[d] # "idle" /\ call'[d] = call[d]
    BY <1>4, <1>13
  <2>2. call[d].instance # i /\ call[d].instance \in Instances
    BY <1>1, <2>1, CallFields DEF OneInFlight, InFlight, i, CallsTyped, Call
  <2>3. \A l \in Keys : entries'[call[d].instance][l] = entries[call[d].instance][l]
    BY <1>8, <2>2
  <2> QED
    BY <1>1, <1>4, <2>1, <2>3 DEF RequestsInOrder, RequestInOrder, ReadingOf
<1>14. RequestsInOrder'
  BY <1>13 DEF RequestsInOrder, RequestInOrder
<1>15. LocalCeilingHolds'
  <2>1. localServed'[i][k][start] <= FallbackCeiling
    <3>1. CASE entry # None
      BY <1>5, <1>7, <1>9, <3>1 DEF Least
    <3>2. CASE entry = None
      BY <1>1, <1>2, <1>8, <3>2 DEF LocalCeilingHolds, admitted
    <3> QED
      BY <3>1, <3>2
  <2> QED
    BY <1>1, <1>8, <2>1 DEF LocalCeilingHolds
<1>16. TroubleAloneNeverRefuses'
  <2>1. SUFFICES ASSUME ~under PROVE localServed'[i][k][start] >= FallbackCeiling
    BY <1>3 DEF TroubleAloneNeverRefuses
  <2>2. entry # None /\ ~(entry.count <= FallbackCeiling)
    BY <1>6, <2>1
  <2> QED
    BY <1>5, <1>7, <1>9, <2>2 DEF Least
<1> QED
  BY <1>12, <1>14, <1>15, <1>16

LEMMA AdmissionInvKeeps ==
  ASSUME AdmissionInv, OneAtATime, [AdmissionNext]_admissionVars
  PROVE  AdmissionInv'
<1>1. /\ TypeOK /\ CallsTyped /\ LimiterTyped /\ OneInFlight /\ RequestsInOrder /\ EntriesSound
      /\ LocalCeilingHolds /\ TroubleAloneNeverRefuses
  BY DEF AdmissionInv
<1>2. [Next]_vars
  BY DEF AdmissionNext, Enters, DecidedByStore, DecidedLocally, AdmittedUnclassified, Next,
     Environment, admissionVars
<1>3. TypeOK' /\ CallsTyped' /\ LimiterTyped' /\ OneInFlight'
  BY <1>1, <1>2, TypesKeep, LimiterTypesKeep, OneInFlightKeeps
<1>4. CASE UNCHANGED <<entries, localServed>> /\ (fallback' = None \/ fallback' = fallback)
  <2>1. RequestsInOrder' /\ EntriesSound'
    BY <1>1, <1>2, <1>3, <1>4, QuietKeeps
  <2>2. LocalCeilingHolds' /\ TroubleAloneNeverRefuses'
    BY <1>1, <1>4 DEF LocalCeilingHolds, TroubleAloneNeverRefuses
  <2> QED
    BY <1>3, <2>1, <2>2 DEF AdmissionInv
<1>5. ASSUME NEW c \in Callers, stage[c] # "idle", Degrades(c), DecideFromDegraded(c)
      PROVE  AdmissionInv'
  BY <1>3, <1>5, RecordingKeeps DEF AdmissionInv
<1> QED
  BY <1>4, <1>5, LimiterSteps

\* The strengthened invariant of an instance that serves one request at a time.
THEOREM AdmissionInvariant == OneAtATime => (AdmissionSpec => []AdmissionInv)
<1> SUFFICES ASSUME OneAtATime PROVE AdmissionSpec => []AdmissionInv
  OBVIOUS
<1>1. AdmissionInit => AdmissionInv
  <2>1. SUFFICES ASSUME AdmissionInit PROVE AdmissionInv
    OBVIOUS
  <2>2. \A i \in Instances : Tracked(i) = {}
    BY <2>1 DEF AdmissionInit, Tracked
  <2>3. LimiterTyped
    <3>1. 0 <= MaxEntries
      BY AdmissionAssumption
    <3>2. \A i \in Instances : IsFiniteSet(Tracked(i)) /\ Cardinality(Tracked(i)) <= MaxEntries
      BY <2>2, <3>1, FS_EmptySet
    <3>3. /\ entries = [i \in Instances |-> [k \in Keys |-> None]]
          /\ localServed = [i \in Instances |-> [k \in Keys |-> [w \in Starts |-> 0]]]
          /\ fallback = None
      BY <2>1 DEF AdmissionInit
    <3> QED
      BY <3>2, <3>3 DEF LimiterTyped
  <2>4. TypeOK /\ CallsTyped
    BY <2>1, InitTyped DEF AdmissionInit
  <2>5. OneInFlight /\ RequestsInOrder
    BY <2>1 DEF AdmissionInit, Init, OneInFlight, InFlight, RequestsInOrder, RequestInOrder
  <2>6. EntriesSound /\ LocalCeilingHolds /\ TroubleAloneNeverRefuses
    BY <2>1, CeilingPositive DEF AdmissionInit, EntriesSound, EntrySound, LocalCeilingHolds,
       TroubleAloneNeverRefuses
  <2> QED
    BY <2>3, <2>4, <2>5, <2>6 DEF AdmissionInv
<1>2. AdmissionInv /\ [AdmissionNext]_admissionVars => AdmissionInv'
  BY AdmissionInvKeeps
<1> QED
  BY <1>1, <1>2, PTL DEF AdmissionSpec

\* While the store is out, an instance admits a caller that it tracks no more
\* often in a window than the route's fallback ceiling, for any outage (FR20a).
THEOREM LocalCeilingIsKept == OneAtATime => (AdmissionSpec => []LocalCeilingHolds)
<1>1. AdmissionInv => LocalCeilingHolds
  BY DEF AdmissionInv
<1> QED
  BY <1>1, AdmissionInvariant, PTL

\* The limiter refuses only a caller that this instance has itself served up to
\* the ceiling in the same window, and none for want of room in its map.
THEOREM OutagesDoNotRefuse == OneAtATime => (AdmissionSpec => []TroubleAloneNeverRefuses)
<1>1. AdmissionInv => TroubleAloneNeverRefuses
  BY DEF AdmissionInv
<1> QED
  BY <1>1, AdmissionInvariant, PTL

=============================================================================
