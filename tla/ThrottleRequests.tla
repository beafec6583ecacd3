---------------------------- MODULE ThrottleRequests ----------------------------
(***************************************************************************)
(* DecideRequestAdmissionUseCase.decide and countRequest over the throttle *)
(* counters, for many requests in several instances whose clocks differ.   *)
(* A request reads its instance's clock once, then sends up to MaxAttempts *)
(* increments and the window transitions between them; each action below   *)
(* is one statement at the store and the code that runs on its answer.     *)
(* A request whose store calls fail, or run into the deadline, ends        *)
(* degraded here; RequestAdmission says what becomes of it.                *)
(***************************************************************************)
EXTENDS ThrottleCounter, FiniteSets

CONSTANTS
  Callers,        \* request slots: at most this many in flight
  Instances,      \* function instances, each with a clock of its own
  FastInstances,  \* the instances whose clock is ahead
  Skew,           \* by how many ticks it is ahead
  Limit,          \* the policy's limit
  MaxAttempts,    \* THROTTLE_STORE_MAX_ATTEMPTS
  Deadline,       \* ticks a request may straddle before its deadline
  CollectionLag,  \* least time between a counter's ttl and its collection
  MaxTime,        \* bound: the clock stops here
  MaxAdrift,      \* bound: aborted writes still on their way
  MaxCounted      \* bound: no request starts once a window has counted so many

ASSUME RequestsAssumption ==
  /\ FastInstances \subseteq Instances
  /\ Skew \in Nat
  /\ Limit \in Nat \ {0}
  /\ Limit <= Ceiling
  /\ MaxAttempts \in Nat \ {0}
  /\ Deadline \in Nat
  /\ CollectionLag \in Nat
  /\ MaxTime \in Nat
  /\ MaxTime + Skew <= Horizon
  /\ MaxAdrift \in Nat
  /\ MaxCounted \in Nat

VARIABLES
  now,      \* real time
  stage,    \* caller -> the store call it waits for
  call,     \* caller -> its local variables, or None
  verdict,  \* how the last decision went
  adrift,   \* writes of aborted requests that may still land
  served    \* history: key -> window -> admissions counted in it

vars == <<item, counted, now, stage, call, verdict, adrift, served>>

Branches == {"none", "promote-previous", "promote-zero", "reset-item"}
Verdicts == {"none", "admitted", "refused", "degraded", "admitted-unclassified"}

Call == [key      : Keys,
         instance : Instances,
         beganAt  : 0..MaxTime,
         start    : Starts,
         elapsed  : 0..(Window - 1),
         target   : Starts,
         attempt  : 1..MaxAttempts,
         stored   : Counter \cup {None},
         branch   : Branches]

Write == [key : Keys, start : Starts, stored : Counter \cup {None},
          branch : Branches, until : Nat]

ASSUME CallAssumption == None \notin Call

TypeOK ==
  /\ CounterTypeOK
  /\ now \in 0..MaxTime
  /\ stage \in [Callers -> {"idle", "incrementing", "transitioning"}]
  /\ call \in [Callers -> Call \cup {None}]
  /\ verdict \in Verdicts
  /\ adrift \subseteq Write
  /\ served \in [Keys -> [Starts -> Nat]]

Init ==
  /\ CounterInit
  /\ now = 0
  /\ stage = [c \in Callers |-> "idle"]
  /\ call = [c \in Callers |-> None]
  /\ verdict = "none"
  /\ adrift = {}
  /\ served = [k \in Keys |-> [w \in Starts |-> 0]]

-----------------------------------------------------------------------------

ReadingOf(i) == IF i \in FastInstances THEN now + Skew ELSE now

InFlight == {c \in Callers : stage[c] # "idle"}

GoTo(c, at, locals) ==
  /\ stage' = [stage EXCEPT ![c] = at]
  /\ call' = [call EXCEPT ![c] = locals]
  /\ UNCHANGED verdict

Decide(c, kind) ==
  /\ stage' = [stage EXCEPT ![c] = "idle"]
  /\ call' = [call EXCEPT ![c] = None]
  /\ verdict' = kind

\* decide up to the first increment: the only reading of the clock.
BeginRequest(c, k, i) ==
  LET start == WindowStartOf(ReadingOf(i), Window)
  IN
  /\ stage[c] = "idle"
  /\ \A w \in Starts : counted[k][w] < MaxCounted
  /\ stage' = [stage EXCEPT ![c] = "incrementing"]
  /\ call' = [call EXCEPT ![c] =
                [key |-> k, instance |-> i, beganAt |-> now, start |-> start,
                 elapsed |-> ReadingOf(i) - start, target |-> start, attempt |-> 1,
                 stored |-> None, branch |-> "none"]]
  /\ verdict' = "none"
  /\ UNCHANGED <<item, counted, now, adrift, served>>

\* decideFromOutcome weighs the counter with the request's own clock reading.
AdmittedBy(counter, c) ==
  Admits(EstimateRequestCount(counter.previous, counter.current,
                              call[c].elapsed, Window, Ceiling), Limit, Window)

\* attemptIncrement succeeds, and the counter it returns is weighed.
IncrementCounts(c) ==
  LET k == call[c].key
      start == call[c].target
  IN
  /\ stage[c] = "incrementing"
  /\ Increment(k, start)
  /\ \/ /\ AdmittedBy(Incremented(k, start), c)
        /\ Decide(c, "admitted")
        /\ served' = [served EXCEPT ![k][start] = @ + 1]
     \/ /\ ~AdmittedBy(Incremented(k, start), c)
        /\ Decide(c, "refused")
        /\ UNCHANGED served
  /\ UNCHANGED <<now, adrift>>

\* The increment's condition fails, and the item comes back with the failure.
IncrementConflicts(c) ==
  /\ stage[c] = "incrementing"
  /\ ~IncrementAllowed(call[c].key, call[c].target)

BranchOf(c) == SelectRolloverBranch(item[call[c].key], call[c].target)

\* The live window is saturated: refused without another write.
FindSaturated(c) ==
  /\ IncrementConflicts(c)
  /\ BranchOf(c) = "saturated"
  /\ Decide(c, "refused")
  /\ UNCHANGED <<item, counted, now, adrift, served>>

\* adopt-stored-window: try again against the stored window.
AdoptStoredWindow(c) ==
  /\ IncrementConflicts(c)
  /\ BranchOf(c) = "adopt-stored-window"
  /\ call[c].attempt < MaxAttempts
  /\ GoTo(c, "incrementing",
          [call[c] EXCEPT !.target = item[call[c].key].windowStart, !.attempt = @ + 1])
  /\ UNCHANGED <<item, counted, now, adrift, served>>

\* The other branches first move the window, guarded by what was read.
ChooseTransition(c) ==
  /\ IncrementConflicts(c)
  /\ BranchOf(c) \in {"promote-previous", "promote-zero", "reset-item"}
  /\ call[c].attempt < MaxAttempts
  /\ GoTo(c, "transitioning",
          [call[c] EXCEPT !.stored = item[call[c].key], !.branch = BranchOf(c)])
  /\ UNCHANGED <<item, counted, now, adrift, served>>

\* Mutant: the attempt is not counted after a transition.
Retry_Uncounted(c) ==
  GoTo(c, "incrementing", [call[c] EXCEPT !.stored = None, !.branch = "none"])

Retry(c) ==
  GoTo(c, "incrementing",
       [call[c] EXCEPT !.stored = None, !.branch = "none", !.attempt = @ + 1])

\* applyWindowTransition; losing to another caller's is not an error.
ApplyWindowTransition(c) ==
  /\ stage[c] = "transitioning"
  /\ \/ Transition(call[c].key, call[c].branch, call[c].stored, call[c].target)
     \/ /\ ~TransitionAllowed(call[c].key, call[c].stored)
        /\ UNCHANGED <<item, counted>>
  /\ Retry(c)
  /\ UNCHANGED <<now, adrift, served>>

\* refuseWhenBudgetSpent
BudgetIsSpent(c) ==
  /\ IncrementConflicts(c)
  /\ BranchOf(c) # "saturated"
  /\ call[c].attempt = MaxAttempts
  /\ Decide(c, "degraded")
  /\ UNCHANGED <<item, counted, now, adrift, served>>

\* The store call fails, or the deadline aborts it.  Its write may be lost or
\* may still land.
StoreFails(c) ==
  /\ stage[c] # "idle"
  /\ Decide(c, "degraded")
  /\ \/ UNCHANGED adrift
     \/ /\ Cardinality(adrift) < MaxAdrift
        /\ adrift' = adrift \cup
             {[key |-> call[c].key, start |-> call[c].target, stored |-> call[c].stored,
               branch |-> call[c].branch, until |-> call[c].beganAt + Deadline]}
  /\ UNCHANGED <<item, counted, now, served>>

\* decide's outer catch: whatever else is thrown admits the request, before
\* its increment was sent or after it was counted.
FailOpen(c) ==
  /\ stage[c] # "idle"
  /\ Decide(c, "admitted-unclassified")
  /\ \/ UNCHANGED <<item, counted>>
     \/ /\ stage[c] = "incrementing"
        /\ Increment(call[c].key, call[c].target)
  /\ UNCHANGED <<now, adrift, served>>

-----------------------------------------------------------------------------

\* An aborted request's write reaches the store after all, or never does.
AdriftSettles ==
  \E w \in adrift :
    /\ adrift' = adrift \ {w}
    /\ \/ /\ w.branch = "none"
          /\ Increment(w.key, w.start)
       \/ /\ w.branch # "none"
          /\ Transition(w.key, w.branch, w.stored, w.start)
       \/ UNCHANGED <<item, counted>>
    /\ UNCHANGED <<now, stage, call, verdict, served>>

CollectExpired ==
  /\ \E k \in Keys : CollectCounter(k, now - CollectionLag)
  /\ UNCHANGED <<now, stage, call, verdict, adrift, served>>

\* Time passes; no request, and no write of it, outlives its deadline.
Tick ==
  /\ now < MaxTime
  /\ \A c \in InFlight : now < call[c].beganAt + Deadline
  /\ \A w \in adrift : now < w.until
  /\ now' = now + 1
  /\ verdict' = "none"
  /\ UNCHANGED <<item, counted, stage, call, adrift, served>>

\* The steps of a request that its store calls decide.
StoreAnswers(c) ==
  \/ IncrementCounts(c)
  \/ FindSaturated(c)
  \/ AdoptStoredWindow(c)
  \/ ChooseTransition(c)
  \/ ApplyWindowTransition(c)

\* The steps that end a request without an answer from the store.
Degrades(c) == BudgetIsSpent(c) \/ StoreFails(c)

Environment == AdriftSettles \/ CollectExpired \/ Tick

Next ==
  \/ \E c \in Callers :
       \/ \E k \in Keys, i \in Instances : BeginRequest(c, k, i)
       \/ StoreAnswers(c)
       \/ Degrades(c)
       \/ FailOpen(c)
  \/ Environment

Spec == Init /\ [][Next]_vars

\* The store answers or the deadline's timer fires, for every request.
Fairness == \A c \in Callers : WF_vars(StoreAnswers(c) \/ Degrades(c))

FairSpec == Spec /\ Fairness

-----------------------------------------------------------------------------
(* Properties                                                              *)

(* No increment is lost and none is counted twice: whatever rolls the      *)
(* window over, and however many try to at once, the item holds exactly    *)
(* the requests counted in its window and in the one before (the           *)
(* self-referencing transition and its condition, AC-9 and AC-10).         *)
CountsAreExact ==
  \A k \in Keys : item[k] # None =>
    /\ item[k].current = counted[k][item[k].windowStart]
    /\ item[k].previous = IF item[k].windowStart - Window \in Starts
                            THEN counted[k][item[k].windowStart - Window] ELSE 0

(* At most the limit is admitted against one stored window, however many   *)
(* instances count into it and with whatever clocks they weigh it (AC-1).  *)
ServedWithinLimit == \A k \in Keys, w \in Starts : served[k][w] <= Limit

(* Two adjacent windows together never admit twice the limit: the count    *)
(* that ended is carried over the boundary whoever rolls over (AC-8).      *)
BoundaryBurstBelowTwice ==
  \A k \in Keys, w \in Starts :
    w + Window \in Starts => served[k][w] + served[k][w + Window] < 2 * Limit

(* Contention alone never makes a request degraded: no caller meets a      *)
(* rollover on the last attempt of its budget (AC-9, AC-10).               *)
BudgetSuffices ==
  \A c \in Callers :
    IncrementConflicts(c) /\ BranchOf(c) # "saturated" => call[c].attempt < MaxAttempts

(* Instances that disagree by a boundary converge: no statement moves a    *)
(* stored window back (adopt-stored-window, and the transition's guard     *)
(* under any delay between a read and its write).                          *)
WindowNeverGoesBack ==
  [][\A k \in Keys : item[k] # None /\ item'[k] # None
        => item'[k].windowStart >= item[k].windowStart]_vars

(* Every request is decided, through every lost rollover and retry, even   *)
(* when two instances keep undoing each other's window (FR16).             *)
EveryRequestIsDecided ==
  \A c \in Callers : (stage[c] # "idle") ~> (stage[c] = "idle")

Ledger == INSTANCE RequestLedger

(* Nobody is refused, or admitted, but for the requests counted in the     *)
(* window and the one before it: every verdict is one that a single ledger *)
(* would have given at the moment of the count, whoever rolled the item    *)
(* over, retried, collected it or wrote to it late (FR-1, AC-1, AC-8).     *)
ImplementsLedger == Ledger!Spec

=============================================================================
