---------------------------- MODULE ThrottleReturns ----------------------------
(***************************************************************************)
(* What a caller may rely on when it comes back: the throttled requests    *)
(* with a history of when each key last sent a request, and of what its    *)
(* last refusal said in Retry-After.  The instances' clocks differ, so a   *)
(* caller that means to wait for a time waits for Skew as well: the clock  *)
(* that told it may be ahead of the one it is weighed with.                *)
(***************************************************************************)
EXTENDS ThrottleRequests

VARIABLES
  idleFor,   \* key -> ticks since its last request, as far as they matter
  sentIn,    \* key -> the latest window one of its requests began in
  promised,  \* key -> what its last refusal said
  waited     \* caller -> how long its key had been quiet, and whether it was due

historyVars == <<idleFor, sentIn, promised, waited>>
allVars == <<vars, historyVars>>

\* Two windows by any two clocks.
Patience == 2 * Window + Skew

NotWaited == [quiet |-> 0, due |-> FALSE]

\* When to come back, the window it was computed from, and the one that its
\* caller had gone on to by then.
Promise == [at : Nat, from : Starts, inWindow : Starts]

ASSUME PromiseAssumption == None \notin Promise

HistoryTypeOK ==
  /\ idleFor \in [Keys -> 0..Patience]
  /\ sentIn \in [Keys -> Starts]
  /\ promised \in [Keys -> Promise \cup {None}]
  /\ waited \in [Callers -> [quiet : 0..Patience, due : BOOLEAN]]

HistoryInit ==
  /\ idleFor = [k \in Keys |-> Patience]
  /\ sentIn = [k \in Keys |-> 0]
  /\ promised = [k \in Keys |-> None]
  /\ waited = [c \in Callers |-> NotWaited]

InFlightFor(k) == {c \in InFlight : call[c].key = k}

Alone(k) == InFlightFor(k) = {} /\ {w \in adrift : w.key = k} = {}

\* What a refusal promised stands while the caller goes on sending in the same
\* window, and is used up by its first request in a later one.
Stands(k, start) == promised[k] # None /\ start <= promised[k].inWindow

\* A refusal that was computed from an older window than its caller had gone
\* on to is short by the difference.
IsDue(k) ==
  /\ promised[k] # None
  /\ LET p == promised[k] IN now >= p.at + (p.inWindow - p.from) + Skew

\* A request that is joined by another of its key has not waited.
Arrives(c, k, i) ==
  /\ BeginRequest(c, k, i)
  /\ waited' = [d \in Callers |->
                  IF d = c /\ Alone(k)
                    THEN [quiet |-> idleFor[k], due |-> IsDue(k)]
                  ELSE IF d = c \/ d \in InFlightFor(k) THEN NotWaited
                  ELSE waited[d]]
  /\ idleFor' = [idleFor EXCEPT ![k] = 0]
  /\ sentIn' = [sentIn EXCEPT ![k] = Greatest(@, call'[c].start)]
  /\ promised' = IF Stands(k, call'[c].start) THEN promised
                 ELSE [promised EXCEPT ![k] = None]

Ends(c) == stage[c] # "idle" /\ stage'[c] = "idle"

\* The refusal carries the Retry-After that decideAdmission computes, and for
\* a saturated counter the same.
PromiseTo(c) ==
  [at |-> now + RetryAfterSeconds(Limit, call[c].elapsed, Window, Ceiling),
   from |-> call[c].start, inWindow |-> sentIn[call[c].key]]

IsAnswered(c) ==
  /\ StoreAnswers(c)
  /\ promised' = IF Ends(c) /\ verdict' = "refused"
                   THEN [promised EXCEPT ![call[c].key] = PromiseTo(c)] ELSE promised
  /\ waited' = IF Ends(c) THEN [waited EXCEPT ![c] = NotWaited] ELSE waited
  /\ UNCHANGED <<idleFor, sentIn>>

EndsOtherwise(c) ==
  /\ Degrades(c) \/ FailOpen(c)
  /\ waited' = [waited EXCEPT ![c] = NotWaited]
  /\ UNCHANGED <<idleFor, sentIn, promised>>

TimePasses ==
  /\ Tick
  /\ idleFor' = [k \in Keys |-> Least(idleFor[k] + 1, Patience)]
  /\ UNCHANGED <<sentIn, promised, waited>>

ReturnsInit == Init /\ HistoryInit

ReturnsNext ==
  \/ \E c \in Callers :
       \/ \E k \in Keys, i \in Instances : Arrives(c, k, i)
       \/ IsAnswered(c)
       \/ EndsOtherwise(c)
  \/ TimePasses
  \/ (AdriftSettles \/ CollectExpired) /\ UNCHANGED historyVars

ReturnsSpec == ReturnsInit /\ [][ReturnsNext]_allVars

-----------------------------------------------------------------------------
(* Properties                                                              *)

ReturnsTypeOK == TypeOK /\ HistoryTypeOK

(* A caller that sent nothing for two windows, by any two instances'      *)
(* clocks, is not refused on what it sent before (selectRolloverBranch's   *)
(* promote-zero, AC-7).                                                    *)
IdleIsForgiven ==
  [][\A c \in Callers : Ends(c) /\ waited[c].quiet >= Patience
        => verdict' # "refused"]_allVars

(* A caller whose first request after the windows it had sent in comes     *)
(* when its last refusal told it to come back is admitted, however far it  *)
(* went on driving their count; where that refusal was computed from an    *)
(* older window, it is short by a window and no more                       *)
(* (computeRetryAfterSeconds, decideFromOutcome, AC-4).                    *)
RetryAfterIsHonest ==
  [][\A c \in Callers : Ends(c) /\ waited[c].due => verdict' # "refused"]_allVars

(* A caller that has sent nothing for one window is admitted again (FR9,   *)
(* AC-5).                                                                  *)
RecoversWithinOneWindow ==
  [][\A c \in Callers : Ends(c) /\ waited[c].quiet >= Window
        => verdict' # "refused"]_allVars

=============================================================================
