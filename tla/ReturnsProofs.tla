----------------------------- MODULE ReturnsProofs -----------------------------
(***************************************************************************)
(* Proofs about ThrottleReturns: what a caller may rely on when it comes   *)
(* back, for every window, limit, ceiling and number of callers.           *)
(***************************************************************************)
EXTENDS ThrottleReturns, ThrottleProofs

-----------------------------------------------------------------------------
(* Arithmetic of Retry-After.                                              *)

Fresh == SecondsIntoFreshWindow(Limit, Window, Ceiling)

LEMMA ParameterTypes ==
  /\ Window \in Nat \ {0} /\ Ceiling \in Nat \ {0} /\ Limit \in Nat \ {0}
  /\ Limit <= Ceiling /\ Skew \in Nat
  BY CounterAssumption, RequestsAssumption

LEMMA ProductsAscend ==
  ASSUME NEW a \in Nat, NEW b \in Nat, NEW c \in Nat, a <= b
  PROVE  a * c <= b * c /\ a * c \in Nat /\ b * c \in Nat
<1>1. PICK d \in Nat : b = a + d
  <2>1. b - a \in Nat /\ b = a + (b - a)
    OBVIOUS
  <2> QED
    BY <2>1
<1>2. b * c = a * c + d * c /\ a * c \in Nat /\ b * c \in Nat /\ d * c \in Nat
  BY <1>1
<1> QED
  BY <1>2

\* The part of a fresh window to wait is no more than a window, and long enough
\* for what remains of a saturated one.
LEMMA FreshFits ==
  /\ Fresh \in 1 .. Window
  /\ Fresh * Ceiling >= Window * (Ceiling - (Limit - 1))
<1> DEFINE above == Ceiling - (Limit - 1)
           a == Window * above
           r == a + Ceiling - 1
<1>1. above \in Nat /\ above >= 1 /\ above <= Ceiling
  BY ParameterTypes
<1> HIDE DEF above
<1>2. a \in Nat /\ a >= Window /\ a <= Window * Ceiling /\ Window * Ceiling \in Nat
  <2>1. above * Window <= Ceiling * Window /\ 1 * Window <= above * Window
    BY <1>1, ParameterTypes, ProductsAscend
  <2>2. a = above * Window /\ a \in Nat /\ Window * Ceiling = Ceiling * Window
        /\ Window * Ceiling \in Nat /\ 1 * Window = Window
    BY <1>1, ParameterTypes
  <2> QED
    BY <2>1, <2>2
<1> HIDE DEF a
<1>3. r \in Nat
  BY <1>2, ParameterTypes
<1>4. Fresh = r \div Ceiling
  BY DEF Fresh, SecondsIntoFreshWindow, CeilDiv, r, a, above
<1>5. /\ Fresh \in Nat /\ Fresh * Ceiling <= r /\ r < Fresh * Ceiling + Ceiling
  BY <1>3, <1>4, ParameterTypes, DivisionBounds
<1>6. Fresh * Ceiling >= a
  <2>1. Fresh * Ceiling \in Nat
    BY <1>5, ParameterTypes
  <2> QED
    BY <1>2, <1>5, <2>1, ParameterTypes
<1>7. Fresh >= 1
  <2> SUFFICES ASSUME Fresh = 0 PROVE FALSE
    BY <1>5
  <2>1. Fresh * Ceiling = 0
    BY ParameterTypes
  <2> QED
    BY <1>2, <1>6, <2>1, ParameterTypes
<1>8. Fresh <= Window
  <2> SUFFICES ASSUME Window + 1 <= Fresh PROVE FALSE
    BY <1>5, ParameterTypes
  <2>1. (Window + 1) * Ceiling <= Fresh * Ceiling /\ Fresh * Ceiling \in Nat
    BY <1>5, ParameterTypes, ProductsAscend
  <2>2. (Window + 1) * Ceiling = Window * Ceiling + Ceiling
    BY ParameterTypes
  <2> QED
    BY <1>2, <1>5, <2>1, <2>2, ParameterTypes
<1> QED
  BY <1>5, <1>6, <1>7, <1>8, ParameterTypes DEF a, above

\* Retry-After leads to the same moment of the next window from wherever in a
\* window it is computed; neither of its bounds cuts it.
LEMMA RetryLeadsIntoFreshWindow ==
  ASSUME NEW elapsed \in 0 .. (Window - 1)
  PROVE  RetryAfterSeconds(Limit, elapsed, Window, Ceiling) = (Window - elapsed) + Fresh
<1>1. Window \in Nat \ {0} /\ elapsed \in Nat /\ elapsed < Window /\ Fresh \in Nat
      /\ 1 <= Fresh /\ Fresh <= Window
  BY ParameterTypes, FreshFits
<1>2. RetryAfterSeconds(Limit, elapsed, Window, Ceiling)
        = Least(Greatest((Window - elapsed) + Fresh, 1), 3 * Window)
  BY DEF RetryAfterSeconds, Fresh
<1> QED
  BY <1>1, <1>2 DEF Least, Greatest

\* A single request in a window is admitted, if the window before counted none
\* or so much of this one has passed.
LEMMA FreshWindowAdmits ==
  ASSUME NEW previous \in 0 .. Ceiling, NEW elapsed \in 0 .. (Window - 1),
         previous = 0 \/ elapsed >= Fresh
  PROVE  Admits(EstimateRequestCount(previous, 1, elapsed, Window, Ceiling), Limit, Window)
<1> DEFINE left == Window - elapsed
<1>1. /\ previous \in Nat /\ previous <= Ceiling /\ left \in Nat /\ elapsed \in Nat
      /\ Window \in Nat /\ Ceiling \in Nat /\ Limit \in Nat
      /\ 1 <= Ceiling /\ 1 <= Limit /\ Limit <= Ceiling
  BY ParameterTypes
<1>2. EstimateRequestCount(previous, 1, elapsed, Window, Ceiling)
        = previous * left + Window
  BY <1>1 DEF EstimateRequestCount, Least
<1>3. 1 * Window <= Limit * Window /\ Limit * Window \in Nat /\ 1 * Window = Window
  BY <1>1, ProductsAscend
<1>4. CASE previous = 0
  BY <1>1, <1>2, <1>3, <1>4 DEF Admits
<1>5. CASE elapsed >= Fresh
  <2>1. /\ Fresh \in Nat /\ Fresh <= Window
        /\ Fresh * Ceiling >= Window * (Ceiling - (Limit - 1))
    BY FreshFits, <1>1
  <2> DEFINE most == Window - Fresh
  <2>2. most \in Nat /\ left <= most
    BY <1>1, <1>5, <2>1
  <2>3. previous * left <= Ceiling * left
    BY <1>1, ProductsAscend
  <2>4. left * Ceiling <= most * Ceiling
    BY <1>1, <2>2, ProductsAscend
  <2>5. most * Ceiling = Window * Ceiling - Fresh * Ceiling
    BY <1>1, <2>1
  <2>6. Window * (Ceiling - (Limit - 1)) = Window * Ceiling - Limit * Window + Window
    BY <1>1
  <2>7. /\ left * Ceiling = Ceiling * left
        /\ previous * left \in Nat /\ Ceiling * left \in Nat /\ Window * Ceiling \in Nat
        /\ Fresh * Ceiling \in Nat /\ Limit * Window \in Nat
    BY <1>1, <2>1
  <2> HIDE DEF most, left
  <2>8. previous * left + Window <= Limit * Window
    BY <1>1, <2>1, <2>3, <2>4, <2>5, <2>6, <2>7
  <2> QED
    BY <1>2, <2>8 DEF Admits
<1> QED
  BY <1>4, <1>5

-----------------------------------------------------------------------------
(* The history leaves the requests as they are, and keeps its types.       *)

\* Every step of the history is a step of the throttled requests, or of none.
THEOREM ReturnsAreRequests == ReturnsSpec => Spec
<1>1. ReturnsInit => Init
  BY DEF ReturnsInit
<1>2. [ReturnsNext]_allVars => [Next]_vars
  <2> SUFFICES ASSUME [ReturnsNext]_allVars PROVE [Next]_vars
    OBVIOUS
  <2>1. ASSUME NEW c \in Callers, NEW k \in Keys, NEW i \in Instances, Arrives(c, k, i)
        PROVE  Next
    BY <2>1 DEF Arrives, Next
  <2>2. ASSUME NEW c \in Callers, IsAnswered(c) \/ EndsOtherwise(c) PROVE Next
    BY <2>2 DEF IsAnswered, EndsOtherwise, Next
  <2>3. CASE TimePasses
    BY <2>3 DEF TimePasses, Next, Environment
  <2>4. CASE AdriftSettles \/ CollectExpired
    BY <2>4 DEF Next, Environment
  <2>5. CASE UNCHANGED allVars
    BY <2>5 DEF allVars
  <2> QED
    BY <2>1, <2>2, <2>3, <2>4, <2>5 DEF ReturnsNext
<1> QED
  BY <1>1, <1>2, PTL DEF ReturnsSpec, Spec

\* The answers of the store leave a request's clock reading alone.
CallReading(c) ==
  stage[c] # "idle" =>
    /\ call[c] # None /\ call[c] \in Call
    /\ call[c].start \in Starts /\ call[c].elapsed \in 0 .. (Window - 1)
    /\ call[c].key \in Keys

LEMMA CallReadingTyped ==
  ASSUME TypeOK, CallsTyped, NEW c \in Callers
  PROVE  CallReading(c)
<1>1. stage[c] # "idle" => call[c] # None /\ call[c] \in Call
  BY DEF TypeOK, CallsTyped
<1> QED
  BY <1>1 DEF CallReading, Call

LEMMA PromiseTyped ==
  ASSUME TypeOK, CallsTyped, HistoryTypeOK, NEW c \in Callers, stage[c] # "idle"
  PROVE  PromiseTo(c) \in Promise
<1>1. /\ call[c].start \in Starts /\ call[c].elapsed \in 0 .. (Window - 1)
      /\ call[c].key \in Keys
  BY CallReadingTyped DEF CallReading
<1>2. now \in Nat
  BY NowFields
<1>3. RetryAfterSeconds(Limit, call[c].elapsed, Window, Ceiling)
        = (Window - call[c].elapsed) + Fresh
  BY <1>1, RetryLeadsIntoFreshWindow
<1>4. PICK e \in 0 .. (Window - 1) : e = call[c].elapsed
  BY <1>1
<1>5. now + ((Window - e) + Fresh) \in Nat
  BY <1>2, ParameterTypes, FreshFits
<1>6. sentIn[call[c].key] \in Starts
  BY <1>1 DEF HistoryTypeOK
<1> QED
  BY <1>1, <1>3, <1>4, <1>5, <1>6 DEF PromiseTo, Promise

LEMMA ZeroIsAStart == 0 \in Starts
<1>1. 0 \in 0 .. Horizon
  BY CounterAssumption
<1>2. WindowStartOf(0, Window) \in Starts /\ WindowStartOf(0, Window) \in Nat
      /\ WindowStartOf(0, Window) <= 0
  BY <1>1, ReadingInWindow
<1> QED
  BY <1>2

\* What a request that comes now reads of its instance's clock.
Arrival(c, k) ==
  /\ stage[c] = "idle" /\ UNCHANGED <<now, item, counted, adrift>>
  /\ stage'[c] = "incrementing"
  /\ call'[c].key = k /\ call'[c].beganAt = now /\ call'[c].start \in Starts
  /\ call'[c].target = call'[c].start
  /\ call'[c].elapsed \in 0 .. (Window - 1)
  /\ now <= Reading(c)' /\ Reading(c)' <= now + Skew
  /\ \A d \in Callers : d # c => stage'[d] = stage[d] /\ call'[d] = call[d]

LEMMA RequestsArrive ==
  ASSUME TypeOK, NEW c \in Callers, NEW k \in Keys, NEW i \in Instances, BeginRequest(c, k, i)
  PROVE  Arrival(c, k)
<1> DEFINE reading == ReadingOf(i)
           start == WindowStartOf(reading, Window)
<1>1. /\ now \in Nat /\ now <= MaxTime /\ Skew \in Nat /\ Window \in Nat
      /\ MaxTime \in Nat /\ MaxTime + Skew <= Horizon /\ Horizon \in Nat
  BY NowFields, RequestsAssumption, CounterAssumption
<1>2. reading \in 0 .. Horizon /\ now <= reading /\ reading <= now + Skew
  BY <1>1 DEF ReadingOf
<1>3. start \in Starts /\ start \in Nat /\ start <= reading /\ reading < start + Window
  BY <1>2, ReadingInWindow
<1>4. stage \in [Callers -> {"idle", "incrementing", "transitioning"}]
      /\ call \in [Callers -> Call \cup {None}]
  BY DEF TypeOK
<1>5. /\ stage[c] = "idle" /\ UNCHANGED <<now, item, counted, adrift>>
      /\ stage' = [stage EXCEPT ![c] = "incrementing"]
      /\ call' = [call EXCEPT ![c] =
                   [key |-> k, instance |-> i, beganAt |-> now, start |-> start,
                    elapsed |-> reading - start, target |-> start, attempt |-> 1,
                    stored |-> None, branch |-> "none"]]
  BY DEF BeginRequest
<1> HIDE DEF start, reading
<1>6. call'[c] = [key |-> k, instance |-> i, beganAt |-> now, start |-> start,
                  elapsed |-> reading - start, target |-> start, attempt |-> 1,
                  stored |-> None, branch |-> "none"]
  BY <1>4, <1>5
<1>7. stage'[c] = "incrementing"
      /\ \A d \in Callers : d # c => stage'[d] = stage[d] /\ call'[d] = call[d]
  BY <1>4, <1>5
<1>8. reading - start \in 0 .. (Window - 1) /\ start + (reading - start) = reading
  BY <1>1, <1>2, <1>3
<1>9. /\ call'[c].key = k /\ call'[c].beganAt = now /\ call'[c].start = start
      /\ call'[c].target = start /\ call'[c].elapsed = reading - start
  BY <1>6
<1>10. Reading(c)' = reading
  BY <1>8, <1>9 DEF Reading
<1> QED
  BY <1>2, <1>3, <1>5, <1>7, <1>8, <1>9, <1>10 DEF Arrival

LEMMA HistoryTyped ==
  ASSUME TypeOK, CallsTyped, HistoryTypeOK, [ReturnsNext]_allVars
  PROVE  HistoryTypeOK'
<1> USE DEF HistoryTypeOK
<1>1. /\ Patience \in Nat /\ 0 \in 0 .. Patience
      /\ NotWaited \in [quiet : 0 .. Patience, due : BOOLEAN]
  BY ParameterTypes DEF NotWaited, Patience
<1> DEFINE Waited == [quiet : 0 .. Patience, due : BOOLEAN]
<1>2. ASSUME NEW c \in Callers, NEW k \in Keys, NEW i \in Instances, Arrives(c, k, i)
      PROVE  HistoryTypeOK'
  <2>1. [quiet |-> idleFor[k], due |-> IsDue(k)] \in Waited
    <3>1. idleFor[k] \in 0 .. Patience
      OBVIOUS
    <3>2. IsDue(k) \in BOOLEAN
      BY DEF IsDue
    <3> QED
      BY <3>1, <3>2
  <2> HIDE DEF Waited
  <2>2. waited' \in [Callers -> Waited]
    <3>1. waited \in [Callers -> Waited] /\ NotWaited \in Waited
      BY <1>1 DEF Waited
    <3> QED
      BY <1>2, <2>1, <3>1 DEF Arrives
  <2>3. idleFor' \in [Keys -> 0 .. Patience]
    BY <1>1, <1>2 DEF Arrives
  <2>4. promised' \in [Keys -> Promise \cup {None}]
    BY <1>2 DEF Arrives
  <2>5. sentIn' \in [Keys -> Starts]
    <3>1. call'[c].start \in Starts
      BY <1>2, RequestsArrive DEF Arrives, Arrival
    <3>2. Greatest(sentIn[k], call'[c].start) \in Starts
      BY <3>1 DEF Greatest
    <3> QED
      BY <1>2, <3>2 DEF Arrives
  <2> QED
    BY <2>2, <2>3, <2>4, <2>5 DEF Waited
<1>3. ASSUME NEW c \in Callers, IsAnswered(c)
      PROVE  HistoryTypeOK'
  <2>1. CASE Ends(c)
    <3>1. PromiseTo(c) \in Promise
      BY <2>1, PromiseTyped DEF Ends
    <3>2. promised' \in [Keys -> Promise \cup {None}]
      BY <1>3, <3>1 DEF IsAnswered
    <3> QED
      BY <1>1, <1>3, <2>1, <3>2 DEF IsAnswered
  <2>2. CASE ~Ends(c)
    BY <1>3, <2>2 DEF IsAnswered
  <2> QED
    BY <2>1, <2>2
<1>4. ASSUME NEW c \in Callers, EndsOtherwise(c)
      PROVE  HistoryTypeOK'
  BY <1>1, <1>4 DEF EndsOtherwise
<1>5. CASE TimePasses
  <2>1. \A k \in Keys : Least(idleFor[k] + 1, Patience) \in 0 .. Patience
    BY <1>1 DEF Least
  <2> QED
    BY <1>5, <2>1 DEF TimePasses
<1>6. CASE UNCHANGED historyVars
  BY <1>6 DEF historyVars
<1> QED
  BY <1>2, <1>3, <1>4, <1>5, <1>6 DEF ReturnsNext, allVars

\* Every variable of the requests and of their history keeps its type.
THEOREM ReturnsTypeCorrect == ReturnsSpec => []ReturnsTypeOK
<1>1. ReturnsInit => TypeOK /\ CallsTyped /\ HistoryTypeOK
  <2>1. Patience \in 0 .. Patience /\ 0 \in 0 .. Patience /\ 0 \in Starts
    BY ParameterTypes, ZeroIsAStart DEF Patience
  <2> QED
    BY <2>1, InitTyped DEF ReturnsInit, HistoryInit, HistoryTypeOK, NotWaited
<1>2. TypeOK /\ CallsTyped /\ HistoryTypeOK /\ [Next]_vars /\ [ReturnsNext]_allVars
        => (TypeOK /\ CallsTyped /\ HistoryTypeOK)'
  BY TypesKeep, HistoryTyped
<1>3. TypeOK /\ HistoryTypeOK => ReturnsTypeOK
  BY DEF ReturnsTypeOK
<1> QED
  BY <1>1, <1>2, <1>3, ReturnsAreRequests, PTL DEF ReturnsSpec, Spec

-----------------------------------------------------------------------------
(* What the history says of the counts.                                    *)

\* The windows that a key's requests have to do with: those they counted in,
\* the one its item stands at, and those that are still aimed at.
Touches(k, w) ==
  \/ counted[k][w] # 0
  \/ item[k] # None /\ item[k].windowStart = w
  \/ \E c \in InFlightFor(k) : call[c].target = w
  \/ \E x \in adrift : x.key = k /\ x.start = w

\* What a request reads of its instance's clock when it begins.
ReadingSound(c) ==
  stage[c] # "idle" => call[c].beganAt <= Reading(c) /\ Reading(c) <= call[c].beganAt + Skew

\* No window is touched that began, by any clock, after the key's last request
\* came.
QuietSound(k) == \A w \in Starts : Touches(k, w) => w + idleFor[k] <= now + Skew

\* No window is touched after the latest one that the key has sent in.
SentSound(k) == \A w \in Starts : Touches(k, w) => w <= sentIn[k]

\* A promise that stands was made in the latest window the key has sent in, for
\* a moment of the one after the window it was computed from.
PromiseSound(k) ==
  promised[k] # None =>
    /\ promised[k].at + Skew >= promised[k].from + Window + Fresh
    /\ sentIn[k] <= promised[k].inWindow

HasWaited(c) == waited[c].due \/ waited[c].quiet >= Patience

\* What a window counted says nothing any more to one that reads the clock so.
IsPast(w, reading) == w + Window + Fresh <= reading

\* A request that has waited is alone with what was counted before it came,
\* counts in its own window, and reads a clock by which all of that is past.
WaitSound(c) ==
  stage[c] # "idle" /\ HasWaited(c) =>
    /\ \A d \in Callers : stage[d] # "idle" /\ call[d].key = call[c].key => d = c
    /\ \A w \in adrift : w.key # call[c].key
    /\ call[c].target = call[c].start
    /\ item[call[c].key] # None => item[call[c].key].windowStart <= call[c].start
    /\ \A w \in Starts : counted[call[c].key][w] # 0 => IsPast(w, Reading(c))

ReturnsInv ==
  /\ ThrottleInv
  /\ HistoryTypeOK
  /\ \A c \in Callers : ReadingSound(c)
  /\ \A k \in Keys : QuietSound(k) /\ SentSound(k) /\ PromiseSound(k)
  /\ \A c \in Callers : WaitSound(c)

\* A window that has begun, when another is not over, is no later than it.
LEMMA NoLaterWindow ==
  ASSUME NEW s \in Starts, NEW t \in Starts, NEW n \in Int, n < s + Window, t <= n
  PROVE  t <= s
<1>1. s \in Nat /\ t \in Nat /\ Window \in Nat
  BY StartIsMultiple, ParameterTypes
<1>2. ~ (s < t)
  BY <1>1, StartsApart
<1> QED
  BY <1>1, <1>2

LEMMA CallsUnderWay ==
  ASSUME ThrottleInv, NEW c \in Callers, stage[c] # "idle"
  PROVE  /\ call[c] \in Call /\ call[c].key \in Keys
         /\ call[c].start \in Starts /\ call[c].start \in Nat
         /\ call[c].target \in Starts /\ call[c].target \in Nat
         /\ call[c].beganAt \in Nat /\ call[c].beganAt <= now
         /\ call[c].elapsed \in 0 .. (Window - 1)
         /\ c \in InFlightFor(call[c].key)
<1>1. call[c] # None /\ now \in call[c].beganAt .. (call[c].beganAt + Deadline)
  BY DEF ThrottleInv, CallsSound, CallSound
<1>2. call[c] \in Call
  BY <1>1 DEF ThrottleInv, TypeOK
<1>3. /\ call[c].key \in Keys /\ call[c].start \in Starts /\ call[c].target \in Starts
      /\ call[c].beganAt \in Nat /\ call[c].elapsed \in 0 .. (Window - 1)
  BY <1>2 DEF Call
<1> QED
  BY <1>1, <1>2, <1>3, StartIsMultiple DEF InFlightFor, InFlight

-----------------------------------------------------------------------------
(* What the steps do to the windows that are touched.                      *)

\* The effect of any one statement for a window of a key.
WritesAt(k, start) ==
  /\ \A j \in Keys : j # k => item'[j] = item[j] /\ counted'[j] = counted[j]
  /\ item'[k] # None =>
       \/ item'[k].windowStart = start
       \/ item[k] # None /\ item'[k].windowStart = item[k].windowStart
  /\ \A w \in Starts : counted'[k][w] # 0 => w = start \/ counted[k][w] # 0

LEMMA StatementsWrite ==
  ASSUME CounterTypeOK, NEW k \in Keys, NEW start,
         \/ Increment(k, start)
         \/ \E stored, branch : Transition(k, branch, stored, start)
         \/ UNCHANGED <<item, counted>>
  PROVE  WritesAt(k, start)
<1>1. item \in [Keys -> Counter \cup {None}] /\ counted \in [Keys -> [Starts -> Nat]]
  BY DEF CounterTypeOK
<1>2. CASE Increment(k, start)
  <2>1. /\ item' = [item EXCEPT ![k] = Incremented(k, start)]
        /\ counted' = [counted EXCEPT ![k][start] = @ + 1]
    BY <1>2 DEF Increment
  <2>2. \/ Incremented(k, start).windowStart = start
        \/ item[k] # None /\ Incremented(k, start).windowStart = item[k].windowStart
    BY <1>1 DEF Incremented, Counter
  <2> QED
    BY <1>1, <2>1, <2>2 DEF WritesAt
<1>3. CASE \E stored, branch : Transition(k, branch, stored, start)
  <2>1. PICK stored, branch : Transition(k, branch, stored, start)
    BY <1>3
  <2>2. item' = [item EXCEPT ![k] = Transitioned(k, branch, start)] /\ counted' = counted
    BY <2>1 DEF Transition
  <2> QED
    BY <1>1, <2>2 DEF WritesAt, Transitioned
<1>4. CASE UNCHANGED <<item, counted>>
  BY <1>4 DEF WritesAt
<1> QED
  BY <1>2, <1>3, <1>4

LeavesOnItsWay(c) ==
  \A w \in adrift' : w \in adrift \/ (w.key = call[c].key /\ w.start = call[c].target)

\* A step of one request: it goes on with what it read of the clock, or ends
\* having counted in the window it aims at, or left a write on its way there.
RequestStep(c) ==
  /\ stage[c] # "idle" /\ now' = now
  /\ \A d \in Callers : d # c => stage'[d] = stage[d] /\ call'[d] = call[d]
  /\ WritesAt(call[c].key, call[c].target)
  /\ stage'[c] # "idle" =>
       /\ UNCHANGED <<counted, adrift>>
       /\ call'[c].key = call[c].key /\ call'[c].beganAt = call[c].beganAt
       /\ call'[c].start = call[c].start /\ call'[c].elapsed = call[c].elapsed
       /\ \/ call'[c].target = call[c].target
          \/ /\ item[call[c].key] # None /\ call'[c].target = item[call[c].key].windowStart
             /\ call'[c].target > call[c].target
  /\ LeavesOnItsWay(c)

LEMMA DecisionsStep ==
  ASSUME ThrottleInv, NEW c \in Callers, stage[c] # "idle", now' = now,
         NEW kind, Decide(c, kind), LeavesOnItsWay(c),
         Increment(call[c].key, call[c].target) \/ UNCHANGED <<item, counted>>
  PROVE  RequestStep(c)
<1>1. stage \in [Callers -> {"idle", "incrementing", "transitioning"}]
      /\ call \in [Callers -> Call \cup {None}] /\ CounterTypeOK
  BY DEF ThrottleInv, TypeOK
<1>2. stage' = [stage EXCEPT ![c] = "idle"] /\ call' = [call EXCEPT ![c] = None]
  BY DEF Decide
<1>3. WritesAt(call[c].key, call[c].target)
  BY <1>1, CallsUnderWay, StatementsWrite
<1> QED
  BY <1>1, <1>2, <1>3 DEF RequestStep

LEMMA RetriesStep ==
  ASSUME ThrottleInv, NEW c \in Callers, stage[c] # "idle", now' = now,
         NEW at, NEW locals, GoTo(c, at, locals), UNCHANGED <<counted, adrift>>,
         WritesAt(call[c].key, call[c].target),
         locals.key = call[c].key, locals.beganAt = call[c].beganAt,
         locals.start = call[c].start, locals.elapsed = call[c].elapsed,
         \/ locals.target = call[c].target
         \/ /\ item[call[c].key] # None /\ locals.target = item[call[c].key].windowStart
            /\ locals.target > call[c].target
  PROVE  RequestStep(c)
<1>1. stage \in [Callers -> {"idle", "incrementing", "transitioning"}]
      /\ call \in [Callers -> Call \cup {None}]
  BY DEF ThrottleInv, TypeOK
<1>2. call'[c] = locals
      /\ \A d \in Callers : d # c => stage'[d] = stage[d] /\ call'[d] = call[d]
  BY <1>1 DEF GoTo
<1>3. LeavesOnItsWay(c)
  BY DEF LeavesOnItsWay
<1>4. /\ call'[c].key = call[c].key /\ call'[c].beganAt = call[c].beganAt
      /\ call'[c].start = call[c].start /\ call'[c].elapsed = call[c].elapsed
      /\ \/ call'[c].target = call[c].target
         \/ /\ item[call[c].key] # None /\ call'[c].target = item[call[c].key].windowStart
            /\ call'[c].target > call[c].target
  BY <1>2
<1> QED
  BY <1>2, <1>3, <1>4 DEF RequestStep

LEMMA RequestSteps ==
  ASSUME ThrottleInv, ClocksAgree, NEW c \in Callers,
         StoreAnswers(c) \/ Degrades(c) \/ FailOpen(c)
  PROVE  RequestStep(c)
<1>1. /\ stage[c] # "idle" /\ now' = now
  BY DEF StoreAnswers, Degrades, IncrementCounts, FindSaturated, BudgetIsSpent, StoreFails,
         FailOpen, AdoptStoredWindow, ChooseTransition, ApplyWindowTransition, IncrementConflicts
<1>2. call[c] \in Call /\ call[c].key \in Keys /\ CounterTypeOK
  BY <1>1, CallsUnderWay DEF ThrottleInv, TypeOK
<1>3. CASE IncrementCounts(c) \/ FindSaturated(c) \/ BudgetIsSpent(c) \/ FailOpen(c)
  <2>1. LeavesOnItsWay(c)
    <3>1. adrift' = adrift
      BY <1>3 DEF IncrementCounts, FindSaturated, BudgetIsSpent, FailOpen
    <3> QED
      BY <3>1 DEF LeavesOnItsWay
  <2>2. PICK kind : Decide(c, kind)
    BY <1>3 DEF IncrementCounts, FindSaturated, BudgetIsSpent, FailOpen
  <2>3. Increment(call[c].key, call[c].target) \/ UNCHANGED <<item, counted>>
    BY <1>3 DEF IncrementCounts, FindSaturated, BudgetIsSpent, FailOpen
  <2> QED
    BY <1>1, <2>1, <2>2, <2>3, DecisionsStep
<1>4. CASE StoreFails(c)
  <2>1. Decide(c, "degraded")
    BY <1>4 DEF StoreFails
  <2>3. Increment(call[c].key, call[c].target) \/ UNCHANGED <<item, counted>>
    BY <1>4 DEF StoreFails
  <2>2. LeavesOnItsWay(c)
    BY <1>4 DEF StoreFails, LeavesOnItsWay
  <2> QED
    BY <1>1, <2>1, <2>2, <2>3, DecisionsStep
<1>5. CASE AdoptStoredWindow(c)
  <2> DEFINE locals == [call[c] EXCEPT !.target = item[call[c].key].windowStart, !.attempt = @ + 1]
  <2>1. GoTo(c, "incrementing", locals) /\ UNCHANGED <<item, counted, adrift>>
    BY <1>5 DEF AdoptStoredWindow
  <2>2. /\ locals.key = call[c].key /\ locals.beganAt = call[c].beganAt
        /\ locals.start = call[c].start /\ locals.elapsed = call[c].elapsed
        /\ locals.target = item[call[c].key].windowStart
    BY <1>2 DEF Call
  <2> HIDE DEF locals
  <2>3. call'[c] = locals
    BY <2>1 DEF GoTo, ThrottleInv, TypeOK
  <2>4. locals.target > call[c].target /\ item[call[c].key] # None
    BY <1>5, <2>3, AdoptKeeps, ConflictFields DEF AdoptStoredWindow, ThrottleInv
  <2>5. WritesAt(call[c].key, call[c].target)
    BY <1>2, <2>1, StatementsWrite
  <2> QED
    BY <1>1, <2>1, <2>2, <2>4, <2>5, RetriesStep
<1>6. CASE ChooseTransition(c)
  <2> DEFINE locals == [call[c] EXCEPT !.stored = item[call[c].key], !.branch = BranchOf(c)]
  <2>1. GoTo(c, "transitioning", locals) /\ UNCHANGED <<item, counted, adrift>>
    BY <1>6 DEF ChooseTransition
  <2>2. /\ locals.key = call[c].key /\ locals.beganAt = call[c].beganAt
        /\ locals.start = call[c].start /\ locals.elapsed = call[c].elapsed
        /\ locals.target = call[c].target
    BY <1>2 DEF Call
  <2> HIDE DEF locals
  <2>3. WritesAt(call[c].key, call[c].target)
    BY <1>2, <2>1, StatementsWrite
  <2> QED
    BY <1>1, <2>1, <2>2, <2>3, RetriesStep
<1>7. CASE ApplyWindowTransition(c)
  <2> DEFINE locals == [call[c] EXCEPT !.stored = None, !.branch = "none", !.attempt = @ + 1]
  <2>1. GoTo(c, "incrementing", locals) /\ UNCHANGED <<counted, adrift>>
    BY <1>7 DEF ApplyWindowTransition, Retry, Transition
  <2>2. /\ locals.key = call[c].key /\ locals.beganAt = call[c].beganAt
        /\ locals.start = call[c].start /\ locals.elapsed = call[c].elapsed
        /\ locals.target = call[c].target
    BY <1>2 DEF Call
  <2> HIDE DEF locals
  <2>3. \/ Transition(call[c].key, call[c].branch, call[c].stored, call[c].target)
        \/ UNCHANGED <<item, counted>>
    BY <1>7 DEF ApplyWindowTransition
  <2>4. WritesAt(call[c].key, call[c].target)
    BY <1>2, <2>3, StatementsWrite
  <2> QED
    BY <1>1, <2>1, <2>2, <2>4, RetriesStep
<1> QED
  BY <1>3, <1>4, <1>5, <1>6, <1>7 DEF StoreAnswers, Degrades

\* Only a request that comes touches a window that was not touched before.
Settling ==
  /\ now' = now
  /\ \A k \in Keys : \A w \in Starts : Touches(k, w)' => Touches(k, w)

LEMMA RequestsSettle ==
  ASSUME ThrottleInv, NEW c \in Callers, RequestStep(c)
  PROVE  Settling
<1> DEFINE key == call[c].key
           start == call[c].target
<1>1. key \in Keys /\ start \in Starts /\ stage[c] # "idle" /\ c \in InFlightFor(key)
  BY CallsUnderWay DEF RequestStep
<1>2. Touches(key, start)
  BY <1>1 DEF Touches
<1>3. ASSUME NEW k \in Keys, NEW w \in Starts, Touches(k, w)', ~Touches(k, w) PROVE FALSE
  <2>1. k = key => w # start
    BY <1>2, <1>3
  <2>2. counted'[k][w] = 0
    BY <1>1, <1>3, <2>1 DEF RequestStep, WritesAt, Touches
  <2>3. ~(item'[k] # None /\ item'[k].windowStart = w)
    BY <1>1, <1>3, <2>1 DEF RequestStep, WritesAt, Touches
  <2>4. ASSUME NEW x \in adrift', x.key = k, x.start = w PROVE FALSE
    BY <1>3, <2>1, <2>4 DEF RequestStep, LeavesOnItsWay, Touches
  <2>5. ASSUME NEW d \in Callers, stage'[d] # "idle", call'[d].key = k, call'[d].target = w
        PROVE  FALSE
    <3>1. CASE d = c
      <4>1. k = key /\ (w = start \/ (item[key] # None /\ w = item[key].windowStart))
        BY <2>5, <3>1 DEF RequestStep
      <4> QED
        BY <1>3, <2>1, <4>1 DEF Touches
    <3>2. CASE d # c
      <4>1. stage[d] # "idle" /\ call[d].key = k /\ call[d].target = w
        BY <2>5, <3>2 DEF RequestStep
      <4> QED
        BY <1>3, <4>1 DEF Touches, InFlightFor, InFlight
    <3> QED
      BY <3>1, <3>2
  <2> QED
    BY <1>3, <2>2, <2>3, <2>4, <2>5 DEF Touches, InFlightFor, InFlight
<1> QED
  BY <1>3 DEF Settling, RequestStep

LEMMA WritesSettle ==
  ASSUME ThrottleInv, AdriftSettles
  PROVE  /\ Settling /\ UNCHANGED <<stage, call>> /\ adrift' \subseteq adrift
         /\ \A k \in Keys : (item'[k] = item[k] /\ counted'[k] = counted[k])
                              \/ \E w \in adrift : w.key = k
<1>1. PICK w \in adrift :
        /\ adrift' = adrift \ {w}
        /\ \/ /\ w.branch = "none"
              /\ Increment(w.key, w.start)
           \/ /\ w.branch # "none"
              /\ Transition(w.key, w.branch, w.stored, w.start)
           \/ UNCHANGED <<item, counted>>
        /\ UNCHANGED <<now, stage, call, verdict, served>>
  BY DEF AdriftSettles
<1>2. w.key \in Keys /\ w.start \in Starts /\ CounterTypeOK
  BY WriteAims DEF ThrottleInv, TypeOK
<1>3. WritesAt(w.key, w.start)
  BY <1>1, <1>2, StatementsWrite
<1>4. Touches(w.key, w.start)
  BY DEF Touches
<1>5. ASSUME NEW k \in Keys, NEW v \in Starts, Touches(k, v)', ~Touches(k, v) PROVE FALSE
  <2>1. k = w.key => v # w.start
    BY <1>4, <1>5
  <2>2. counted'[k][v] = 0 /\ ~(item'[k] # None /\ item'[k].windowStart = v)
    BY <1>2, <1>3, <1>5, <2>1 DEF WritesAt, Touches
  <2>3. InFlightFor(k)' = InFlightFor(k) /\ call' = call /\ adrift' \subseteq adrift
    BY <1>1 DEF InFlightFor, InFlight
  <2> QED
    BY <1>5, <2>2, <2>3 DEF Touches
<1> QED
  BY <1>1, <1>3, <1>5 DEF Settling, WritesAt

LEMMA CollectionSettles ==
  ASSUME ThrottleInv, CollectExpired
  PROVE  /\ Settling /\ UNCHANGED <<stage, call, adrift, counted>>
         /\ \A k \in Keys : item'[k] = item[k] \/ item'[k] = None
<1>1. PICK k \in Keys : item' = [item EXCEPT ![k] = None]
  BY DEF CollectExpired, CollectCounter
<1>2. UNCHANGED <<now, counted, stage, call, adrift>> /\ item \in [Keys -> Counter \cup {None}]
  BY DEF CollectExpired, CollectCounter, ThrottleInv, TypeOK, CounterTypeOK
<1>3. \A j \in Keys : item'[j] = item[j] \/ item'[j] = None
  BY <1>1, <1>2
<1> QED
  BY <1>2, <1>3 DEF Settling, Touches, InFlightFor, InFlight

-----------------------------------------------------------------------------
(* Each part of the invariant is kept.                                     *)

LEMMA QuietSettles ==
  ASSUME Settling, NEW k \in Keys, QuietSound(k), idleFor'[k] = idleFor[k]
  PROVE  QuietSound(k)'
  BY DEF Settling, QuietSound

LEMMA SentSettles ==
  ASSUME Settling, NEW k \in Keys, SentSound(k), sentIn'[k] = sentIn[k]
  PROVE  SentSound(k)'
  BY DEF Settling, SentSound

\* Nothing but a request that comes, or a refusal, moves what was promised.
LEMMA PromiseStays ==
  ASSUME NEW k \in Keys, PromiseSound(k), promised'[k] = promised[k], sentIn'[k] = sentIn[k]
  PROVE  PromiseSound(k)'
  BY DEF PromiseSound

\* A request that has waited is not disturbed by what leaves its key alone.
LEMMA WaitIsKept ==
  ASSUME NEW c \in Callers, NEW k, k = call[c].key,
         WaitSound(c), stage[c] # "idle", waited'[c] = waited[c], counted'[k] = counted[k],
         call'[c].key = k, call'[c].start = call[c].start, call'[c].elapsed = call[c].elapsed,
         HasWaited(c) => call'[c].target = call[c].start,
         HasWaited(c) /\ item'[k] # None => item'[k].windowStart <= call[c].start,
         \A d \in Callers : stage'[d] # "idle" /\ call'[d].key = k
                              => stage[d] # "idle" /\ call[d].key = k,
         \A w \in adrift' : w.key = k => w \in adrift
  PROVE  WaitSound(c)'
<1>1. HasWaited(c)' = HasWaited(c) /\ Reading(c)' = Reading(c)
  BY DEF HasWaited, Reading
<1> SUFFICES ASSUME HasWaited(c) PROVE WaitSound(c)'
  BY <1>1 DEF WaitSound
<1>2. /\ \A d \in Callers : stage'[d] # "idle" /\ call'[d].key = call'[c].key => d = c
      /\ \A w \in adrift' : w.key # call'[c].key
  BY DEF WaitSound
<1>3. \A w \in Starts : counted'[call'[c].key][w] # 0 => IsPast(w, Reading(c)')
  BY <1>1 DEF WaitSound
<1> QED
  BY <1>2, <1>3 DEF WaitSound

LEMMA RequestsKeepTheirWait ==
  ASSUME ReturnsInv, NEW c \in Callers, RequestStep(c),
         stage'[c] # "idle" => waited'[c] = waited[c]
  PROVE  WaitSound(c)' /\ ReadingSound(c)'
<1>1. CASE stage'[c] = "idle"
  BY <1>1 DEF WaitSound, ReadingSound
<1>2. CASE stage'[c] # "idle"
  <2> DEFINE k == call[c].key
  <2>1. /\ stage[c] # "idle" /\ waited'[c] = waited[c] /\ counted' = counted /\ adrift' = adrift
        /\ call'[c].key = k /\ call'[c].beganAt = call[c].beganAt
        /\ call'[c].start = call[c].start /\ call'[c].elapsed = call[c].elapsed
    BY <1>2 DEF RequestStep
  <2>2. ReadingSound(c)'
    BY <2>1 DEF ReadingSound, Reading, ReturnsInv
  <2>3. /\ k \in Keys /\ WaitSound(c) /\ call[c].start \in Nat /\ call[c].target \in Nat
        /\ item[k] # None => item[k].windowStart \in Nat
    BY <2>1, CallsUnderWay, ItemFields DEF ReturnsInv, ThrottleInv, TypeOK
  <2>4. ASSUME HasWaited(c)
        PROVE  /\ call'[c].target = call[c].start
               /\ item'[k] # None => item'[k].windowStart <= call[c].start
    <3>1. /\ call[c].target = call[c].start
          /\ item[k] # None => item[k].windowStart <= call[c].start
      BY <2>1, <2>3, <2>4 DEF WaitSound
    <3>2. call'[c].target = call[c].start
      BY <1>2, <2>3, <3>1 DEF RequestStep
    <3>3. item'[k] # None => item'[k].windowStart <= call[c].start
      BY <2>3, <3>1 DEF RequestStep, WritesAt
    <3> QED
      BY <3>2, <3>3
  <2>5. \A d \in Callers : stage'[d] # "idle" /\ call'[d].key = k
                              => stage[d] # "idle" /\ call[d].key = k
    BY <2>1 DEF RequestStep
  <2> HIDE DEF k
  <2>6. WaitSound(c)'
    BY <2>1, <2>3, <2>4, <2>5, WaitIsKept DEF k
  <2> QED
    BY <2>2, <2>6
<1> QED
  BY <1>1, <1>2

LEMMA RequestsKeepOtherWaits ==
  ASSUME ReturnsInv, NEW c \in Callers, RequestStep(c), NEW d \in Callers, d # c,
         waited'[d] = waited[d]
  PROVE  WaitSound(d)' /\ ReadingSound(d)'
<1>1. stage'[d] = stage[d] /\ call'[d] = call[d] /\ stage[c] # "idle"
  BY DEF RequestStep
<1>2. ReadingSound(d) /\ WaitSound(d)
  BY DEF ReturnsInv
<1>3. ReadingSound(d)'
  BY <1>1, <1>2 DEF ReadingSound, Reading
<1>4. CASE stage[d] = "idle" \/ ~HasWaited(d)
  BY <1>1, <1>3, <1>4 DEF WaitSound, HasWaited
<1>5. CASE stage[d] # "idle" /\ HasWaited(d)
  <2> DEFINE k == call[d].key
  <2>1. call[c].key # k
    BY <1>1, <1>2, <1>5 DEF WaitSound
  <2>2. k \in Keys
    BY <1>5, CallsUnderWay DEF ReturnsInv
  <2>3. counted'[k] = counted[k] /\ item'[k] = item[k]
    BY <2>1, <2>2 DEF RequestStep, WritesAt
  <2>4. \A e \in Callers : stage'[e] # "idle" /\ call'[e].key = k
                            => stage[e] # "idle" /\ call[e].key = k
    BY <2>1 DEF RequestStep
  <2>5. \A w \in adrift' : w.key = k => w \in adrift
    BY <2>1 DEF RequestStep, LeavesOnItsWay
  <2>6. /\ call[d].target = call[d].start
        /\ item[k] # None => item[k].windowStart <= call[d].start
    BY <1>2, <1>5 DEF WaitSound
  <2> HIDE DEF k
  <2>7. WaitSound(d)'
    BY <1>1, <1>2, <1>5, <2>3, <2>4, <2>5, <2>6, WaitIsKept DEF k
  <2> QED
    BY <1>3, <2>7
<1> QED
  BY <1>4, <1>5

-----------------------------------------------------------------------------
(* A request that comes.                                                   *)

\* It touches its own window, and none besides.
LEMMA ArrivalsTouch ==
  ASSUME NEW c \in Callers, NEW k \in Keys, Arrival(c, k), NEW j \in Keys, NEW w \in Starts,
         Touches(j, w)', ~Touches(j, w)
  PROVE  j = k /\ w = call'[c].start
<1>1. PICK d \in Callers : stage'[d] # "idle" /\ call'[d].key = j /\ call'[d].target = w
  BY DEF Arrival, Touches, InFlightFor, InFlight
<1>2. d = c
  BY <1>1 DEF Arrival, Touches, InFlightFor, InFlight
<1> QED
  BY <1>1, <1>2 DEF Arrival

LEMMA ArrivalsKeepQuiet ==
  ASSUME ReturnsInv, NEW c \in Callers, NEW k \in Keys, Arrival(c, k),
         idleFor' = [idleFor EXCEPT ![k] = 0], NEW j \in Keys
  PROVE  QuietSound(j)'
<1>1. /\ QuietSound(j) /\ now \in Nat /\ Skew \in Nat /\ idleFor \in [Keys -> 0 .. Patience]
      /\ now' = now /\ Patience \in Nat
  BY NowFields, ParameterTypes DEF ReturnsInv, ThrottleInv, HistoryTypeOK, Arrival, Patience
<1>2. SUFFICES ASSUME NEW w \in Starts, Touches(j, w)' PROVE w + idleFor'[j] <= now + Skew
  BY <1>1 DEF QuietSound
<1>3. w \in Nat /\ idleFor[j] \in Nat /\ idleFor'[j] \in Nat /\ idleFor'[j] <= idleFor[j]
      /\ idleFor'[k] = 0
  BY <1>1, StartIsMultiple
<1>4. CASE Touches(j, w)
  BY <1>1, <1>3, <1>4 DEF QuietSound
<1>5. CASE ~Touches(j, w)
  <2>1. j = k /\ w = call'[c].start
    BY <1>2, <1>5, ArrivalsTouch
  <2>2. w <= now + Skew
    BY <1>1, <1>3, <2>1, ParameterTypes DEF Arrival, Reading
  <2> QED
    BY <1>1, <1>3, <2>1, <2>2
<1> QED
  BY <1>4, <1>5

\* What a request that comes makes of the latest window its key has sent in.
LEMMA ArrivalsSend ==
  ASSUME ReturnsInv, NEW c \in Callers, NEW k \in Keys, Arrival(c, k),
         sentIn' = [sentIn EXCEPT ![k] = Greatest(@, call'[c].start)], NEW j \in Keys
  PROVE  /\ sentIn[j] \in Nat /\ sentIn'[j] \in Nat /\ call'[c].start \in Nat
         /\ sentIn[j] <= sentIn'[j]
         /\ \/ sentIn'[j] = sentIn[j]
            \/ j = k /\ sentIn'[j] = call'[c].start
         /\ j = k => call'[c].start <= sentIn'[j]
<1>1. sentIn \in [Keys -> Starts] /\ call'[c].start \in Starts
  BY DEF ReturnsInv, HistoryTypeOK, Arrival
<1>2. sentIn[j] \in Nat /\ call'[c].start \in Nat
  BY <1>1, StartIsMultiple
<1>3. CASE j = k
  <2>1. sentIn'[j] = Greatest(sentIn[j], call'[c].start)
    BY <1>1, <1>3
  <2> QED
    BY <1>2, <1>3, <2>1 DEF Greatest
<1>4. CASE j # k
  <2>1. sentIn'[j] = sentIn[j]
    BY <1>1, <1>4
  <2> QED
    BY <1>2, <1>4, <2>1
<1> QED
  BY <1>3, <1>4

LEMMA ArrivalsKeepSent ==
  ASSUME ReturnsInv, NEW c \in Callers, NEW k \in Keys, Arrival(c, k),
         sentIn' = [sentIn EXCEPT ![k] = Greatest(@, call'[c].start)], NEW j \in Keys
  PROVE  SentSound(j)'
<1>1. /\ sentIn[j] \in Nat /\ sentIn'[j] \in Nat /\ call'[c].start \in Nat
      /\ sentIn[j] <= sentIn'[j] /\ (j = k => call'[c].start <= sentIn'[j])
  BY ArrivalsSend
<1>2. ASSUME NEW w \in Starts, Touches(j, w)' PROVE w <= sentIn'[j]
  <2>1. CASE Touches(j, w)
    <3>1. w \in Nat /\ w <= sentIn[j]
      BY <2>1, StartIsMultiple DEF ReturnsInv, SentSound
    <3> QED
      BY <1>1, <3>1
  <2>2. CASE ~Touches(j, w)
    BY <1>1, <1>2, <2>2, ArrivalsTouch
  <2> QED
    BY <2>1, <2>2
<1> QED
  BY <1>2 DEF SentSound

LEMMA ArrivalsKeepPromises ==
  ASSUME ReturnsInv, NEW c \in Callers, NEW k \in Keys, Arrival(c, k),
         sentIn' = [sentIn EXCEPT ![k] = Greatest(@, call'[c].start)],
         promised' = IF Stands(k, call'[c].start) THEN promised
                     ELSE [promised EXCEPT ![k] = None],
         NEW j \in Keys
  PROVE  PromiseSound(j)'
<1>1. PromiseSound(j) /\ promised \in [Keys -> Promise \cup {None}]
  BY DEF ReturnsInv, HistoryTypeOK
<1>2. CASE j = k /\ ~Stands(k, call'[c].start)
  <2>1. promised'[j] = None
    BY <1>1, <1>2
  <2> QED
    BY <2>1 DEF PromiseSound
<1>3. CASE j # k \/ Stands(k, call'[c].start)
  <2>1. promised'[j] = promised[j] /\ (j = k => call'[c].start <= promised[j].inWindow)
    BY <1>1, <1>3 DEF Stands
  <2>2. ASSUME promised[j] # None PROVE sentIn'[j] <= promised[j].inWindow
    <3>1. sentIn[j] <= promised[j].inWindow
      BY <1>1, <2>2 DEF PromiseSound
    <3>2. sentIn'[j] = sentIn[j] \/ (j = k /\ sentIn'[j] = call'[c].start)
      BY ArrivalsSend
    <3> QED
      BY <2>1, <3>1, <3>2
  <2> QED
    BY <1>1, <2>1, <2>2 DEF PromiseSound
<1> QED
  BY <1>2, <1>3

\* What is known of a key that has kept quiet for two windows, or that comes
\* when it was told to: all that it touches is past by any clock.
LEMMA QuietIsPast ==
  ASSUME ReturnsInv, NEW k \in Keys, IsDue(k) \/ idleFor[k] >= Patience,
         NEW w \in Starts, Touches(k, w), NEW reading \in Nat, now <= reading
  PROVE  w <= reading /\ IsPast(w, reading)
<1>1. /\ w \in Nat /\ now \in Nat /\ Window \in Nat /\ Skew \in Nat
      /\ Fresh \in Nat /\ Fresh <= Window /\ idleFor[k] \in 0 .. Patience
      /\ Patience = 2 * Window + Skew
  BY StartIsMultiple, NowFields, ParameterTypes, FreshFits
     DEF ReturnsInv, ThrottleInv, HistoryTypeOK, Patience
<1>2. CASE idleFor[k] >= Patience
  <2>1. w + idleFor[k] <= now + Skew
    BY DEF ReturnsInv, QuietSound
  <2> QED
    BY <1>1, <1>2, <2>1 DEF IsPast
<1>3. CASE IsDue(k)
  <2> DEFINE p == promised[k]
  <2>1. p # None /\ now >= p.at + (p.inWindow - p.from) + Skew
    BY <1>3 DEF IsDue
  <2>2. /\ p.at \in Nat /\ p.from \in Nat /\ p.inWindow \in Nat /\ sentIn[k] \in Nat
    BY <2>1, StartIsMultiple DEF ReturnsInv, HistoryTypeOK, Promise
  <2>3. p.at + Skew >= p.from + Window + Fresh /\ sentIn[k] <= p.inWindow
    BY <2>1 DEF ReturnsInv, PromiseSound
  <2>4. w <= sentIn[k]
    BY DEF ReturnsInv, SentSound
  <2> HIDE DEF p
  <2>5. w <= p.inWindow /\ p.inWindow + Window + Fresh <= now
    BY <1>1, <2>1, <2>2, <2>3, <2>4
  <2> QED
    BY <1>1, <2>2, <2>5 DEF IsPast
<1> QED
  BY <1>2, <1>3

\* One that finds its key alone starts from what is known of a quiet key.
LEMMA ArrivalsWait ==
  ASSUME ReturnsInv, NEW c \in Callers, NEW k \in Keys, Arrival(c, k),
         \/ waited'[c] = NotWaited
         \/ Alone(k) /\ waited'[c] = [quiet |-> idleFor[k], due |-> IsDue(k)]
  PROVE  WaitSound(c)' /\ ReadingSound(c)'
<1>1. ReadingSound(c)'
  BY DEF ReadingSound, Arrival
<1>2. CASE ~HasWaited(c)'
  BY <1>1, <1>2 DEF WaitSound
<1>3. CASE HasWaited(c)'
  <2> DEFINE start == call'[c].start
  <2>1. Alone(k) /\ waited'[c].quiet = idleFor[k] /\ waited'[c].due = IsDue(k)
    <3>1. waited'[c] # NotWaited
      BY <1>3, ParameterTypes DEF HasWaited, NotWaited, Patience
    <3> QED
      BY <3>1
  <2>2. /\ call'[c].key = k /\ call'[c].target = start /\ start \in Starts /\ start \in Nat
        /\ call'[c].elapsed \in 0 .. (Window - 1) /\ Window \in Nat
        /\ now <= Reading(c)' /\ Reading(c)' = start + call'[c].elapsed
        /\ item' = item /\ counted' = counted /\ adrift' = adrift
    BY StartIsMultiple, ParameterTypes DEF Arrival, Reading
  <2>3. \A d \in Callers : stage'[d] # "idle" /\ call'[d].key = k => d = c
    <3>1. \A d \in Callers : stage[d] # "idle" => call[d].key # k
      BY <2>1 DEF Alone, InFlightFor, InFlight
    <3> QED
      BY <3>1 DEF Arrival
  <2>4. \A w \in adrift' : w.key # k
    BY <2>1, <2>2 DEF Alone
  <2>5. Reading(c)' \in Nat /\ Reading(c)' < start + Window
    BY <2>2
  <2>6. \A w \in Starts : Touches(k, w) => w <= Reading(c)' /\ IsPast(w, Reading(c)')
    <3>1. IsDue(k) \/ idleFor[k] >= Patience
      BY <1>3, <2>1 DEF HasWaited
    <3> QED
      BY <2>2, <2>5, <3>1, QuietIsPast
  <2>7. ASSUME item[k] # None PROVE item[k].windowStart <= start
    <3>1. item[k].windowStart \in Starts
      BY <2>7, ItemFields DEF ReturnsInv, ThrottleInv, TypeOK
    <3>2. item[k].windowStart <= Reading(c)'
      BY <2>6, <2>7, <3>1 DEF Touches
    <3>3. PICK n \in Int : n = Reading(c)'
      BY <2>5
    <3> HIDE DEF start
    <3>4. item[k].windowStart <= n /\ n < start + Window /\ start \in Starts
      BY <2>2, <2>5, <3>2, <3>3
    <3> QED
      BY <3>1, <3>4, NoLaterWindow
  <2>8. \A w \in Starts : counted[k][w] # 0 => IsPast(w, Reading(c)')
    BY <2>6 DEF Touches
  <2> QED
    BY <1>1, <2>2, <2>3, <2>4, <2>7, <2>8 DEF WaitSound
<1> QED
  BY <1>2, <1>3

\* One that joins another takes from it the certainty of having waited.
LEMMA OthersArrive ==
  ASSUME ReturnsInv, NEW c \in Callers, NEW k \in Keys, Arrival(c, k),
         NEW d \in Callers, d # c,
         waited'[d] = IF d \in InFlightFor(k) THEN NotWaited ELSE waited[d]
  PROVE  WaitSound(d)' /\ ReadingSound(d)'
<1>1. /\ WaitSound(d) /\ ReadingSound(d) /\ stage'[d] = stage[d] /\ call'[d] = call[d]
      /\ item' = item /\ counted' = counted /\ adrift' = adrift /\ call'[c].key = k
      /\ stage[c] = "idle"
      /\ \A e \in Callers : e # c => stage'[e] = stage[e] /\ call'[e] = call[e]
  BY DEF ReturnsInv, Arrival
<1>2. ReadingSound(d)'
  BY <1>1 DEF ReadingSound, Reading
<1>3. CASE stage[d] = "idle" \/ d \in InFlightFor(k)
  <2>1. CASE stage[d] = "idle"
    BY <1>1, <1>2, <2>1 DEF WaitSound
  <2>2. CASE d \in InFlightFor(k)
    <3>1. ~HasWaited(d)'
      BY <2>2, ParameterTypes DEF HasWaited, NotWaited, Patience
    <3> QED
      BY <1>2, <3>1 DEF WaitSound
  <2> QED
    BY <1>3, <2>1, <2>2
<1>4. CASE stage[d] # "idle" /\ d \notin InFlightFor(k)
  <2> DEFINE j == call[d].key
  <2>1. j # k /\ waited'[d] = waited[d]
    BY <1>4 DEF InFlightFor, InFlight
  <2>2. \A e \in Callers : stage'[e] # "idle" /\ call'[e].key = j
                            => stage[e] # "idle" /\ call[e].key = j
    BY <1>1, <2>1
  <2>3. HasWaited(d) =>
          /\ call'[d].target = call[d].start
          /\ item'[j] # None => item'[j].windowStart <= call[d].start
    BY <1>1, <1>4 DEF WaitSound
  <2> HIDE DEF j
  <2>4. WaitSound(d)'
    BY <1>1, <1>4, <2>1, <2>2, <2>3, WaitIsKept DEF j
  <2> QED
    BY <1>2, <2>4
<1> QED
  BY <1>3, <1>4

LEMMA ArrivesKeeps ==
  ASSUME ReturnsInv, ThrottleInv', HistoryTypeOK',
         NEW c \in Callers, NEW k \in Keys, NEW i \in Instances, Arrives(c, k, i)
  PROVE  ReturnsInv'
<1>1. Arrival(c, k)
  BY RequestsArrive DEF Arrives, ReturnsInv, ThrottleInv
<1>2. /\ idleFor' = [idleFor EXCEPT ![k] = 0]
      /\ sentIn' = [sentIn EXCEPT ![k] = Greatest(@, call'[c].start)]
      /\ promised' = IF Stands(k, call'[c].start) THEN promised
                     ELSE [promised EXCEPT ![k] = None]
  BY DEF Arrives
<1>3. \A j \in Keys : QuietSound(j)' /\ SentSound(j)' /\ PromiseSound(j)'
  BY <1>1, <1>2, ArrivalsKeepQuiet, ArrivalsKeepSent, ArrivalsKeepPromises
<1>4. /\ \/ waited'[c] = NotWaited
         \/ Alone(k) /\ waited'[c] = [quiet |-> idleFor[k], due |-> IsDue(k)]
      /\ \A d \in Callers : d # c =>
           waited'[d] = IF d \in InFlightFor(k) THEN NotWaited ELSE waited[d]
  <2>1. waited' = [d \in Callers |->
                     IF d = c /\ Alone(k)
                       THEN [quiet |-> idleFor[k], due |-> IsDue(k)]
                     ELSE IF d = c \/ d \in InFlightFor(k) THEN NotWaited
                     ELSE waited[d]]
    BY DEF Arrives
  <2> QED
    BY <2>1
<1>5. \A d \in Callers : WaitSound(d)' /\ ReadingSound(d)'
  BY <1>1, <1>4, ArrivalsWait, OthersArrive
<1> QED
  BY <1>3, <1>5 DEF ReturnsInv

-----------------------------------------------------------------------------
(* A request that goes on, or ends.                                        *)

\* What a refusal tells its caller is right by the slowest clock that its
\* request may have been weighed by.
LEMMA RefusalsPromise ==
  ASSUME ReturnsInv, NEW c \in Callers, stage[c] # "idle",
         NEW k, k = call[c].key, sentIn' = sentIn, promised'[k] = PromiseTo(c)
  PROVE  PromiseSound(k)'
<1>1. /\ k \in Keys /\ call[c].start \in Nat /\ call[c].elapsed \in 0 .. (Window - 1)
      /\ call[c].beganAt \in Nat /\ call[c].beganAt <= now
      /\ call[c].start + call[c].elapsed <= call[c].beganAt + Skew
  BY CallsUnderWay DEF ReturnsInv, ReadingSound, Reading
<1>2. /\ now \in Nat /\ Window \in Nat \ {0} /\ Fresh \in Nat /\ Skew \in Nat
      /\ sentIn[k] \in Nat
  BY <1>1, NowFields, ParameterTypes, FreshFits, StartIsMultiple
     DEF ReturnsInv, ThrottleInv, HistoryTypeOK
<1>3. /\ promised'[k].from = call[c].start /\ promised'[k].inWindow = sentIn[k]
      /\ promised'[k].at = now + ((Window - call[c].elapsed) + Fresh)
  BY <1>1, RetryLeadsIntoFreshWindow DEF PromiseTo
<1>4. promised'[k].at + Skew >= promised'[k].from + Window + Fresh
  BY <1>1, <1>2, <1>3
<1> QED
  BY <1>2, <1>3, <1>4 DEF PromiseSound

LEMMA RequestsKeepReturns ==
  ASSUME ReturnsInv, ClocksAgree, ThrottleInv', HistoryTypeOK', NEW c \in Callers,
         StoreAnswers(c) \/ Degrades(c) \/ FailOpen(c),
         UNCHANGED <<idleFor, sentIn>>,
         \/ promised' = promised
         \/ promised' = [promised EXCEPT ![call[c].key] = PromiseTo(c)],
         waited' = IF Ends(c) THEN [waited EXCEPT ![c] = NotWaited] ELSE waited
  PROVE  ReturnsInv'
<1>1. RequestStep(c)
  BY RequestSteps DEF ReturnsInv
<1>2. Settling /\ stage[c] # "idle" /\ now' = now
  BY <1>1, RequestsSettle DEF ReturnsInv, RequestStep
<1>3. \A k \in Keys : QuietSound(k)' /\ SentSound(k)'
  BY <1>2, QuietSettles, SentSettles DEF ReturnsInv
<1>4. ASSUME NEW k \in Keys PROVE PromiseSound(k)'
  <2>1. promised \in [Keys -> Promise \cup {None}]
    BY DEF ReturnsInv, HistoryTypeOK
  <2>2. CASE promised'[k] = promised[k]
    BY <2>2, PromiseStays DEF ReturnsInv
  <2>3. CASE promised'[k] # promised[k]
    <3>1. k = call[c].key /\ promised'[k] = PromiseTo(c)
      BY <2>1, <2>3
    <3> QED
      BY <1>2, <3>1, RefusalsPromise
  <2> QED
    BY <2>2, <2>3
<1>5. ASSUME NEW d \in Callers PROVE WaitSound(d)' /\ ReadingSound(d)'
  <2>1. waited \in [Callers -> [quiet : 0 .. Patience, due : BOOLEAN]]
    BY DEF ReturnsInv, HistoryTypeOK
  <2>2. CASE d # c
    <3>1. waited'[d] = waited[d]
      BY <2>1, <2>2
    <3> QED
      BY <1>1, <2>2, <3>1, RequestsKeepOtherWaits
  <2>3. CASE d = c
    <3>1. stage'[c] # "idle" => waited'[c] = waited[c]
      BY DEF Ends
    <3> QED
      BY <1>1, <2>3, <3>1, RequestsKeepTheirWait
  <2> QED
    BY <2>2, <2>3
<1> QED
  BY <1>3, <1>4, <1>5 DEF ReturnsInv

LEMMA AnswersKeep ==
  ASSUME ReturnsInv, ClocksAgree, ThrottleInv', HistoryTypeOK', NEW c \in Callers,
         IsAnswered(c) \/ EndsOtherwise(c)
  PROVE  ReturnsInv'
<1>1. CASE IsAnswered(c)
  BY <1>1, RequestsKeepReturns DEF IsAnswered
<1>2. CASE EndsOtherwise(c)
  <2>1. Degrades(c) \/ FailOpen(c)
    BY <1>2 DEF EndsOtherwise
  <2>2. Ends(c)
    <3>1. stage[c] # "idle" /\ \E kind : Decide(c, kind)
      BY <2>1 DEF Degrades, BudgetIsSpent, StoreFails, FailOpen, IncrementConflicts
    <3> QED
      BY <3>1 DEF Ends, Decide, ReturnsInv, ThrottleInv, TypeOK
  <2> QED
    BY <1>2, <2>1, <2>2, RequestsKeepReturns DEF EndsOtherwise
<1> QED
  BY <1>1, <1>2

-----------------------------------------------------------------------------
(* The steps of the environment.                                           *)

LEMMA SettlingKeeps ==
  ASSUME ReturnsInv, ThrottleInv', HistoryTypeOK',
         AdriftSettles \/ CollectExpired, UNCHANGED historyVars
  PROVE  ReturnsInv'
<1>1. Settling /\ UNCHANGED <<stage, call>> /\ adrift' \subseteq adrift
  BY WritesSettle, CollectionSettles DEF ReturnsInv
<1>2. \A k \in Keys : \/ counted'[k] = counted[k] /\ (item'[k] = item[k] \/ item'[k] = None)
                      \/ \E w \in adrift : w.key = k
  BY WritesSettle, CollectionSettles DEF ReturnsInv
<1>3. \A k \in Keys : QuietSound(k)' /\ SentSound(k)' /\ PromiseSound(k)'
  BY <1>1, QuietSettles, SentSettles, PromiseStays DEF ReturnsInv, historyVars
<1>4. ASSUME NEW c \in Callers PROVE WaitSound(c)' /\ ReadingSound(c)'
  <2>1. WaitSound(c) /\ ReadingSound(c) /\ waited'[c] = waited[c]
    BY DEF ReturnsInv, historyVars
  <2>2. ReadingSound(c)'
    BY <1>1, <2>1 DEF ReadingSound, Reading
  <2>3. CASE stage[c] = "idle" \/ ~HasWaited(c)
    BY <1>1, <2>1, <2>2, <2>3 DEF WaitSound, HasWaited
  <2>4. CASE stage[c] # "idle" /\ HasWaited(c)
    <3> DEFINE k == call[c].key
    <3>1. k \in Keys /\ \A w \in adrift : w.key # k
      BY <2>1, <2>4, CallsUnderWay DEF ReturnsInv, WaitSound
    <3>2. /\ counted'[k] = counted[k]
          /\ call[c].target = call[c].start
          /\ item'[k] # None => item'[k].windowStart <= call[c].start
      BY <1>2, <2>1, <2>4, <3>1 DEF WaitSound
    <3> HIDE DEF k
    <3>3. WaitSound(c)'
      BY <1>1, <2>1, <2>4, <3>2, WaitIsKept DEF k
    <3> QED
      BY <2>2, <3>3
  <2> QED
    BY <2>3, <2>4
<1> QED
  BY <1>3, <1>4 DEF ReturnsInv

LEMMA TimeKeeps ==
  ASSUME ReturnsInv, ThrottleInv', HistoryTypeOK', TimePasses
  PROVE  ReturnsInv'
<1>1. /\ now \in Nat /\ now' = now + 1
      /\ UNCHANGED <<item, counted, stage, call, adrift, sentIn, promised, waited>>
      /\ idleFor' = [k \in Keys |-> Least(idleFor[k] + 1, Patience)]
  BY NowFields DEF TimePasses, Tick, ReturnsInv, ThrottleInv
<1>2. ASSUME NEW k \in Keys PROVE QuietSound(k)'
  <2>1. /\ QuietSound(k) /\ idleFor[k] \in Nat /\ Patience \in Nat /\ Skew \in Nat
        /\ idleFor'[k] = Least(idleFor[k] + 1, Patience)
    BY <1>1, ParameterTypes DEF ReturnsInv, HistoryTypeOK, Patience
  <2>2. idleFor'[k] \in Nat /\ idleFor'[k] <= idleFor[k] + 1
    BY <2>1 DEF Least
  <2>3. ASSUME NEW w \in Starts, Touches(k, w)' PROVE w + idleFor'[k] <= now' + Skew
    <3>1. Touches(k, w)
      BY <1>1, <2>3 DEF Touches, InFlightFor, InFlight
    <3>2. w + idleFor[k] <= now + Skew /\ w \in Nat
      BY <2>1, <3>1, StartIsMultiple DEF QuietSound
    <3> QED
      BY <1>1, <2>1, <2>2, <3>2
  <2> QED
    BY <2>3 DEF QuietSound
<1>3. ASSUME NEW k \in Keys PROVE SentSound(k)' /\ PromiseSound(k)'
  BY <1>1 DEF SentSound, PromiseSound, ReturnsInv, Touches, InFlightFor, InFlight
<1>4. ASSUME NEW c \in Callers PROVE WaitSound(c)' /\ ReadingSound(c)'
  BY <1>1 DEF WaitSound, HasWaited, Reading, ReadingSound, ReturnsInv
<1> QED
  BY <1>2, <1>3, <1>4 DEF ReturnsInv

-----------------------------------------------------------------------------
(* The invariant.                                                          *)

LEMMA InitReturnsInv ==
  ASSUME ReturnsInit, ClocksAgree
  PROVE  ReturnsInv
<1>1. ThrottleInv
  BY InitThrottleInv DEF ReturnsInit
<1>2. HistoryTypeOK
  <2>1. Patience \in 0 .. Patience /\ 0 \in 0 .. Patience /\ 0 \in Starts
    BY ParameterTypes, ZeroIsAStart DEF Patience
  <2> QED
    BY <2>1 DEF ReturnsInit, HistoryInit, HistoryTypeOK, NotWaited
<1>3. \A k \in Keys : promised[k] = None /\ \A w \in Starts : ~Touches(k, w)
  BY DEF ReturnsInit, HistoryInit, Init, CounterInit, Touches, InFlightFor, InFlight
<1>4. \A c \in Callers : stage[c] = "idle"
  BY DEF ReturnsInit, Init
<1> QED
  BY <1>1, <1>2, <1>3, <1>4
     DEF ReturnsInv, ReadingSound, QuietSound, SentSound, PromiseSound, WaitSound

LEMMA ReturnsInvKeeps ==
  ASSUME ReturnsInv, ClocksAgree, CollectedAfterRequestsEnd,
         [Next]_vars, [ReturnsNext]_allVars, HistoryTypeOK'
  PROVE  ReturnsInv'
<1>1. ThrottleInv'
  BY ThrottleInvKeeps DEF ReturnsInv
<1>2. ASSUME NEW c \in Callers, NEW k \in Keys, NEW i \in Instances, Arrives(c, k, i)
      PROVE  ReturnsInv'
  BY <1>1, <1>2, ArrivesKeeps
<1>3. ASSUME NEW c \in Callers, IsAnswered(c) \/ EndsOtherwise(c)
      PROVE  ReturnsInv'
  BY <1>1, <1>3, AnswersKeep
<1>4. CASE TimePasses
  BY <1>1, <1>4, TimeKeeps
<1>5. CASE (AdriftSettles \/ CollectExpired) /\ UNCHANGED historyVars
  BY <1>1, <1>5, SettlingKeeps
<1>6. CASE UNCHANGED allVars
  <2>1. UNCHANGED <<now, stage, call, item, counted, adrift, idleFor, sentIn, promised, waited>>
    BY <1>6 DEF allVars, vars, counterVars, historyVars
  <2>2. /\ \A c \in Callers : ReadingSound(c)' /\ WaitSound(c)'
        /\ \A k \in Keys : QuietSound(k)' /\ SentSound(k)' /\ PromiseSound(k)'
    BY <2>1 DEF ReturnsInv, ReadingSound, Reading, QuietSound, SentSound, PromiseSound,
                WaitSound, HasWaited, Touches, InFlightFor, InFlight
  <2> QED
    BY <1>1, <2>2 DEF ReturnsInv
<1> QED
  BY <1>2, <1>3, <1>4, <1>5, <1>6 DEF ReturnsNext

\* The strengthened invariant, whatever the clocks differ by: no key touches a
\* window later than its last request could have read, nor than the latest it
\* has sent in; a promise that stands leads past both; and a request that has
\* waited is alone with what was counted before it, and reads that as past.
THEOREM ReturnsInvariant ==
  ClocksAgree /\ CollectedAfterRequestsEnd => (ReturnsSpec => []ReturnsInv)
<1> SUFFICES ASSUME ClocksAgree, CollectedAfterRequestsEnd
             PROVE  ReturnsSpec => []ReturnsInv
  OBVIOUS
<1>1. ReturnsInit => ReturnsInv
  BY InitReturnsInv
<1>2. ReturnsInv /\ ReturnsTypeOK' /\ [Next]_vars /\ [ReturnsNext]_allVars => ReturnsInv'
  BY ReturnsInvKeeps DEF ReturnsTypeOK
<1> QED
  BY <1>1, <1>2, ReturnsAreRequests, ReturnsTypeCorrect, PTL DEF ReturnsSpec, Spec

-----------------------------------------------------------------------------
(* A request that has waited is not refused.                               *)

\* Its window counts nothing yet, and what the window before counts is past.
Forgiven(c) ==
  /\ call[c].target = call[c].start
  /\ \A p \in Starts : counted[call[c].key][p] # 0 => IsPast(p, Reading(c))

LEMMA WaitedAreForgiven ==
  ASSUME ReturnsInv, NEW c \in Callers, stage[c] # "idle",
         waited[c].quiet >= Patience \/ waited[c].due
  PROVE  Forgiven(c)
  BY DEF Forgiven, ReturnsInv, WaitSound, HasWaited

\* In a window in which nothing is counted, on what little is left of the one
\* before, its increment is neither refused nor kept from landing.
LEMMA ForgivenAreServed ==
  ASSUME ReturnsInv, NEW c \in Callers, stage[c] # "idle", Forgiven(c)
  PROVE  /\ ~(IncrementConflicts(c) /\ BranchOf(c) = "saturated")
         /\ IncrementAllowed(call[c].key, call[c].target)
              => AdmittedBy(Incremented(call[c].key, call[c].target), c)
<1> DEFINE k == call[c].key
           start == call[c].target
           read == Reading(c)
<1>1. /\ k \in Keys /\ start \in Starts /\ start \in Nat /\ Window \in Nat
      /\ call[c].elapsed \in 0 .. (Window - 1) /\ read = start + call[c].elapsed
  BY CallsUnderWay, ParameterTypes DEF ReturnsInv, Reading, Forgiven
<1>2. Window \in Nat \ {0} /\ Ceiling \in Nat \ {0} /\ Fresh \in 1 .. Window
  BY ParameterTypes, FreshFits
<1>3. counted[k][start] = 0
  <2> SUFFICES ASSUME counted[k][start] # 0 PROVE FALSE
    OBVIOUS
  <2>1. start + Window + Fresh <= read
    BY <1>1 DEF Forgiven, IsPast
  <2> HIDE DEF read, start
  <2> QED
    BY <1>1, <1>2, <2>1
<1>4. item[k] # None => ItemSound(k) /\ item[k] \in Counter
  BY <1>1, ItemFields DEF ReturnsInv, ThrottleInv, CountersSound, TypeOK
<1>5. ASSUME IncrementConflicts(c), BranchOf(c) = "saturated" PROVE FALSE
  <2>1. item[k] # None
    BY <1>5 DEF IncrementConflicts, IncrementAllowed
  <2>2. item[k].windowStart = start /\ item[k].current >= Ceiling
    BY <1>1, <1>4, <1>5, <2>1, BranchIsExact DEF BranchOf
  <2>3. item[k].current = 0
    BY <1>3, <1>4, <2>1, <2>2 DEF ItemSound
  <2> QED
    BY <1>2, <2>2, <2>3
<1>6. ASSUME IncrementAllowed(k, start) PROVE AdmittedBy(Incremented(k, start), c)
  <2> DEFINE counter == Incremented(k, start)
  <2> SUFFICES /\ counter.current = 1 /\ counter.previous \in 0 .. Ceiling
               /\ counter.previous = 0 \/ call[c].elapsed >= Fresh
    BY <1>1, FreshWindowAdmits DEF AdmittedBy
  <2>1. CASE item[k] = None
    BY <1>2, <2>1 DEF Incremented
  <2>2. CASE item[k] # None
    <3>1. /\ item[k].windowStart = start /\ item[k].current = 0
          /\ item[k].previous \in 0 .. Ceiling
          /\ item[k].previous = IF start - Window \in Starts
                                  THEN counted[k][start - Window] ELSE 0
      BY <1>3, <1>4, <1>6, <2>2 DEF IncrementAllowed, ItemSound, Counter
    <3>2. counter.current = 1 /\ counter.previous = item[k].previous
      BY <1>4, <2>2, <3>1 DEF Incremented, Counter
    <3>3. ASSUME item[k].previous # 0 PROVE call[c].elapsed >= Fresh
      <4>1. start - Window \in Starts /\ counted[k][start - Window] # 0
        BY <3>1, <3>3
      <4>2. start - Window + Window + Fresh <= read
        BY <4>1 DEF Forgiven, IsPast
      <4> HIDE DEF read, start
      <4> QED
        BY <1>1, <1>2, <4>2
    <3> QED
      BY <3>1, <3>2, <3>3
  <2> QED
    BY <2>1, <2>2
<1> QED
  BY <1>5, <1>6

LEMMA ForgivenAreNotRefused ==
  ASSUME ReturnsInv, [ReturnsNext]_allVars, NEW c \in Callers, Ends(c), Forgiven(c)
  PROVE  verdict' # "refused"
<1>1. stage[c] # "idle" /\ stage'[c] = "idle"
  BY DEF Ends
<1>2. stage \in [Callers -> {"idle", "incrementing", "transitioning"}]
  BY DEF ReturnsInv, ThrottleInv, TypeOK
<1>3. ASSUME NEW d \in Callers, StoreAnswers(d) \/ Degrades(d) \/ FailOpen(d)
      PROVE  verdict' # "refused"
  <2>1. d = c
    <3>1. stage' = [stage EXCEPT ![d] = stage'[d]]
      BY <1>2, <1>3 DEF StoreAnswers, Degrades, IncrementCounts, FindSaturated, BudgetIsSpent,
         StoreFails, FailOpen, AdoptStoredWindow, ChooseTransition, ApplyWindowTransition, Retry,
         Decide, GoTo
    <3> QED
      BY <1>1, <1>2, <3>1
  <2>2. CASE IncrementCounts(c)
    BY <1>1, <2>2, ForgivenAreServed DEF IncrementCounts, Increment, Decide
  <2>3. CASE FindSaturated(c)
    BY <1>1, <2>3, ForgivenAreServed DEF FindSaturated
  <2>4. CASE Degrades(c) \/ FailOpen(c)
    BY <2>4 DEF Degrades, BudgetIsSpent, StoreFails, FailOpen, Decide
  <2>5. CASE AdoptStoredWindow(c) \/ ChooseTransition(c) \/ ApplyWindowTransition(c)
    <3>1. stage'[c] # "idle"
      BY <1>2, <2>5 DEF AdoptStoredWindow, ChooseTransition, ApplyWindowTransition, Retry, GoTo
    <3> QED
      BY <1>1, <3>1
  <2> QED
    BY <1>3, <2>1, <2>2, <2>3, <2>4, <2>5 DEF StoreAnswers
<1>4. ASSUME NEW d \in Callers, NEW k \in Keys, NEW i \in Instances, Arrives(d, k, i)
      PROVE  FALSE
  <2>1. stage' = [stage EXCEPT ![d] = "incrementing"]
    BY <1>4 DEF Arrives, BeginRequest
  <2> QED
    BY <1>1, <1>2, <2>1
<1>5. CASE TimePasses \/ AdriftSettles \/ CollectExpired \/ UNCHANGED allVars
  <2>1. UNCHANGED stage
    BY <1>5 DEF TimePasses, Tick, AdriftSettles, CollectExpired, allVars, vars
  <2> QED
    BY <1>1, <2>1
<1> QED
  BY <1>3, <1>4, <1>5 DEF ReturnsNext, IsAnswered, EndsOtherwise

\* A caller that kept quiet for two windows, by any two instances' clocks, is
\* not refused on what it sent before (selectRolloverBranch's promote-zero,
\* AC-7).
THEOREM IdleCallersAreForgiven ==
  ClocksAgree /\ CollectedAfterRequestsEnd => (ReturnsSpec => IdleIsForgiven)
<1> SUFFICES ASSUME ClocksAgree, CollectedAfterRequestsEnd
             PROVE  ReturnsSpec => IdleIsForgiven
  OBVIOUS
<1>1. ReturnsInv /\ [ReturnsNext]_allVars
        => [\A c \in Callers : Ends(c) /\ waited[c].quiet >= Patience
              => verdict' # "refused"]_allVars
  BY WaitedAreForgiven, ForgivenAreNotRefused DEF Ends
<1> QED
  BY <1>1, ReturnsInvariant, PTL DEF ReturnsSpec, IdleIsForgiven

\* Retry-After keeps its promise for every limit, window and ceiling, and for
\* clocks that differ: a caller that comes back when it was told to, and as
\* much later as the refusal's window was older than its own, is admitted
\* (AC-4).
THEOREM RetryAfterKeepsItsPromise ==
  ClocksAgree /\ CollectedAfterRequestsEnd => (ReturnsSpec => RetryAfterIsHonest)
<1> SUFFICES ASSUME ClocksAgree, CollectedAfterRequestsEnd
             PROVE  ReturnsSpec => RetryAfterIsHonest
  OBVIOUS
<1>1. ReturnsInv /\ [ReturnsNext]_allVars
        => [\A c \in Callers : Ends(c) /\ waited[c].due => verdict' # "refused"]_allVars
  BY WaitedAreForgiven, ForgivenAreNotRefused DEF Ends
<1> QED
  BY <1>1, ReturnsInvariant, PTL DEF ReturnsSpec, RetryAfterIsHonest

=============================================================================
