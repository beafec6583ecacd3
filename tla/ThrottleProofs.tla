----------------------------- MODULE ThrottleProofs -----------------------------
(***************************************************************************)
(* Proofs about ThrottleRequests, for every number of keys, instances and  *)
(* requests, and every window, limit, ceiling, deadline and clock.  Beyond *)
(* the types of the constants they assume that the readings of the clock   *)
(* that meet in one item differ by less than a window, and that an item is *)
(* collected no sooner after it expires than a request may live.           *)
(***************************************************************************)
EXTENDS ThrottleRequests, TLAPS

\* The clocks of the instances, and a request's own age, stay within a window.
ClocksAgree == Skew + Deadline < Window

\* A ttl deletion comes later than the requests of the item's last tick.
CollectedAfterRequestsEnd == CollectionLag >= Deadline

-----------------------------------------------------------------------------
(* Arithmetic of windows.                                                  *)

LEMMA DivisionBounds ==
  ASSUME NEW r \in Nat, NEW w \in Nat \ {0}
  PROVE  /\ r \div w \in Nat
         /\ (r \div w) * w <= r
         /\ r < (r \div w) * w + w
  OBVIOUS

LEMMA DivisionIsUnique ==
  ASSUME NEW q \in Int, NEW w \in Nat \ {0}, NEW m \in 0..(w - 1)
  PROVE  (q * w + m) \div w = q
  OBVIOUS

LEMMA MultiplesApart ==
  ASSUME NEW a \in Int, NEW b \in Int, NEW w \in Nat \ {0}, a * w < b * w
  PROVE  a < b /\ a * w + w <= b * w
<1>1. a < b
  OBVIOUS
<1>2. (a + 1) * w <= b * w
  BY <1>1
<1>3. (a + 1) * w = a * w + w
  OBVIOUS
<1> QED
  BY <1>1, <1>2, <1>3

\* A clock reading lies in the window that fromClock finds for it.
LEMMA ReadingInWindow ==
  ASSUME NEW t \in 0..Horizon
  PROVE  /\ WindowStartOf(t, Window) \in Starts
         /\ WindowStartOf(t, Window) \in Nat
         /\ WindowStartOf(t, Window) <= t
         /\ t < WindowStartOf(t, Window) + Window
<1>1. t \in Nat
  BY CounterAssumption
<1>2. /\ (t \div Window) \in Nat
      /\ (t \div Window) * Window <= t
      /\ t < (t \div Window) * Window + Window
  BY <1>1, CounterAssumption, DivisionBounds
<1>3. (t \div Window) * Window \in Nat
  BY <1>2, CounterAssumption
<1> QED
  BY <1>2, <1>3 DEF WindowStartOf, Starts

LEMMA StartIsMultiple ==
  ASSUME NEW s \in Starts
  PROVE  s \in Nat /\ \E a \in Nat : s = a * Window
<1>1. PICK t \in 0..Horizon : s = WindowStartOf(t, Window)
  BY DEF Starts
<1>2. t \in Nat
  BY CounterAssumption
<1>3. (t \div Window) \in Nat
  BY <1>2, CounterAssumption, DivisionBounds
<1>4. s = (t \div Window) * Window
  BY <1>1 DEF WindowStartOf
<1> QED
  BY <1>1, <1>3, <1>4, ReadingInWindow

\* Two windows that differ are a whole window apart.
LEMMA StartsApart ==
  ASSUME NEW s \in Starts, NEW t \in Starts, s < t
  PROVE  s + Window <= t
<1>1. PICK a \in Nat : s = a * Window
  BY StartIsMultiple
<1>2. PICK b \in Nat : t = b * Window
  BY StartIsMultiple
<1> QED
  BY <1>1, <1>2, MultiplesApart, CounterAssumption

\* Math.round counts the windows between two starts exactly.
LEMMA ElapsedIsExact ==
  ASSUME NEW s \in Starts, NEW t \in Starts
  PROVE  /\ WindowsElapsedSince(s, t) \in Int
         /\ WindowsElapsedSince(s, t) = 0 <=> t = s
         /\ WindowsElapsedSince(s, t) = 1 <=> t = s + Window
         /\ WindowsElapsedSince(s, t) >= 2 <=> t >= s + 2 * Window
         /\ WindowsElapsedSince(s, t) = -1 <=> s = t + Window
         /\ WindowsElapsedSince(s, t) < -1 <=> s >= t + 2 * Window
<1>1. PICK a \in Nat : s = a * Window
  BY StartIsMultiple
<1>2. PICK b \in Nat : t = b * Window
  BY StartIsMultiple
<1> DEFINE n == b - a
           double == 2 * Window
<1>3. Window \in Nat \ {0} /\ Window \in 0..(double - 1) /\ double \in Nat \ {0} /\ n \in Int
  BY CounterAssumption
<1>4. t - s = n * Window
  BY <1>1, <1>2, <1>3
<1>5. 2 * (t - s) + Window = n * double + Window
  BY <1>3, <1>4
<1>6. (n * double + Window) \div double = n
  BY <1>3, DivisionIsUnique
<1>7. WindowsElapsedSince(s, t) = n
  BY <1>5, <1>6 DEF WindowsElapsedSince
<1>8. s \in Nat /\ t \in Nat
  BY StartIsMultiple
<1> HIDE DEF n, double
<1>9. /\ n = 0 <=> t = s
      /\ n = 1 <=> t = s + Window
      /\ n >= 2 <=> t >= s + 2 * Window
      /\ n = -1 <=> s = t + Window
      /\ n < -1 <=> s >= t + 2 * Window
  BY <1>3, <1>4, <1>8
<1> QED
  BY <1>3, <1>7, <1>9

\* What the branch chosen after a failed condition says of the two windows.
LEMMA BranchIsExact ==
  ASSUME NEW stored \in Counter, NEW start \in Starts
  PROVE  LET branch == SelectRolloverBranch(stored, start)
         IN  /\ branch = "saturated" <=> stored.windowStart = start /\ stored.current >= Ceiling
             /\ branch = "promote-zero" <=> start >= stored.windowStart + 2 * Window
             /\ branch = "promote-previous" <=> start = stored.windowStart + Window
             /\ branch = "reset-item" <=> stored.windowStart >= start + 2 * Window
             /\ branch = "adopt-stored-window"
                  => stored.windowStart = start \/ stored.windowStart = start + Window
<1> DEFINE s == stored.windowStart
           e == WindowsElapsedSince(s, start)
<1>1. /\ s \in Starts /\ s \in Nat /\ start \in Nat /\ Window \in Nat \ {0}
      /\ stored.current \in Nat /\ Ceiling \in Nat
  BY StartIsMultiple, CounterAssumption DEF Counter
<1>2. /\ e \in Int
      /\ e = 0 <=> start = s
      /\ e = 1 <=> start = s + Window
      /\ e >= 2 <=> start >= s + 2 * Window
      /\ e = -1 <=> s = start + Window
      /\ e < -1 <=> s >= start + 2 * Window
  BY <1>1, ElapsedIsExact
<1> HIDE DEF e
<1>3. SelectRolloverBranch(stored, start)
        = IF s = start /\ stored.current >= Ceiling THEN "saturated"
          ELSE IF e >= 2 THEN "promote-zero"
          ELSE IF e = 1 THEN "promote-previous"
          ELSE IF e >= -1 THEN "adopt-stored-window"
          ELSE "reset-item"
  BY DEF SelectRolloverBranch, e
<1> HIDE DEF s
<1>4. e >= -1 /\ ~(e >= 2) /\ e # 1 => e = 0 \/ e = -1
  BY <1>2
<1> QED
  BY <1>1, <1>2, <1>3, <1>4 DEF s

-----------------------------------------------------------------------------
(* What an item and the increments that have landed say of each other.     *)

\* Nothing has been counted in a window after the one that is stored, both
\* counts are exact, and no stored window begins in the future of all clocks.
ItemSound(k) ==
  LET start == item[k].windowStart
  IN  /\ start <= now + Skew
      /\ \A w \in Starts : w > start => counted[k][w] = 0
      /\ item[k].current = counted[k][start]
      /\ item[k].previous = IF start - Window \in Starts THEN counted[k][start - Window] ELSE 0

\* Where there is no item, what was counted has expired and been collected.
NothingLost(k) ==
  \A w \in Starts : counted[k][w] # 0 => w + 2 * Window + CollectionLag <= now

CountersSound ==
  \A k \in Keys : /\ item[k] # None => ItemSound(k)
                  /\ item[k] = None => NothingLost(k)

\* A write is for a window that some clock of its request's lifetime reads.
AimSound(start) ==
  /\ start \in Starts
  /\ start <= now + Skew
  /\ now < start + Window + Deadline

\* A transition moves an item forward, and carries its count by one window.
BranchSound(start, stored, branch) ==
  branch # "none" =>
    /\ stored \in Counter
    /\ stored.windowStart < start
    /\ \/ branch = "promote-previous" /\ start = stored.windowStart + Window
       \/ branch = "promote-zero" /\ start >= stored.windowStart + 2 * Window

LEMMA ItemFields ==
  ASSUME CounterTypeOK, NEW k \in Keys
  PROVE  /\ item[k] # None =>
              /\ item[k] \in Counter
              /\ item[k].windowStart \in Starts
              /\ item[k].windowStart \in Nat
              /\ item[k].current \in 0..Ceiling
              /\ item[k].previous \in 0..Ceiling
         /\ counted[k] \in [Starts -> Nat]
  BY StartIsMultiple DEF CounterTypeOK, Counter

LEMMA IncrementKeeps ==
  ASSUME CounterTypeOK, CountersSound, ClocksAgree, CollectedAfterRequestsEnd, now \in Nat,
         NEW k \in Keys, NEW start, AimSound(start), Increment(k, start), now' = now
  PROVE  /\ CounterTypeOK'
         /\ CountersSound'
         /\ item'[k] = Incremented(k, start)
         /\ item'[k].windowStart = start
         /\ item'[k].current = counted'[k][start]
         /\ counted'[k][start] = counted[k][start] + 1
         /\ \A w \in Starts \ {start} : counted'[k][w] = counted[k][w]
         /\ \A j \in Keys \ {k} : item'[j] = item[j] /\ counted'[j] = counted[j]
<1> DEFINE new == Incremented(k, start)
<1>1. /\ start \in Starts /\ start \in Nat /\ start <= now + Skew
      /\ now < start + Window + Deadline
      /\ Window \in Nat \ {0} /\ Skew \in Nat /\ Deadline \in Nat /\ CollectionLag \in Nat
      /\ Ceiling \in Nat \ {0}
  BY StartIsMultiple, CounterAssumption, RequestsAssumption DEF AimSound
<1>2. /\ counted[k] \in [Starts -> Nat]
      /\ item[k] # None =>
           /\ item[k] \in Counter /\ item[k].windowStart = start
           /\ item[k].current \in Nat /\ item[k].current < Ceiling
           /\ item[k].previous \in 0..Ceiling
  BY ItemFields, <1>1 DEF Increment, IncrementAllowed, Counter
<1>3. /\ item' = [item EXCEPT ![k] = new]
      /\ counted' = [counted EXCEPT ![k] = [counted[k] EXCEPT ![start] = @ + 1]]
  BY DEF Increment, CounterTypeOK
<1>4. /\ new \in Counter
      /\ new.windowStart = start
      /\ new.current = (IF item[k] = None THEN 1 ELSE item[k].current + 1)
      /\ new.previous = (IF item[k] = None THEN 0 ELSE item[k].previous)
  BY <1>1, <1>2 DEF Incremented, Counter
<1> HIDE DEF new
<1>5. /\ counted'[k] = [counted[k] EXCEPT ![start] = counted[k][start] + 1]
      /\ counted'[k] \in [Starts -> Nat]
      /\ counted'[k][start] = counted[k][start] + 1
      /\ \A w \in Starts \ {start} : counted'[k][w] = counted[k][w]
      /\ item'[k] = new
      /\ \A j \in Keys \ {k} : item'[j] = item[j] /\ counted'[j] = counted[j]
  BY <1>1, <1>2, <1>3 DEF CounterTypeOK
<1>6. CounterTypeOK'
  BY <1>3, <1>4, <1>5 DEF CounterTypeOK
<1>7. new # None
  BY <1>4, CounterAssumption
<1>8. ItemSound(k)'
  <2>1. \A w \in Starts : w > start => counted[k][w] = 0
    <3>1. CASE item[k] # None
      BY <1>2, <3>1 DEF CountersSound, ItemSound
    <3>2. CASE item[k] = None
      <4>1. SUFFICES ASSUME NEW w \in Starts, w > start, counted[k][w] # 0 PROVE FALSE
        BY <1>2
      <4>2. w + 2 * Window + CollectionLag <= now /\ w \in Nat
        BY <3>2, <4>1, StartIsMultiple DEF CountersSound, NothingLost
      <4> QED
        BY <1>1, <4>1, <4>2 DEF ClocksAgree
    <3> QED
      BY <3>1, <3>2
  <2>2. counted[k][start] = (IF item[k] = None THEN 0 ELSE item[k].current)
    <3>1. CASE item[k] # None
      BY <1>2, <3>1 DEF CountersSound, ItemSound
    <3>2. CASE item[k] = None
      <4>1. counted[k][start] # 0 => start + 2 * Window + CollectionLag <= now
        BY <1>1, <3>2 DEF CountersSound, NothingLost
      <4> QED
        BY <1>1, <3>2, <4>1 DEF ClocksAgree
    <3> QED
      BY <3>1, <3>2
  <2>3. start - Window \in Starts =>
          counted[k][start - Window] = (IF item[k] = None THEN 0 ELSE item[k].previous)
    <3>1. CASE item[k] # None
      BY <1>2, <3>1 DEF CountersSound, ItemSound
    <3>2. CASE item[k] = None
      <4>1. start - Window \in Starts /\ counted[k][start - Window] # 0
              => (start - Window) + 2 * Window + CollectionLag <= now
        BY <3>2 DEF CountersSound, NothingLost
      <4> QED
        BY <1>1, <3>2, <4>1 DEF CollectedAfterRequestsEnd
    <3> QED
      BY <3>1, <3>2
  <2>4. start - Window \notin Starts /\ item[k] # None => item[k].previous = 0
    BY <1>2 DEF CountersSound, ItemSound
  <2>5. start - Window \in Starts => counted'[k][start - Window] = counted[k][start - Window]
    BY <1>1, <1>5
  <2>6. new.current = counted'[k][start]
    BY <1>2, <1>4, <1>5, <2>2
  <2>7. new.previous = IF start - Window \in Starts THEN counted'[k][start - Window] ELSE 0
    BY <1>4, <2>3, <2>4, <2>5
  <2>8. \A w \in Starts : w > start => counted'[k][w] = 0
    BY <1>1, <1>5, <2>1
  <2> QED
    BY <1>1, <1>4, <1>5, <2>6, <2>7, <2>8 DEF ItemSound
<1>9. CountersSound'
  <2>1. ASSUME NEW j \in Keys \ {k}
        PROVE  (item[j] # None => ItemSound(j))' /\ (item[j] = None => NothingLost(j))'
    <3>1. item'[j] = item[j] /\ counted'[j] = counted[j]
      BY <1>5
    <3> QED
      BY <3>1 DEF CountersSound, ItemSound, NothingLost
  <2> QED
    BY <1>5, <1>7, <1>8, <2>1 DEF CountersSound
<1>10. item'[k].current = counted'[k][start]
  BY <1>4, <1>5, <1>8 DEF ItemSound
<1> QED
  BY <1>4, <1>5, <1>6, <1>9, <1>10 DEF new

LEMMA TransitionKeeps ==
  ASSUME CounterTypeOK, CountersSound, now \in Nat,
         NEW k \in Keys, NEW start, NEW stored, NEW branch,
         AimSound(start), branch # "none", BranchSound(start, stored, branch),
         Transition(k, branch, stored, start), now' = now
  PROVE  /\ CounterTypeOK'
         /\ CountersSound'
         /\ item[k] # None
         /\ item[k].windowStart < start
         /\ item'[k].windowStart = start
         /\ \A j \in Keys \ {k} : item'[j] = item[j]
         /\ UNCHANGED counted
<1> DEFINE old == item[k].windowStart
           new == Transitioned(k, branch, start)
<1>1. /\ start \in Starts /\ start \in Nat /\ start <= now + Skew
      /\ Window \in Nat \ {0} /\ Ceiling \in Nat \ {0}
  BY StartIsMultiple, CounterAssumption DEF AimSound
<1>2. /\ item[k] # None /\ old = stored.windowStart /\ old < start
      /\ \/ branch = "promote-previous" /\ start = old + Window
         \/ branch = "promote-zero" /\ start >= old + 2 * Window
      /\ item' = [item EXCEPT ![k] = new]
      /\ UNCHANGED counted
  BY DEF BranchSound, Transition, TransitionAllowed
<1>3. /\ old \in Starts /\ old \in Nat /\ item[k].current \in 0..Ceiling
      /\ counted[k] \in [Starts -> Nat]
  BY <1>2, ItemFields
<1>4. /\ new \in Counter
      /\ new.windowStart = start
      /\ new.current = 0
      /\ new.previous = (IF branch = "promote-previous" THEN item[k].current ELSE 0)
  BY <1>1, <1>3 DEF Transitioned, Counter
<1> HIDE DEF new
<1>5. /\ item'[k] = new
      /\ \A j \in Keys \ {k} : item'[j] = item[j]
      /\ CounterTypeOK'
  BY <1>2, <1>4 DEF CounterTypeOK
<1>6. /\ \A w \in Starts : w > old => counted[k][w] = 0
      /\ item[k].current = counted[k][old]
  BY <1>2 DEF CountersSound, ItemSound
<1>7. new.previous = IF start - Window \in Starts THEN counted[k][start - Window] ELSE 0
  <2>1. CASE branch = "promote-previous" /\ start = old + Window
    BY <1>1, <1>3, <1>4, <1>6, <2>1
  <2>2. CASE branch = "promote-zero" /\ start >= old + 2 * Window
    <3>1. start - Window > old
      BY <1>1, <1>3, <2>2
    <3> QED
      BY <1>4, <1>6, <2>2, <3>1
  <2> QED
    BY <1>2, <2>1, <2>2
<1>8. ItemSound(k)'
  <2>1. \A w \in Starts : w > start => counted[k][w] = 0
    <3>1. old < start
      BY <1>2
    <3>2. SUFFICES ASSUME NEW w \in Starts, w > start PROVE w > old
      BY <1>6
    <3>3. w \in Nat
      BY StartIsMultiple
    <3> QED
      BY <1>1, <1>3, <3>1, <3>2, <3>3
  <2>2. counted[k][start] = 0
    BY <1>1, <1>2, <1>6
  <2> QED
    BY <1>1, <1>2, <1>4, <1>5, <1>7, <2>1, <2>2 DEF ItemSound
<1>9. new # None
  BY <1>4, CounterAssumption
<1>10. CountersSound'
  BY <1>2, <1>5, <1>8, <1>9 DEF CountersSound, ItemSound, NothingLost
<1> QED
  BY <1>2, <1>4, <1>5, <1>10

LEMMA CollectKeeps ==
  ASSUME CounterTypeOK, CountersSound, now \in Nat,
         NEW k \in Keys, CollectCounter(k, now - CollectionLag), now' = now
  PROVE  /\ CounterTypeOK'
         /\ CountersSound'
         /\ item[k] # None
         /\ item[k].windowStart + 2 * Window + CollectionLag <= now
         /\ item'[k] = None
         /\ \A j \in Keys \ {k} : item'[j] = item[j]
         /\ UNCHANGED counted
<1>1. /\ item[k] # None /\ now - CollectionLag >= item[k].windowStart + 2 * Window
      /\ item' = [item EXCEPT ![k] = None]
      /\ UNCHANGED counted
  BY DEF CollectCounter
<1>2. /\ item[k].windowStart \in Nat /\ Window \in Nat /\ CollectionLag \in Nat
      /\ counted[k] \in [Starts -> Nat]
  BY <1>1, ItemFields, CounterAssumption, RequestsAssumption
<1>3. /\ item'[k] = None
      /\ \A j \in Keys \ {k} : item'[j] = item[j]
      /\ CounterTypeOK'
  BY <1>1 DEF CounterTypeOK
<1>4. item[k].windowStart + 2 * Window + CollectionLag <= now
  BY <1>1, <1>2
<1>5. NothingLost(k)'
  <2>1. SUFFICES ASSUME NEW w \in Starts, counted[k][w] # 0
                 PROVE  w + 2 * Window + CollectionLag <= now
    BY <1>1 DEF NothingLost
  <2>2. w <= item[k].windowStart /\ w \in Nat
    BY <1>1, <1>2, <2>1, StartIsMultiple DEF CountersSound, ItemSound
  <2> QED
    BY <1>2, <1>4, <2>2
<1>6. CountersSound'
  BY <1>1, <1>3, <1>5 DEF CountersSound, ItemSound, NothingLost
<1> QED
  BY <1>1, <1>3, <1>4, <1>6

-----------------------------------------------------------------------------
(* The inductive invariant.                                                *)

\* A request writes to the window one of its clocks reads, while it lives.
CallSound(c) ==
  stage[c] # "idle" =>
    /\ call[c] # None
    /\ now \in call[c].beganAt..(call[c].beganAt + Deadline)
    /\ call[c].beganAt < call[c].target + Window
    /\ call[c].target <= now + Skew
    /\ BranchSound(call[c].target, call[c].stored, call[c].branch)
    /\ call[c].branch = "none" <=> stage[c] = "incrementing"
    /\ stage[c] = "transitioning" => call[c].attempt < MaxAttempts

\* So does what an aborted request has left on its way.
WriteSound(w) ==
  /\ now <= w.until
  /\ w.until < w.start + Window + Deadline
  /\ w.start <= now + Skew
  /\ BranchSound(w.start, w.stored, w.branch)

CallsSound == \A c \in Callers : CallSound(c)

WritesSound == \A w \in adrift : WriteSound(w)

\* Every admission was counted, and in the item the answer was read from.
ServedWasCounted == \A k \in Keys, w \in Starts : served[k][w] <= counted[k][w]

ThrottleInv ==
  /\ TypeOK
  /\ CountersSound
  /\ CallsSound
  /\ WritesSound
  /\ ServedWasCounted
  /\ ServedWithinLimit
  /\ BoundaryBurstBelowTwice

RequestsTyped ==
  /\ now \in 0..MaxTime
  /\ stage \in [Callers -> {"idle", "incrementing", "transitioning"}]
  /\ call \in [Callers -> Call \cup {None}]
  /\ verdict \in Verdicts

LEMMA CallFields ==
  ASSUME TypeOK, NEW c \in Callers, call[c] # None
  PROVE  /\ call[c] \in Call
         /\ call[c].key \in Keys
         /\ call[c].beganAt \in Nat
         /\ call[c].target \in Starts
         /\ call[c].target \in Nat
         /\ call[c].elapsed \in 0..(Window - 1)
         /\ call[c].attempt \in 1..MaxAttempts
         /\ call[c].stored \in Counter \cup {None}
         /\ call[c].branch \in Branches
<1>1. call[c] \in Call
  BY DEF TypeOK
<1>2. /\ call[c].key \in Keys
      /\ call[c].beganAt \in 0..MaxTime
      /\ call[c].target \in Starts
      /\ call[c].elapsed \in 0..(Window - 1)
      /\ call[c].attempt \in 1..MaxAttempts
      /\ call[c].stored \in Counter \cup {None}
      /\ call[c].branch \in Branches
  BY <1>1 DEF Call
<1> QED
  BY <1>1, <1>2, StartIsMultiple, RequestsAssumption

LEMMA NowFields ==
  ASSUME TypeOK
  PROVE  now \in Nat /\ now <= MaxTime
  BY RequestsAssumption DEF TypeOK

\* The aim of a live request, and that of a write of a request that ended.
LEMMA CallAims ==
  ASSUME TypeOK, CallsSound, NEW c \in Callers, stage[c] # "idle"
  PROVE  AimSound(call[c].target) /\ call[c].key \in Keys
<1>1. /\ call[c] # None
      /\ now \in call[c].beganAt..(call[c].beganAt + Deadline)
      /\ call[c].beganAt < call[c].target + Window
      /\ call[c].target <= now + Skew
  BY DEF CallsSound, CallSound
<1>2. /\ call[c].beganAt \in Nat /\ call[c].target \in Nat /\ call[c].target \in Starts
      /\ now \in Nat /\ call[c].key \in Keys
  BY <1>1, CallFields, NowFields
<1> QED
  BY <1>1, <1>2, CounterAssumption, RequestsAssumption DEF AimSound

LEMMA WriteAims ==
  ASSUME TypeOK, WritesSound, NEW w \in adrift
  PROVE  /\ AimSound(w.start) /\ w.key \in Keys /\ w.start \in Starts /\ w.start \in Nat
         /\ w.until \in Nat
<1>1. w.start \in Starts /\ w.key \in Keys /\ w.until \in Nat
  BY DEF TypeOK, Write
<1>2. /\ now <= w.until /\ w.until < w.start + Window + Deadline /\ w.start <= now + Skew
  BY DEF WritesSound, WriteSound
<1>3. w.start \in Nat /\ now \in Nat
  BY <1>1, StartIsMultiple, NowFields
<1> QED
  BY <1>1, <1>2, <1>3, CounterAssumption, RequestsAssumption DEF AimSound

-----------------------------------------------------------------------------
(* The requests.                                                           *)

LEMMA DecideKeeps ==
  ASSUME TypeOK, CallsSound, NEW c \in Callers, NEW kind \in Verdicts,
         Decide(c, kind), now' = now
  PROVE  RequestsTyped' /\ CallsSound'
<1>1. RequestsTyped'
  BY DEF TypeOK, RequestsTyped, Decide
<1>2. ASSUME NEW d \in Callers PROVE CallSound(d)'
  <2>1. CASE d = c
    BY <2>1 DEF TypeOK, Decide, CallSound
  <2>2. CASE d # c
    <3>1. stage'[d] = stage[d] /\ call'[d] = call[d]
      BY <2>2 DEF TypeOK, Decide
    <3> QED
      BY <3>1 DEF CallsSound, CallSound
  <2> QED
    BY <2>1, <2>2
<1> QED
  BY <1>1, <1>2 DEF CallsSound

LEMMA GoToKeeps ==
  ASSUME TypeOK, CallsSound, NEW c \in Callers, NEW at \in {"incrementing", "transitioning"},
         NEW locals \in Call,
         GoTo(c, at, locals), now' = now, stage[c] # "idle",
         locals.beganAt = call[c].beganAt,
         locals.target >= call[c].target,
         locals.target <= now + Skew,
         BranchSound(locals.target, locals.stored, locals.branch),
         locals.branch = "none" <=> at = "incrementing",
         at = "transitioning" => locals.attempt < MaxAttempts
  PROVE  RequestsTyped' /\ CallsSound'
<1>1. RequestsTyped'
  BY DEF TypeOK, RequestsTyped, GoTo
<1>2. /\ stage'[c] = at /\ call'[c] = locals
      /\ \A d \in Callers \ {c} : stage'[d] = stage[d] /\ call'[d] = call[d]
  BY DEF TypeOK, GoTo
<1>3. CallSound(c)'
  <2>1. /\ call[c] # None
        /\ now \in call[c].beganAt..(call[c].beganAt + Deadline)
        /\ call[c].beganAt < call[c].target + Window
    BY DEF CallsSound, CallSound
  <2>2. /\ call[c].beganAt \in Nat /\ call[c].target \in Nat /\ Window \in Nat
    BY <2>1, CallFields, CounterAssumption
  <2>3. locals.target \in Nat /\ locals # None
    BY StartIsMultiple, CallAssumption DEF Call
  <2>4. locals.beganAt < locals.target + Window
    BY <2>1, <2>2, <2>3
  <2> QED
    BY <1>2, <2>1, <2>3, <2>4 DEF CallSound, BranchSound
<1>4. \A d \in Callers \ {c} : CallSound(d)'
  BY <1>2 DEF CallsSound, CallSound, BranchSound
<1> QED
  BY <1>1, <1>3, <1>4 DEF CallsSound

LEMMA BeginRequestKeeps ==
  ASSUME TypeOK, CallsSound, NEW c \in Callers, NEW k \in Keys, NEW i \in Instances,
         BeginRequest(c, k, i)
  PROVE  RequestsTyped' /\ CallsSound'
<1> DEFINE reading == ReadingOf(i)
           start == WindowStartOf(reading, Window)
           new == [key |-> k, instance |-> i, beganAt |-> now, start |-> start,
                   elapsed |-> reading - start, target |-> start, attempt |-> 1,
                   stored |-> None, branch |-> "none"]
<1>1. /\ now \in Nat /\ now \in 0..MaxTime /\ Skew \in Nat /\ Window \in Nat \ {0} /\ Deadline \in Nat
      /\ MaxAttempts \in Nat \ {0} /\ MaxTime \in Nat /\ MaxTime + Skew <= Horizon /\ Horizon \in Nat
  BY NowFields, RequestsAssumption, CounterAssumption DEF TypeOK
<1>2. reading \in 0..Horizon /\ now <= reading /\ reading <= now + Skew
  BY <1>1 DEF ReadingOf
<1>3. start \in Starts /\ start \in Nat /\ start <= reading /\ reading < start + Window
  BY <1>2, ReadingInWindow
<1>4. reading - start \in 0..(Window - 1)
  BY <1>1, <1>2, <1>3
<1> HIDE DEF reading, start
<1>5. new \in Call
  BY <1>1, <1>3, <1>4 DEF Call, Branches
<1>6. /\ new # None /\ new.beganAt = now /\ new.target = start /\ new.branch = "none"
  BY <1>5, CallAssumption
<1>7. /\ stage' = [stage EXCEPT ![c] = "incrementing"]
      /\ call' = [call EXCEPT ![c] = new]
      /\ verdict' = "none" /\ now' = now
  BY DEF BeginRequest, reading, start
<1> HIDE DEF new
<1>8. RequestsTyped'
  BY <1>5, <1>7 DEF TypeOK, RequestsTyped, Verdicts
<1>9. /\ stage'[c] = "incrementing" /\ call'[c] = new
      /\ \A d \in Callers \ {c} : stage'[d] = stage[d] /\ call'[d] = call[d]
  BY <1>7 DEF TypeOK
<1>10. CallSound(c)'
  <2>1. now \in now..(now + Deadline) /\ now < start + Window /\ start <= now + Skew
    BY <1>1, <1>2, <1>3
  <2>2. BranchSound(new.target, new.stored, new.branch)
    BY <1>6 DEF BranchSound
  <2> QED
    BY <1>6, <1>7, <1>9, <2>1, <2>2 DEF CallSound, BranchSound
<1>11. \A d \in Callers \ {c} : CallSound(d)'
  BY <1>7, <1>9 DEF CallsSound, CallSound, BranchSound
<1> QED
  BY <1>8, <1>10, <1>11 DEF CallsSound

\* Where an increment's condition fails, the stored window is no more than one
\* ahead: it is never reset.
LEMMA ConflictFields ==
  ASSUME TypeOK, CountersSound, CallsSound, ClocksAgree,
         NEW c \in Callers, IncrementConflicts(c)
  PROVE  /\ call[c] # None /\ call[c] \in Call /\ call[c].key \in Keys
         /\ item[call[c].key] # None /\ item[call[c].key] \in Counter
         /\ item[call[c].key].windowStart \in Starts
         /\ item[call[c].key].windowStart <= now + Skew
         /\ item[call[c].key].windowStart <= call[c].target + Window
         /\ call[c].target \in Starts
<1> DEFINE k == call[c].key
<1>1. stage[c] = "incrementing" /\ ~IncrementAllowed(k, call[c].target)
  BY DEF IncrementConflicts
<1>2. call[c] # None
  BY <1>1 DEF CallsSound, CallSound
<1>3. /\ call[c] \in Call /\ k \in Keys /\ AimSound(call[c].target) /\ call[c].target \in Starts
      /\ call[c].target \in Nat
  BY <1>1, <1>2, CallFields, CallAims
<1>4. item[k] # None
  BY <1>1 DEF IncrementAllowed
<1>5. /\ item[k] \in Counter /\ item[k].windowStart \in Starts /\ item[k].windowStart \in Nat
  BY <1>3, <1>4, ItemFields DEF TypeOK
<1>6. item[k].windowStart <= now + Skew
  BY <1>3, <1>4 DEF CountersSound, ItemSound
<1>7. item[k].windowStart <= call[c].target + Window
  <2>1. SUFFICES ASSUME call[c].target + Window < item[k].windowStart PROVE FALSE
    BY <1>3, <1>5, CounterAssumption
  <2>2. call[c].target + Window <= item[k].windowStart /\ call[c].target < item[k].windowStart
    BY <1>3, <1>5, <2>1, CounterAssumption
  <2>3. PICK a \in Nat : call[c].target = a * Window
    BY <1>3, StartIsMultiple
  <2>4. PICK b \in Nat : item[k].windowStart = b * Window
    BY <1>5, StartIsMultiple
  <2>5. (a + 1) * Window = call[c].target + Window
    BY <2>3, CounterAssumption
  <2>6. call[c].target + 2 * Window <= item[k].windowStart
    BY <2>1, <2>4, <2>5, MultiplesApart, CounterAssumption, <1>3
  <2>7. now < call[c].target + Window + Deadline /\ now \in Nat
    BY <1>3, NowFields DEF AimSound
  <2> QED
    BY <1>3, <1>5, <1>6, <2>6, <2>7, CounterAssumption, RequestsAssumption DEF ClocksAgree
<1> QED
  BY <1>2, <1>3, <1>4, <1>5, <1>6, <1>7

LEMMA AdoptKeeps ==
  ASSUME TypeOK, CountersSound, CallsSound, ClocksAgree, NEW c \in Callers, AdoptStoredWindow(c)
  PROVE  RequestsTyped' /\ CallsSound' /\ call'[c].target > call[c].target
<1> DEFINE k == call[c].key
           locals == [call[c] EXCEPT !.target = item[k].windowStart, !.attempt = @ + 1]
<1>1. /\ IncrementConflicts(c) /\ BranchOf(c) = "adopt-stored-window"
      /\ call[c].attempt < MaxAttempts /\ stage[c] = "incrementing" /\ now' = now
      /\ GoTo(c, "incrementing", locals)
  BY DEF AdoptStoredWindow, IncrementConflicts
<1>2. /\ call[c] # None /\ call[c] \in Call /\ k \in Keys
      /\ item[k] # None /\ item[k] \in Counter
      /\ item[k].windowStart \in Starts /\ item[k].windowStart <= now + Skew
      /\ call[c].target \in Starts
  BY <1>1, ConflictFields
<1>3. call[c].attempt \in Nat /\ call[c].attempt + 1 \in 1..MaxAttempts
      /\ call[c].target \in Nat /\ item[k].windowStart \in Nat
  BY <1>1, <1>2, CallFields, RequestsAssumption, StartIsMultiple
<1>4. locals \in Call
  BY <1>2, <1>3 DEF Call
<1>5. /\ locals.target = item[k].windowStart /\ locals.beganAt = call[c].beganAt
      /\ locals.branch = call[c].branch /\ locals.stored = call[c].stored
  BY <1>2 DEF Call
<1>6. item[k].windowStart > call[c].target
  <2>1. \/ item[k].windowStart = call[c].target \/ item[k].windowStart = call[c].target + Window
    BY <1>1, <1>2, BranchIsExact DEF BranchOf
  <2>2. ~(item[k].windowStart = call[c].target /\ item[k].current >= Ceiling)
    BY <1>1, <1>2, BranchIsExact DEF BranchOf
  <2>3. item[k].windowStart = call[c].target => item[k].current >= Ceiling
    BY <1>1, <1>2, CounterAssumption DEF IncrementConflicts, IncrementAllowed, Counter
  <2> QED
    BY <1>3, <2>1, <2>2, <2>3, CounterAssumption
<1>7. call[c].branch = "none"
  BY <1>1 DEF CallsSound, CallSound
<1>8. BranchSound(locals.target, locals.stored, locals.branch)
  BY <1>5, <1>7 DEF BranchSound
<1>9. call'[c] = locals
  BY <1>1 DEF GoTo, TypeOK
<1> HIDE DEF locals
<1> QED
  BY <1>1, <1>2, <1>3, <1>4, <1>5, <1>6, <1>7, <1>8, <1>9, GoToKeeps

LEMMA ChooseTransitionKeeps ==
  ASSUME TypeOK, CountersSound, CallsSound, ClocksAgree, NEW c \in Callers, ChooseTransition(c)
  PROVE  RequestsTyped' /\ CallsSound'
<1> DEFINE k == call[c].key
           locals == [call[c] EXCEPT !.stored = item[k], !.branch = BranchOf(c)]
<1>1. /\ IncrementConflicts(c) /\ stage[c] = "incrementing" /\ now' = now
      /\ BranchOf(c) \in {"promote-previous", "promote-zero", "reset-item"}
      /\ call[c].attempt < MaxAttempts
      /\ GoTo(c, "transitioning", locals)
  BY DEF ChooseTransition, IncrementConflicts
<1>2. /\ call[c] # None /\ call[c] \in Call /\ k \in Keys
      /\ item[k] # None /\ item[k] \in Counter
      /\ item[k].windowStart \in Starts
      /\ item[k].windowStart <= call[c].target + Window
      /\ call[c].target \in Starts
  BY <1>1, ConflictFields
<1>3. /\ call[c].target \in Nat /\ item[k].windowStart \in Nat /\ Window \in Nat \ {0}
      /\ call[c].target <= now + Skew /\ call[c].target >= call[c].target
  BY <1>1, <1>2, StartIsMultiple, CounterAssumption DEF CallsSound, CallSound
<1>4. \/ BranchOf(c) = "promote-previous" /\ call[c].target = item[k].windowStart + Window
      \/ BranchOf(c) = "promote-zero" /\ call[c].target >= item[k].windowStart + 2 * Window
  <2>1. /\ BranchOf(c) = "promote-zero" <=> call[c].target >= item[k].windowStart + 2 * Window
        /\ BranchOf(c) = "promote-previous" <=> call[c].target = item[k].windowStart + Window
        /\ BranchOf(c) = "reset-item" <=> item[k].windowStart >= call[c].target + 2 * Window
    BY <1>2, BranchIsExact DEF BranchOf
  <2>2. BranchOf(c) # "reset-item"
    BY <1>2, <1>3, <2>1
  <2> QED
    BY <1>1, <2>1, <2>2
<1>5. item[k].windowStart < call[c].target
  BY <1>3, <1>4
<1>6. BranchOf(c) \in Branches /\ BranchOf(c) # "none"
  BY <1>4 DEF Branches
<1>7. locals \in Call
  BY <1>2, <1>6 DEF Call
<1>8. /\ locals.target = call[c].target /\ locals.beganAt = call[c].beganAt
      /\ locals.branch = BranchOf(c) /\ locals.stored = item[k]
      /\ locals.attempt = call[c].attempt
  BY <1>2 DEF Call
<1>9. BranchSound(locals.target, locals.stored, locals.branch)
  BY <1>2, <1>4, <1>5, <1>8 DEF BranchSound
<1> HIDE DEF locals
<1> QED
  BY <1>1, <1>3, <1>6, <1>7, <1>8, <1>9, GoToKeeps

LEMMA RetryKeeps ==
  ASSUME TypeOK, CountersSound, CallsSound, NEW c \in Callers, ApplyWindowTransition(c)
  PROVE  RequestsTyped' /\ CallsSound'
<1> DEFINE locals == [call[c] EXCEPT !.stored = None, !.branch = "none", !.attempt = @ + 1]
<1>1. /\ stage[c] = "transitioning" /\ now' = now /\ GoTo(c, "incrementing", locals)
  BY DEF ApplyWindowTransition, Retry
<1>2. call[c] # None /\ call[c].target <= now + Skew /\ call[c].attempt < MaxAttempts
  BY <1>1 DEF CallsSound, CallSound
<1>3. /\ call[c] \in Call /\ call[c].attempt + 1 \in 1..MaxAttempts
      /\ call[c].target >= call[c].target
  BY <1>2, CallFields, RequestsAssumption
<1>4. locals \in Call
  BY <1>3 DEF Call, Branches
<1>5. /\ locals.target = call[c].target /\ locals.beganAt = call[c].beganAt
      /\ locals.branch = "none"
  BY <1>3 DEF Call
<1>6. BranchSound(locals.target, locals.stored, locals.branch)
  BY <1>5 DEF BranchSound
<1> HIDE DEF locals
<1> QED
  BY <1>1, <1>2, <1>3, <1>4, <1>5, <1>6, GoToKeeps

LEMMA StoreFailsKeeps ==
  ASSUME TypeOK, CallsSound, WritesSound, NEW c \in Callers, StoreFails(c)
  PROVE  RequestsTyped' /\ CallsSound' /\ adrift' \subseteq Write /\ WritesSound'
<1> DEFINE new == [key |-> call[c].key, start |-> call[c].target, stored |-> call[c].stored,
                   branch |-> call[c].branch, until |-> call[c].beganAt + Deadline]
<1>1. /\ stage[c] # "idle" /\ Decide(c, "degraded") /\ now' = now
      /\ adrift' \subseteq adrift \cup {new}
  BY DEF StoreFails
<1>2. RequestsTyped' /\ CallsSound'
  BY <1>1, DecideKeeps DEF Verdicts
<1>3. /\ call[c] # None
      /\ now \in call[c].beganAt..(call[c].beganAt + Deadline)
      /\ call[c].beganAt < call[c].target + Window
      /\ call[c].target <= now + Skew
      /\ BranchSound(call[c].target, call[c].stored, call[c].branch)
  BY <1>1 DEF CallsSound, CallSound
<1>4. /\ call[c].key \in Keys /\ call[c].beganAt \in Nat /\ call[c].target \in Starts
      /\ call[c].target \in Nat /\ call[c].stored \in Counter \cup {None}
      /\ call[c].branch \in Branches /\ Deadline \in Nat /\ Window \in Nat
  BY <1>3, CallFields, RequestsAssumption, CounterAssumption
<1>5. new \in Write
  BY <1>4 DEF Write
<1>6. ASSUME NEW w, w = new PROVE WriteSound(w)'
  BY <1>1, <1>3, <1>4, <1>6 DEF WriteSound, BranchSound
<1>7. \A w \in adrift : w \in Write /\ WriteSound(w)'
  BY <1>1 DEF TypeOK, WritesSound, WriteSound, BranchSound
<1> HIDE DEF new
<1>8. ASSUME NEW w \in adrift' PROVE w \in Write /\ WriteSound(w)'
  BY <1>1, <1>5, <1>6, <1>7, <1>8
<1> QED
  BY <1>2, <1>8 DEF WritesSound

LEMMA TickKeeps ==
  ASSUME TypeOK, CountersSound, CallsSound, WritesSound, Tick
  PROVE  /\ RequestsTyped' /\ CallsSound' /\ adrift' \subseteq Write /\ WritesSound'
         /\ CountersSound'
<1>1. /\ now \in Nat /\ now' = now + 1 /\ now < MaxTime /\ MaxTime \in Nat /\ Skew \in Nat
      /\ Deadline \in Nat /\ CollectionLag \in Nat /\ Window \in Nat
      /\ UNCHANGED <<item, counted, stage, call, adrift, served>> /\ verdict' = "none"
  BY NowFields, RequestsAssumption, CounterAssumption DEF Tick
<1>2. RequestsTyped'
  BY <1>1 DEF TypeOK, RequestsTyped, Verdicts
<1>3. ASSUME NEW c \in Callers PROVE CallSound(c)'
  <2>1. SUFFICES ASSUME stage[c] # "idle"
                 PROVE  /\ now + 1 \in call[c].beganAt..(call[c].beganAt + Deadline)
                        /\ call[c].target <= (now + 1) + Skew
    BY <1>1 DEF CallsSound, CallSound, BranchSound
  <2>2. /\ call[c] # None /\ now < call[c].beganAt + Deadline
        /\ now \in call[c].beganAt..(call[c].beganAt + Deadline)
        /\ call[c].target <= now + Skew
    BY <2>1 DEF Tick, InFlight, CallsSound, CallSound
  <2>3. call[c].beganAt \in Nat /\ call[c].target \in Nat
    BY <2>2, CallFields
  <2> QED
    BY <1>1, <2>2, <2>3
<1>4. ASSUME NEW w \in adrift PROVE WriteSound(w)'
  <2>1. /\ w.start \in Nat /\ w.until \in Nat /\ WriteSound(w) /\ now < w.until
    BY WriteAims DEF WritesSound, Tick
  <2> QED
    BY <1>1, <2>1 DEF WriteSound, BranchSound
<1>5. ASSUME NEW k \in Keys
      PROVE  (item[k] # None => ItemSound(k))' /\ (item[k] = None => NothingLost(k))'
  <2>1. CASE item[k] # None
    <3>1. ItemSound(k) /\ item[k].windowStart \in Nat
      BY <2>1, ItemFields DEF CountersSound, TypeOK
    <3>2. item[k].windowStart <= (now + 1) + Skew
      BY <1>1, <3>1 DEF ItemSound
    <3> QED
      BY <1>1, <2>1, <3>1, <3>2 DEF ItemSound
  <2>2. CASE item[k] = None
    <3>1. \A w \in Starts : counted[k][w] # 0 => w + 2 * Window + CollectionLag <= now
      BY <2>2 DEF CountersSound, NothingLost
    <3>2. \A w \in Starts : w \in Nat
      BY StartIsMultiple
    <3>3. \A w \in Starts : counted[k][w] # 0 => w + 2 * Window + CollectionLag <= now + 1
      BY <1>1, <3>1, <3>2
    <3> QED
      BY <1>1, <2>2, <3>3 DEF NothingLost
  <2> QED
    BY <2>1, <2>2
<1> QED
  BY <1>1, <1>2, <1>3, <1>4, <1>5 DEF CallsSound, WritesSound, CountersSound, TypeOK

\* The steps of a request that leave what is adrift alone.
LEMMA AnswerKeeps ==
  ASSUME TypeOK, CountersSound, CallsSound, ClocksAgree, NEW c \in Callers,
         StoreAnswers(c) \/ BudgetIsSpent(c) \/ FailOpen(c)
  PROVE  RequestsTyped' /\ CallsSound'
<1>1. CASE IncrementCounts(c)
  BY <1>1, DecideKeeps DEF IncrementCounts, Verdicts
<1>2. CASE FindSaturated(c)
  BY <1>2, DecideKeeps DEF FindSaturated, Verdicts
<1>3. CASE BudgetIsSpent(c)
  BY <1>3, DecideKeeps DEF BudgetIsSpent, Verdicts
<1>4. CASE FailOpen(c)
  BY <1>4, DecideKeeps DEF FailOpen, Verdicts
<1> QED
  BY <1>1, <1>2, <1>3, <1>4, AdoptKeeps, ChooseTransitionKeeps, RetryKeeps DEF StoreAnswers

LEMMA RequestsKeep ==
  ASSUME TypeOK, CountersSound, CallsSound, WritesSound, ClocksAgree, [Next]_vars
  PROVE  RequestsTyped' /\ CallsSound' /\ adrift' \subseteq Write /\ WritesSound'
<1> DEFINE Goal == RequestsTyped' /\ CallsSound' /\ adrift' \subseteq Write /\ WritesSound'
<1>1. ASSUME adrift' \subseteq adrift, now' = now PROVE adrift' \subseteq Write /\ WritesSound'
  BY <1>1 DEF TypeOK, WritesSound, WriteSound, BranchSound
<1>2. ASSUME NEW c \in Callers, NEW k \in Keys, NEW i \in Instances, BeginRequest(c, k, i)
      PROVE  Goal
  BY <1>1, <1>2, BeginRequestKeeps DEF BeginRequest
<1>3. ASSUME NEW c \in Callers, StoreAnswers(c) \/ BudgetIsSpent(c) \/ FailOpen(c) PROVE Goal
  <2>1. adrift' = adrift /\ now' = now
    BY <1>3 DEF StoreAnswers, IncrementCounts, FindSaturated, AdoptStoredWindow, ChooseTransition,
       ApplyWindowTransition, BudgetIsSpent, FailOpen
  <2> QED
    BY <1>1, <1>3, <2>1, AnswerKeeps
<1>4. ASSUME NEW c \in Callers, StoreFails(c) PROVE Goal
  BY <1>4, StoreFailsKeeps
<1>5. ASSUME UNCHANGED <<now, stage, call, verdict>> PROVE RequestsTyped' /\ CallsSound'
  BY <1>5 DEF TypeOK, RequestsTyped, CallsSound, CallSound, BranchSound
<1>6. CASE AdriftSettles
  <2>1. adrift' \subseteq adrift /\ UNCHANGED <<now, stage, call, verdict>>
    BY <1>6 DEF AdriftSettles
  <2> QED
    BY <1>1, <1>5, <2>1 DEF TypeOK, RequestsTyped
<1>7. ASSUME CollectExpired \/ UNCHANGED vars PROVE Goal
  <2>1. adrift' = adrift /\ UNCHANGED <<now, stage, call>>
    BY <1>7 DEF CollectExpired, vars
  <2>2. verdict' = verdict
    BY <1>7 DEF CollectExpired, vars
  <2> QED
    BY <1>1, <1>5, <2>1, <2>2
<1>8. CASE Tick
  BY <1>8, TickKeeps
<1> QED
  BY <1>2, <1>3, <1>4, <1>6, <1>7, <1>8 DEF Next, Degrades, Environment

-----------------------------------------------------------------------------
(* The counters.                                                           *)

\* What a step may do to the counters: nothing, count one request in a sound
\* window, move one item forward, or collect one that expired.
CounterStep ==
  \/ UNCHANGED <<item, counted>>
  \/ \E k \in Keys, start \in Starts : AimSound(start) /\ Increment(k, start)
  \/ \E k \in Keys, start \in Starts, stored \in Counter, branch \in Branches :
       /\ AimSound(start) /\ branch # "none" /\ BranchSound(start, stored, branch)
       /\ Transition(k, branch, stored, start)
  \/ \E k \in Keys : CollectCounter(k, now - CollectionLag)

LEMMA CounterSteps ==
  ASSUME TypeOK, CallsSound, WritesSound, [Next]_vars
  PROVE  \/ now' = now /\ CounterStep
         \/ Tick
<1>1. CASE UNCHANGED vars
  BY <1>1 DEF vars, CounterStep
<1>2. ASSUME NEW c \in Callers, NEW k \in Keys, NEW i \in Instances, BeginRequest(c, k, i)
      PROVE  now' = now /\ CounterStep
  BY <1>2 DEF BeginRequest, CounterStep
<1>3. ASSUME NEW c \in Callers,
             FindSaturated(c) \/ AdoptStoredWindow(c) \/ ChooseTransition(c)
               \/ BudgetIsSpent(c) \/ StoreFails(c)
      PROVE  now' = now /\ CounterStep
  BY <1>3 DEF FindSaturated, AdoptStoredWindow, ChooseTransition, BudgetIsSpent, StoreFails,
     CounterStep
<1>4. ASSUME NEW c \in Callers, IncrementCounts(c) \/ FailOpen(c)
      PROVE  now' = now /\ CounterStep
  <2>1. stage[c] # "idle" /\ now' = now
    BY <1>4 DEF IncrementCounts, FailOpen
  <2>2. AimSound(call[c].target) /\ call[c].key \in Keys /\ call[c].target \in Starts
    BY <2>1, CallAims DEF AimSound
  <2>3. Increment(call[c].key, call[c].target) \/ UNCHANGED <<item, counted>>
    BY <1>4 DEF IncrementCounts, FailOpen
  <2> QED
    BY <2>1, <2>2, <2>3 DEF CounterStep
<1>5. ASSUME NEW c \in Callers, ApplyWindowTransition(c)
      PROVE  now' = now /\ CounterStep
  <2>1. stage[c] = "transitioning" /\ now' = now
    BY <1>5 DEF ApplyWindowTransition
  <2>2. /\ AimSound(call[c].target) /\ call[c].key \in Keys /\ call[c].target \in Starts
    BY <2>1, CallAims DEF AimSound
  <2>3. /\ call[c] # None /\ call[c].branch # "none"
        /\ BranchSound(call[c].target, call[c].stored, call[c].branch)
    BY <2>1 DEF CallsSound, CallSound
  <2>4. call[c].branch \in Branches /\ call[c].stored \in Counter
    BY <2>3, CallFields DEF BranchSound
  <2>5. \/ Transition(call[c].key, call[c].branch, call[c].stored, call[c].target)
        \/ UNCHANGED <<item, counted>>
    BY <1>5 DEF ApplyWindowTransition
  <2> QED
    BY <2>1, <2>2, <2>3, <2>4, <2>5 DEF CounterStep
<1>6. ASSUME AdriftSettles PROVE now' = now /\ CounterStep
  <2>1. PICK w \in adrift :
          \/ w.branch = "none" /\ Increment(w.key, w.start)
          \/ w.branch # "none" /\ Transition(w.key, w.branch, w.stored, w.start)
          \/ UNCHANGED <<item, counted>>
    BY <1>6 DEF AdriftSettles
  <2>2. AimSound(w.start) /\ w.key \in Keys /\ w.start \in Starts
    BY WriteAims
  <2>3. w.branch \in Branches /\ BranchSound(w.start, w.stored, w.branch)
    BY DEF TypeOK, Write, WritesSound, WriteSound
  <2>4. w.branch # "none" => w.stored \in Counter
    BY <2>3 DEF BranchSound
  <2>5. now' = now
    BY <1>6 DEF AdriftSettles
  <2> QED
    BY <2>1, <2>2, <2>3, <2>4, <2>5 DEF CounterStep
<1>7. ASSUME CollectExpired PROVE now' = now /\ CounterStep
  BY <1>7 DEF CollectExpired, CounterStep
<1> QED
  BY <1>1, <1>2, <1>3, <1>4, <1>5, <1>6, <1>7 DEF Next, StoreAnswers, Degrades, Environment

\* No step takes back an increment that landed, or moves a stored window back.
LEMMA CounterStepKeeps ==
  ASSUME CounterTypeOK, CountersSound, ClocksAgree, CollectedAfterRequestsEnd,
         now \in Nat, now' = now, CounterStep
  PROVE  /\ CounterTypeOK'
         /\ CountersSound'
         /\ \A k \in Keys : item[k] # None /\ item'[k] # None
                             => item'[k].windowStart >= item[k].windowStart
         /\ \A k \in Keys, w \in Starts : counted'[k][w] >= counted[k][w]
<1> DEFINE Goal == /\ CounterTypeOK'
                   /\ CountersSound'
                   /\ \A k \in Keys : item[k] # None /\ item'[k] # None
                                       => item'[k].windowStart >= item[k].windowStart
                   /\ \A k \in Keys, w \in Starts : counted'[k][w] >= counted[k][w]
<1>1. /\ \A k \in Keys : counted[k] \in [Starts -> Nat]
      /\ \A k \in Keys : item[k] # None => item[k].windowStart \in Nat
  BY ItemFields
<1>2. \A k \in Keys, w \in Starts : counted[k][w] >= counted[k][w]
  BY <1>1
<1>3. \A k \in Keys : item[k] # None => item[k].windowStart >= item[k].windowStart
  BY <1>1
<1>4. CASE UNCHANGED <<item, counted>>
  BY <1>2, <1>3, <1>4 DEF CounterTypeOK, CountersSound, ItemSound, NothingLost
<1>5. ASSUME NEW k \in Keys, NEW start \in Starts, AimSound(start), Increment(k, start)
      PROVE  Goal
  <2>1. /\ CounterTypeOK' /\ CountersSound'
        /\ item'[k].windowStart = start
        /\ counted'[k][start] = counted[k][start] + 1
        /\ \A w \in Starts \ {start} : counted'[k][w] = counted[k][w]
        /\ \A j \in Keys \ {k} : item'[j] = item[j] /\ counted'[j] = counted[j]
    BY <1>5, IncrementKeeps
  <2>2. item[k] # None => item[k].windowStart = start
    BY <1>5 DEF Increment, IncrementAllowed
  <2>3. \A w \in Starts : counted'[k][w] >= counted[k][w]
    BY <1>1, <2>1
  <2> QED
    BY <1>2, <1>3, <2>1, <2>2, <2>3
<1>6. ASSUME NEW k \in Keys, NEW start \in Starts, NEW stored \in Counter, NEW branch \in Branches,
             AimSound(start), branch # "none", BranchSound(start, stored, branch),
             Transition(k, branch, stored, start)
      PROVE  Goal
  <2>1. /\ CounterTypeOK' /\ CountersSound'
        /\ item[k] # None /\ item[k].windowStart < start /\ item'[k].windowStart = start
        /\ \A j \in Keys \ {k} : item'[j] = item[j]
        /\ counted' = counted
    BY <1>6, TransitionKeeps
  <2>2. item'[k].windowStart >= item[k].windowStart
    BY <1>1, <2>1, StartIsMultiple
  <2> QED
    BY <1>2, <1>3, <2>1, <2>2
<1>7. ASSUME NEW k \in Keys, CollectCounter(k, now - CollectionLag) PROVE Goal
  <2>1. /\ CounterTypeOK' /\ CountersSound'
        /\ item'[k] = None
        /\ \A j \in Keys \ {k} : item'[j] = item[j]
        /\ counted' = counted
    BY <1>7, CollectKeeps
  <2> QED
    BY <1>2, <1>3, <2>1
<1> QED
  BY <1>4, <1>5, <1>6, <1>7 DEF CounterStep

LEMMA CountersKeep ==
  ASSUME TypeOK, CountersSound, CallsSound, WritesSound, ClocksAgree, CollectedAfterRequestsEnd,
         [Next]_vars
  PROVE  /\ CounterTypeOK'
         /\ CountersSound'
         /\ \A k \in Keys : item[k] # None /\ item'[k] # None
                             => item'[k].windowStart >= item[k].windowStart
         /\ \A k \in Keys, w \in Starts : counted'[k][w] >= counted[k][w]
<1>1. CASE now' = now /\ CounterStep
  BY <1>1, CounterStepKeeps, NowFields DEF TypeOK
<1>2. CASE Tick
  <2>1. CountersSound' /\ UNCHANGED <<item, counted>>
    BY <1>2, TickKeeps DEF Tick
  <2>2. /\ \A k \in Keys : counted[k] \in [Starts -> Nat]
        /\ \A k \in Keys : item[k] # None => item[k].windowStart \in Nat
    BY ItemFields DEF TypeOK
  <2>3. /\ \A k \in Keys, w \in Starts : counted[k][w] >= counted[k][w]
        /\ \A k \in Keys : item[k] # None => item[k].windowStart >= item[k].windowStart
    BY <2>2
  <2> QED
    BY <2>1, <2>3 DEF TypeOK, CounterTypeOK
<1> QED
  BY <1>1, <1>2, CounterSteps

-----------------------------------------------------------------------------
(* The admissions.                                                         *)

\* An admission read a count within the limit; below it, if the window before
\* counted any request.
LEMMA AdmissionWeighs ==
  ASSUME NEW counter \in Counter, NEW elapsed \in 0..(Window - 1),
         Admits(EstimateRequestCount(counter.previous, counter.current, elapsed, Window, Ceiling),
                Limit, Window)
  PROVE  /\ counter.current <= Limit
         /\ counter.previous > 0 => counter.current < Limit
<1> DEFINE previous == counter.previous
           current == counter.current
           left == Window - elapsed
<1>1. /\ Window \in Nat \ {0} /\ Ceiling \in Nat /\ Limit \in Nat
      /\ previous \in 0..Ceiling /\ current \in 0..Ceiling
      /\ left \in Nat \ {0}
  BY CounterAssumption, RequestsAssumption DEF Counter
<1> HIDE DEF previous, current, left
<1>2. previous * left + current * Window <= Limit * Window
  BY <1>1 DEF Admits, EstimateRequestCount, Least, previous, current, left
<1>3. previous * left \in Nat /\ (previous > 0 => previous * left > 0)
  BY <1>1
<1>4. current * Window <= Limit * Window
  BY <1>1, <1>2, <1>3
<1>5. current <= Limit
  <2>1. SUFFICES ASSUME Limit < current PROVE FALSE
    BY <1>1
  <2>2. Limit * Window < current * Window
    BY <1>1, <2>1
  <2> QED
    BY <1>1, <1>4, <2>2
<1>6. previous > 0 => current # Limit
  BY <1>1, <1>2, <1>3
<1> QED
  BY <1>1, <1>5, <1>6 DEF previous, current

\* Only an increment that is weighed and admits changes what was served.
LEMMA ServedSteps ==
  ASSUME [Next]_vars
  PROVE  \/ served' = served
         \/ \E c \in Callers :
              /\ IncrementCounts(c)
              /\ AdmittedBy(Incremented(call[c].key, call[c].target), c)
              /\ served' = [served EXCEPT ![call[c].key][call[c].target] = @ + 1]
<1>1. ASSUME NEW c \in Callers, IncrementCounts(c)
      PROVE  \/ served' = served
             \/ /\ AdmittedBy(Incremented(call[c].key, call[c].target), c)
                /\ served' = [served EXCEPT ![call[c].key][call[c].target] = @ + 1]
  BY <1>1 DEF IncrementCounts
<1>2. ASSUME NEW c \in Callers,
             \/ \E k \in Keys, i \in Instances : BeginRequest(c, k, i)
             \/ FindSaturated(c) \/ AdoptStoredWindow(c) \/ ChooseTransition(c)
             \/ ApplyWindowTransition(c) \/ BudgetIsSpent(c) \/ StoreFails(c) \/ FailOpen(c)
      PROVE  served' = served
  BY <1>2 DEF BeginRequest, FindSaturated, AdoptStoredWindow, ChooseTransition,
     ApplyWindowTransition, BudgetIsSpent, StoreFails, FailOpen
<1>3. ASSUME Environment \/ UNCHANGED vars PROVE served' = served
  BY <1>3 DEF Environment, AdriftSettles, CollectExpired, Tick, vars
<1> QED
  BY <1>1, <1>2, <1>3 DEF Next, StoreAnswers, Degrades

ServedTyped == served \in [Keys -> [Starts -> Nat]]

ServedSound ==
  /\ ServedTyped
  /\ ServedWasCounted
  /\ ServedWithinLimit
  /\ BoundaryBurstBelowTwice

LEMMA ServedKeeps ==
  ASSUME TypeOK, CountersSound, CallsSound, WritesSound, ServedWasCounted, ServedWithinLimit,
         BoundaryBurstBelowTwice, ClocksAgree, CollectedAfterRequestsEnd, [Next]_vars
  PROVE  ServedSound'
<1>1. /\ \A k \in Keys : counted[k] \in [Starts -> Nat] /\ served[k] \in [Starts -> Nat]
      /\ \A k \in Keys : counted'[k] \in [Starts -> Nat]
      /\ served \in [Keys -> [Starts -> Nat]]
      /\ Limit \in Nat \ {0} /\ Window \in Nat \ {0}
      /\ \A k \in Keys, w \in Starts : counted'[k][w] >= counted[k][w]
      /\ CounterTypeOK /\ CounterTypeOK'
  BY CountersKeep, RequestsAssumption, CounterAssumption DEF TypeOK, CounterTypeOK
<1>2. \A k \in Keys, w \in Starts : served[k][w] <= counted'[k][w]
  BY <1>1 DEF ServedWasCounted
<1>3. CASE served' = served
  BY <1>1, <1>2, <1>3 DEF ServedSound, ServedTyped, ServedWasCounted, ServedWithinLimit,
     BoundaryBurstBelowTwice
<1>4. ASSUME NEW c \in Callers, IncrementCounts(c),
             AdmittedBy(Incremented(call[c].key, call[c].target), c),
             served' = [served EXCEPT ![call[c].key][call[c].target] = @ + 1]
      PROVE  ServedSound'
  <2> DEFINE k == call[c].key
             start == call[c].target
             counter == Incremented(k, start)
  <2>1. stage[c] = "incrementing" /\ Increment(k, start) /\ now' = now
    BY <1>4 DEF IncrementCounts
  <2>2. /\ AimSound(start) /\ k \in Keys /\ start \in Starts /\ start \in Nat
    BY <2>1, CallAims, StartIsMultiple DEF AimSound
  <2>3. /\ CountersSound'
        /\ item'[k] = counter
        /\ item'[k].windowStart = start
        /\ item'[k].current = counted'[k][start]
        /\ counted'[k][start] = counted[k][start] + 1
    BY <2>1, <2>2, IncrementKeeps, NowFields DEF TypeOK
  <2>4. counter # None
    BY <1>1, <2>1, <2>2, <2>3, CounterAssumption DEF Incremented, Counter, Increment,
       IncrementAllowed, CounterTypeOK
  <2>5. counter \in Counter
    BY <1>1, <2>2, <2>3, <2>4 DEF CounterTypeOK
  <2>6. call[c].elapsed \in 0..(Window - 1)
    <3>1. call[c] # None
      BY <2>1 DEF CallsSound, CallSound
    <3> QED
      BY <3>1, CallFields
  <2>7. /\ counter.current <= Limit
        /\ counter.previous > 0 => counter.current < Limit
    BY <1>4, <2>5, <2>6, AdmissionWeighs DEF AdmittedBy
  <2>8. /\ \A w \in Starts : w > start => counted'[k][w] = 0
        /\ counter.previous = IF start - Window \in Starts THEN counted'[k][start - Window] ELSE 0
    BY <2>2, <2>3, <2>4 DEF CountersSound, ItemSound
  <2> HIDE DEF counter
  <2>9. counter.current \in Nat /\ counter.previous \in Nat
    BY <2>5, CounterAssumption DEF Counter
  <2>10. /\ served'[k] = [served[k] EXCEPT ![start] = served[k][start] + 1]
         /\ \A j \in Keys \ {k} : served'[j] = served[j]
         /\ ServedTyped'
    <3>1. served' = [served EXCEPT ![k] = [served[k] EXCEPT ![start] = served[k][start] + 1]]
      BY <1>4
    <3>2. /\ served[k] \in [Starts -> Nat]
          /\ [served[k] EXCEPT ![start] = served[k][start] + 1] \in [Starts -> Nat]
      BY <1>1, <2>2
    <3> HIDE DEF k, start
    <3> QED
      BY <1>1, <2>2, <3>1, <3>2 DEF ServedTyped
  <2> HIDE DEF k, start
  <2>11. /\ served'[k][start] = served[k][start] + 1
         /\ \A w \in Starts \ {start} : served'[k][w] = served[k][w]
         /\ served'[k] \in [Starts -> Nat]
    BY <1>1, <2>2, <2>10
  <2>12. /\ served'[k][start] <= counted'[k][start]
         /\ counted'[k][start] = counter.current
    BY <1>1, <2>2, <2>3, <2>11 DEF ServedWasCounted
  <2>13. ServedWasCounted'
    BY <1>2, <2>10, <2>11, <2>12 DEF ServedWasCounted
  <2>14. served'[k][start] <= Limit
    BY <1>1, <2>2, <2>7, <2>9, <2>11, <2>12
  <2>15. ServedWithinLimit'
    BY <2>10, <2>11, <2>14 DEF ServedWithinLimit
  <2>16. ASSUME NEW j \in Keys, NEW w \in Starts, w + Window \in Starts
         PROVE  served'[j][w] + served'[j][w + Window] < 2 * Limit
    <3>1. CASE j # k
      BY <2>10, <2>16, <3>1 DEF BoundaryBurstBelowTwice
    <3>2. CASE j = k /\ w = start
      <4>1. counted'[k][start + Window] = 0
        BY <1>1, <2>2, <2>8, <2>16, <3>2
      <4>2. served'[k][start + Window] <= 0
        BY <2>2, <2>13, <2>16, <3>2, <4>1 DEF ServedWasCounted
      <4> QED
        BY <1>1, <2>2, <2>11, <2>14, <2>16, <3>2, <4>2
    <3>3. CASE j = k /\ w + Window = start
      <4>1. w \in Nat /\ start - Window = w
        BY <1>1, <2>16, <3>3, StartIsMultiple
      <4>2. counter.previous = counted'[k][w] /\ served'[k][w] <= counted'[k][w]
        BY <2>2, <2>8, <2>13, <2>16, <4>1 DEF ServedWasCounted
      <4>3. served'[k][w] <= Limit
        BY <2>2, <2>15, <2>16 DEF ServedWithinLimit
      <4>4. /\ served'[k][w] \in Nat /\ served'[k][start] \in Nat
            /\ counted'[k][w] \in Nat
        BY <1>1, <2>2, <2>11, <2>16
      <4>5. served'[k][w] = 0 => served'[k][w] + served'[k][start] < 2 * Limit
        <5>1. Limit \in Nat \ {0}
          BY <1>1
        <5> QED
          BY <2>14, <4>4, <5>1
      <4>6. served'[k][w] > 0 => served'[k][start] < Limit
        <5>1. Limit \in Nat /\ served'[k][start] <= counter.current
          BY <1>1, <2>12
        <5>2. served'[k][w] > 0 => counter.previous > 0
          BY <2>9, <4>2, <4>4
        <5> QED
          BY <2>7, <2>9, <4>4, <5>1, <5>2
      <4> QED
        BY <1>1, <3>3, <4>3, <4>4, <4>5, <4>6
    <3>4. CASE j = k /\ w # start /\ w + Window # start
      BY <2>11, <2>16, <3>4, <2>2 DEF BoundaryBurstBelowTwice
    <3> QED
      BY <3>1, <3>2, <3>3, <3>4
  <2> QED
    BY <2>10, <2>13, <2>15, <2>16 DEF ServedSound, BoundaryBurstBelowTwice
<1> QED
  BY <1>3, <1>4, ServedSteps

-----------------------------------------------------------------------------
(* Types, which need no hypothesis: whatever the clocks, the deadline and  *)
(* the collection of expired items.                                        *)

CallsTyped ==
  \A c \in Callers :
    /\ stage[c] # "idle" => call[c] # None
    /\ stage[c] = "transitioning" => call[c].attempt < MaxAttempts

\* The statements keep every count under the ceiling.
LEMMA StatementsTyped ==
  ASSUME CounterTypeOK, NEW k \in Keys, NEW start \in Starts,
         \/ Increment(k, start)
         \/ \E branch, stored : Transition(k, branch, stored, start)
  PROVE  CounterTypeOK'
<1>1. item[k] \in Counter \cup {None} /\ counted[k] \in [Starts -> Nat]
  BY DEF CounterTypeOK
<1>2. CASE Increment(k, start)
  <2>1. Incremented(k, start) \in Counter
    BY <1>1, <1>2, CounterAssumption DEF Increment, IncrementAllowed, Incremented, Counter
  <2>2. counted' = [counted EXCEPT ![k] = [counted[k] EXCEPT ![start] = counted[k][start] + 1]]
    BY <1>2 DEF Increment
  <2>3. [counted[k] EXCEPT ![start] = counted[k][start] + 1] \in [Starts -> Nat]
    BY <1>1
  <2> QED
    BY <1>2, <2>1, <2>2, <2>3 DEF Increment, CounterTypeOK
<1>3. ASSUME NEW branch, NEW stored, Transition(k, branch, stored, start) PROVE CounterTypeOK'
  <2>1. item[k] \in Counter
    BY <1>1, <1>3 DEF Transition, TransitionAllowed
  <2>2. Transitioned(k, branch, start) \in Counter
    BY <2>1, CounterAssumption DEF Transitioned, Counter
  <2> QED
    BY <1>3, <2>2 DEF Transition, CounterTypeOK
<1> QED
  BY <1>2, <1>3

\* Where an increment's condition fails there is an item.
LEMMA ConflictTyped ==
  ASSUME TypeOK, CallsTyped, NEW c \in Callers, IncrementConflicts(c)
  PROVE  /\ stage[c] = "incrementing" /\ call[c] # None /\ call[c] \in Call
         /\ item[call[c].key] \in Counter
<1>1. stage[c] = "incrementing" /\ ~IncrementAllowed(call[c].key, call[c].target)
  BY DEF IncrementConflicts
<1>2. call[c] # None
  BY <1>1 DEF CallsTyped
<1>3. call[c] \in Call /\ call[c].key \in Keys
  BY <1>2, CallFields
<1> QED
  BY <1>1, <1>2, <1>3, ItemFields DEF IncrementAllowed, TypeOK

\* A request either ends, or goes on with local variables of their types.
LEMMA GoOnTyped ==
  ASSUME TypeOK, CallsTyped, NEW c \in Callers, NEW at \in {"incrementing", "transitioning"},
         NEW locals \in Call, GoTo(c, at, locals), now' = now,
         at = "transitioning" => locals.attempt < MaxAttempts
  PROVE  RequestsTyped' /\ CallsTyped'
<1>1. stage' = [stage EXCEPT ![c] = at] /\ call' = [call EXCEPT ![c] = locals] /\ verdict' = verdict
  BY DEF GoTo
<1>2. locals # None
  BY CallAssumption
<1>3. RequestsTyped'
  BY <1>1 DEF TypeOK, RequestsTyped
<1> QED
  BY <1>1, <1>2, <1>3 DEF CallsTyped, TypeOK

LEMMA EndTyped ==
  ASSUME TypeOK, CallsTyped, NEW c \in Callers, NEW kind \in Verdicts, Decide(c, kind), now' = now
  PROVE  RequestsTyped' /\ CallsTyped'
  BY DEF TypeOK, RequestsTyped, CallsTyped, Decide

LEMMA AnswersTyped ==
  ASSUME TypeOK, CallsTyped, NEW c \in Callers,
         StoreAnswers(c) \/ Degrades(c) \/ FailOpen(c)
  PROVE  RequestsTyped' /\ CallsTyped' /\ CounterTypeOK' /\ adrift' \subseteq Write
<1>1. stage[c] # "idle" => /\ call[c] \in Call /\ call[c].key \in Keys /\ call[c].target \in Starts
                          /\ call[c].attempt \in Nat /\ call[c].attempt >= 1
                          /\ call[c].beganAt \in Nat /\ call[c].branch \in Branches
                          /\ call[c].stored \in Counter \cup {None}
  BY CallFields, RequestsAssumption DEF CallsTyped
<1>2. MaxAttempts \in Nat /\ Deadline \in Nat
  BY RequestsAssumption
<1>3. ASSUME UNCHANGED <<item, counted>> PROVE CounterTypeOK'
  BY <1>3 DEF TypeOK, CounterTypeOK
<1>4. ASSUME adrift' = adrift PROVE adrift' \subseteq Write
  BY <1>4 DEF TypeOK
<1>5. CASE IncrementCounts(c)
  <2>1. /\ stage[c] = "incrementing" /\ Increment(call[c].key, call[c].target)
        /\ now' = now /\ adrift' = adrift
        /\ Decide(c, "admitted") \/ Decide(c, "refused")
    BY <1>5 DEF IncrementCounts
  <2>2. RequestsTyped' /\ CallsTyped'
    BY <2>1, EndTyped DEF Verdicts
  <2> QED
    BY <1>1, <1>4, <2>1, <2>2, StatementsTyped DEF TypeOK
<1>6. CASE FindSaturated(c) \/ BudgetIsSpent(c)
  <2>1. RequestsTyped' /\ CallsTyped'
    BY <1>6, EndTyped DEF FindSaturated, BudgetIsSpent, Verdicts
  <2> QED
    BY <1>3, <1>4, <1>6, <2>1 DEF FindSaturated, BudgetIsSpent
<1>7. CASE FailOpen(c)
  <2>1. RequestsTyped' /\ CallsTyped'
    BY <1>7, EndTyped DEF FailOpen, Verdicts
  <2>2. stage[c] # "idle" /\ adrift' = adrift
        /\ (UNCHANGED <<item, counted>> \/ Increment(call[c].key, call[c].target))
    BY <1>7 DEF FailOpen
  <2> QED
    BY <1>1, <1>3, <1>4, <2>1, <2>2, StatementsTyped DEF TypeOK
<1>8. CASE AdoptStoredWindow(c)
  <2> DEFINE locals == [call[c] EXCEPT !.target = item[call[c].key].windowStart, !.attempt = @ + 1]
  <2>1. /\ IncrementConflicts(c) /\ call[c].attempt < MaxAttempts /\ now' = now
        /\ GoTo(c, "incrementing", locals)
        /\ adrift' = adrift /\ UNCHANGED <<item, counted>>
    BY <1>8 DEF AdoptStoredWindow
  <2>2. item[call[c].key].windowStart \in Starts /\ call[c] \in Call /\ stage[c] = "incrementing"
    BY <2>1, ConflictTyped DEF Counter
  <2>3. locals \in Call
    <3>1. call[c].attempt + 1 \in 1..MaxAttempts
      BY <1>1, <1>2, <2>1, <2>2
    <3> QED
      BY <2>2, <3>1 DEF Call
  <2> QED
    BY <1>3, <1>4, <2>1, <2>3, GoOnTyped
<1>9. CASE ChooseTransition(c)
  <2> DEFINE locals == [call[c] EXCEPT !.stored = item[call[c].key], !.branch = BranchOf(c)]
  <2>1. /\ IncrementConflicts(c) /\ call[c].attempt < MaxAttempts /\ now' = now
        /\ GoTo(c, "transitioning", locals) /\ BranchOf(c) \in Branches
        /\ adrift' = adrift /\ UNCHANGED <<item, counted>>
    BY <1>9 DEF ChooseTransition, Branches
  <2>2. item[call[c].key] \in Counter /\ call[c] \in Call
    BY <2>1, ConflictTyped
  <2>3. locals \in Call /\ locals.attempt = call[c].attempt
    BY <2>1, <2>2 DEF Call
  <2> QED
    BY <1>3, <1>4, <2>1, <2>3, GoOnTyped
<1>10. CASE ApplyWindowTransition(c)
  <2> DEFINE locals == [call[c] EXCEPT !.stored = None, !.branch = "none", !.attempt = @ + 1]
  <2>1. /\ stage[c] = "transitioning" /\ now' = now
        /\ GoTo(c, "incrementing", locals)
        /\ adrift' = adrift
        /\ \/ UNCHANGED <<item, counted>>
           \/ Transition(call[c].key, call[c].branch, call[c].stored, call[c].target)
    BY <1>10 DEF ApplyWindowTransition, Retry
  <2>2. call[c].attempt < MaxAttempts
    BY <2>1 DEF CallsTyped
  <2>3. locals \in Call
    <3>1. call[c].attempt + 1 \in 1..MaxAttempts /\ call[c] \in Call
      BY <1>1, <1>2, <2>1, <2>2
    <3> QED
      BY <3>1 DEF Call, Branches
  <2>4. CounterTypeOK'
    BY <1>1, <1>3, <2>1, StatementsTyped DEF TypeOK
  <2> QED
    BY <1>4, <2>1, <2>3, <2>4, GoOnTyped
<1>11. CASE StoreFails(c)
  <2> DEFINE new == [key |-> call[c].key, start |-> call[c].target, stored |-> call[c].stored,
                     branch |-> call[c].branch, until |-> call[c].beganAt + Deadline]
  <2>1. /\ stage[c] # "idle" /\ Decide(c, "degraded") /\ now' = now
        /\ UNCHANGED <<item, counted>> /\ adrift' \subseteq adrift \cup {new}
    BY <1>11 DEF StoreFails
  <2>2. new \in Write
    BY <1>1, <1>2, <2>1 DEF Write
  <2>3. RequestsTyped' /\ CallsTyped'
    BY <2>1, EndTyped DEF Verdicts
  <2> QED
    BY <1>3, <2>1, <2>2, <2>3 DEF TypeOK
<1> QED
  BY <1>5, <1>6, <1>7, <1>8, <1>9, <1>10, <1>11 DEF StoreAnswers, Degrades

LEMMA TypesKeep ==
  ASSUME TypeOK, CallsTyped, [Next]_vars
  PROVE  TypeOK' /\ CallsTyped'
<1>1. served' \in [Keys -> [Starts -> Nat]]
  <2>1. CASE served' = served
    BY <2>1 DEF TypeOK
  <2>2. ASSUME NEW c \in Callers, IncrementCounts(c),
               served' = [served EXCEPT ![call[c].key][call[c].target] = @ + 1]
        PROVE  served' \in [Keys -> [Starts -> Nat]]
    <3> DEFINE k == call[c].key
               start == call[c].target
    <3>1. k \in Keys /\ start \in Starts /\ served[k] \in [Starts -> Nat]
      BY <2>2, CallFields DEF IncrementCounts, CallsTyped, TypeOK
    <3>2. served' = [served EXCEPT ![k] = [served[k] EXCEPT ![start] = served[k][start] + 1]]
      BY <2>2
    <3>3. [served[k] EXCEPT ![start] = served[k][start] + 1] \in [Starts -> Nat]
      BY <3>1
    <3> HIDE DEF k, start
    <3> QED
      BY <3>1, <3>2, <3>3 DEF TypeOK
  <2> QED
    BY <2>1, <2>2, ServedSteps
<1>2. ASSUME RequestsTyped', CallsTyped', CounterTypeOK', adrift' \subseteq Write
      PROVE  TypeOK' /\ CallsTyped'
  BY <1>1, <1>2 DEF TypeOK, RequestsTyped
<1>3. ASSUME NEW c \in Callers, NEW k \in Keys, NEW i \in Instances, BeginRequest(c, k, i)
      PROVE  TypeOK' /\ CallsTyped'
  <2> DEFINE start == WindowStartOf(ReadingOf(i), Window)
             new == [key |-> k, instance |-> i, beganAt |-> now, start |-> start,
                     elapsed |-> ReadingOf(i) - start, target |-> start, attempt |-> 1,
                     stored |-> None, branch |-> "none"]
  <2>1. /\ stage' = [stage EXCEPT ![c] = "incrementing"] /\ call' = [call EXCEPT ![c] = new]
        /\ verdict' = "none" /\ UNCHANGED <<item, counted, now, adrift>>
    BY <1>3 DEF BeginRequest
  <2>2. /\ ReadingOf(i) \in 0..Horizon /\ now \in 0..MaxTime
        /\ Window \in Nat \ {0} /\ MaxAttempts \in Nat \ {0}
    BY RequestsAssumption, CounterAssumption, NowFields DEF ReadingOf, TypeOK
  <2>3. start \in Starts /\ ReadingOf(i) - start \in 0..(Window - 1)
    BY <2>2, ReadingInWindow
  <2> HIDE DEF start
  <2>4. new \in Call /\ new # None
    BY <2>2, <2>3, CallAssumption DEF Call, Branches
  <2> HIDE DEF new
  <2>5. RequestsTyped' /\ CallsTyped'
    BY <2>1, <2>4 DEF TypeOK, RequestsTyped, CallsTyped, Verdicts
  <2> QED
    BY <1>2, <2>1, <2>5 DEF TypeOK, CounterTypeOK
<1>4. ASSUME NEW c \in Callers, StoreAnswers(c) \/ Degrades(c) \/ FailOpen(c)
      PROVE  TypeOK' /\ CallsTyped'
  BY <1>2, <1>4, AnswersTyped
<1>5. CASE AdriftSettles
  <2>1. PICK w \in adrift :
          \/ Increment(w.key, w.start)
          \/ Transition(w.key, w.branch, w.stored, w.start)
          \/ UNCHANGED <<item, counted>>
    BY <1>5 DEF AdriftSettles
  <2>2. w.key \in Keys /\ w.start \in Starts
    BY DEF TypeOK, Write
  <2>3. CounterTypeOK'
    BY <2>1, <2>2, StatementsTyped DEF TypeOK, CounterTypeOK
  <2>4. adrift' \subseteq adrift /\ UNCHANGED <<now, stage, call, verdict>>
    BY <1>5 DEF AdriftSettles
  <2>5. RequestsTyped' /\ CallsTyped' /\ adrift' \subseteq Write
    BY <2>4 DEF TypeOK, RequestsTyped, CallsTyped
  <2> QED
    BY <1>2, <2>3, <2>5
<1>6. CASE CollectExpired
  <2>1. CounterTypeOK' /\ UNCHANGED <<now, stage, call, verdict, adrift>>
    BY <1>6 DEF CollectExpired, CollectCounter, TypeOK, CounterTypeOK
  <2> QED
    BY <1>2, <2>1 DEF TypeOK, RequestsTyped, CallsTyped
<1>7. CASE Tick
  <2>1. now' \in 0..MaxTime /\ verdict' \in Verdicts /\ UNCHANGED <<item, counted, stage, call, adrift>>
    BY <1>7, NowFields, RequestsAssumption DEF Tick, Verdicts
  <2> QED
    BY <1>2, <2>1 DEF TypeOK, CounterTypeOK, RequestsTyped, CallsTyped
<1>8. CASE UNCHANGED vars
  BY <1>8 DEF vars, TypeOK, CounterTypeOK, CallsTyped
<1> QED
  BY <1>3, <1>4, <1>5, <1>6, <1>7, <1>8 DEF Next, Environment

LEMMA InitTyped ==
  ASSUME Init
  PROVE  TypeOK /\ CallsTyped
<1>1. MaxTime \in Nat /\ 0 \in 0..MaxTime
  BY RequestsAssumption
<1> QED
  BY <1>1 DEF Init, CounterInit, TypeOK, CounterTypeOK, Verdicts, CallsTyped

\* Type correctness of the counters and the requests; with it the saturation:
\* no statement takes a count beyond the ceiling (INCREMENT_CONDITION).
THEOREM ThrottleTypeCorrect == Spec => []TypeOK
<1>1. TypeOK /\ CallsTyped /\ [Next]_vars => (TypeOK /\ CallsTyped)'
  BY TypesKeep
<1> QED
  BY <1>1, InitTyped, PTL DEF Spec

-----------------------------------------------------------------------------
(* The theorems.                                                           *)

LEMMA InitThrottleInv ==
  ASSUME Init, ClocksAgree
  PROVE  ThrottleInv
<1>1. /\ Window \in Nat \ {0} /\ Skew \in Nat /\ Limit \in Nat \ {0} /\ MaxTime \in Nat
      /\ 0 \in 0..MaxTime
  BY CounterAssumption, RequestsAssumption
<1>2. TypeOK
  BY <1>1 DEF Init, CounterInit, TypeOK, CounterTypeOK, Verdicts
<1>3. CountersSound
  BY DEF Init, CounterInit, CountersSound, NothingLost
<1>4. CallsSound /\ WritesSound
  BY DEF Init, CallsSound, CallSound, WritesSound
<1>5. ServedWasCounted /\ ServedWithinLimit /\ BoundaryBurstBelowTwice
  BY <1>1 DEF Init, CounterInit, ServedWasCounted, ServedWithinLimit, BoundaryBurstBelowTwice
<1> QED
  BY <1>2, <1>3, <1>4, <1>5 DEF ThrottleInv

LEMMA ThrottleInvKeeps ==
  ASSUME ThrottleInv, ClocksAgree, CollectedAfterRequestsEnd, [Next]_vars
  PROVE  ThrottleInv'
<1>1. CounterTypeOK' /\ CountersSound'
  BY CountersKeep DEF ThrottleInv
<1>2. RequestsTyped' /\ CallsSound' /\ adrift' \subseteq Write /\ WritesSound'
  BY RequestsKeep DEF ThrottleInv
<1>3. ServedSound'
  BY ServedKeeps DEF ThrottleInv
<1>4. TypeOK'
  BY <1>1, <1>2, <1>3 DEF TypeOK, RequestsTyped, ServedSound, ServedTyped
<1> QED
  BY <1>1, <1>2, <1>3, <1>4 DEF ThrottleInv, ServedSound

\* The strengthened invariant: what each item counts, what each request and
\* each write on its way may still do to it, and what has been admitted by it.
THEOREM ThrottleInvariant ==
  ClocksAgree /\ CollectedAfterRequestsEnd => (Spec => []ThrottleInv)
<1> SUFFICES ASSUME ClocksAgree, CollectedAfterRequestsEnd PROVE Spec => []ThrottleInv
  OBVIOUS
<1>1. Init => ThrottleInv
  BY InitThrottleInv
<1>2. ThrottleInv /\ [Next]_vars => ThrottleInv'
  BY ThrottleInvKeeps
<1> QED
  BY <1>1, <1>2, PTL DEF Spec

\* Whatever rolls a window over, however often the transition is lost, retried
\* or lands late, the item counts every increment of its two windows once.
THEOREM CountsStayExact ==
  ClocksAgree /\ CollectedAfterRequestsEnd => (Spec => []CountsAreExact)
<1>1. ThrottleInv => CountsAreExact
  BY DEF ThrottleInv, CountersSound, ItemSound, CountsAreExact
<1> QED
  BY <1>1, ThrottleInvariant, PTL

\* No window admits more than the limit, whatever clocks its requests read.
THEOREM LimitIsKept ==
  ClocksAgree /\ CollectedAfterRequestsEnd => (Spec => []ServedWithinLimit)
<1>1. ThrottleInv => ServedWithinLimit
  BY DEF ThrottleInv
<1> QED
  BY <1>1, ThrottleInvariant, PTL

\* Two adjacent windows never admit twice the limit between them.
THEOREM NoDoubleBurst ==
  ClocksAgree /\ CollectedAfterRequestsEnd => (Spec => []BoundaryBurstBelowTwice)
<1>1. ThrottleInv => BoundaryBurstBelowTwice
  BY DEF ThrottleInv
<1> QED
  BY <1>1, ThrottleInvariant, PTL

\* No step moves a stored window back, an aborted request's late write included.
THEOREM WindowsMoveForward ==
  ClocksAgree /\ CollectedAfterRequestsEnd => (Spec => WindowNeverGoesBack)
<1> SUFFICES ASSUME ClocksAgree, CollectedAfterRequestsEnd PROVE Spec => WindowNeverGoesBack
  OBVIOUS
<1> DEFINE Forward == \A k \in Keys : item[k] # None /\ item'[k] # None
                                     => item'[k].windowStart >= item[k].windowStart
<1>1. ThrottleInv /\ [Next]_vars => [Forward]_vars
  BY CountersKeep DEF ThrottleInv
<1> QED
  BY <1>1, ThrottleInvariant, PTL DEF Spec, WindowNeverGoesBack

-----------------------------------------------------------------------------
(* The budget of attempts.  While a request lives, only two adjacent       *)
(* windows can be written: a rollover is met at most once in each.         *)

\* No write that lands within a deadline of the request is three windows wide.
BudgetCoversRollovers == MaxAttempts >= 3 /\ 2 * Deadline + Skew <= Window

\* A window that is written while a request that began at b may be alive.
Live(s, b) == b < s + Window + Deadline /\ s <= b + Deadline + Skew

ItemIsLive(c) ==
  /\ item[call[c].key] # None
  /\ Live(item[call[c].key].windowStart, call[c].beganAt)

\* The item is where the request wants it, and has no live window to go to.
Settled(c) ==
  /\ item[call[c].key] # None
  /\ item[call[c].key].windowStart = call[c].target
  /\ call[c].beganAt + Deadline + Skew < call[c].target + Window

AttemptSound(c) ==
  stage[c] # "idle" =>
    /\ call[c].attempt <= 3
    /\ call[c].attempt = 1 /\ stage[c] = "transitioning" =>
         \/ item[call[c].key] = None
         \/ item[call[c].key].windowStart = call[c].stored.windowStart
         \/ ItemIsLive(c)
    /\ call[c].attempt = 2 /\ stage[c] = "incrementing" =>
         item[call[c].key] = None \/ ItemIsLive(c)
    /\ call[c].attempt = 2 /\ stage[c] = "transitioning" =>
         ItemIsLive(c) /\ Live(call[c].stored.windowStart, call[c].beganAt)
    /\ call[c].attempt = 3 =>
         stage[c] = "incrementing" /\ Settled(c)

BudgetInv == \A c \in Callers : AttemptSound(c)

\* Of two live windows, the later is the last.
LEMMA LiveWindows ==
  ASSUME BudgetCoversRollovers, NEW b \in Nat, NEW s \in Starts, NEW t \in Starts,
         Live(s, b), s < t
  PROVE  /\ b + Deadline + Skew < t + Window
         /\ \A u \in Starts : Live(u, b) /\ Live(t, b) => u = s \/ u = t
<1>1. /\ s \in Nat /\ t \in Nat /\ Window \in Nat \ {0} /\ Deadline \in Nat /\ Skew \in Nat
      /\ s + Window <= t
  BY StartIsMultiple, StartsApart, CounterAssumption, RequestsAssumption
<1>2. b + Deadline + Skew < t + Window
  BY <1>1 DEF Live, BudgetCoversRollovers
<1>3. ASSUME NEW u \in Starts, Live(u, b), Live(t, b), u # s, u # t PROVE FALSE
  <2>1. u \in Nat
    BY StartIsMultiple
  <2>2. CASE u < s
    <3>1. u + Window <= s
      BY <2>2, StartsApart
    <3> QED
      BY <1>1, <1>3, <2>1, <3>1 DEF Live, BudgetCoversRollovers
  <2>3. CASE s < u /\ u < t
    <3>1. s + Window <= u /\ u + Window <= t
      BY <2>3, StartsApart
    <3> QED
      BY <1>1, <1>3, <2>1, <3>1 DEF Live, BudgetCoversRollovers
  <2>4. CASE t < u
    <3>1. t + Window <= u
      BY <2>4, StartsApart
    <3> QED
      BY <1>1, <1>2, <1>3, <2>1, <3>1 DEF Live
  <2> QED
    BY <1>1, <1>3, <2>1, <2>2, <2>3, <2>4
<1> QED
  BY <1>2, <1>3

LEMMA CallIsLive ==
  ASSUME TypeOK, CallsSound, NEW c \in Callers, stage[c] # "idle"
  PROVE  /\ call[c] # None /\ call[c] \in Call /\ call[c].key \in Keys /\ call[c].beganAt \in Nat
         /\ call[c].target \in Starts /\ call[c].target \in Nat
         /\ now \in Nat /\ now \in call[c].beganAt..(call[c].beganAt + Deadline)
         /\ Live(call[c].target, call[c].beganAt)
<1>1. /\ call[c] # None
      /\ now \in call[c].beganAt..(call[c].beganAt + Deadline)
      /\ call[c].beganAt < call[c].target + Window
      /\ call[c].target <= now + Skew
  BY DEF CallsSound, CallSound
<1>2. /\ call[c] \in Call /\ call[c].key \in Keys /\ call[c].beganAt \in Nat
      /\ call[c].target \in Starts /\ call[c].target \in Nat
  BY <1>1, CallFields
<1> QED
  BY <1>1, <1>2, NowFields, CounterAssumption, RequestsAssumption DEF Live

\* What may happen to an item while a request of its key is alive.
LEMMA LiveItemSteps ==
  ASSUME TypeOK, CountersSound, CallsSound, ClocksAgree, CollectedAfterRequestsEnd,
         BudgetCoversRollovers, NEW c \in Callers, stage[c] # "idle", now' = now, CounterStep
  PROVE  LET k == call[c].key
         IN  \/ item'[k] = None /\ item[k] = None
             \/ item'[k] = None /\ item[k] # None /\ ~ItemIsLive(c)
             \/ item'[k] # None /\ Live(item'[k].windowStart, call[c].beganAt)
             \/ item'[k] # None /\ item[k] # None
                  /\ item'[k].windowStart = item[k].windowStart
<1> DEFINE k == call[c].key
           b == call[c].beganAt
           Goal == \/ item'[k] = None /\ item[k] = None
                   \/ item'[k] = None /\ item[k] # None /\ ~ItemIsLive(c)
                   \/ item'[k] # None /\ Live(item'[k].windowStart, call[c].beganAt)
                   \/ item'[k] # None /\ item[k] # None
                        /\ item'[k].windowStart = item[k].windowStart
<1>1. /\ k \in Keys /\ b \in Nat /\ now \in Nat /\ now \in b..(b + Deadline)
      /\ Window \in Nat \ {0} /\ Deadline \in Nat /\ Skew \in Nat /\ CollectionLag \in Nat
  BY CallIsLive, CounterAssumption, RequestsAssumption
<1>2. ASSUME item'[k] = item[k] PROVE Goal
  BY <1>2
<1>3. ASSUME NEW start \in Starts, AimSound(start) PROVE Live(start, b)
  <2>1. start \in Nat /\ start <= now + Skew /\ now < start + Window + Deadline
    BY <1>3, StartIsMultiple DEF AimSound
  <2> QED
    BY <1>1, <2>1 DEF Live
<1>4. CASE UNCHANGED <<item, counted>>
  BY <1>2, <1>4
<1>5. ASSUME NEW j \in Keys, NEW start \in Starts, AimSound(start), Increment(j, start)
      PROVE  Goal
  <2>1. item'[j].windowStart = start /\ item'[j] # None /\ (j # k => item'[k] = item[k])
    <3>1. /\ item'[j] = Incremented(j, start) /\ item'[j].windowStart = start
          /\ CounterTypeOK' /\ \A i \in Keys \ {j} : item'[i] = item[i]
      BY <1>1, <1>5, IncrementKeeps DEF TypeOK
    <3>2. Incremented(j, start) # None
      <4>1. CASE item[j] = None
        BY <4>1, <3>1, CounterAssumption, <1>5 DEF Incremented, Counter
      <4>2. CASE item[j] # None
        <5>1. item[j] \in Counter /\ item[j].current < Ceiling
          BY <1>5, <4>2, ItemFields DEF TypeOK, Increment, IncrementAllowed
        <5>2. Incremented(j, start) \in Counter
          BY <4>2, <5>1, CounterAssumption DEF Incremented, Counter
        <5> QED
          BY <5>2, CounterAssumption
      <4> QED
        BY <4>1, <4>2
    <3> QED
      BY <1>1, <3>1, <3>2
  <2> QED
    BY <1>2, <1>3, <1>5, <2>1
<1>6. ASSUME NEW j \in Keys, NEW start \in Starts, NEW stored \in Counter, NEW branch \in Branches,
             AimSound(start), branch # "none", BranchSound(start, stored, branch),
             Transition(j, branch, stored, start)
      PROVE  Goal
  <2>1. /\ item'[j].windowStart = start /\ \A i \in Keys \ {j} : item'[i] = item[i]
        /\ item[j] # None
    BY <1>1, <1>6, TransitionKeeps DEF TypeOK
  <2>2. item'[j] # None
    <3>1. item'[j] = Transitioned(j, branch, start)
      BY <1>6 DEF Transition, TypeOK, CounterTypeOK
    <3>2. item[j].current \in 0..Ceiling
      BY <2>1, ItemFields DEF TypeOK
    <3>3. Transitioned(j, branch, start) \in Counter
      BY <3>2, CounterAssumption DEF Transitioned, Counter
    <3> QED
      BY <3>1, <3>3, CounterAssumption
  <2> QED
    BY <1>1, <1>2, <1>3, <1>6, <2>1, <2>2
<1>7. ASSUME NEW j \in Keys, CollectCounter(j, now - CollectionLag) PROVE Goal
  <2>1. /\ item[j] # None /\ item'[j] = None
        /\ item[j].windowStart + 2 * Window + CollectionLag <= now
        /\ \A i \in Keys \ {j} : item'[i] = item[i]
    BY <1>1, <1>7, CollectKeeps DEF TypeOK
  <2>2. item[j].windowStart \in Nat
    BY <2>1, ItemFields DEF TypeOK
  <2>3. ~Live(item[j].windowStart, b)
    BY <1>1, <2>1, <2>2 DEF Live, BudgetCoversRollovers
  <2> QED
    BY <1>1, <1>2, <2>1, <2>3 DEF ItemIsLive
<1> QED
  BY <1>4, <1>5, <1>6, <1>7 DEF CounterStep

\* Steps of others, and of time, leave a request's attempts sound.
LEMMA OthersKeepAttempts ==
  ASSUME TypeOK, CountersSound, CallsSound, ClocksAgree, CollectedAfterRequestsEnd,
         BudgetCoversRollovers, NEW c \in Callers, AttemptSound(c),
         now' = now, CounterStep, stage'[c] = stage[c], call'[c] = call[c]
  PROVE  AttemptSound(c)'
<1> SUFFICES ASSUME stage[c] # "idle" PROVE AttemptSound(c)'
  BY DEF AttemptSound
<1> DEFINE k == call[c].key
           b == call[c].beganAt
           t == call[c].target
<1>1. /\ k \in Keys /\ b \in Nat /\ t \in Starts /\ t \in Nat /\ Live(t, b)
      /\ Window \in Nat \ {0} /\ Deadline \in Nat /\ Skew \in Nat
  BY CallIsLive, CounterAssumption, RequestsAssumption
<1>2. \/ item'[k] = None /\ item[k] = None
      \/ item'[k] = None /\ item[k] # None /\ ~ItemIsLive(c)
      \/ item'[k] # None /\ Live(item'[k].windowStart, b)
      \/ item'[k] # None /\ item[k] # None /\ item'[k].windowStart = item[k].windowStart
  BY LiveItemSteps
<1>3. /\ item[k] # None /\ item'[k] # None => item'[k].windowStart >= item[k].windowStart
      /\ item'[k] # None => item'[k].windowStart \in Starts
  BY <1>1, CounterStepKeeps, ItemFields DEF TypeOK, CounterTypeOK, Counter
<1>4. ItemIsLive(c) => ItemIsLive(c)'
  BY <1>2 DEF ItemIsLive, Live
<1>5. item[k] = None => item'[k] = None \/ ItemIsLive(c)'
  BY <1>2 DEF ItemIsLive, Live
<1>6. Settled(c) => Settled(c)'
  <2>1. SUFFICES ASSUME Settled(c) PROVE Settled(c)'
    OBVIOUS
  <2>2. item[k] # None /\ item[k].windowStart = t /\ b + Deadline + Skew < t + Window
    BY <2>1 DEF Settled
  <2>3. item'[k] # None
    BY <1>1, <1>2, <2>2 DEF ItemIsLive
  <2>4. item'[k].windowStart # t => t + Window <= item'[k].windowStart /\ Live(item'[k].windowStart, b)
    BY <1>1, <1>2, <1>3, <2>2, <2>3, StartsApart, StartIsMultiple
  <2>5. item'[k].windowStart = t
    BY <1>1, <1>3, <2>2, <2>3, <2>4, StartIsMultiple DEF Live
  <2> QED
    BY <2>2, <2>3, <2>5 DEF Settled
<1>7. item[k] # None /\ item[k].windowStart = call[c].stored.windowStart
        => \/ item'[k] = None
           \/ item'[k].windowStart = call[c].stored.windowStart
           \/ ItemIsLive(c)'
  BY <1>2 DEF ItemIsLive, Live
<1>8. /\ call[c].attempt <= 3
      /\ call[c].attempt = 1 /\ stage[c] = "transitioning" =>
           \/ item'[k] = None
           \/ item'[k].windowStart = call[c].stored.windowStart
           \/ ItemIsLive(c)'
      /\ call[c].attempt = 2 /\ stage[c] = "incrementing" => item'[k] = None \/ ItemIsLive(c)'
      /\ call[c].attempt = 2 /\ stage[c] = "transitioning" =>
           ItemIsLive(c)' /\ Live(call[c].stored.windowStart, b)
      /\ call[c].attempt = 3 => stage[c] = "incrementing" /\ Settled(c)'
  BY <1>4, <1>5, <1>6, <1>7 DEF AttemptSound
<1> QED
  BY <1>8 DEF AttemptSound, Live

LEMMA BeginKeepsAttempts ==
  ASSUME TypeOK, CallsSound, BudgetCoversRollovers, NEW c \in Callers, NEW k \in Keys,
         NEW i \in Instances, BeginRequest(c, k, i)
  PROVE  AttemptSound(c)'
<1>1. stage'[c] = "incrementing" /\ call'[c].attempt = 1
  BY DEF BeginRequest, TypeOK
<1> QED
  BY <1>1 DEF AttemptSound

LEMMA DecideKeepsAttempts ==
  ASSUME TypeOK, NEW c \in Callers, NEW kind, Decide(c, kind)
  PROVE  AttemptSound(c)'
  BY DEF Decide, TypeOK, AttemptSound

LEMMA AdoptKeepsAttempts ==
  ASSUME TypeOK, CountersSound, CallsSound, ClocksAgree, BudgetCoversRollovers,
         NEW c \in Callers, AttemptSound(c), AdoptStoredWindow(c)
  PROVE  AttemptSound(c)'
<1> DEFINE k == call[c].key
           b == call[c].beganAt
           t == call[c].target
           start == item[k].windowStart
<1>1. /\ IncrementConflicts(c) /\ stage[c] = "incrementing" /\ call[c].attempt < MaxAttempts
      /\ GoTo(c, "incrementing",
              [call[c] EXCEPT !.target = item[call[c].key].windowStart, !.attempt = @ + 1])
      /\ UNCHANGED item
  BY DEF AdoptStoredWindow, IncrementConflicts
<1>2. /\ call[c] # None /\ call[c] \in Call /\ k \in Keys /\ b \in Nat /\ t \in Starts
      /\ now \in Nat /\ now \in b..(b + Deadline) /\ Live(t, b)
      /\ item[k] # None /\ start \in Starts /\ start <= now + Skew
  BY <1>1, CallIsLive, ConflictFields
<1>3. /\ stage'[c] = "incrementing"
      /\ call'[c] = [call[c] EXCEPT !.target = item[call[c].key].windowStart, !.attempt = @ + 1]
  BY <1>1 DEF GoTo, TypeOK
<1>4. /\ call'[c].key = k /\ call'[c].beganAt = b /\ call'[c].target = start
      /\ call'[c].attempt = call[c].attempt + 1
  BY <1>2, <1>3 DEF Call
<1>5. t < start
  BY <1>4, AdoptKeeps
<1>6. Live(start, b) /\ b + Deadline + Skew < start + Window
  <2>1. b + Deadline + Skew < start + Window
    BY <1>2, <1>5, LiveWindows
  <2>2. /\ start \in Nat /\ Window \in Nat /\ Deadline \in Nat /\ Skew \in Nat
    BY <1>2, StartIsMultiple, CounterAssumption, RequestsAssumption
  <2> QED
    BY <1>2, <2>1, <2>2 DEF Live
<1>7. call[c].attempt \in Nat \ {0} /\ call[c].attempt <= 3
  BY <1>1, <1>2, CallFields, RequestsAssumption DEF AttemptSound
<1>8. call[c].attempt # 3
  <2>1. SUFFICES ASSUME call[c].attempt = 3 PROVE FALSE
    OBVIOUS
  <2>2. start = t
    BY <1>1, <2>1 DEF AttemptSound, Settled
  <2>3. t \in Nat
    BY <1>2, StartIsMultiple
  <2> QED
    BY <1>5, <2>2, <2>3
<1>9. call'[c].attempt \in {2, 3}
  BY <1>4, <1>7, <1>8
<1> HIDE DEF k, b, t, start
<1>10. ItemIsLive(c)' /\ Settled(c)'
  BY <1>1, <1>2, <1>4, <1>6 DEF ItemIsLive, Settled, Live, start
<1> QED
  BY <1>3, <1>9, <1>10 DEF AttemptSound

LEMMA ChooseKeepsAttempts ==
  ASSUME TypeOK, CountersSound, CallsSound, ClocksAgree, BudgetCoversRollovers,
         NEW c \in Callers, AttemptSound(c), ChooseTransition(c)
  PROVE  AttemptSound(c)'
<1> DEFINE k == call[c].key
<1>1. /\ IncrementConflicts(c) /\ stage[c] = "incrementing"
      /\ GoTo(c, "transitioning", [call[c] EXCEPT !.stored = item[call[c].key], !.branch = BranchOf(c)])
      /\ UNCHANGED item
      /\ BranchOf(c) \in {"promote-previous", "promote-zero", "reset-item"}
  BY DEF ChooseTransition, IncrementConflicts
<1>2. /\ call[c] # None /\ call[c] \in Call /\ k \in Keys
      /\ item[k] # None /\ item[k] \in Counter /\ call[c].target \in Starts
      /\ item[k].windowStart <= call[c].target + Window
  BY <1>1, ConflictFields
<1>3. /\ stage'[c] = "transitioning"
      /\ call'[c] = [call[c] EXCEPT !.stored = item[call[c].key], !.branch = BranchOf(c)]
  BY <1>1 DEF GoTo, TypeOK
<1>4. /\ call'[c].key = k /\ call'[c].beganAt = call[c].beganAt
      /\ call'[c].stored = item[k] /\ call'[c].attempt = call[c].attempt
  BY <1>2, <1>3 DEF Call
<1>5. call[c].attempt \in Nat \ {0} /\ call[c].attempt <= 3
  BY <1>1, <1>2, CallFields, RequestsAssumption DEF AttemptSound
<1>6. call[c].attempt # 3
  <2>1. SUFFICES ASSUME call[c].attempt = 3 PROVE FALSE
    OBVIOUS
  <2>2. item[k].windowStart = call[c].target
    BY <1>1, <2>1 DEF AttemptSound, Settled
  <2>3. /\ call[c].target \in Nat /\ Window \in Nat \ {0}
    BY <1>2, StartIsMultiple, CounterAssumption
  <2> QED
    BY <1>1, <1>2, <2>2, <2>3, BranchIsExact DEF BranchOf
<1>7. call[c].attempt = 2 => ItemIsLive(c)
  BY <1>1, <1>2 DEF AttemptSound
<1>8. call'[c].attempt = 1 \/ call'[c].attempt = 2
  BY <1>4, <1>5, <1>6
<1> HIDE DEF k
<1>9. call'[c].attempt = 2 => ItemIsLive(c)' /\ Live(call'[c].stored.windowStart, call'[c].beganAt)
  BY <1>1, <1>4, <1>7 DEF ItemIsLive, Live, k
<1>10. item'[call'[c].key].windowStart = call'[c].stored.windowStart
  BY <1>1, <1>4
<1> QED
  BY <1>3, <1>8, <1>9, <1>10 DEF AttemptSound, Live

LEMMA ApplyKeepsAttempts ==
  ASSUME TypeOK, CountersSound, CallsSound, ClocksAgree, CollectedAfterRequestsEnd,
         BudgetCoversRollovers, NEW c \in Callers, AttemptSound(c), ApplyWindowTransition(c)
  PROVE  AttemptSound(c)'
<1> DEFINE k == call[c].key
           b == call[c].beganAt
           t == call[c].target
           s == call[c].stored.windowStart
<1>1. /\ stage[c] = "transitioning" /\ now' = now
      /\ GoTo(c, "incrementing",
              [call[c] EXCEPT !.stored = None, !.branch = "none", !.attempt = @ + 1])
      /\ \/ Transition(k, call[c].branch, call[c].stored, t)
         \/ ~TransitionAllowed(k, call[c].stored) /\ UNCHANGED item
  BY DEF ApplyWindowTransition, Retry
<1>2. /\ call[c] # None /\ call[c] \in Call /\ k \in Keys /\ b \in Nat
      /\ t \in Starts /\ t \in Nat /\ Live(t, b)
      /\ AimSound(t) /\ now \in Nat
  BY <1>1, CallIsLive, CallAims
<1>3. /\ call[c].branch # "none" /\ BranchSound(t, call[c].stored, call[c].branch)
      /\ call[c].stored \in Counter /\ s < t /\ s \in Starts
  BY <1>1 DEF CallsSound, CallSound, BranchSound, Counter
<1>4. /\ stage'[c] = "incrementing"
      /\ call'[c] = [call[c] EXCEPT !.stored = None, !.branch = "none", !.attempt = @ + 1]
  BY <1>1 DEF GoTo, TypeOK
<1>5. /\ call'[c].key = k /\ call'[c].beganAt = b /\ call'[c].target = t
      /\ call'[c].attempt = call[c].attempt + 1
  BY <1>2, <1>4 DEF Call
<1>6. /\ call[c].attempt = 1 \/ call[c].attempt = 2
      /\ call[c].attempt = 1 => \/ item[k] = None \/ item[k].windowStart = s \/ ItemIsLive(c)
      /\ call[c].attempt = 2 => ItemIsLive(c) /\ Live(s, b)
  <2>1. call[c].attempt \in Nat \ {0}
    BY <1>2, CallFields, RequestsAssumption
  <2> QED
    BY <1>1, <2>1 DEF AttemptSound
<1>7. Transition(k, call[c].branch, call[c].stored, t)
        => item'[k] # None /\ item'[k].windowStart = t
  <2>1. SUFFICES ASSUME Transition(k, call[c].branch, call[c].stored, t)
                 PROVE  item'[k] # None /\ item'[k].windowStart = t
    OBVIOUS
  <2>2. item[k] # None /\ item'[k] = Transitioned(k, call[c].branch, t)
    BY <1>2, <2>1 DEF Transition, TransitionAllowed, TypeOK, CounterTypeOK
  <2>3. item[k].current \in 0..Ceiling
    BY <1>2, <2>2, ItemFields DEF TypeOK
  <2>4. Transitioned(k, call[c].branch, t) \in Counter /\ Transitioned(k, call[c].branch, t).windowStart = t
    BY <1>2, <2>3, CounterAssumption DEF Transitioned, Counter
  <2> QED
    BY <2>2, <2>4, CounterAssumption
<1>8. call[c].attempt = 1 =>
        item'[k] = None \/ (item'[k] # None /\ Live(item'[k].windowStart, b))
  <2>1. ~TransitionAllowed(k, call[c].stored) /\ item[k] # None => item[k].windowStart # s
    BY DEF TransitionAllowed
  <2>2. CASE Transition(k, call[c].branch, call[c].stored, t)
    <3>1. item'[k] # None /\ item'[k].windowStart = t
      BY <1>7, <2>2
    <3> QED
      BY <1>2, <3>1 DEF Live
  <2>3. CASE ~TransitionAllowed(k, call[c].stored) /\ item' = item
    <3>1. item'[k] = item[k]
      BY <2>3
    <3>2. call[c].attempt = 1 => item[k] = None \/ (item[k] # None /\ Live(item[k].windowStart, b))
      BY <1>6, <2>1, <2>3 DEF ItemIsLive
    <3> QED
      BY <3>1, <3>2
  <2> QED
    BY <1>1, <2>2, <2>3
<1>9. call[c].attempt = 2 => /\ item'[k] # None /\ item'[k].windowStart = t
                            /\ b + Deadline + Skew < t + Window
  <2>1. SUFFICES ASSUME call[c].attempt = 2
                 PROVE  /\ item'[k] # None /\ item'[k].windowStart = t
                        /\ b + Deadline + Skew < t + Window
    OBVIOUS
  <2>2. /\ item[k] # None /\ Live(item[k].windowStart, b) /\ Live(s, b)
    BY <1>6, <2>1 DEF ItemIsLive
  <2>3. item[k].windowStart \in Starts
    BY <1>2, <2>2, ItemFields DEF TypeOK
  <2>4. /\ b + Deadline + Skew < t + Window
        /\ item[k].windowStart = s \/ item[k].windowStart = t
    BY <1>2, <1>3, <2>2, <2>3, LiveWindows
  <2>5. ~TransitionAllowed(k, call[c].stored) => item[k].windowStart = t
    BY <2>2, <2>4 DEF TransitionAllowed
  <2> QED
    BY <1>1, <1>7, <2>2, <2>4, <2>5
<1>10. call'[c].attempt = 2 \/ call'[c].attempt = 3
  BY <1>5, <1>6
<1> HIDE DEF k, b, t, s
<1>11. /\ call'[c].attempt = 2 => item'[call'[c].key] = None \/ ItemIsLive(c)'
       /\ call'[c].attempt = 3 => Settled(c)'
  BY <1>5, <1>6, <1>8, <1>9 DEF ItemIsLive, Settled, Live
<1> QED
  BY <1>4, <1>10, <1>11 DEF AttemptSound

LEMMA BudgetKeeps ==
  ASSUME ThrottleInv, ClocksAgree, CollectedAfterRequestsEnd, BudgetCoversRollovers,
         BudgetInv, [Next]_vars
  PROVE  BudgetInv'
<1>1. /\ TypeOK /\ CountersSound /\ CallsSound /\ WritesSound
  BY DEF ThrottleInv
<1>2. SUFFICES ASSUME NEW c \in Callers PROVE AttemptSound(c)'
  BY DEF BudgetInv
<1>3. AttemptSound(c)
  BY DEF BudgetInv
<1>4. ASSUME Tick PROVE AttemptSound(c)'
  BY <1>3, <1>4 DEF Tick, AttemptSound, ItemIsLive, Settled, Live
<1>5. ASSUME now' = now, CounterStep, stage'[c] = stage[c], call'[c] = call[c]
      PROVE  AttemptSound(c)'
  BY <1>1, <1>3, <1>5, OthersKeepAttempts
<1>6. ASSUME NEW d \in Callers,
             \/ \E k \in Keys, i \in Instances : BeginRequest(d, k, i)
             \/ StoreAnswers(d) \/ Degrades(d) \/ FailOpen(d)
      PROVE  d # c => stage'[c] = stage[c] /\ call'[c] = call[c]
  <2>1. \/ \E kind : Decide(d, kind)
        \/ \E at, locals : GoTo(d, at, locals)
        \/ \E k \in Keys, i \in Instances : BeginRequest(d, k, i)
    BY <1>6 DEF StoreAnswers, Degrades, FailOpen, IncrementCounts, FindSaturated, AdoptStoredWindow,
       ChooseTransition, ApplyWindowTransition, Retry, BudgetIsSpent, StoreFails
  <2> QED
    BY <1>1, <2>1 DEF TypeOK, Decide, GoTo, BeginRequest
<1>7. ASSUME \/ \E k \in Keys, i \in Instances : BeginRequest(c, k, i)
             \/ StoreAnswers(c) \/ Degrades(c) \/ FailOpen(c)
      PROVE  AttemptSound(c)'
  <2>1. ASSUME NEW kind, Decide(c, kind) PROVE AttemptSound(c)'
    BY <1>1, <2>1, DecideKeepsAttempts
  <2>2. CASE \E k \in Keys, i \in Instances : BeginRequest(c, k, i)
    BY <1>1, <2>2, BeginKeepsAttempts
  <2>3. CASE Degrades(c) \/ FailOpen(c)
    BY <2>1, <2>3 DEF Degrades, FailOpen, BudgetIsSpent, StoreFails
  <2>4. CASE IncrementCounts(c) \/ FindSaturated(c)
    BY <2>1, <2>4 DEF IncrementCounts, FindSaturated
  <2> QED
    BY <1>1, <1>3, <1>7, <2>2, <2>3, <2>4, AdoptKeepsAttempts, ChooseKeepsAttempts,
       ApplyKeepsAttempts DEF StoreAnswers
<1>8. ASSUME AdriftSettles \/ CollectExpired \/ UNCHANGED vars
      PROVE  stage'[c] = stage[c] /\ call'[c] = call[c]
  BY <1>8 DEF AdriftSettles, CollectExpired, vars
<1>9. (now' = now /\ CounterStep) \/ Tick
  BY <1>1, CounterSteps
<1> QED
  BY <1>4, <1>5, <1>6, <1>7, <1>8, <1>9 DEF Next, Environment

\* Contention alone never spends the budget: with the default of three
\* attempts, no request that its deadline lets live meets a third rollover.
THEOREM ThreeAttemptsSuffice ==
  ClocksAgree /\ CollectedAfterRequestsEnd /\ BudgetCoversRollovers
    => (Spec => []BudgetSuffices)
<1> SUFFICES ASSUME ClocksAgree, CollectedAfterRequestsEnd, BudgetCoversRollovers
             PROVE  Spec => []BudgetSuffices
  OBVIOUS
<1>1. Init => BudgetInv
  BY DEF Init, BudgetInv, AttemptSound
<1>2. ThrottleInv /\ BudgetInv /\ [Next]_vars => BudgetInv'
  BY BudgetKeeps
<1>3. ThrottleInv /\ BudgetInv => BudgetSuffices
  <2>1. SUFFICES ASSUME ThrottleInv, BudgetInv, NEW c \in Callers,
                        IncrementConflicts(c), BranchOf(c) # "saturated"
                 PROVE  call[c].attempt < MaxAttempts
    BY DEF BudgetSuffices
  <2>2. /\ call[c] # None /\ call[c] \in Call /\ item[call[c].key] \in Counter
        /\ item[call[c].key] # None /\ call[c].target \in Starts
    BY <2>1, ConflictFields DEF ThrottleInv
  <2>3. call[c].attempt \in Nat /\ MaxAttempts \in Nat /\ MaxAttempts >= 3
    BY <2>1, <2>2, CallFields, RequestsAssumption DEF BudgetCoversRollovers, ThrottleInv
  <2>4. stage[c] = "incrementing" /\ ~IncrementAllowed(call[c].key, call[c].target)
    BY <2>1 DEF IncrementConflicts
  <2>5. call[c].attempt # 3
    <3>1. SUFFICES ASSUME call[c].attempt = 3 PROVE FALSE
      OBVIOUS
    <3>2. item[call[c].key].windowStart = call[c].target
      BY <2>1, <2>4, <3>1 DEF BudgetInv, AttemptSound, Settled
    <3>3. item[call[c].key].current >= Ceiling
      BY <2>2, <2>4, <3>2, CounterAssumption DEF IncrementAllowed, Counter
    <3> QED
      BY <2>1, <2>2, <3>2, <3>3, BranchIsExact DEF BranchOf
  <2>6. call[c].attempt <= 3
    BY <2>1, <2>4 DEF BudgetInv, AttemptSound
  <2> QED
    BY <2>3, <2>5, <2>6
<1> QED
  BY <1>1, <1>2, <1>3, ThrottleInvariant, PTL DEF Spec

-----------------------------------------------------------------------------
(* The ledger.  A request is weighed by the clock it read when it began,   *)
(* in the window of that reading or in the one after it.                   *)

Reading(c) == call[c].start + call[c].elapsed

WeighedByClock(c) ==
  stage[c] # "idle" =>
    /\ Reading(c) \in 0..Horizon
    /\ WindowStartOf(Reading(c), Window) = call[c].start
    /\ call[c].beganAt <= Reading(c)
    /\ Reading(c) <= call[c].beganAt + Skew
    /\ call[c].target \in {call[c].start, call[c].start + Window}

WeighedByClocks == \A c \in Callers : WeighedByClock(c)

\* The only window that begins within two window lengths of another one.
LEMMA NextStart ==
  ASSUME NEW s \in Starts, NEW t \in Starts, s < t, t < s + 2 * Window
  PROVE  t = s + Window
<1>1. PICK a \in Nat : s = a * Window
  BY StartIsMultiple
<1>2. PICK b \in Nat : t = b * Window
  BY StartIsMultiple
<1>3. Window \in Nat \ {0}
  BY CounterAssumption
<1>4. a < b
  BY <1>1, <1>2, <1>3, MultiplesApart
<1>5. (a + 2) * Window = a * Window + 2 * Window
  BY <1>3
<1>6. b < a + 2
  BY <1>1, <1>2, <1>3, <1>5, MultiplesApart
<1>7. b = a + 1
  BY <1>4, <1>6
<1>8. (a + 1) * Window = a * Window + Window
  BY <1>3
<1> QED
  BY <1>1, <1>2, <1>7, <1>8

LEMMA BeginReads ==
  ASSUME TypeOK, NEW c \in Callers, NEW k \in Keys, NEW i \in Instances, BeginRequest(c, k, i)
  PROVE  WeighedByClock(c)'
<1> DEFINE reading == ReadingOf(i)
           start == WindowStartOf(reading, Window)
           new == [key |-> k, instance |-> i, beganAt |-> now, start |-> start,
                   elapsed |-> reading - start, target |-> start, attempt |-> 1,
                   stored |-> None, branch |-> "none"]
<1>1. /\ now \in Nat /\ now <= MaxTime /\ Skew \in Nat
      /\ MaxTime \in Nat /\ MaxTime + Skew <= Horizon /\ Horizon \in Nat
  BY NowFields, RequestsAssumption, CounterAssumption
<1>2. reading \in 0..Horizon /\ now <= reading /\ reading <= now + Skew
  BY <1>1 DEF ReadingOf
<1>3. start \in Nat
  BY <1>2, ReadingInWindow
<1>4. call'[c] = new
  BY DEF BeginRequest, TypeOK
<1>5. /\ new.start = start /\ new.elapsed = reading - start
      /\ new.beganAt = now /\ new.target = start
  OBVIOUS
<1> HIDE DEF new, reading
<1>6. call'[c].start + call'[c].elapsed = reading
  <2> HIDE DEF start
  <2> QED
    BY <1>2, <1>3, <1>4, <1>5
<1> QED
  BY <1>2, <1>4, <1>5, <1>6 DEF WeighedByClock, Reading

\* Going on with the same reading and the same target, or with a later one.
LEMMA AdoptReads ==
  ASSUME TypeOK, CountersSound, CallsSound, WeighedByClocks, ClocksAgree,
         NEW c \in Callers, AdoptStoredWindow(c)
  PROVE  WeighedByClock(c)'
<1> DEFINE stored == item[call[c].key].windowStart
<1>1. /\ IncrementConflicts(c) /\ stage[c] = "incrementing"
      /\ GoTo(c, "incrementing",
              [call[c] EXCEPT !.target = item[call[c].key].windowStart, !.attempt = @ + 1])
  BY DEF AdoptStoredWindow, IncrementConflicts
<1>2. /\ call[c] # None /\ call[c] \in Call
      /\ stored \in Starts /\ stored <= now + Skew /\ call[c].target \in Starts
  BY <1>1, ConflictFields
<1>3. call'[c] = [call[c] EXCEPT !.target = item[call[c].key].windowStart, !.attempt = @ + 1]
  BY <1>1 DEF GoTo, TypeOK
<1>4. /\ call'[c].start = call[c].start /\ call'[c].elapsed = call[c].elapsed
      /\ call'[c].beganAt = call[c].beganAt /\ call'[c].target = stored
  BY <1>2, <1>3 DEF Call
<1>5. call[c].target < stored
  BY <1>4, AdoptKeeps
<1> HIDE DEF stored
<1>6. /\ Reading(c) \in 0..Horizon /\ WindowStartOf(Reading(c), Window) = call[c].start
      /\ call[c].beganAt <= Reading(c) /\ Reading(c) <= call[c].beganAt + Skew
      /\ call[c].target \in {call[c].start, call[c].start + Window}
  BY <1>1 DEF WeighedByClocks, WeighedByClock
<1>7. call[c].start \in Starts /\ call[c].start \in Nat /\ Reading(c) < call[c].start + Window
  BY <1>6, ReadingInWindow
<1>8. /\ now \in Nat /\ now <= call[c].beganAt + Deadline /\ call[c].beganAt \in Nat
  BY <1>1, <1>2, CallFields, NowFields DEF CallsSound, CallSound
<1>9. /\ stored \in Nat /\ call[c].target \in Nat /\ Window \in Nat /\ Skew \in Nat
      /\ Deadline \in Nat /\ Skew + Deadline < Window /\ Reading(c) \in Nat
  BY <1>2, <1>6, StartIsMultiple, CounterAssumption, RequestsAssumption DEF ClocksAgree
<1>10. call[c].start < stored /\ stored < call[c].start + 2 * Window
  BY <1>2, <1>5, <1>6, <1>7, <1>8, <1>9
<1>11. stored = call[c].start + Window
  BY <1>2, <1>7, <1>10, NextStart
<1> QED
  BY <1>4, <1>6, <1>11 DEF WeighedByClock, Reading

LEMMA ReadingsKeep ==
  ASSUME ThrottleInv, WeighedByClocks, ClocksAgree, [Next]_vars
  PROVE  WeighedByClocks'
<1>1. TypeOK /\ CountersSound /\ CallsSound /\ WritesSound
  BY DEF ThrottleInv
<1>2. SUFFICES ASSUME NEW c \in Callers PROVE WeighedByClock(c)'
  BY DEF WeighedByClocks
<1>3. WeighedByClock(c)
  BY DEF WeighedByClocks
<1>4. ASSUME stage'[c] = stage[c], call'[c] = call[c] PROVE WeighedByClock(c)'
  BY <1>3, <1>4 DEF WeighedByClock, Reading
<1>5. ASSUME NEW kind, Decide(c, kind) PROVE WeighedByClock(c)'
  BY <1>1, <1>5 DEF Decide, TypeOK, WeighedByClock
<1>6. ASSUME ChooseTransition(c) \/ ApplyWindowTransition(c) PROVE WeighedByClock(c)'
  <2>1. stage[c] # "idle"
    BY <1>6 DEF ChooseTransition, ApplyWindowTransition, IncrementConflicts
  <2>2. call[c] # None /\ call[c] \in Call
    BY <1>1, <2>1, CallFields DEF CallsSound, CallSound
  <2>3. \/ call'[c] = [call[c] EXCEPT !.stored = item[call[c].key], !.branch = BranchOf(c)]
        \/ call'[c] = [call[c] EXCEPT !.stored = None, !.branch = "none", !.attempt = @ + 1]
    BY <1>1, <1>6 DEF ChooseTransition, ApplyWindowTransition, Retry, GoTo, TypeOK
  <2>4. /\ call'[c].start = call[c].start /\ call'[c].elapsed = call[c].elapsed
        /\ call'[c].beganAt = call[c].beganAt /\ call'[c].target = call[c].target
    BY <2>2, <2>3 DEF Call
  <2> QED
    BY <1>3, <2>1, <2>4 DEF WeighedByClock, Reading
<1>7. ASSUME NEW d \in Callers,
             \/ \E k \in Keys, i \in Instances : BeginRequest(d, k, i)
             \/ StoreAnswers(d) \/ Degrades(d) \/ FailOpen(d)
      PROVE  d # c => stage'[c] = stage[c] /\ call'[c] = call[c]
  <2>1. \/ \E kind : Decide(d, kind)
        \/ \E at, locals : GoTo(d, at, locals)
        \/ \E k \in Keys, i \in Instances : BeginRequest(d, k, i)
    BY <1>7 DEF StoreAnswers, Degrades, FailOpen, IncrementCounts, FindSaturated, AdoptStoredWindow,
       ChooseTransition, ApplyWindowTransition, Retry, BudgetIsSpent, StoreFails
  <2> QED
    BY <1>1, <2>1 DEF TypeOK, Decide, GoTo, BeginRequest
<1>8. ASSUME \/ \E k \in Keys, i \in Instances : BeginRequest(c, k, i)
             \/ StoreAnswers(c) \/ Degrades(c) \/ FailOpen(c)
      PROVE  WeighedByClock(c)'
  <2>1. CASE \E k \in Keys, i \in Instances : BeginRequest(c, k, i)
    BY <1>1, <2>1, BeginReads
  <2>2. CASE Degrades(c) \/ FailOpen(c)
    BY <1>5, <2>2 DEF Degrades, FailOpen, BudgetIsSpent, StoreFails
  <2>3. CASE IncrementCounts(c) \/ FindSaturated(c)
    BY <1>5, <2>3 DEF IncrementCounts, FindSaturated
  <2>4. CASE AdoptStoredWindow(c)
    BY <1>1, <2>4, AdoptReads
  <2> QED
    BY <1>6, <1>8, <2>1, <2>2, <2>3, <2>4 DEF StoreAnswers
<1>9. ASSUME Environment \/ UNCHANGED vars
      PROVE  stage'[c] = stage[c] /\ call'[c] = call[c]
  BY <1>9 DEF Environment, AdriftSettles, CollectExpired, Tick, vars
<1> QED
  BY <1>4, <1>7, <1>8, <1>9 DEF Next

\* The ledger weighs a request by the policy of the code.
LEMMA SamePolicy ==
  /\ \A t : Ledger!WindowStartOf(t, Window) = WindowStartOf(t, Window)
  /\ \A p, q, e, l : Ledger!Admits(Ledger!EstimateRequestCount(p, q, e, Window, Ceiling), l, Window)
                      = Admits(EstimateRequestCount(p, q, e, Window, Ceiling), l, Window)
  BY DEF Ledger!WindowStartOf, WindowStartOf, Ledger!Admits, Admits,
     Ledger!EstimateRequestCount, EstimateRequestCount, Ledger!Least, Least

\* What is written to an item is an entry of the ledger, within its ceiling.
LEMMA IncrementIsEntered ==
  ASSUME ThrottleInv, ClocksAgree, CollectedAfterRequestsEnd, NEW k \in Keys, NEW w,
         AimSound(w), Increment(k, w), now' = now
  PROVE  /\ Ledger!Count(k, w)
         /\ w \in Ledger!OpenWindows
         /\ Incremented(k, w).current = counted[k][w] + 1
         /\ Incremented(k, w).previous = Ledger!Before(k, w)
<1>1. /\ CounterTypeOK /\ CountersSound /\ now \in Nat
  BY NowFields DEF ThrottleInv, TypeOK
<1>2. /\ CounterTypeOK' /\ CountersSound'
      /\ item'[k] = Incremented(k, w) /\ item'[k].windowStart = w
      /\ item'[k].current = counted'[k][w]
      /\ counted'[k][w] = counted[k][w] + 1
      /\ \A v \in Starts \ {w} : counted'[k][v] = counted[k][v]
  BY <1>1, IncrementKeeps
<1>3. w \in Starts /\ w \in Nat /\ w <= now + Skew /\ now < w + Window + Deadline
  BY StartIsMultiple DEF AimSound
<1>4. counted[k] \in [Starts -> Nat] /\ counted[k][w] \in Nat
  BY <1>1, <1>3, ItemFields
<1>5. Incremented(k, w) # None
  <2>1. item[k] # None => item[k] \in Counter /\ item[k].current \in Nat /\ item[k].current < Ceiling
    BY <1>1, ItemFields, CounterAssumption DEF Increment, IncrementAllowed
  <2>2. Incremented(k, w) \in Counter
    BY <1>3, <2>1, CounterAssumption DEF Incremented, Counter
  <2> QED
    BY <2>2, CounterAssumption
<1>6. item'[k] \in Counter
  BY <1>2, <1>5 DEF CounterTypeOK
<1>7. counted[k][w] + 1 <= Ceiling
  BY <1>2, <1>6 DEF Counter
<1>8. Ledger!Count(k, w)
  BY <1>4, <1>7, CounterAssumption DEF Increment, Ledger!Count
<1>9. item'[k].previous = IF w - Window \in Starts THEN counted'[k][w - Window] ELSE 0
  BY <1>2, <1>5 DEF CountersSound, ItemSound
<1>10. w - Window # w
  BY <1>3, CounterAssumption
<1>11. item'[k].previous = Ledger!Before(k, w)
  BY <1>2, <1>9, <1>10 DEF Ledger!Before
<1> QED
  BY <1>2, <1>3, <1>8, <1>11 DEF Ledger!OpenWindows

\* A request is weighed by what it read, in a window that fits the reading.
LEMMA CallReads ==
  ASSUME ThrottleInv, WeighedByClocks, NEW c \in Callers, stage[c] # "idle"
  PROVE  /\ AimSound(call[c].target) /\ call[c].key \in Keys /\ call[c].target \in Starts
         /\ Reading(c) \in Ledger!Readings
         /\ call[c].target \in Ledger!WindowsOf(Reading(c))
         /\ call[c].elapsed = Reading(c) - WindowStartOf(Reading(c), Window)
<1>1. TypeOK /\ CallsSound
  BY DEF ThrottleInv
<1>2. /\ AimSound(call[c].target) /\ call[c].key \in Keys /\ call[c].target \in Starts
      /\ call[c].target <= now + Skew
  BY <1>1, CallAims DEF AimSound
<1>3. /\ Reading(c) \in 0..Horizon /\ WindowStartOf(Reading(c), Window) = call[c].start
      /\ call[c].beganAt <= Reading(c) /\ Reading(c) <= call[c].beganAt + Skew
      /\ call[c].target \in {call[c].start, call[c].start + Window}
  BY DEF WeighedByClocks, WeighedByClock
<1>4. /\ call[c] # None /\ now \in call[c].beganAt..(call[c].beganAt + Deadline)
  BY DEF ThrottleInv, CallsSound, CallSound
<1>5. /\ call[c].beganAt \in Nat /\ call[c].elapsed \in 0..(Window - 1) /\ now \in Nat
      /\ Window \in Nat \ {0} /\ Skew \in Nat /\ Deadline \in Nat /\ Horizon \in Nat
  BY <1>1, <1>4, CallFields, NowFields, CounterAssumption, RequestsAssumption
<1>6. call[c].start \in Nat /\ call[c].elapsed \in Nat
  BY <1>3, <1>5, ReadingInWindow
<1>7. Reading(c) <= now + Skew /\ now <= Reading(c) + Deadline
  BY <1>3, <1>4, <1>5
<1>8. Reading(c) \in Ledger!Readings
  BY <1>3, <1>7 DEF Ledger!Readings
<1>9. call[c].target \in Ledger!WindowsOf(Reading(c))
  <2>1. Ledger!WindowStartOf(Reading(c), Window) = call[c].start
    BY <1>3, SamePolicy
  <2> QED
    BY <1>2, <1>3, <2>1 DEF Ledger!WindowsOf
<1>10. call[c].elapsed = Reading(c) - call[c].start
  BY <1>6 DEF Reading
<1> QED
  BY <1>2, <1>3, <1>8, <1>9, <1>10

LEMMA CountedRequestIsWeighed ==
  ASSUME ThrottleInv, WeighedByClocks, ClocksAgree, CollectedAfterRequestsEnd,
         NEW c \in Callers, IncrementCounts(c)
  PROVE  Ledger!Next
<1> DEFINE k == call[c].key
           w == call[c].target
           t == Reading(c)
<1>1. stage[c] = "incrementing" /\ Increment(k, w) /\ now' = now
  BY DEF IncrementCounts
<1>2. /\ AimSound(w) /\ k \in Keys /\ w \in Starts
      /\ t \in Ledger!Readings /\ w \in Ledger!WindowsOf(t)
      /\ call[c].elapsed = t - WindowStartOf(t, Window)
  BY <1>1, CallReads
<1>3. /\ Ledger!Count(k, w)
      /\ Incremented(k, w).current = counted[k][w] + 1
      /\ Incremented(k, w).previous = Ledger!Before(k, w)
  BY <1>1, <1>2, IncrementIsEntered
<1>4. AdmittedBy(Incremented(k, w), c) <=> Ledger!Fits(k, w, t)
  <2> DEFINE weight == EstimateRequestCount(Ledger!Before(k, w), counted[k][w] + 1,
                                           call[c].elapsed, Window, Ceiling)
  <2>1. AdmittedBy(Incremented(k, w), c) <=> Admits(weight, Limit, Window)
    BY <1>3, Zenon DEF AdmittedBy
  <2>2. t - Ledger!WindowStartOf(t, Window) = call[c].elapsed
    BY <1>2, SamePolicy
  <2>3. Ledger!Fits(k, w, t)
          <=> Ledger!Admits(Ledger!EstimateRequestCount(Ledger!Before(k, w), counted[k][w] + 1,
                                                        call[c].elapsed, Window, Ceiling),
                            Limit, Window)
    BY <2>2, Zenon DEF Ledger!Fits
  <2>4. Ledger!Fits(k, w, t) <=> Admits(weight, Limit, Window)
    BY <2>3, SamePolicy
  <2> QED
    BY <2>1, <2>4
<1>5. \/ /\ AdmittedBy(Incremented(k, w), c) /\ verdict' = "admitted"
         /\ served' = [served EXCEPT ![k][w] = @ + 1]
      \/ /\ ~AdmittedBy(Incremented(k, w), c) /\ verdict' = "refused" /\ served' = served
  BY DEF IncrementCounts, Decide
<1> HIDE DEF k, w, t
<1>6. Ledger!Admit(k, w, t) \/ Ledger!Refuse(k, w, t)
  BY <1>1, <1>3, <1>4, <1>5 DEF Ledger!Admit, Ledger!Refuse
<1> QED
  BY <1>2, <1>6 DEF Ledger!Next

LEMMA SaturatedRequestIsRefused ==
  ASSUME ThrottleInv, WeighedByClocks, ClocksAgree, NEW c \in Callers, FindSaturated(c)
  PROVE  Ledger!Next
<1> DEFINE k == call[c].key
           w == call[c].target
           t == Reading(c)
<1>1. /\ IncrementConflicts(c) /\ stage[c] = "incrementing" /\ BranchOf(c) = "saturated"
      /\ verdict' = "refused" /\ UNCHANGED <<counted, now, served>>
  BY DEF FindSaturated, IncrementConflicts, Decide
<1>2. /\ k \in Keys /\ w \in Starts /\ t \in Ledger!Readings /\ w \in Ledger!WindowsOf(t)
  BY <1>1, CallReads
<1>3. /\ item[k] # None /\ item[k] \in Counter
  BY <1>1, ConflictFields DEF ThrottleInv
<1>4. item[k].windowStart = w /\ item[k].current >= Ceiling
  BY <1>1, <1>2, <1>3, BranchIsExact DEF BranchOf
<1>5. item[k].current = counted[k][w]
  BY <1>2, <1>3, <1>4 DEF ThrottleInv, CountersSound, ItemSound
<1> HIDE DEF k, w, t
<1>6. Ledger!Refuse(k, w, t)
  BY <1>1, <1>4, <1>5 DEF Ledger!Refuse
<1> QED
  BY <1>2, <1>6 DEF Ledger!Next

\* Steps that settle nothing: some request begins, goes on or is given up.
LEMMA OtherStepsOverlook ==
  ASSUME ThrottleInv, ClocksAgree, CollectedAfterRequestsEnd, now' = now, served' = served,
         verdict' \in {verdict, "none", "degraded", "admitted-unclassified"},
         \/ counted' = counted
         \/ \E k \in Keys, w \in Starts : AimSound(w) /\ Increment(k, w)
  PROVE  Ledger!Overlook
<1>1. CASE counted' = counted
  BY <1>1 DEF Ledger!Overlook
<1>2. ASSUME NEW k \in Keys, NEW w \in Starts, AimSound(w), Increment(k, w)
      PROVE  Ledger!Overlook
  <2>1. Ledger!Count(k, w) /\ w \in Ledger!OpenWindows
    BY <1>2, IncrementIsEntered
  <2> QED
    BY <2>1 DEF Ledger!Overlook
<1> QED
  BY <1>1, <1>2

LEMMA LedgerStep ==
  ASSUME ThrottleInv, WeighedByClocks, ClocksAgree, CollectedAfterRequestsEnd, [Next]_vars
  PROVE  [Ledger!Next]_(Ledger!vars)
<1>1. TypeOK /\ CallsSound /\ WritesSound
  BY DEF ThrottleInv
<1> DEFINE Settles == verdict' \in {verdict, "none", "degraded", "admitted-unclassified"}
           Writes == \/ counted' = counted
                     \/ \E k \in Keys, w \in Starts : AimSound(w) /\ Increment(k, w)
           Others == now' = now /\ served' = served /\ Settles /\ Writes
<1>2. Others => Ledger!Next
  BY OtherStepsOverlook DEF Ledger!Next
<1>3. CASE UNCHANGED vars \/ CollectExpired
  BY <1>3 DEF vars, CollectExpired, CollectCounter, Ledger!vars
<1>4. CASE Tick
  BY <1>4 DEF Tick, Ledger!Next, Ledger!Pass
<1>5. ASSUME NEW c \in Callers, NEW k \in Keys, NEW i \in Instances, BeginRequest(c, k, i)
      PROVE  Others
  BY <1>5 DEF BeginRequest
<1>6. ASSUME NEW c \in Callers,
             \/ AdoptStoredWindow(c) \/ ChooseTransition(c) \/ ApplyWindowTransition(c)
             \/ BudgetIsSpent(c) \/ StoreFails(c)
      PROVE  Others
  BY <1>6 DEF AdoptStoredWindow, ChooseTransition, ApplyWindowTransition, BudgetIsSpent, StoreFails,
     Retry, GoTo, Decide, Transition
<1>7. ASSUME NEW c \in Callers, FailOpen(c) PROVE Others
  <2>1. /\ stage[c] # "idle" /\ now' = now /\ served' = served
        /\ verdict' = "admitted-unclassified"
        /\ counted' = counted \/ Increment(call[c].key, call[c].target)
    BY <1>7 DEF FailOpen, Decide
  <2>2. AimSound(call[c].target) /\ call[c].key \in Keys /\ call[c].target \in Starts
    BY <1>1, <2>1, CallAims DEF AimSound
  <2> QED
    BY <2>1, <2>2
<1>8. CASE AdriftSettles
  <2>1. PICK w \in adrift : \/ Increment(w.key, w.start)
                            \/ counted' = counted
    BY <1>8 DEF AdriftSettles, Transition
  <2>2. AimSound(w.start) /\ w.key \in Keys /\ w.start \in Starts
    BY <1>1, WriteAims
  <2>3. now' = now /\ served' = served /\ verdict' = verdict
    BY <1>8 DEF AdriftSettles
  <2>4. Others
    BY <2>1, <2>2, <2>3
  <2> QED
    BY <1>2, <2>4
<1> HIDE DEF Others
<1>9. ASSUME NEW c \in Callers, IncrementCounts(c) \/ FindSaturated(c) PROVE Ledger!Next
  BY <1>9, CountedRequestIsWeighed, SaturatedRequestIsRefused
<1> QED
  BY <1>2, <1>3, <1>4, <1>5, <1>6, <1>7, <1>8, <1>9 DEF Next, StoreAnswers, Degrades, Environment

\* Whatever the items went through, every verdict is one that a single ledger
\* gives: of its window's count and the one before, at the moment of the count.
THEOREM RequestsImplementLedger ==
  ClocksAgree /\ CollectedAfterRequestsEnd => (Spec => ImplementsLedger)
<1> SUFFICES ASSUME ClocksAgree, CollectedAfterRequestsEnd PROVE Spec => ImplementsLedger
  OBVIOUS
<1>1. Init => Ledger!Init
  BY DEF Init, CounterInit, Ledger!Init
<1>2. Init => WeighedByClocks
  BY DEF Init, WeighedByClocks, WeighedByClock
<1>3. ThrottleInv /\ WeighedByClocks /\ [Next]_vars => WeighedByClocks'
  BY ReadingsKeep
<1>4. ThrottleInv /\ WeighedByClocks /\ [Next]_vars => [Ledger!Next]_(Ledger!vars)
  BY LedgerStep
<1> QED
  BY <1>1, <1>2, <1>3, <1>4, ThrottleInvariant, PTL DEF Spec, ImplementsLedger, Ledger!Spec

=============================================================================
