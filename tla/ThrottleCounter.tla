----------------------------- MODULE ThrottleCounter -----------------------------
(***************************************************************************)
(* The throttle counters in the DynamoDB table: one item per key, holding  *)
(* the start of a window, the requests counted in it and those counted in  *)
(* the window before.  Each operator is one statement the repository sends,*)
(* atomic on the item; choosing the branch after a failed condition is     *)
(* rollover-branch.ts.                                                     *)
(*                                                                         *)
(* A key stands for (scope, identity, route group); items of different     *)
(* keys share nothing.  The history variable counted remembers every       *)
(* increment that has landed, by the window it was counted in.             *)
(***************************************************************************)
EXTENDS ThrottlePolicy

CONSTANTS
  Keys,     \* caller identities
  Window,   \* windowSeconds
  Ceiling,  \* saturationCeiling
  Horizon,  \* bound: no clock reading reaches beyond it
  None      \* no item, no call, no entry

VARIABLES
  item,     \* key -> stored counter, or None
  counted   \* history: key -> window start -> increments that landed in it

counterVars == <<item, counted>>

Starts == {WindowStartOf(t, Window) : t \in 0..Horizon}

Counter == [windowStart : Starts, current : 0..Ceiling, previous : 0..Ceiling]

ASSUME CounterAssumption ==
  /\ Window \in Nat \ {0}
  /\ Ceiling \in Nat \ {0}
  /\ Horizon \in Nat
  /\ None \notin Counter

CounterTypeOK ==
  /\ item \in [Keys -> Counter \cup {None}]
  /\ counted \in [Keys -> [Starts -> Nat]]

CounterInit ==
  /\ item = [k \in Keys |-> None]
  /\ counted = [k \in Keys |-> [w \in Starts |-> 0]]

-----------------------------------------------------------------------------
(* rollover-branch.ts                                                      *)

\* Math.round of the distance in windows, which rounds halves up.
WindowsElapsedSince(stored, start) ==
  (2 * (start - stored) + Window) \div (2 * Window)

\* Mutant: any elapsed window promotes, however long the caller was idle.
SelectRolloverBranch_AlwaysCarries(stored, start) ==
  LET elapsed == WindowsElapsedSince(stored.windowStart, start)
  IN  IF stored.windowStart = start /\ stored.current >= Ceiling THEN "saturated"
      ELSE IF elapsed >= 1 THEN "promote-previous"
      ELSE IF elapsed >= -1 THEN "adopt-stored-window"
      ELSE "reset-item"

\* Mutant: no skew is tolerated, a window ahead of the caller's is reset.
SelectRolloverBranch_NoTolerance(stored, start) ==
  LET elapsed == WindowsElapsedSince(stored.windowStart, start)
  IN  IF stored.windowStart = start /\ stored.current >= Ceiling THEN "saturated"
      ELSE IF elapsed >= 2 THEN "promote-zero"
      ELSE IF elapsed = 1 THEN "promote-previous"
      ELSE IF elapsed >= 0 THEN "adopt-stored-window"
      ELSE "reset-item"

\* selectRolloverBranch
SelectRolloverBranch(stored, start) ==
  LET elapsed == WindowsElapsedSince(stored.windowStart, start)
  IN  IF stored.windowStart = start /\ stored.current >= Ceiling THEN "saturated"
      ELSE IF elapsed >= 2 THEN "promote-zero"
      ELSE IF elapsed = 1 THEN "promote-previous"
      ELSE IF elapsed >= -1 THEN "adopt-stored-window"
      ELSE "reset-item"

-----------------------------------------------------------------------------
(* throttle-counter.repository.ts                                          *)

\* Mutant: the saturation is honoured in the estimate alone.
IncrementAllowed_NoCeiling(k, start) ==
  item[k] # None => item[k].windowStart = start

\* INCREMENT_CONDITION
IncrementAllowed(k, start) ==
  item[k] # None => /\ item[k].windowStart = start
                    /\ item[k].current < Ceiling

\* INCREMENT_EXPRESSION, on an existing item or on none.
Incremented(k, start) ==
  IF item[k] = None
    THEN [windowStart |-> start, current |-> 1, previous |-> 0]
    ELSE [item[k] EXCEPT !.current = @ + 1]

Increment(k, start) ==
  /\ IncrementAllowed(k, start)
  /\ item' = [item EXCEPT ![k] = Incremented(k, start)]
  /\ counted' = [counted EXCEPT ![k][start] = @ + 1]

\* TRANSITION_CONDITION; it fails of a missing item.
TransitionAllowed(k, stored) ==
  item[k] # None /\ item[k].windowStart = stored.windowStart

\* Mutant: the transition counts its request as well as the retry does.
Transitioned_CountsTwice(k, branch, start) ==
  [windowStart |-> start,
   current     |-> 1,
   previous    |-> IF branch = "promote-previous" THEN item[k].current ELSE 0]

\* CARRY_PREVIOUS_EXPRESSION and DROP_PREVIOUS_EXPRESSION, which read the
\* item as it is now and not as it was when the branch was chosen.
Transitioned(k, branch, start) ==
  [windowStart |-> start,
   current     |-> 0,
   previous    |-> IF branch = "promote-previous" THEN item[k].current ELSE 0]

Transition(k, branch, stored, start) ==
  /\ TransitionAllowed(k, stored)
  /\ item' = [item EXCEPT ![k] = Transitioned(k, branch, start)]
  /\ UNCHANGED counted

\* DynamoDB's ttl deletion, two windows past the window's start.
CollectCounter(k, now) ==
  /\ item[k] # None
  /\ now >= item[k].windowStart + 2 * Window
  /\ item' = [item EXCEPT ![k] = None]
  /\ UNCHANGED counted

=============================================================================
