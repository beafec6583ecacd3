----------------------------- MODULE RequestLedger -----------------------------
(***************************************************************************)
(* What throttling promises, without items, rollovers, retries or late     *)
(* writes: a ledger of the requests counted, by key and window.  A request *)
(* is weighed at one moment, against all that the ledger holds of its      *)
(* window and of the one before, by a clock it has read not long ago; it   *)
(* is refused for what the ledger holds and for nothing else.  A request   *)
(* that is given up may have been counted, now or a little later.          *)
(***************************************************************************)
EXTENDS ThrottlePolicy

CONSTANTS
  Keys, Starts, Window, Ceiling, Limit, Horizon,
  Skew,     \* how far a clock may be ahead
  Deadline  \* how long ago it may have been read

VARIABLES
  now,
  counted,  \* key -> window -> requests counted in it
  served,   \* key -> window -> requests admitted in it
  verdict   \* how the last decision went

vars == <<now, counted, served, verdict>>

Init ==
  /\ now = 0
  /\ counted = [k \in Keys |-> [w \in Starts |-> 0]]
  /\ served = [k \in Keys |-> [w \in Starts |-> 0]]
  /\ verdict = "none"

\* What a request that is decided now may have read from its clock.
Readings == {t \in 0..Horizon : t <= now + Skew /\ now <= t + Deadline}

\* The windows a request with that reading may be weighed in: its own, or the
\* next one, which a faster clock has opened.
WindowsOf(t) ==
  {w \in {WindowStartOf(t, Window), WindowStartOf(t, Window) + Window} \cap Starts :
     w <= now + Skew}

\* The windows that may still be counted in.
OpenWindows == {w \in Starts : w <= now + Skew /\ now < w + Window + Deadline}

Before(k, w) == IF w - Window \in Starts THEN counted[k][w - Window] ELSE 0

Count(k, w) ==
  /\ counted[k][w] < Ceiling
  /\ counted' = [counted EXCEPT ![k][w] = @ + 1]

Fits(k, w, t) ==
  Admits(EstimateRequestCount(Before(k, w), counted[k][w] + 1,
                              t - WindowStartOf(t, Window), Window, Ceiling), Limit, Window)

Admit(k, w, t) ==
  /\ Count(k, w)
  /\ Fits(k, w, t)
  /\ served' = [served EXCEPT ![k][w] = @ + 1]
  /\ verdict' = "admitted"
  /\ UNCHANGED now

\* A refused request is counted like any other, until the count is full.
Refuse(k, w, t) ==
  /\ \/ Count(k, w) /\ ~Fits(k, w, t)
     \/ counted[k][w] >= Ceiling /\ UNCHANGED counted
  /\ verdict' = "refused"
  /\ UNCHANGED <<now, served>>

\* A request begins, is given up, or is counted after it was given up.
Overlook ==
  /\ UNCHANGED counted \/ \E k \in Keys, w \in OpenWindows : Count(k, w)
  /\ verdict' \in {verdict, "none", "degraded", "admitted-unclassified"}
  /\ UNCHANGED <<now, served>>

Pass ==
  /\ now' = now + 1
  /\ verdict' = "none"
  /\ UNCHANGED <<counted, served>>

Next ==
  \/ Pass
  \/ Overlook
  \/ \E k \in Keys, t \in Readings : \E w \in WindowsOf(t) : Admit(k, w, t) \/ Refuse(k, w, t)

Spec == Init /\ [][Next]_vars

=============================================================================
