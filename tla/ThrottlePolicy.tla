----------------------------- MODULE ThrottlePolicy -----------------------------
(***************************************************************************)
(* The weighted sliding-window arithmetic of throttle-policy.ts.  The code *)
(* computes with the fraction of the window that has elapsed; here time is *)
(* counted in ticks (seconds), a window is `window' ticks long, and the    *)
(* estimate is multiplied by it, so that every number is an integer and    *)
(* the comparison is exact.                                                *)
(***************************************************************************)
EXTENDS Integers

Least(a, b) == IF a <= b THEN a ELSE b
Greatest(a, b) == IF a >= b THEN a ELSE b

\* Math.ceil of a quotient of two positive integers.
CeilDiv(a, b) == (a + b - 1) \div b

\* fromClock: the start of the window a clock reading falls into.
WindowStartOf(reading, window) == (reading \div window) * window

\* Mutant: the previous window's count is not weighted in.
EstimateRequestCount_CurrentOnly(previous, current, elapsed, window, ceiling) ==
  Least(current, ceiling) * window

\* estimateRequestCount, times the window's length.
EstimateRequestCount(previous, current, elapsed, window, ceiling) ==
  Least(previous, ceiling) * (window - elapsed) + Least(current, ceiling) * window

\* Mutant: one request beyond the limit is let through.
Admits_OneOver(estimate, limit, window) == estimate <= (limit + 1) * window

\* decideAdmission: refused only when the estimate exceeds the limit.
Admits(estimate, limit, window) == estimate <= limit * window

\* secondsIntoFreshWindowUntilAdmits, rounded up: where in a fresh window a
\* single request is admitted although the window before it was saturated.
SecondsIntoFreshWindow(limit, window, ceiling) ==
  CeilDiv(window * (ceiling - (limit - 1)), ceiling)

\* Mutant: the rest of the current window is taken to be enough.
RetryAfterSeconds_WindowOnly(limit, elapsed, window, ceiling) == window - elapsed

\* computeRetryAfterSeconds
RetryAfterSeconds(limit, elapsed, window, ceiling) ==
  Least(Greatest((window - elapsed) + SecondsIntoFreshWindow(limit, window, ceiling), 1),
        3 * window)

=============================================================================
