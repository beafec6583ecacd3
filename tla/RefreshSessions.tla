---------------------------- MODULE RefreshSessions ----------------------------
(***************************************************************************)
(* What refresh-token rotation promises, without requests, retries, clocks *)
(* or storage: each sign-in opens a session, a session is one chain of     *)
(* tokens of which at most the last is honoured, honouring a token replaces*)
(* it, and a token that is no longer honoured never is again.              *)
(***************************************************************************)
EXTENDS Naturals

CONSTANTS Accounts, TokenIds, None

VARIABLES
  live,     \* the tokens that would be honoured if they were presented now
  session   \* token -> the sign-in it descends from, or None

vars == <<live, session>>

SessionOf(t) == [root : {t}, account : Accounts, openedAt : Nat]

Init ==
  /\ live = {}
  /\ session = [t \in TokenIds |-> None]

\* A sign-in.  Its token may be refused from the start: a revocation that
\* lands while the sign-in is in progress covers it.
SignIn(t) ==
  /\ session[t] = None
  /\ session'[t] \in SessionOf(t)
  /\ session' = [session EXCEPT ![t] = session'[t]]
  /\ live' \in {live, live \cup {t}}

\* A renewal: the presented token gives way to its one successor.
Renew(t, s) ==
  /\ t \in live
  /\ session[s] = None
  /\ session' = [session EXCEPT ![s] = session[t]]
  /\ live' = (live \ {t}) \cup {s}

\* A revocation takes every session of the account at once.
Revoke(a) ==
  /\ live' = {t \in live : session[t].account # a}
  /\ UNCHANGED session

\* A token falls out of use on its own.
Lapse(t) ==
  /\ t \in live
  /\ live' = live \ {t}
  /\ UNCHANGED session

Next ==
  \/ \E t \in TokenIds : SignIn(t) \/ Lapse(t)
  \/ \E t, s \in TokenIds : Renew(t, s)
  \/ \E a \in Accounts : Revoke(a)

Spec == Init /\ [][Next]_vars

=============================================================================
