---------------------------- MODULE AccountRegistry ----------------------------
(***************************************************************************)
(* What registration and sign-in promise together, without ids, locks,     *)
(* transactions or retries: one set of credentials, at most one for an     *)
(* email, which each request consults or adds to at a single moment        *)
(* between its question and its answer.  A request whose answer is lost    *)
(* may have been carried out.                                              *)
(***************************************************************************)
EXTENDS Naturals

CONSTANTS Emails, Passwords, Requests, None

VARIABLES
  credentials,  \* what can be signed in with
  status,       \* request -> what it waits for, or what has been decided
  wish,         \* request -> the credentials it came with, last
  answer        \* request -> how it was answered, last

vars == <<credentials, status, wish, answer>>

Credentials == [email : Emails, password : Passwords]

Init ==
  /\ credentials = {}
  /\ status = [r \in Requests |-> "idle"]
  /\ wish = [r \in Requests |-> None]
  /\ answer = [r \in Requests |-> "none"]

Ask(r, c, what) ==
  /\ status[r] = "idle"
  /\ status' = [status EXCEPT ![r] = what]
  /\ wish' = [wish EXCEPT ![r] = c]
  /\ answer' = [answer EXCEPT ![r] = "none"]
  /\ UNCHANGED credentials

\* What cannot be understood is answered without a look at the credentials.
Dismiss(r) ==
  /\ status[r] = "idle"
  /\ wish' = [wish EXCEPT ![r] = None]
  /\ answer' = [answer EXCEPT ![r] = "unprocessable"]
  /\ UNCHANGED <<credentials, status>>

Reply(r, a) ==
  /\ status' = [status EXCEPT ![r] = "idle"]
  /\ answer' = [answer EXCEPT ![r] = a]
  /\ UNCHANGED wish

Decide(r, what) ==
  /\ status' = [status EXCEPT ![r] = what]
  /\ UNCHANGED <<wish, answer>>

IsTaken(email) == \E c \in credentials : c.email = email

Add(r) ==
  /\ status[r] = "registering"
  /\ ~IsTaken(wish[r].email)
  /\ credentials' = credentials \cup {wish[r]}

Register(r) == Add(r) /\ Decide(r, "registered")

Confirm(r) ==
  /\ status[r] = "registered"
  /\ Reply(r, "created")
  /\ UNCHANGED credentials

Refuse(r) ==
  /\ status[r] = "registering"
  /\ IsTaken(wish[r].email)
  /\ Reply(r, "taken")
  /\ UNCHANGED credentials

SignIn(r) ==
  /\ status[r] = "signing-in"
  /\ wish[r] \in credentials
  /\ Reply(r, "signed-in")
  /\ UNCHANGED credentials

Deny(r) ==
  /\ status[r] = "signing-in"
  /\ wish[r] \notin credentials
  /\ Decide(r, "denied") \/ Reply(r, "unauthorized")
  /\ UNCHANGED credentials

Report(r) ==
  /\ status[r] = "denied"
  /\ Reply(r, "unauthorized")
  /\ UNCHANGED credentials

\* The service cannot say what became of the request.
Lose(r) ==
  /\ status[r] # "idle"
  /\ Reply(r, "unavailable")
  /\ Add(r) \/ UNCHANGED credentials

Next ==
  \E r \in Requests :
    \/ \E c \in Credentials : Ask(r, c, "registering") \/ Ask(r, c, "signing-in")
    \/ Dismiss(r)
    \/ Register(r)
    \/ Confirm(r)
    \/ Refuse(r)
    \/ SignIn(r)
    \/ Deny(r)
    \/ Report(r)
    \/ Lose(r)

Spec == Init /\ [][Next]_vars

=============================================================================
