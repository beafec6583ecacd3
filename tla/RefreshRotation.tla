---------------------------- MODULE RefreshRotation ----------------------------
(***************************************************************************)
(* Sign-in and refresh-token rotation: AuthenticateAccount.execute and     *)
(* RotateRefreshToken.execute over the token store, with any number of     *)
(* requests in flight.  Requests run in different function instances, so   *)
(* they interleave between any two awaits; each action below is the code   *)
(* from one await to the next.  A request may end at any await, because a  *)
(* storage call throws, the instance is killed or the answer is lost on    *)
(* the way to the client (Fail).                                           *)
(***************************************************************************)
EXTENDS RefreshTokenStore, FiniteSets

CONSTANTS
  Requests,         \* request slots: at most this many in flight
  RefreshTtl,       \* REFRESH_TOKEN_TTL_SECONDS
  SessionCeiling,   \* SESSION_CEILING_SECONDS
  MaxAttempts,      \* MAX_TRANSACTION_CONFLICT_ATTEMPTS
  RequestLife,      \* the function's time limit
  ConflictCancels,  \* whether a write conflict may be reported as a cancellation
  MaxTime,          \* bound: the clock stops here
  MaxGeneration     \* bound: revocations per account

ASSUME RotationAssumption ==
  /\ RefreshTtl \in Nat \ {0}
  /\ SessionCeiling \in Nat \ {0}
  /\ MaxAttempts \in Nat \ {0}
  /\ RequestLife \in Nat
  /\ ConflictCancels \in BOOLEAN
  /\ MaxTime \in Nat
  /\ MaxGeneration \in Nat

VARIABLES
  clock,      \* the injected clock, the same for every instance
  stage,      \* request -> the await it is at
  call,       \* request -> its local variables, or None
  outcome,    \* request -> how its last call ended
  delivered,  \* history: tokens whose secret has reached a client
  retired     \* history: tokens a committed rotation has retired

vars == <<items, generation, nextId, session,
          clock, stage, call, outcome, delivered, retired>>

Stages == {"idle", "issuing", "finding", "minting", "rotating",
           "rereading", "classifying", "revoking", "loading"}

Outcomes == {"none", "signed-in", "rotated", "unknown", "expired",
             "benign-replay", "reuse-detected", "failed"}

Call == [account    : Accounts,
         token      : Nat,
         secretOk   : BOOLEAN,
         beganAt    : Nat,
         generation : Nat,
         presented  : Item \cup {None},
         successor  : Nat,
         expiresAt  : Nat,
         attempt    : Nat,
         contested  : BOOLEAN]  \* history: its conflict came as a cancellation

ASSUME CallAssumption == None \notin Call

TypeOK ==
  /\ StoreTypeOK
  /\ clock \in Nat
  /\ stage \in [Requests -> Stages]
  /\ call \in [Requests -> Call \cup {None}]
  /\ outcome \in [Requests -> Outcomes]
  /\ delivered \subseteq TokenIds
  /\ retired \subseteq TokenIds

Init ==
  /\ StoreInit
  /\ clock = 0
  /\ stage = [r \in Requests |-> "idle"]
  /\ call = [r \in Requests |-> None]
  /\ outcome = [r \in Requests |-> "none"]
  /\ delivered = {}
  /\ retired = {}

-----------------------------------------------------------------------------

InFlight == {r \in Requests : stage[r] # "idle"}

Begin(r, at, c) ==
  /\ stage[r] = "idle"
  /\ stage' = [stage EXCEPT ![r] = at]
  /\ call' = [call EXCEPT ![r] = c]
  /\ outcome' = [outcome EXCEPT ![r] = "none"]

GoTo(r, at) ==
  /\ stage' = [stage EXCEPT ![r] = at]
  /\ UNCHANGED outcome

Finish(r, result) ==
  /\ stage' = [stage EXCEPT ![r] = "idle"]
  /\ call' = [call EXCEPT ![r] = None]
  /\ outcome' = [outcome EXCEPT ![r] = result]

\* Bounds of the model: a request starts only while the ids and the
\* generations it and the requests in flight may use are within bounds, so
\* that no request is ever stuck on a bound.
IdLeft == nextId + Cardinality({r \in Requests : stage[r] \in {"issuing", "finding", "minting"}})
            <= MaxTokens
GenerationLeft(a) == generation[a] + Cardinality(InFlight) < MaxGeneration

NewCall(a, t, ok) ==
  [account |-> a, token |-> t, secretOk |-> ok, beganAt |-> clock,
   generation |-> generation[a], presented |-> None, successor |-> NoToken,
   expiresAt |-> 0, attempt |-> 1, contested |-> FALSE]

-----------------------------------------------------------------------------
(* AuthenticateAccount.execute                                             *)

\* verifyCredentials: the account, its generation with it, is read before
\* the password is verified and the access token signed.
BeginSignIn(r, a) ==
  /\ IdLeft
  /\ Begin(r, "issuing", NewCall(a, NoToken, TRUE))
  /\ UNCHANGED <<items, generation, nextId, session, clock, delivered, retired>>

\* issueRefreshToken, then the answer, which may not arrive.
IssueToken(r) ==
  /\ stage[r] = "issuing"
  /\ nextId <= MaxTokens
  /\ nextId' = nextId + 1
  /\ Issue(nextId, [account    |-> call[r].account,
                    digest     |-> TRUE,
                    generation |-> call[r].generation,
                    startedAt  |-> clock,
                    expiresAt  |-> clock + RefreshTtl,
                    successor  |-> NoToken])
  /\ \/ /\ Finish(r, "signed-in")
        /\ delivered' = delivered \cup {nextId}
     \/ /\ Finish(r, "failed")
        /\ UNCHANGED delivered
  /\ UNCHANGED <<generation, clock, retired>>

-----------------------------------------------------------------------------
(* RotateRefreshToken.execute                                              *)

\* A client presents an id under an account.  Only a client the token was
\* delivered to knows its secret; anyone may present a wrong one.
BeginRefresh(r, a, t, ok) ==
  /\ ok => t \in delivered
  /\ t < nextId
  /\ (items[t] # None /\ ~IsRetired(items[t])) => IdLeft
  /\ GenerationLeft(a)
  /\ Begin(r, "finding", NewCall(a, t, ok))
  /\ UNCHANGED <<items, generation, nextId, session, clock, delivered, retired>>

IsPastExpiry(item, now) ==
  \/ now >= item.expiresAt
  \/ now >= item.startedAt + SessionCeiling

\* execute up to its first decision.  The secret is checked before anything
\* else is; an item without a digest makes the comparison throw.
FindPresented(r) ==
  LET found == FindByIds(call[r].account, call[r].token)
  IN
  /\ stage[r] = "finding"
  /\ \/ /\ found = None
        /\ Finish(r, "unknown")
     \/ /\ found # None
        /\ ~found.digest
        /\ Finish(r, "failed")
     \/ /\ found # None
        /\ found.digest
        /\ ~call[r].secretOk
        /\ Finish(r, "unknown")
     \/ /\ found # None
        /\ found.digest
        /\ call[r].secretOk
        /\ \/ /\ IsRetired(found)
              /\ call' = [call EXCEPT ![r].presented = found]
              /\ GoTo(r, "classifying")
           \/ /\ ~IsRetired(found)
              /\ IsPastExpiry(found, clock)
              /\ Finish(r, "expired")
           \/ /\ ~IsRetired(found)
              /\ ~IsPastExpiry(found, clock)
              /\ call' = [call EXCEPT ![r].presented = found]
              /\ GoTo(r, "minting")
  /\ UNCHANGED <<items, generation, nextId, session, clock, delivered, retired>>

\* Mutant: the lifetime is subtracted from now instead of added to it.
SuccessorExpiry_SignError(item, now) == now - RefreshTtl

\* successorExpiryOf
SuccessorExpiry(item, now) ==
  IF now + RefreshTtl < item.startedAt + SessionCeiling
    THEN now + RefreshTtl
    ELSE item.startedAt + SessionCeiling

\* attemptRotation up to the transaction: a second reading of the clock.
MintSuccessor(r) ==
  /\ stage[r] = "minting"
  /\ nextId <= MaxTokens
  /\ nextId' = nextId + 1
  /\ call' = [call EXCEPT ![r].successor = nextId,
                          ![r].expiresAt = SuccessorExpiry(call[r].presented, clock)]
  /\ GoTo(r, "rotating")
  /\ UNCHANGED <<items, generation, session, clock, delivered, retired>>

\* Mutant: every renewal starts the session's ceiling afresh.
SuccessorItem_RestartsSession(c) ==
  [account    |-> c.presented.account,
   digest     |-> TRUE,
   generation |-> c.presented.generation,
   startedAt  |-> c.beganAt,
   expiresAt  |-> c.expiresAt,
   successor  |-> NoToken]

\* The successor attemptRotation builds from the copy it read.
SuccessorItem(c) ==
  [account    |-> c.presented.account,
   digest     |-> TRUE,
   generation |-> c.presented.generation,
   startedAt  |-> c.presented.startedAt,
   expiresAt  |-> c.expiresAt,
   successor  |-> NoToken]

\* rotate, committed.
RotateCommits(r) ==
  /\ stage[r] = "rotating"
  /\ Rotate(call[r].token, call[r].presented, call[r].successor, SuccessorItem(call[r]))
  /\ retired' = retired \cup {call[r].token}
  /\ GoTo(r, "loading")
  /\ UNCHANGED <<generation, nextId, clock, call, delivered>>

\* Mutant: a cancelled transaction is taken for a committed one.
RotateIsCancelled_Ignored(r) ==
  /\ stage[r] = "rotating"
  /\ ~RotateConditionsHold(call[r].token, call[r].presented)
  /\ GoTo(r, "loading")
  /\ UNCHANGED <<items, generation, nextId, session, clock, call, delivered, retired>>

\* Mutant: whatever the transaction throws is taken for a failed condition.
RotateIsCancelled_AnyError(r) ==
  /\ stage[r] = "rotating"
  /\ GoTo(r, "rereading")
  /\ UNCHANGED <<items, generation, nextId, session, clock, call, delivered, retired>>

\* rotate, TransactionCanceledException: one of the conditions failed.
RotateIsCancelled(r) ==
  /\ stage[r] = "rotating"
  /\ ~RotateConditionsHold(call[r].token, call[r].presented)
  /\ GoTo(r, "rereading")
  /\ UNCHANGED <<items, generation, nextId, session, clock, call, delivered, retired>>

\* Another write on the same account's items is in progress.
Contended(r) ==
  \E q \in Requests \ {r} : /\ stage[q] \in {"rotating", "revoking"}
                            /\ call[q].account = call[r].account

\* rotate, a write conflict: retried up to the bound and then thrown, or,
\* when the storage reports it as a cancellation, taken for a failed condition.
RotateConflicts(r) ==
  /\ stage[r] = "rotating"
  /\ Contended(r)
  /\ \/ /\ ConflictCancels
        /\ call' = [call EXCEPT ![r].contested = TRUE]
        /\ GoTo(r, "rereading")
     \/ /\ call[r].attempt < MaxAttempts
        /\ call' = [call EXCEPT ![r].attempt = @ + 1]
        /\ GoTo(r, "rotating")
     \/ /\ call[r].attempt >= MaxAttempts
        /\ Finish(r, "failed")
  /\ UNCHANGED <<items, generation, nextId, session, clock, delivered, retired>>

\* Mutant: a failed condition with the token unretired is tried again.
Reread_TriesAgain(r) ==
  LET current == FindByIds(call[r].presented.account, call[r].token)
  IN
  /\ stage[r] = "rereading"
  /\ \/ /\ current # None
        /\ IsRetired(current)
        /\ call' = [call EXCEPT ![r].presented = current]
        /\ GoTo(r, "classifying")
     \/ /\ current # None => ~IsRetired(current)
        /\ GoTo(r, "rotating")
        /\ UNCHANGED call
  /\ UNCHANGED <<items, generation, nextId, session, clock, delivered, retired>>

\* reclassifyAfterConditionFailure
Reread(r) ==
  LET current == FindByIds(call[r].presented.account, call[r].token)
  IN
  /\ stage[r] = "rereading"
  /\ \/ /\ current # None
        /\ IsRetired(current)
        /\ call' = [call EXCEPT ![r].presented = current]
        /\ GoTo(r, "classifying")
     \/ /\ current # None => ~IsRetired(current)
        /\ Finish(r, "expired")
  /\ UNCHANGED <<items, generation, nextId, session, clock, delivered, retired>>

\* Mutant: a successor past its expiry no longer counts as the tip.
IsUntouchedTip_Unexpired(item) == item # None /\ ~IsRetired(item) /\ ~IsPastExpiry(item, clock)

\* What makes a replay benign: the successor is stored and unretired.
IsUntouchedTip(item) == item # None /\ ~IsRetired(item)

\* classifyReplay up to revokeAll: the successor's own state decides.
ClassifyReplay(r) ==
  LET successor == FindByIds(call[r].presented.account, call[r].presented.successor)
  IN
  /\ stage[r] = "classifying"
  /\ \/ /\ IsUntouchedTip(successor)
        /\ Finish(r, "benign-replay")
     \/ /\ ~IsUntouchedTip(successor)
        /\ GoTo(r, "revoking")
        /\ UNCHANGED call
  /\ UNCHANGED <<items, generation, nextId, session, clock, delivered, retired>>

\* revokeAll; the increment may land and its answer be lost.
RevokeAll(r) ==
  /\ stage[r] = "revoking"
  /\ IncrementGeneration(call[r].presented.account)
  /\ Finish(r, "reuse-detected") \/ Finish(r, "failed")
  /\ UNCHANGED <<items, nextId, session, clock, delivered, retired>>

\* buildRotatedOutcome: the account is read and the access token signed only
\* now that the rotation is committed.
LoadAccountAndSign(r) ==
  /\ stage[r] = "loading"
  /\ delivered' = delivered \cup {call[r].successor}
  /\ Finish(r, "rotated")
  /\ UNCHANGED <<items, generation, nextId, session, clock, retired>>

-----------------------------------------------------------------------------

\* A call throws, the instance is killed, or the answer never arrives.
Fail(r) ==
  /\ stage[r] # "idle"
  /\ Finish(r, "failed")
  /\ UNCHANGED <<items, generation, nextId, session, clock, delivered, retired>>

\* Time passes; no request outlives the function's time limit.
Tick ==
  /\ clock < MaxTime
  /\ \A r \in InFlight : clock < call[r].beganAt + RequestLife
  /\ clock' = clock + 1
  /\ UNCHANGED <<items, generation, nextId, session, stage, call, outcome, delivered, retired>>

CollectExpired ==
  /\ \E t \in TokenIds : Collect(t, clock)
  /\ UNCHANGED <<generation, nextId, session, clock, stage, call, outcome, delivered, retired>>

\* What a request does once it has been accepted, whatever it meets.
Progress(r) ==
  \/ IssueToken(r)
  \/ FindPresented(r)
  \/ MintSuccessor(r)
  \/ RotateCommits(r)
  \/ RotateIsCancelled(r)
  \/ RotateConflicts(r)
  \/ Reread(r)
  \/ ClassifyReplay(r)
  \/ RevokeAll(r)
  \/ LoadAccountAndSign(r)

Next ==
  \/ \E r \in Requests :
       \/ \E a \in Accounts : BeginSignIn(r, a)
       \/ \E a \in Accounts, t \in TokenIds, ok \in BOOLEAN : BeginRefresh(r, a, t, ok)
       \/ Progress(r)
       \/ Fail(r)
  \/ Tick
  \/ CollectExpired

Spec == Init /\ [][Next]_vars

\* An accepted request is run to its end: the event loop resumes it after
\* every await, and every storage call settles.
Fairness == \A r \in Requests : WF_vars(Progress(r))

FairSpec == Spec /\ Fairness

-----------------------------------------------------------------------------
(* Properties                                                              *)

\* A token that has been stored and not rotated away.
Outstanding(t) == items[t] # None /\ ~IsRetired(items[t])

\* A token the rotate transaction would accept.
Live(t) ==
  /\ Outstanding(t)
  /\ items[t].digest
  /\ items[t].generation = generation[items[t].account]

LiveTokens == {t \in TokenIds : Live(t)}

Ends(r) == stage[r] # "idle" /\ stage'[r] = "idle"

\* The caller holds the token it presents, under the account it belongs to.
Genuine(c) ==
  /\ c.secretOk
  /\ session[c.token] # None
  /\ session[c.token].account = c.account

(* However requests interleave, conflict, fail and are retried, a sign-in  *)
(* has at most one token that has not been rotated away: two requests with *)
(* the same token never both start a chain (rotate's transaction, AC-17).  *)
OneTipPerSignIn ==
  \A t, u \in TokenIds :
    Outstanding(t) /\ Outstanding(u) /\ session[t].root = session[u].root => t = u

(* No renewal, however many there are and however late it commits, yields  *)
(* a token that lasts beyond the ceiling of the sign-in it descends from   *)
(* (successorExpiryOf and the sessionStartedAt it copies, AC-19).          *)
RenewalsStayUnderCeiling ==
  \A t \in TokenIds :
    items[t] # None /\ session[t].root # t
      => items[t].expiresAt <= session[t].openedAt + SessionCeiling

(* A client is only ever handed a token that was stored: a rotation that   *)
(* lost its race, conflicted or failed never reaches the answer            *)
(* (attemptRotation's order of rotate and buildRotatedOutcome).            *)
NoPhantomToken == \A t \in delivered : session[t] # None

(* A caller without the secret, or with a token id of another account, is  *)
(* turned away at the first read: it never reaches a branch that rotates,  *)
(* tells a retired token from a live one, or revokes (execute's order of   *)
(* checks, AC-21).                                                         *)
StrangersLearnNothing ==
  \A r \in Requests :
    stage[r] \notin {"idle", "issuing", "finding"} => Genuine(call[r])

(* When reuse is reported, no token of the account is live any more: not   *)
(* the tip, not another sign-in's, not one committed while the replay was  *)
(* being classified (classifyReplay and revokeAll, AC-16).                 *)
ReuseKillsAccount ==
  [][\A r \in Requests :
       Ends(r) /\ outcome'[r] = "reuse-detected"
         => \A t \in TokenIds : items'[t] # None /\ items'[t].account = call[r].account
                                => ~Live(t)']_vars

\* No later request will be able to renew the token this one presented.
IsDead(r) == ~Live(call[r].token) \/ IsPastExpiry(items[call[r].token], clock)

\* A holder is told that its token is unknown or expired.
TurnsAway(r) ==
  Ends(r) /\ outcome'[r] \in {"unknown", "expired"} /\ Genuine(call[r])

(* A holder who is told that its token is unknown or expired has a token   *)
(* that no later request will be able to renew either: a transaction       *)
(* fails because the token was retired or its account's generation moved   *)
(* (RefreshTokenRotationResult, reclassifyAfterConditionFailure).          *)
RefusalIsFinal == [][\A r \in Requests : TurnsAway(r) => IsDead(r)]_vars

(* Nothing but a write conflict that comes as a cancellation makes the     *)
(* service turn a working token away: not a race that was lost, a replay,  *)
(* a conflict that was retried, a revocation or a collection               *)
(* (rotate in the repository, reclassifyAfterConditionFailure).            *)
OnlyConflictsTurnAway ==
  [][\A r \in Requests : TurnsAway(r) /\ ~call[r].contested => IsDead(r)]_vars

(* Every session of an account is revoked only on the proof the code asks  *)
(* for: the replayed token's successor has itself been rotated             *)
(* (classifyReplay, RotationOutcome's ReuseDetectedOutcome).               *)
RevokedOnlyOnProof ==
  [][\A r \in Requests :
       stage[r] = "classifying" /\ stage'[r] = "revoking"
         => call[r].presented.successor \in retired]_vars

(* A replay that does not prove a second chain never ends a session that   *)
(* still runs: where the successor was not rotated but is merely absent,   *)
(* collected before the token it replaced, no token of that sign-in was    *)
(* left to renew (classifyReplay).                                         *)
RevokedOnProofOrAfterSession ==
  [][\A r \in Requests :
       stage[r] = "classifying" /\ stage'[r] = "revoking"
         => \/ call[r].presented.successor \in retired
            \/ \A t \in TokenIds :
                 Outstanding(t) => session[t].root # session[call[r].token].root]_vars

(* Every request that is accepted ends, through every conflict retry,      *)
(* re-read and classification.                                             *)
EveryRequestEnds == \A r \in Requests : (stage[r] # "idle") ~> (stage[r] = "idle")

Sessions == INSTANCE RefreshSessions WITH live <- LiveTokens

(* The store and the requests together implement the abstract sessions.    *)
ImplementsSessions == Sessions!Spec

-----------------------------------------------------------------------------
(* The inductive invariant behind the safety properties.                   *)

\* Ids come from the generator, and what is stored agrees with its session.
TokenOK(t) ==
  /\ t >= nextId => items[t] = None /\ session[t] = None
  /\ session[t] # None => session[t].root < nextId
  /\ items[t] # None =>
       /\ session[t] # None
       /\ items[t].digest
       /\ items[t].account = session[t].account
       /\ items[t].startedAt = session[t].openedAt
       /\ items[t].generation <= generation[items[t].account]

\* The item behind a request's copy is still there, whatever happened to it
\* since the copy was read: it cannot be collected while the request lives.
CopyIsStored(c) ==
  /\ items[c.token] # None
  /\ items[c.token].account = c.presented.account
  /\ items[c.token].generation = c.presented.generation
  /\ items[c.token].startedAt = c.presented.startedAt
  /\ items[c.token].expiresAt = c.presented.expiresAt
  /\ c.beganAt < c.presented.expiresAt

SuccessorIsReserved(c) ==
  /\ c.successor \in TokenIds
  /\ c.successor < nextId
  /\ items[c.successor] = None
  /\ session[c.successor] = None
  /\ c.expiresAt <= c.presented.startedAt + SessionCeiling

RequestOK(r) ==
  /\ stage[r] # "idle" =>
       /\ call[r] # None
       /\ clock \in call[r].beganAt..(call[r].beganAt + RequestLife)
  /\ stage[r] = "issuing" => call[r].generation <= generation[call[r].account]
  /\ stage[r] \in {"finding", "minting", "rotating", "rereading"} => call[r].token \in TokenIds
  /\ stage[r] \in {"minting", "rotating", "rereading", "classifying", "revoking"}
       => call[r].presented # None /\ call[r].presented.account = call[r].account
  /\ stage[r] \in {"minting", "rotating"} => CopyIsStored(call[r])
  /\ stage[r] = "rotating" => SuccessorIsReserved(call[r])
  /\ stage[r] = "loading" =>
       /\ call[r].successor \in TokenIds
       /\ session[call[r].successor] # None

SuccessorsDiffer ==
  \A r, q \in Requests :
    r # q /\ stage[r] = "rotating" /\ stage[q] = "rotating"
      => call[r].successor # call[q].successor

(* A request's copy of a token stays backed by the stored item, its minted *)
(* successor stays reserved for it, and no item is stamped with a          *)
(* generation its account has not reached: what makes the one transaction  *)
(* enough, whatever the requests did between their reads and it.           *)
InductiveInv ==
  /\ TypeOK
  /\ \A t \in TokenIds : TokenOK(t)
  /\ \A r \in Requests : RequestOK(r)
  /\ SuccessorsDiffer
  /\ OneTipPerSignIn

=============================================================================
