------------------------- MODULE RefreshRotationProofs -------------------------
(***************************************************************************)
(* Proofs about RefreshRotation, for every number of accounts, tokens and  *)
(* requests and every clock bound.  The one assumption beyond the types of *)
(* the constants is that DynamoDB takes at least as long to collect an     *)
(* expired item as the function's time limit lasts.                        *)
(***************************************************************************)
EXTENDS RefreshRotation, TLAPS

\* A ttl deletion comes later than any request that saw the item unexpired.
CollectedAfterRequestsEnd == CollectionLag >= RequestLife

-----------------------------------------------------------------------------

\* Every token that is stored or reserved is a token id, and None is not a
\* record of any kind.
LEMMA ItemFields ==
  ASSUME TypeOK, NEW t \in TokenIds, items[t] # None
  PROVE  /\ items[t] \in Item
         /\ items[t].account \in Accounts
         /\ items[t].generation \in Nat
         /\ items[t].startedAt \in Nat
         /\ items[t].expiresAt \in Nat
  BY DEF TypeOK, StoreTypeOK, Item

LEMMA CallFields ==
  ASSUME TypeOK, NEW r \in Requests, call[r] # None
  PROVE  /\ call[r] \in Call
         /\ call[r].account \in Accounts
         /\ call[r].beganAt \in Nat
         /\ call[r].generation \in Nat
         /\ call[r].presented # None =>
              /\ call[r].presented \in Item
              /\ call[r].presented.account \in Accounts
              /\ call[r].presented.generation \in Nat
              /\ call[r].presented.startedAt \in Nat
              /\ call[r].presented.expiresAt \in Nat
  BY DEF TypeOK, Call, Item

\* Init establishes the inductive invariant.
LEMMA InitEstablishes == Init => InductiveInv
<1> SUFFICES ASSUME Init PROVE InductiveInv
  OBVIOUS
<1> USE DEF Init, StoreInit
<1>1. TypeOK
  BY StoreAssumption DEF TypeOK, StoreTypeOK, Stages, Outcomes, TokenIds
<1>2. \A t \in TokenIds : TokenOK(t)
  BY DEF TokenOK
<1>3. \A r \in Requests : RequestOK(r)
  BY DEF RequestOK
<1>4. SuccessorsDiffer /\ OneTipPerSignIn
  BY DEF SuccessorsDiffer, OneTipPerSignIn, Outstanding
<1> QED
  BY <1>1, <1>2, <1>3, <1>4 DEF InductiveInv

-----------------------------------------------------------------------------

\* What a step of one request leaves of the others: nothing changed.
OthersAsBefore(r) ==
  \A q \in Requests \ {r} : stage'[q] = stage[q] /\ call'[q] = call[q]

LEMMA FinishEnds ==
  ASSUME TypeOK, NEW r \in Requests, NEW o \in Outcomes, Finish(r, o)
  PROVE  /\ stage' \in [Requests -> Stages]
         /\ call' \in [Requests -> Call \cup {None}]
         /\ outcome' \in [Requests -> Outcomes]
         /\ stage'[r] = "idle"
         /\ RequestOK(r)'
         /\ OthersAsBefore(r)
  BY DEF TypeOK, Finish, Stages, RequestOK, OthersAsBefore

\* A step of request r that leaves the store and the clock alone and keeps
\* r's own part of the invariant keeps all of it.
LEMMA QuietStep ==
  ASSUME InductiveInv, NEW r \in Requests,
         UNCHANGED <<items, generation, nextId, session, clock>>,
         OthersAsBefore(r),
         TypeOK',
         RequestOK(r)',
         stage'[r] = "rotating"
           => stage[r] = "rotating" /\ call'[r].successor = call[r].successor
  PROVE  InductiveInv'
<1>1. \A t \in TokenIds : TokenOK(t)'
  BY DEF InductiveInv, TokenOK
<1>2. ASSUME NEW q \in Requests PROVE RequestOK(q)'
  <2>1. CASE q = r
    BY <2>1
  <2>2. CASE q # r
    BY <2>2 DEF InductiveInv, OthersAsBefore, RequestOK, CopyIsStored, SuccessorIsReserved
  <2> QED
    BY <2>1, <2>2
<1>3. SuccessorsDiffer'
  BY DEF InductiveInv, SuccessorsDiffer, OthersAsBefore
<1>4. OneTipPerSignIn'
  BY DEF InductiveInv, OneTipPerSignIn, Outstanding
<1> QED
  BY <1>1, <1>2, <1>3, <1>4 DEF InductiveInv

LEMMA BeginKeeps ==
  ASSUME InductiveInv, NEW r \in Requests, NEW a \in Accounts, NEW t \in Nat,
         NEW ok \in BOOLEAN, NEW at \in {"issuing", "finding"},
         at = "finding" => t \in TokenIds,
         Begin(r, at, NewCall(a, t, ok)),
         UNCHANGED <<items, generation, nextId, session, clock, delivered, retired>>
  PROVE  InductiveInv'
<1> DEFINE c == NewCall(a, t, ok)
<1>1. TypeOK
  BY DEF InductiveInv
<1>2. /\ c \in Call
      /\ c.generation = generation[a]
      /\ c.account = a
      /\ c.beganAt = clock
      /\ c.token = t
  BY <1>1, StoreAssumption DEF NewCall, Call, TypeOK, StoreTypeOK, NoToken
<1>3. /\ stage'[r] = at
      /\ call'[r] = c
      /\ OthersAsBefore(r)
      /\ TypeOK'
  BY <1>1, <1>2 DEF Begin, TypeOK, StoreTypeOK, Stages, Outcomes, OthersAsBefore
<1>4. c # None
  BY <1>2, CallAssumption
<1>5. RequestOK(r)'
  BY <1>1, <1>2, <1>3, <1>4, RotationAssumption DEF RequestOK, TypeOK, StoreTypeOK
<1> QED
  BY <1>3, <1>5, QuietStep

\* A request that ends without touching the store keeps the invariant.
LEMMA QuietFinish ==
  ASSUME InductiveInv, NEW r \in Requests, NEW o \in Outcomes, Finish(r, o),
         UNCHANGED <<items, generation, nextId, session, clock, retired>>,
         delivered' \subseteq TokenIds
  PROVE  InductiveInv'
<1>1. TypeOK
  BY DEF InductiveInv
<1>2. TypeOK'
  BY <1>1, FinishEnds DEF TypeOK, StoreTypeOK
<1> QED
  BY <1>1, <1>2, FinishEnds, QuietStep

\* A request that moves on to another await, keeping what it read.
LEMMA QuietMove ==
  ASSUME InductiveInv, NEW r \in Requests, stage[r] # "idle", NEW at \in Stages,
         GoTo(r, at), call'[r] \in Call, call' = [call EXCEPT ![r] = call'[r]],
         UNCHANGED <<items, generation, nextId, session, clock, delivered, retired>>,
         RequestOK(r)',
         at = "rotating" => stage[r] = "rotating" /\ call'[r].successor = call[r].successor
  PROVE  InductiveInv'
<1>1. /\ stage'[r] = at
      /\ OthersAsBefore(r)
      /\ TypeOK'
  BY DEF InductiveInv, GoTo, TypeOK, StoreTypeOK, OthersAsBefore
<1> QED
  BY <1>1, QuietStep

LEMMA BeginSignInKeeps ==
  ASSUME InductiveInv, NEW r \in Requests, NEW a \in Accounts, BeginSignIn(r, a)
  PROVE  InductiveInv'
  BY BeginKeeps DEF BeginSignIn, NoToken

LEMMA BeginRefreshKeeps ==
  ASSUME InductiveInv, NEW r \in Requests, NEW a \in Accounts, NEW t \in TokenIds,
         NEW ok \in BOOLEAN, BeginRefresh(r, a, t, ok)
  PROVE  InductiveInv'
<1>1. t \in Nat
  BY StoreAssumption DEF TokenIds
<1> QED
  BY <1>1, BeginKeeps DEF BeginRefresh

LEMMA FindPresentedKeeps ==
  ASSUME InductiveInv, NEW r \in Requests, FindPresented(r)
  PROVE  InductiveInv'
<1> DEFINE found == FindByIds(call[r].account, call[r].token)
           copied == [call EXCEPT ![r].presented = found]
<1>1. TypeOK /\ RequestOK(r) /\ stage[r] = "finding" /\ call[r] # None /\ call[r] \in Call
  BY CallFields DEF InductiveInv, RequestOK, FindPresented
<1>2. UNCHANGED <<items, generation, nextId, session, clock, delivered, retired>>
  BY DEF FindPresented
<1>3. CASE \E o \in Outcomes : Finish(r, o)
  BY <1>1, <1>2, <1>3, QuietFinish DEF TypeOK
<1>4. CASE /\ found # None
           /\ call' = copied
           /\ \/ GoTo(r, "classifying")
              \/ ~IsPastExpiry(found, clock) /\ GoTo(r, "minting")
  <2>1. /\ items[call[r].token] = found
        /\ found.account = call[r].account
        /\ call[r].token \in TokenIds
        /\ found \in Item
    <3>1. items[call[r].token] = found /\ found.account = call[r].account
      BY <1>4 DEF FindByIds
    <3>2. call[r].token \in TokenIds
      BY <1>1 DEF RequestOK
    <3> QED
      BY <1>1, <1>4, <3>1, <3>2 DEF TypeOK, StoreTypeOK
  <2>2. /\ call'[r] \in Call
        /\ call'[r] # None
        /\ call'[r].presented = found
        /\ call'[r].account = call[r].account
        /\ call'[r].token = call[r].token
        /\ call'[r].beganAt = call[r].beganAt
    BY <1>1, <1>4, <2>1, CallAssumption DEF TypeOK, Call
  <2>3. clock < found.expiresAt \/ stage'[r] = "classifying"
    BY <1>1, <1>4, <2>1 DEF IsPastExpiry, TypeOK, GoTo, Item
  <2>4. call'[r].beganAt <= clock
    BY <1>1, <2>2, CallFields DEF RequestOK, TypeOK
  <2>5. RequestOK(r)'
    <3>1. clock \in call[r].beganAt..(call[r].beganAt + RequestLife)
      BY <1>1 DEF RequestOK
    <3>2. stage'[r] = "classifying" \/ (stage'[r] = "minting" /\ clock < found.expiresAt)
      BY <1>1, <1>4, <2>3 DEF GoTo, TypeOK
    <3>3. clock \in Nat /\ found.expiresAt \in Nat /\ call[r].beganAt \in Nat
      BY <1>1, <2>1, CallFields DEF TypeOK, Item
    <3>4. stage'[r] = "minting" => call'[r].beganAt < found.expiresAt
      BY <2>2, <2>4, <3>2, <3>3
    <3>5. stage'[r] = "minting" => CopyIsStored(call[r])'
      BY <1>2, <1>4, <2>1, <2>2, <3>4 DEF CopyIsStored
    <3> QED
      BY <1>1, <1>2, <1>4, <2>1, <2>2, <3>1, <3>2, <3>5 DEF RequestOK
  <2>6. call' = [call EXCEPT ![r] = call'[r]]
    BY <1>1, <1>4 DEF TypeOK
  <2>7. CASE GoTo(r, "classifying")
    BY <1>1, <1>2, <2>2, <2>5, <2>6, <2>7, QuietMove DEF Stages
  <2>8. CASE GoTo(r, "minting")
    BY <1>1, <1>2, <2>2, <2>5, <2>6, <2>8, QuietMove DEF Stages
  <2> QED
    BY <1>4, <2>7, <2>8
<1> QED
  BY <1>3, <1>4 DEF FindPresented, Outcomes

LEMMA RotateIsCancelledKeeps ==
  ASSUME InductiveInv, NEW r \in Requests, RotateIsCancelled(r)
  PROVE  InductiveInv'
<1>1. TypeOK /\ RequestOK(r) /\ call[r] # None /\ call[r] \in Call
  BY CallFields DEF InductiveInv, RequestOK, RotateIsCancelled
<1>2. RequestOK(r)'
  BY <1>1 DEF RotateIsCancelled, GoTo, RequestOK, TypeOK
<1>3. call' = [call EXCEPT ![r] = call'[r]]
  BY <1>1 DEF RotateIsCancelled, TypeOK
<1> QED
  BY <1>1, <1>2, <1>3, QuietMove DEF RotateIsCancelled, Stages

LEMMA RotateConflictsKeeps ==
  ASSUME InductiveInv, NEW r \in Requests, RotateConflicts(r)
  PROVE  InductiveInv'
<1>1. TypeOK /\ RequestOK(r) /\ stage[r] = "rotating" /\ call[r] # None /\ call[r] \in Call
  BY CallFields DEF InductiveInv, RequestOK, RotateConflicts
<1>2. UNCHANGED <<items, generation, nextId, session, clock, delivered, retired>>
  BY DEF RotateConflicts
<1>3. CASE call' = [call EXCEPT ![r].contested = TRUE] /\ GoTo(r, "rereading")
  <2>1. /\ call'[r] = [call[r] EXCEPT !.contested = TRUE]
        /\ call' = [call EXCEPT ![r] = call'[r]]
        /\ stage'[r] = "rereading"
    BY <1>1, <1>3 DEF TypeOK, GoTo
  <2>2. call'[r] \in Call
    BY <1>1, <2>1 DEF Call
  <2>3. /\ call'[r].account = call[r].account
        /\ call'[r].token = call[r].token
        /\ call'[r].beganAt = call[r].beganAt
        /\ call'[r].presented = call[r].presented
    BY <1>1, <2>1 DEF Call
  <2>4. RequestOK(r)'
    BY <1>1, <1>2, <2>1, <2>2, <2>3, CallAssumption DEF RequestOK
  <2> QED
    BY <1>1, <1>2, <1>3, <2>1, <2>2, <2>3, <2>4, QuietMove DEF Stages
<1>4. CASE call' = [call EXCEPT ![r].attempt = @ + 1] /\ GoTo(r, "rotating")
  <2>1. /\ call'[r] = [call[r] EXCEPT !.attempt = @ + 1]
        /\ call' = [call EXCEPT ![r] = call'[r]]
        /\ stage'[r] = "rotating"
    BY <1>1, <1>4 DEF TypeOK, GoTo
  <2>2. call'[r] \in Call
    BY <1>1, <2>1 DEF Call
  <2>3. /\ call'[r].account = call[r].account
        /\ call'[r].token = call[r].token
        /\ call'[r].beganAt = call[r].beganAt
        /\ call'[r].presented = call[r].presented
        /\ call'[r].successor = call[r].successor
        /\ call'[r].expiresAt = call[r].expiresAt
    BY <1>1, <2>1 DEF Call
  <2>4. RequestOK(r)'
    BY <1>1, <1>2, <2>1, <2>2, <2>3, CallAssumption
    DEF RequestOK, CopyIsStored, SuccessorIsReserved
  <2> QED
    BY <1>1, <1>2, <1>4, <2>1, <2>2, <2>3, <2>4, QuietMove DEF Stages
<1>5. CASE Finish(r, "failed")
  BY <1>1, <1>2, <1>5, QuietFinish DEF TypeOK, Outcomes
<1> QED
  BY <1>3, <1>4, <1>5 DEF RotateConflicts

LEMMA RereadKeeps ==
  ASSUME InductiveInv, NEW r \in Requests, Reread(r)
  PROVE  InductiveInv'
<1> DEFINE current == FindByIds(call[r].presented.account, call[r].token)
<1>1. /\ TypeOK /\ RequestOK(r) /\ stage[r] = "rereading" /\ call[r] # None /\ call[r] \in Call
      /\ call[r].presented.account = call[r].account /\ call[r].token \in TokenIds
  BY CallFields DEF InductiveInv, RequestOK, Reread
<1>2. UNCHANGED <<items, generation, nextId, session, clock, delivered, retired>>
  BY DEF Reread
<1>3. CASE Finish(r, "expired")
  BY <1>1, <1>2, <1>3, QuietFinish DEF TypeOK, Outcomes
<1>4. CASE /\ current # None
           /\ call' = [call EXCEPT ![r].presented = current]
           /\ GoTo(r, "classifying")
  <2>1. current \in Item /\ current.account = call[r].account
    BY <1>1, <1>4 DEF FindByIds, TypeOK, StoreTypeOK
  <2>2. /\ call'[r] = [call[r] EXCEPT !.presented = current]
        /\ call' = [call EXCEPT ![r] = call'[r]]
        /\ stage'[r] = "classifying"
    BY <1>1, <1>4 DEF TypeOK, GoTo
  <2>3. /\ call'[r] \in Call
        /\ call'[r].presented = current
        /\ call'[r].account = call[r].account
        /\ call'[r].beganAt = call[r].beganAt
    BY <1>1, <2>1, <2>2 DEF Call
  <2>4. RequestOK(r)'
    BY <1>1, <1>2, <1>4, <2>1, <2>2, <2>3, CallAssumption DEF RequestOK
  <2> QED
    BY <1>1, <1>2, <1>4, <2>2, <2>3, <2>4, QuietMove DEF Stages
<1> QED
  BY <1>3, <1>4 DEF Reread

LEMMA ClassifyReplayKeeps ==
  ASSUME InductiveInv, NEW r \in Requests, ClassifyReplay(r)
  PROVE  InductiveInv'
<1>1. TypeOK /\ RequestOK(r) /\ stage[r] = "classifying" /\ call[r] # None /\ call[r] \in Call
  BY CallFields DEF InductiveInv, RequestOK, ClassifyReplay
<1>2. UNCHANGED <<items, generation, nextId, session, clock, delivered, retired>>
  BY DEF ClassifyReplay
<1>3. CASE Finish(r, "benign-replay")
  BY <1>1, <1>2, <1>3, QuietFinish DEF TypeOK, Outcomes
<1>4. CASE GoTo(r, "revoking") /\ UNCHANGED call
  <2>1. RequestOK(r)'
    BY <1>1, <1>2, <1>4 DEF GoTo, RequestOK, TypeOK
  <2>2. call' = [call EXCEPT ![r] = call'[r]]
    BY <1>1, <1>4 DEF TypeOK
  <2> QED
    BY <1>1, <1>2, <1>4, <2>1, <2>2, QuietMove DEF Stages
<1> QED
  BY <1>3, <1>4 DEF ClassifyReplay

LEMMA LoadAccountAndSignKeeps ==
  ASSUME InductiveInv, NEW r \in Requests, LoadAccountAndSign(r)
  PROVE  InductiveInv'
  BY QuietFinish DEF LoadAccountAndSign, InductiveInv, RequestOK, TypeOK, Outcomes

LEMMA FailKeeps ==
  ASSUME InductiveInv, NEW r \in Requests, Fail(r)
  PROVE  InductiveInv'
  BY QuietFinish DEF Fail, InductiveInv, TypeOK, Outcomes

LEMMA RevokeAllKeeps ==
  ASSUME InductiveInv, NEW r \in Requests, RevokeAll(r)
  PROVE  InductiveInv'
<1> DEFINE a == call[r].presented.account
<1>1. TypeOK
  BY DEF InductiveInv
<1>2. UNCHANGED <<items, nextId, session, clock, delivered, retired>>
  BY DEF RevokeAll
<1>3. PICK o \in Outcomes : Finish(r, o)
  BY DEF RevokeAll, Outcomes
<1>4. TypeOK'
  <2>1. generation' \in [Accounts -> Nat]
    <3>1. generation' = [generation EXCEPT ![a] = @ + 1]
      BY DEF RevokeAll, IncrementGeneration
    <3>2. generation \in [Accounts -> Nat] /\ a \in Accounts
      BY <1>1, CallFields DEF TypeOK, StoreTypeOK, InductiveInv, RequestOK, RevokeAll
    <3> HIDE DEF a
    <3> QED
      BY <3>1, <3>2
  <2>2. StoreTypeOK'
    BY <1>1, <1>2, <2>1 DEF TypeOK, StoreTypeOK
  <2> QED
    BY <1>1, <1>2, <1>3, <2>2, FinishEnds DEF TypeOK
<1>5. \A b \in Accounts : generation[b] \in Nat /\ generation'[b] \in Nat
                          /\ generation[b] <= generation'[b]
  BY <1>1 DEF RevokeAll, IncrementGeneration, TypeOK, StoreTypeOK
<1>6. ASSUME NEW t \in TokenIds PROVE TokenOK(t)'
  <2>1. TokenOK(t)
    BY DEF InductiveInv
  <2>2. items[t] # None => items[t].generation <= generation'[items[t].account]
    BY <1>1, <1>5, <2>1, ItemFields DEF TokenOK
  <2> QED
    BY <1>2, <2>1, <2>2 DEF TokenOK
<1>7. ASSUME NEW q \in Requests PROVE RequestOK(q)'
  <2>1. CASE q = r
    BY <1>1, <1>3, <2>1, FinishEnds
  <2>2. CASE q # r
    <3>1. RequestOK(q) /\ stage'[q] = stage[q] /\ call'[q] = call[q]
      BY <1>1, <1>3, <2>2, FinishEnds DEF InductiveInv, OthersAsBefore
    <3>2. stage[q] = "issuing" => call[q].generation <= generation'[call[q].account]
      BY <1>1, <1>5, <3>1, CallFields DEF RequestOK
    <3> QED
      BY <1>2, <3>1, <3>2 DEF RequestOK, CopyIsStored, SuccessorIsReserved
  <2> QED
    BY <2>1, <2>2
<1>8. SuccessorsDiffer'
  BY <1>1, <1>3, FinishEnds DEF InductiveInv, SuccessorsDiffer, OthersAsBefore
<1>9. OneTipPerSignIn'
  BY <1>2 DEF InductiveInv, OneTipPerSignIn, Outstanding
<1> QED
  BY <1>4, <1>6, <1>7, <1>8, <1>9 DEF InductiveInv

-----------------------------------------------------------------------------

LEMMA IssueTokenKeeps ==
  ASSUME InductiveInv, NEW r \in Requests, IssueToken(r)
  PROVE  InductiveInv'
<1> DEFINE item == [account    |-> call[r].account,
                    digest     |-> TRUE,
                    generation |-> call[r].generation,
                    startedAt  |-> clock,
                    expiresAt  |-> clock + RefreshTtl,
                    successor  |-> NoToken]
           opened == [root |-> nextId, account |-> item.account, openedAt |-> item.startedAt]
<1>1. TypeOK /\ RequestOK(r) /\ call[r] # None /\ call[r].account \in Accounts
              /\ call[r].generation \in Nat
              /\ call[r].generation <= generation[call[r].account]
  BY CallFields DEF InductiveInv, RequestOK, IssueToken
<1>2. nextId \in TokenIds /\ nextId' = nextId + 1 /\ nextId \in Nat
  BY <1>1, StoreAssumption DEF IssueToken, TypeOK, StoreTypeOK, TokenIds
<1>3. item \in Item /\ opened \in Session
  BY <1>1, <1>2, RotationAssumption DEF Item, Session, TypeOK, NoToken
<1>4. /\ items' = [items EXCEPT ![nextId] = item]
      /\ session' = [session EXCEPT ![nextId] = opened]
      /\ UNCHANGED <<generation, clock, retired>>
      /\ delivered' \subseteq TokenIds
  BY <1>1, <1>2 DEF IssueToken, Issue, TypeOK
<1>5. /\ items'[nextId] = item /\ session'[nextId] = opened
      /\ item # None /\ opened # None
      /\ \A t \in TokenIds \ {nextId} : items'[t] = items[t] /\ session'[t] = session[t]
  BY <1>1, <1>2, <1>3, <1>4, StoreAssumption DEF TypeOK, StoreTypeOK
<1>6. PICK o \in Outcomes : Finish(r, o)
  BY DEF IssueToken, Outcomes
<1>7. StoreTypeOK'
  BY <1>1, <1>2, <1>3, <1>4, StoreAssumption DEF TypeOK, StoreTypeOK, TokenIds
<1>8. TypeOK'
  BY <1>1, <1>4, <1>6, <1>7, FinishEnds DEF TypeOK
<1>9. \A t \in TokenIds : t >= nextId => items[t] = None /\ session[t] = None
  BY DEF InductiveInv, TokenOK
<1>10. ASSUME NEW t \in TokenIds PROVE TokenOK(t)'
  <2>1. CASE t = nextId
    BY <1>1, <1>2, <1>4, <1>5, <2>1 DEF TokenOK
  <2>2. CASE t # nextId
    <3>1. TokenOK(t) /\ items'[t] = items[t] /\ session'[t] = session[t] /\ t \in Nat
      BY <1>5, <2>2, StoreAssumption DEF InductiveInv, TokenIds
    <3>2. session[t] # None => session[t].root \in Nat
      BY <1>1, StoreAssumption DEF TypeOK, StoreTypeOK, Session, TokenIds
    <3> QED
      BY <1>2, <1>4, <2>2, <3>1, <3>2 DEF TokenOK
  <2> QED
    BY <2>1, <2>2
<1>11. ASSUME NEW q \in Requests PROVE RequestOK(q)'
  <2>1. CASE q = r
    BY <1>1, <1>6, <2>1, FinishEnds
  <2>2. CASE q # r
    <3>1. RequestOK(q) /\ stage'[q] = stage[q] /\ call'[q] = call[q]
      BY <1>1, <1>6, <2>2, FinishEnds DEF InductiveInv, OthersAsBefore
    <3>2. stage[q] \in {"minting", "rotating"} => CopyIsStored(call[q])'
      BY <1>5, <1>9, <1>2, <3>1 DEF RequestOK, CopyIsStored
    <3>3. stage[q] = "rotating" => SuccessorIsReserved(call[q])'
      <4>1. ASSUME stage[q] = "rotating"
            PROVE  /\ SuccessorIsReserved(call[q])
                   /\ call[q].successor \in TokenIds \ {nextId}
                   /\ call[q].successor < nextId'
        BY <1>2, <3>1, <4>1, StoreAssumption DEF RequestOK, SuccessorIsReserved, TokenIds
      <4> QED
        BY <1>5, <3>1, <4>1 DEF SuccessorIsReserved
    <3>4. stage[q] = "loading" => session'[call[q].successor] # None
      BY <1>5, <1>2, <3>1 DEF RequestOK
    <3> QED
      BY <1>4, <3>1, <3>2, <3>3, <3>4 DEF RequestOK
  <2> QED
    BY <2>1, <2>2
<1>12. SuccessorsDiffer'
  BY <1>1, <1>6, FinishEnds DEF InductiveInv, SuccessorsDiffer, OthersAsBefore
<1>13. OneTipPerSignIn'
  <2>1. \A t \in TokenIds \ {nextId} : Outstanding(t)' => session'[t].root < nextId /\ Outstanding(t)
    BY <1>5 DEF InductiveInv, TokenOK, Outstanding
  <2>2. session'[nextId].root = nextId
    BY <1>5
  <2> QED
    BY <1>2, <1>5, <2>1, <2>2 DEF InductiveInv, OneTipPerSignIn
<1> QED
  BY <1>8, <1>10, <1>11, <1>12, <1>13 DEF InductiveInv

LEMMA MintSuccessorKeeps ==
  ASSUME InductiveInv, NEW r \in Requests, MintSuccessor(r)
  PROVE  InductiveInv'
<1> DEFINE expiry == SuccessorExpiry(call[r].presented, clock)
<1>1. /\ TypeOK /\ RequestOK(r) /\ stage[r] = "minting" /\ call[r] # None /\ call[r] \in Call
      /\ call[r].presented # None /\ call[r].presented.startedAt \in Nat
  BY CallFields DEF InductiveInv, RequestOK, MintSuccessor
<1>2. nextId \in TokenIds /\ nextId' = nextId + 1 /\ nextId \in Nat
  BY <1>1, StoreAssumption DEF MintSuccessor, TypeOK, StoreTypeOK, TokenIds
<1>3. expiry \in Nat /\ expiry <= call[r].presented.startedAt + SessionCeiling
  BY <1>1, RotationAssumption DEF SuccessorExpiry, TypeOK
<1>4. UNCHANGED <<items, generation, session, clock, delivered, retired, outcome>>
  BY DEF MintSuccessor, GoTo
<1>5. /\ call'[r] = [call[r] EXCEPT !.successor = nextId, !.expiresAt = expiry]
      /\ \A q \in Requests \ {r} : call'[q] = call[q]
      /\ call' \in [Requests -> Call \cup {None}]
  <2>1. call' = [call EXCEPT ![r] = [call[r] EXCEPT !.successor = nextId, !.expiresAt = expiry]]
    BY <1>1 DEF MintSuccessor, TypeOK
  <2>2. [call[r] EXCEPT !.successor = nextId, !.expiresAt = expiry] \in Call
    BY <1>1, <1>2, <1>3 DEF Call
  <2> QED
    BY <1>1, <2>1, <2>2 DEF TypeOK
<1>6. /\ call'[r] \in Call
      /\ call'[r].successor = nextId
      /\ call'[r].expiresAt = expiry
      /\ call'[r].account = call[r].account
      /\ call'[r].token = call[r].token
      /\ call'[r].beganAt = call[r].beganAt
      /\ call'[r].presented = call[r].presented
  BY <1>1, <1>2, <1>3, <1>5 DEF Call
<1>7. /\ stage'[r] = "rotating"
      /\ \A q \in Requests \ {r} : stage'[q] = stage[q]
      /\ stage' \in [Requests -> Stages]
  BY <1>1 DEF MintSuccessor, GoTo, TypeOK, Stages
<1>8. TypeOK'
  <2>1. nextId' \in 1..(MaxTokens + 1)
    BY <1>2, StoreAssumption DEF TokenIds
  <2> QED
    BY <1>1, <1>4, <1>5, <1>7, <2>1 DEF TypeOK, StoreTypeOK
<1>9. items[nextId] = None /\ session[nextId] = None
  BY <1>2 DEF InductiveInv, TokenOK
<1>10. ASSUME NEW t \in TokenIds PROVE TokenOK(t)'
  <2>1. TokenOK(t) /\ t \in Nat
    BY StoreAssumption DEF InductiveInv, TokenIds
  <2>2. session[t] # None => session[t].root \in Nat
    BY <1>1, StoreAssumption DEF TypeOK, StoreTypeOK, Session, TokenIds
  <2> QED
    BY <1>2, <1>4, <2>1, <2>2 DEF TokenOK
<1>11. ASSUME NEW q \in Requests PROVE RequestOK(q)'
  <2>1. CASE q = r
    <3>1. SuccessorIsReserved(call[r])'
      BY <1>2, <1>3, <1>4, <1>6, <1>9 DEF SuccessorIsReserved
    <3>2. CopyIsStored(call[r])'
      BY <1>1, <1>4, <1>6 DEF RequestOK, CopyIsStored
    <3> QED
      BY <1>1, <1>4, <1>6, <1>7, <2>1, <3>1, <3>2, CallAssumption DEF RequestOK
  <2>2. CASE q # r
    <3>1. RequestOK(q) /\ stage'[q] = stage[q] /\ call'[q] = call[q]
      BY <1>5, <1>7, <2>2 DEF InductiveInv
    <3>2. stage[q] = "rotating" => SuccessorIsReserved(call[q])'
      BY <1>2, <1>4, <3>1, StoreAssumption DEF RequestOK, SuccessorIsReserved, TokenIds
    <3> QED
      BY <1>4, <3>1, <3>2 DEF RequestOK, CopyIsStored
  <2> QED
    BY <2>1, <2>2
<1>12. SuccessorsDiffer'
  <2>1. \A q \in Requests \ {r} : stage'[q] = "rotating" => call'[q].successor # nextId
    BY <1>2, <1>5, <1>7, StoreAssumption DEF InductiveInv, RequestOK, SuccessorIsReserved, TokenIds
  <2>2. SUFFICES ASSUME NEW p \in Requests, NEW q \in Requests, p # q,
                        stage'[p] = "rotating", stage'[q] = "rotating"
                 PROVE  call'[p].successor # call'[q].successor
    BY DEF SuccessorsDiffer
  <2>3. CASE p # r /\ q # r
    BY <1>5, <1>7, <2>2, <2>3 DEF InductiveInv, SuccessorsDiffer
  <2> QED
    BY <1>6, <2>1, <2>2, <2>3
<1>13. OneTipPerSignIn'
  BY <1>4 DEF InductiveInv, OneTipPerSignIn, Outstanding
<1> QED
  BY <1>8, <1>10, <1>11, <1>12, <1>13 DEF InductiveInv

LEMMA RotateCommitsKeeps ==
  ASSUME InductiveInv, NEW r \in Requests, RotateCommits(r)
  PROVE  InductiveInv'
<1> DEFINE t == call[r].token
           s == call[r].successor
           new == SuccessorItem(call[r])
           old == [items[t] EXCEPT !.successor = s]
<1>1. /\ TypeOK /\ RequestOK(r) /\ call[r] # None /\ call[r] \in Call
      /\ t \in TokenIds /\ CopyIsStored(call[r])
      /\ s \in TokenIds /\ SuccessorIsReserved(call[r])
      /\ call[r].presented \in Item
  BY CallFields DEF InductiveInv, RequestOK, RotateCommits, SuccessorIsReserved
<1>2. /\ items[t] # None /\ items[t] \in Item /\ ~IsRetired(items[t])
      /\ items[s] = None /\ session[s] = None /\ s # t /\ s < nextId
      /\ generation[items[t].account] = items[t].generation
  BY <1>1 DEF CopyIsStored, SuccessorIsReserved, RotateCommits, Rotate, RotateConditionsHold,
              TypeOK, StoreTypeOK
<1>3. TokenOK(t) /\ session[t] # None /\ session[t] \in Session
  BY <1>1, <1>2 DEF InductiveInv, TokenOK, TypeOK, StoreTypeOK
<1>4. /\ items' = [items EXCEPT ![t] = old, ![s] = new]
      /\ session' = [session EXCEPT ![s] = session[t]]
      /\ retired' = retired \cup {t}
      /\ UNCHANGED <<generation, nextId, clock, call, delivered, outcome>>
  BY <1>2 DEF RotateCommits, Rotate, Retire, GoTo
<1>5. /\ old \in Item /\ old.account = items[t].account /\ old.digest = items[t].digest
      /\ old.generation = items[t].generation /\ old.startedAt = items[t].startedAt
      /\ old.expiresAt = items[t].expiresAt /\ IsRetired(old)
  BY <1>1, <1>2 DEF Item, IsRetired, NoToken, TokenIds
<1>6. /\ new \in Item /\ new.account = items[t].account /\ new.digest
      /\ new.generation = items[t].generation /\ new.startedAt = items[t].startedAt
  BY <1>1, <1>2 DEF SuccessorItem, CopyIsStored, Item, Call, NoToken
<1>7. /\ items'[t] = old /\ items'[s] = new /\ session'[s] = session[t]
      /\ old # None /\ new # None
      /\ \A u \in TokenIds \ {s} : session'[u] = session[u]
      /\ \A u \in TokenIds \ {s, t} : items'[u] = items[u]
  <2> HIDE DEF old, new
  <2> QED
    BY <1>1, <1>2, <1>4, <1>5, <1>6, StoreAssumption DEF TypeOK, StoreTypeOK
<1>8. /\ stage'[r] = "loading"
      /\ \A q \in Requests \ {r} : stage'[q] = stage[q]
      /\ stage' \in [Requests -> Stages]
  BY <1>1 DEF RotateCommits, GoTo, TypeOK, Stages
<1> HIDE DEF old, new
<1>9. TypeOK'
  BY <1>1, <1>3, <1>4, <1>5, <1>6, <1>8 DEF TypeOK, StoreTypeOK
<1>10. ASSUME NEW u \in TokenIds PROVE TokenOK(u)'
  <2>1. CASE u = t
    BY <1>2, <1>3, <1>4, <1>5, <1>7, <2>1 DEF TokenOK
  <2>2. CASE u = s
    <3>1. ~(s >= nextId)
      BY <1>1, <1>2, StoreAssumption DEF TypeOK, StoreTypeOK, TokenIds
    <3>2. items[t].generation <= items[t].generation
      BY <1>1, <1>2, ItemFields
    <3> QED
      BY <1>2, <1>3, <1>4, <1>6, <1>7, <2>2, <3>1, <3>2 DEF TokenOK
  <2>3. CASE u \notin {s, t}
    BY <1>4, <1>7, <2>3 DEF InductiveInv, TokenOK
  <2> QED
    BY <2>1, <2>2, <2>3
<1>11. ASSUME NEW q \in Requests PROVE RequestOK(q)'
  <2>1. CASE q = r
    <3>1. /\ stage'[r] = "loading" /\ call'[r] = call[r] /\ clock' = clock
          /\ clock \in call[r].beganAt..(call[r].beganAt + RequestLife)
          /\ session'[s] # None
      BY <1>1, <1>3, <1>4, <1>7, <1>8 DEF RequestOK, RotateCommits
    <3> QED
      BY <1>1, <2>1, <3>1 DEF RequestOK
  <2>2. CASE q # r
    <3>1. RequestOK(q) /\ stage'[q] = stage[q] /\ call'[q] = call[q]
      BY <1>4, <1>8, <2>2 DEF InductiveInv
    <3>2. stage[q] \in {"minting", "rotating"} => CopyIsStored(call[q])'
      <4>1. ASSUME stage[q] \in {"minting", "rotating"} PROVE CopyIsStored(call[q])'
        <5>1. call[q].token \in TokenIds \ {s} /\ CopyIsStored(call[q])
          BY <1>2, <3>1, <4>1 DEF RequestOK, CopyIsStored
        <5>2. CASE call[q].token = t
          BY <1>5, <1>7, <3>1, <5>1, <5>2 DEF CopyIsStored
        <5>3. CASE call[q].token # t
          BY <1>7, <3>1, <5>1, <5>3 DEF CopyIsStored
        <5> QED
          BY <5>2, <5>3
      <4> QED
        BY <4>1
    <3>3. stage[q] = "rotating" => SuccessorIsReserved(call[q])'
      <4>1. ASSUME stage[q] = "rotating" PROVE SuccessorIsReserved(call[q])'
        <5>1. SuccessorIsReserved(call[q])
          BY <3>1, <4>1 DEF RequestOK
        <5>2. call[q].successor # s /\ stage[r] = "rotating"
          BY <2>2, <4>1 DEF InductiveInv, SuccessorsDiffer, RotateCommits
        <5>3. call[q].successor \in TokenIds \ {s, t}
          BY <1>2, <5>1, <5>2 DEF SuccessorIsReserved
        <5> QED
          BY <1>4, <1>7, <3>1, <5>1, <5>3 DEF SuccessorIsReserved
      <4> QED
        BY <4>1
    <3>4. stage[q] = "loading" => session'[call[q].successor] # None
      BY <1>2, <1>7, <3>1 DEF RequestOK
    <3> QED
      BY <1>4, <3>1, <3>2, <3>3, <3>4 DEF RequestOK
  <2> QED
    BY <2>1, <2>2
<1>12. SuccessorsDiffer'
  <2>1. \A q \in Requests : stage'[q] = "rotating" => q # r /\ stage[q] = "rotating"
    BY <1>8
  <2> QED
    BY <1>4, <2>1 DEF InductiveInv, SuccessorsDiffer
<1>13. OneTipPerSignIn'
  <2>1. IsRetired(items'[t])
    BY <1>5, <1>7
  <2>2. Outstanding(t)
    BY <1>2 DEF Outstanding
  <2>3. ASSUME NEW u \in TokenIds \ {s}, Outstanding(u)'
        PROVE  Outstanding(u) /\ session'[u] = session[u] /\ u # t
    BY <1>7, <2>1, <2>3 DEF Outstanding
  <2>4. ASSUME NEW u \in TokenIds \ {s}, Outstanding(u)'
        PROVE  session'[u].root # session'[s].root
    BY <1>1, <1>7, <2>2, <2>3, <2>4 DEF InductiveInv, OneTipPerSignIn
  <2>5. SUFFICES ASSUME NEW u \in TokenIds, NEW v \in TokenIds, Outstanding(u)', Outstanding(v)',
                        session'[u].root = session'[v].root
                 PROVE  u = v
    BY DEF OneTipPerSignIn
  <2>6. CASE u # s /\ v # s
    BY <2>3, <2>5, <2>6 DEF InductiveInv, OneTipPerSignIn
  <2> QED
    BY <2>4, <2>5, <2>6
<1> QED
  BY <1>9, <1>10, <1>11, <1>12, <1>13 DEF InductiveInv

LEMMA TickKeeps ==
  ASSUME InductiveInv, Tick
  PROVE  InductiveInv'
<1>1. TypeOK /\ clock \in Nat /\ clock' = clock + 1
  BY DEF InductiveInv, TypeOK, Tick
<1>2. TypeOK'
  BY <1>1 DEF Tick, TypeOK, StoreTypeOK
<1>3. \A t \in TokenIds : TokenOK(t)'
  BY DEF Tick, InductiveInv, TokenOK
<1>4. ASSUME NEW r \in Requests PROVE RequestOK(r)'
  <2>1. RequestOK(r)
    BY DEF InductiveInv
  <2>2. ASSUME stage[r] # "idle"
        PROVE  clock' \in call[r].beganAt..(call[r].beganAt + RequestLife)
    <3>1. call[r].beganAt \in Nat /\ clock < call[r].beganAt + RequestLife
      BY <1>1, <2>1, <2>2, CallFields DEF RequestOK, Tick, InFlight
    <3> QED
      BY <1>1, <2>1, <2>2, <3>1, RotationAssumption DEF RequestOK
  <2> QED
    BY <2>1, <2>2 DEF Tick, RequestOK, CopyIsStored, SuccessorIsReserved
<1>5. SuccessorsDiffer' /\ OneTipPerSignIn'
  BY DEF Tick, InductiveInv, SuccessorsDiffer, OneTipPerSignIn, Outstanding
<1> QED
  BY <1>2, <1>3, <1>4, <1>5 DEF InductiveInv

\* No request in flight holds an unexpired copy of an item that is collected.
LEMMA CollectExpiredKeeps ==
  ASSUME InductiveInv, CollectedAfterRequestsEnd, CollectExpired
  PROVE  InductiveInv'
<1>1. PICK t \in TokenIds : Collect(t, clock)
  BY DEF CollectExpired
<1>2. /\ TypeOK
      /\ items' = [items EXCEPT ![t] = None]
      /\ items[t] # None
      /\ items[t].expiresAt \in Nat
      /\ clock >= items[t].expiresAt + CollectionLag
  BY <1>1, ItemFields DEF InductiveInv, Collect
<1>3. /\ items'[t] = None
      /\ \A u \in TokenIds \ {t} : items'[u] = items[u]
      /\ UNCHANGED <<generation, nextId, session, clock, stage, call, outcome, delivered, retired>>
  BY <1>1, <1>2 DEF CollectExpired, TypeOK, StoreTypeOK
<1>4. TypeOK'
  BY <1>2, <1>3 DEF TypeOK, StoreTypeOK
<1>5. ASSUME NEW u \in TokenIds PROVE TokenOK(u)'
  BY <1>3 DEF InductiveInv, TokenOK
<1>6. ASSUME NEW r \in Requests PROVE RequestOK(r)'
  <2>1. RequestOK(r)
    BY DEF InductiveInv
  <2>2. ASSUME stage[r] \in {"minting", "rotating"} PROVE CopyIsStored(call[r])'
    <3>1. /\ CopyIsStored(call[r]) /\ call[r].token \in TokenIds
          /\ call[r].beganAt \in Nat
          /\ clock <= call[r].beganAt + RequestLife
      BY <1>2, <2>1, <2>2, CallFields DEF RequestOK
    <3>2. call[r].token # t
      <4>1. SUFFICES ASSUME call[r].token = t PROVE FALSE
        OBVIOUS
      <4>2. call[r].beganAt < items[t].expiresAt
        BY <3>1, <4>1 DEF CopyIsStored
      <4> QED
        BY <1>2, <3>1, <4>2, StoreAssumption, RotationAssumption
        DEF CollectedAfterRequestsEnd, TypeOK
    <3> QED
      BY <1>3, <3>1, <3>2 DEF CopyIsStored
  <2>3. ASSUME stage[r] = "rotating" PROVE SuccessorIsReserved(call[r])'
    BY <1>3, <2>1, <2>3 DEF RequestOK, SuccessorIsReserved
  <2> QED
    BY <1>3, <2>1, <2>2, <2>3 DEF RequestOK
<1>7. SuccessorsDiffer' /\ OneTipPerSignIn'
  BY <1>3 DEF InductiveInv, SuccessorsDiffer, OneTipPerSignIn, Outstanding
<1> QED
  BY <1>4, <1>5, <1>6, <1>7 DEF InductiveInv

LEMMA StutterKeeps ==
  ASSUME InductiveInv, UNCHANGED vars
  PROVE  InductiveInv'
  BY DEF vars, InductiveInv, TypeOK, StoreTypeOK, TokenOK, RequestOK, CopyIsStored,
         SuccessorIsReserved, SuccessorsDiffer, OneTipPerSignIn, Outstanding

LEMMA StepKeeps ==
  ASSUME CollectedAfterRequestsEnd, InductiveInv, [Next]_vars
  PROVE  InductiveInv'
<1>1. ASSUME NEW r \in Requests, NEW a \in Accounts, BeginSignIn(r, a) PROVE InductiveInv'
  BY <1>1, BeginSignInKeeps
<1>2. ASSUME NEW r \in Requests, NEW a \in Accounts, NEW t \in TokenIds, NEW ok \in BOOLEAN,
             BeginRefresh(r, a, t, ok)
      PROVE  InductiveInv'
  BY <1>2, BeginRefreshKeeps
<1>3. ASSUME NEW r \in Requests, Progress(r) PROVE InductiveInv'
  BY <1>3, IssueTokenKeeps, FindPresentedKeeps, MintSuccessorKeeps, RotateCommitsKeeps,
     RotateIsCancelledKeeps, RotateConflictsKeeps, RereadKeeps, ClassifyReplayKeeps,
     RevokeAllKeeps, LoadAccountAndSignKeeps
  DEF Progress
<1>4. ASSUME NEW r \in Requests, Fail(r) PROVE InductiveInv'
  BY <1>4, FailKeeps
<1> QED
  BY <1>1, <1>2, <1>3, <1>4, TickKeeps, CollectExpiredKeeps, StutterKeeps DEF Next

-----------------------------------------------------------------------------

\* The strengthened invariant holds of every behaviour.
THEOREM InductiveInvHolds ==
  CollectedAfterRequestsEnd => (Spec => []InductiveInv)
<1> SUFFICES ASSUME CollectedAfterRequestsEnd PROVE Spec => []InductiveInv
  OBVIOUS
<1>1. InductiveInv /\ [Next]_vars => InductiveInv'
  BY StepKeeps
<1> QED
  BY <1>1, InitEstablishes, PTL DEF Spec

\* Type correctness of the store, the requests and the history.
THEOREM TypeCorrect == CollectedAfterRequestsEnd => (Spec => []TypeOK)
<1>1. InductiveInv => TypeOK
  BY DEF InductiveInv
<1> QED
  BY <1>1, InductiveInvHolds, PTL

\* Whatever the number of concurrent requests, and whatever conflicts,
\* failures and revocations they meet, a sign-in never has two tokens that
\* have not been rotated away: no second chain (rotate, AC-17).
THEOREM NoSecondChain == CollectedAfterRequestsEnd => (Spec => []OneTipPerSignIn)
<1>1. InductiveInv => OneTipPerSignIn
  BY DEF InductiveInv
<1> QED
  BY <1>1, InductiveInvHolds, PTL

=============================================================================
