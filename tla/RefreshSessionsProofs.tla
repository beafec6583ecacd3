------------------------- MODULE RefreshSessionsProofs -------------------------
(***************************************************************************)
(* What follows from RefreshRotation's inductive invariant: the detailed   *)
(* requests over the store implement the abstract sessions, renewals stay  *)
(* under the ceiling of their sign-in, and what a caller is told is true.  *)
(* Four kinds of step write to the store, and each has a lemma that says   *)
(* what it leaves there; the theorems are about those.                     *)
(***************************************************************************)
EXTENDS RefreshRotationProofs

-----------------------------------------------------------------------------
(* What each kind of step leaves in the store.                             *)

LEMMA IssueEffect ==
  ASSUME InductiveInv, NEW r \in Requests, IssueToken(r)
  PROVE  /\ nextId \in TokenIds
         /\ items[nextId] = None
         /\ session[nextId] = None
         /\ items'[nextId] # None
         /\ ~IsRetired(items'[nextId])
         /\ items'[nextId].digest
         /\ items'[nextId].account = call[r].account
         /\ session'[nextId] = [root     |-> nextId,
                                account  |-> call[r].account,
                                openedAt |-> clock]
         /\ session' = [session EXCEPT ![nextId] = session'[nextId]]
         /\ call[r].account \in Accounts
         /\ \A t \in TokenIds \ {nextId} : items'[t] = items[t] /\ session'[t] = session[t]
         /\ UNCHANGED <<generation, clock>>
         /\ delivered' \subseteq delivered \cup {nextId}
<1> DEFINE item == [account    |-> call[r].account,
                    digest     |-> TRUE,
                    generation |-> call[r].generation,
                    startedAt  |-> clock,
                    expiresAt  |-> clock + RefreshTtl,
                    successor  |-> NoToken]
           opened == [root |-> nextId, account |-> item.account, openedAt |-> item.startedAt]
<1>1. TypeOK /\ RequestOK(r) /\ call[r] # None /\ call[r].account \in Accounts
      /\ call[r].generation \in Nat
  BY CallFields DEF InductiveInv, RequestOK, IssueToken
<1>2. nextId \in TokenIds /\ nextId >= nextId
  BY <1>1, StoreAssumption DEF IssueToken, TypeOK, StoreTypeOK, TokenIds
<1>3. item \in Item
  BY <1>1, <1>2, RotationAssumption DEF Item, TypeOK, NoToken
<1>4. items[nextId] = None /\ session[nextId] = None
  BY <1>2 DEF InductiveInv, TokenOK
<1>5. /\ items' = [items EXCEPT ![nextId] = item]
      /\ session' = [session EXCEPT ![nextId] = opened]
      /\ UNCHANGED <<generation, clock>>
      /\ delivered' \subseteq delivered \cup {nextId}
  BY DEF IssueToken, Issue
<1>6. item # None /\ ~IsRetired(item)
  BY <1>3, StoreAssumption DEF IsRetired
<1>7. /\ items'[nextId] = item /\ session'[nextId] = opened
      /\ \A t \in TokenIds \ {nextId} : items'[t] = items[t] /\ session'[t] = session[t]
  <2> HIDE DEF item, opened
  <2> QED
    BY <1>1, <1>2, <1>5 DEF TypeOK, StoreTypeOK
<1>8. session' = [session EXCEPT ![nextId] = session'[nextId]]
  BY <1>5, <1>7
<1> QED
  BY <1>1, <1>2, <1>4, <1>5, <1>6, <1>7, <1>8

LEMMA RotateEffect ==
  ASSUME InductiveInv, NEW r \in Requests, RotateCommits(r)
  PROVE  LET t == call[r].token
             s == call[r].successor
         IN  /\ t \in TokenIds /\ s \in TokenIds /\ s # t
             /\ items[s] = None /\ session[s] = None
             /\ Live(t) /\ session[t] # None
             /\ items'[t] # None /\ IsRetired(items'[t])
             /\ items'[t].successor = s
             /\ items'[t].digest
             /\ items'[t].account = items[t].account
             /\ items'[t].expiresAt = items[t].expiresAt
             /\ items'[s] # None /\ ~IsRetired(items'[s])
             /\ items'[s].digest
             /\ items'[s].account = items[t].account
             /\ items'[s].generation = generation[items[t].account]
             /\ items'[s].expiresAt <= session[t].openedAt + SessionCeiling
             /\ session' = [session EXCEPT ![s] = session[t]]
             /\ session'[s] = session[t]
             /\ \A u \in TokenIds \ {s} : session'[u] = session[u]
             /\ \A u \in TokenIds \ {s, t} : items'[u] = items[u]
             /\ UNCHANGED <<generation, clock, call, delivered>>
<1> DEFINE t == call[r].token
           s == call[r].successor
           new == SuccessorItem(call[r])
           old == [items[t] EXCEPT !.successor = s]
<1>1. /\ TypeOK /\ RequestOK(r) /\ call[r] # None /\ call[r] \in Call
      /\ t \in TokenIds /\ CopyIsStored(call[r])
      /\ s \in TokenIds /\ SuccessorIsReserved(call[r])
      /\ call[r].presented \in Item
  BY CallFields DEF InductiveInv, RequestOK, RotateCommits, SuccessorIsReserved
<1>2. /\ items[t] # None /\ items[t] \in Item /\ ~IsRetired(items[t])
      /\ items[s] = None /\ session[s] = None /\ s # t
      /\ generation[items[t].account] = items[t].generation
      /\ call[r].presented.account = items[t].account
      /\ call[r].presented.generation = items[t].generation
      /\ call[r].presented.startedAt = items[t].startedAt
      /\ call[r].expiresAt <= items[t].startedAt + SessionCeiling
  BY <1>1 DEF CopyIsStored, SuccessorIsReserved, RotateCommits, Rotate, RotateConditionsHold,
              TypeOK, StoreTypeOK
<1>3. /\ session[t] # None /\ items[t].digest /\ items[t].startedAt = session[t].openedAt
  BY <1>1, <1>2 DEF InductiveInv, TokenOK
<1>4. /\ items' = [items EXCEPT ![t] = old, ![s] = new]
      /\ session' = [session EXCEPT ![s] = session[t]]
      /\ UNCHANGED <<generation, clock, call, delivered>>
  BY <1>2 DEF RotateCommits, Rotate, Retire, GoTo
<1>5. /\ old \in Item /\ old.account = items[t].account /\ old.digest = items[t].digest
      /\ old.expiresAt = items[t].expiresAt /\ IsRetired(old) /\ old.successor = s
  BY <1>1, <1>2 DEF Item, IsRetired, NoToken, TokenIds
<1>6. /\ new \in Item /\ new.account = items[t].account /\ new.digest /\ ~IsRetired(new)
      /\ new.generation = items[t].generation /\ new.expiresAt = call[r].expiresAt
  BY <1>1, <1>2 DEF SuccessorItem, Item, Call, IsRetired, NoToken
<1>7. Live(t)
  BY <1>2, <1>3 DEF Live, Outstanding
<1> HIDE DEF old, new
<1>8. /\ items'[t] = old /\ items'[s] = new /\ session'[s] = session[t]
      /\ old # None /\ new # None
      /\ \A u \in TokenIds \ {s} : session'[u] = session[u]
      /\ \A u \in TokenIds \ {s, t} : items'[u] = items[u]
  BY <1>1, <1>2, <1>4, <1>5, <1>6, StoreAssumption DEF TypeOK, StoreTypeOK
<1> QED
  BY <1>1, <1>2, <1>3, <1>4, <1>5, <1>6, <1>7, <1>8

LEMMA RevokeEffect ==
  ASSUME InductiveInv, NEW r \in Requests, RevokeAll(r)
  PROVE  /\ call[r].account \in Accounts
         /\ generation' = [generation EXCEPT ![call[r].account] = @ + 1]
         /\ UNCHANGED <<items, session, clock, delivered>>
  BY CallFields DEF InductiveInv, RequestOK, RevokeAll, IncrementGeneration

LEMMA CollectEffect ==
  ASSUME InductiveInv, CollectExpired
  PROVE  \E t \in TokenIds :
           /\ items'[t] = None
           /\ \A u \in TokenIds \ {t} : items'[u] = items[u]
           /\ UNCHANGED <<generation, session, clock, stage, call, outcome, delivered>>
  BY DEF CollectExpired, Collect, InductiveInv, TypeOK, StoreTypeOK

\* Nothing but these steps writes to the store or hands out a token.
LEMMA StoreSteps ==
  ASSUME InductiveInv, [Next]_vars
  PROVE  \/ UNCHANGED <<items, generation, session, delivered>>
         \/ \E r \in Requests : IssueToken(r)
         \/ \E r \in Requests : RotateCommits(r)
         \/ \E r \in Requests : RevokeAll(r)
         \/ \E r \in Requests : LoadAccountAndSign(r)
         \/ CollectExpired
  BY DEF Next, vars, Progress, BeginSignIn, BeginRefresh, FindPresented, MintSuccessor,
         RotateIsCancelled, RotateConflicts, Reread, ClassifyReplay, Fail, Tick

LEMMA LoadEffect ==
  ASSUME InductiveInv, NEW r \in Requests, LoadAccountAndSign(r)
  PROVE  /\ UNCHANGED <<items, generation, session, clock>>
         /\ delivered' = delivered \cup {call[r].successor}
         /\ call[r].successor \in TokenIds
         /\ session[call[r].successor] # None
  BY DEF LoadAccountAndSign, InductiveInv, RequestOK

\* A session is never forgotten, and never given to another token.
LEMMA SessionsStay ==
  ASSUME InductiveInv, [Next]_vars, NEW t \in TokenIds, session[t] # None
  PROVE  session'[t] = session[t]
<1>1. ASSUME NEW r \in Requests, IssueToken(r) PROVE session'[t] = session[t]
  BY <1>1, IssueEffect
<1>2. ASSUME NEW r \in Requests, RotateCommits(r) PROVE session'[t] = session[t]
  BY <1>2, RotateEffect
<1>3. ASSUME NEW r \in Requests, RevokeAll(r) PROVE session'[t] = session[t]
  BY <1>3, RevokeEffect
<1>4. ASSUME NEW r \in Requests, LoadAccountAndSign(r) PROVE session'[t] = session[t]
  BY <1>4, LoadEffect
<1>5. CASE CollectExpired
  BY <1>5, CollectEffect
<1> QED
  BY <1>1, <1>2, <1>3, <1>4, <1>5, StoreSteps

\* A token that was stored and is no longer honoured never is again.
LEMMA DeadStaysDead ==
  ASSUME InductiveInv, [Next]_vars, NEW t \in TokenIds, session[t] # None, ~Live(t)
  PROVE  ~Live(t)'
<1>1. CASE UNCHANGED <<items, generation, session, delivered>>
  BY <1>1 DEF Live, Outstanding
<1>2. ASSUME NEW r \in Requests, IssueToken(r) PROVE ~Live(t)'
  BY <1>2, IssueEffect DEF Live, Outstanding
<1>3. ASSUME NEW r \in Requests, RotateCommits(r) PROVE ~Live(t)'
  <2>1. t # call[r].successor
    BY <1>3, RotateEffect
  <2>2. CASE t = call[r].token
    BY <1>3, <2>2, RotateEffect DEF Live, Outstanding
  <2>3. CASE t # call[r].token
    BY <1>3, <2>1, <2>3, RotateEffect DEF Live, Outstanding
  <2> QED
    BY <2>2, <2>3
<1>4. ASSUME NEW r \in Requests, RevokeAll(r) PROVE ~Live(t)'
  <2>1. /\ TypeOK /\ TokenOK(t)
        /\ generation' = [generation EXCEPT ![call[r].account] = @ + 1]
        /\ items' = items
    BY <1>4, RevokeEffect DEF InductiveInv
  <2>2. SUFFICES ASSUME Outstanding(t), items[t].digest PROVE items[t].generation # generation'[items[t].account]
    BY <2>1 DEF Live, Outstanding
  <2>3. /\ items[t].account \in Accounts /\ items[t].generation \in Nat
        /\ items[t].generation <= generation[items[t].account]
        /\ items[t].generation # generation[items[t].account]
    BY <2>1, <2>2, ItemFields DEF TokenOK, Outstanding, Live
  <2>4. /\ generation[items[t].account] \in Nat
        /\ generation'[items[t].account] \in {generation[items[t].account], generation[items[t].account] + 1}
    BY <2>1, <2>3 DEF TypeOK, StoreTypeOK
  <2> QED
    BY <2>3, <2>4
<1>5. ASSUME NEW r \in Requests, LoadAccountAndSign(r) PROVE ~Live(t)'
  BY <1>5, LoadEffect DEF Live, Outstanding
<1>6. CASE CollectExpired
  BY <1>6, CollectEffect DEF Live, Outstanding
<1> QED
  BY <1>1, <1>2, <1>3, <1>4, <1>5, <1>6, StoreSteps

-----------------------------------------------------------------------------
(* The ceiling of a session, and the tokens that reach a client.           *)

LEMMA CeilingKeeps ==
  ASSUME InductiveInv, RenewalsStayUnderCeiling, [Next]_vars
  PROVE  RenewalsStayUnderCeiling'
<1> DEFINE Under(t) == items[t] # None /\ session[t].root # t
                         => items[t].expiresAt <= session[t].openedAt + SessionCeiling
<1>1. \A t \in TokenIds : Under(t)
  BY DEF RenewalsStayUnderCeiling
<1>2. CASE UNCHANGED <<items, generation, session, delivered>>
  BY <1>1, <1>2 DEF RenewalsStayUnderCeiling
<1>3. ASSUME NEW r \in Requests, IssueToken(r), NEW t \in TokenIds PROVE Under(t)'
  <2>1. CASE t = nextId
    <3>1. session'[nextId] = [root |-> nextId, account |-> call[r].account, openedAt |-> clock]
      BY <1>3, IssueEffect
    <3> QED
      BY <2>1, <3>1
  <2>2. CASE t # nextId
    BY <1>1, <1>3, <2>2, IssueEffect
  <2> QED
    BY <2>1, <2>2
<1>4. ASSUME NEW r \in Requests, RotateCommits(r), NEW t \in TokenIds PROVE Under(t)'
  <2>1. CASE t = call[r].successor
    BY <1>4, <2>1, RotateEffect
  <2>2. CASE t = call[r].token
    <3>1. /\ items[t] # None /\ session'[t] = session[t]
          /\ items'[t].expiresAt = items[t].expiresAt
      BY <1>4, <2>2, RotateEffect DEF Live, Outstanding
    <3> QED
      BY <1>1, <3>1
  <2>3. CASE t \notin {call[r].token, call[r].successor}
    BY <1>1, <1>4, <2>3, RotateEffect
  <2> QED
    BY <2>1, <2>2, <2>3
<1>5. ASSUME NEW r \in Requests, RevokeAll(r), NEW t \in TokenIds PROVE Under(t)'
  BY <1>1, <1>5, RevokeEffect
<1>6. ASSUME NEW r \in Requests, LoadAccountAndSign(r), NEW t \in TokenIds PROVE Under(t)'
  BY <1>1, <1>6, LoadEffect
<1>7. ASSUME CollectExpired, NEW t \in TokenIds PROVE Under(t)'
  BY <1>1, <1>7, CollectEffect
<1> QED
  BY <1>2, <1>3, <1>4, <1>5, <1>6, <1>7, StoreSteps DEF RenewalsStayUnderCeiling

LEMMA NoPhantomKeeps ==
  ASSUME InductiveInv, NoPhantomToken, [Next]_vars
  PROVE  NoPhantomToken'
<1>1. \A t \in TokenIds : session[t] # None => session'[t] # None
  BY SessionsStay
<1>2. delivered \subseteq TokenIds /\ \A t \in delivered : session[t] # None
  BY DEF NoPhantomToken, InductiveInv, TypeOK
<1>3. CASE UNCHANGED delivered
  BY <1>1, <1>2, <1>3 DEF NoPhantomToken
<1>4. ASSUME NEW r \in Requests, IssueToken(r) PROVE NoPhantomToken'
  <2>1. session'[nextId] # None
    <3>1. nextId \in TokenIds /\ items'[nextId] # None
      BY <1>4, IssueEffect
    <3>2. \A t \in TokenIds : TokenOK(t)'
      BY <1>4, IssueTokenKeeps DEF InductiveInv
    <3> QED
      BY <3>1, <3>2 DEF TokenOK
  <2> QED
    BY <1>1, <1>2, <1>4, <2>1, IssueEffect DEF NoPhantomToken
<1>5. ASSUME NEW r \in Requests, LoadAccountAndSign(r) PROVE NoPhantomToken'
  BY <1>1, <1>2, <1>5, LoadEffect DEF NoPhantomToken
<1> QED
  BY <1>3, <1>4, <1>5, StoreSteps, RotateEffect, RevokeEffect, CollectEffect

-----------------------------------------------------------------------------
(* Who gets past the first read, and what a refusal means.                 *)

BeforeFirstRead == {"idle", "issuing", "finding"}

\* A request moves from one await to another by a step of its own.
LEMMA OwnSteps ==
  ASSUME InductiveInv, [Next]_vars, NEW r \in Requests, stage'[r] # stage[r]
  PROVE  \/ stage[r] = "idle" /\ stage'[r] \in {"issuing", "finding"}
         \/ Progress(r)
         \/ Fail(r)
<1> DEFINE Own == \/ stage[r] = "idle" /\ stage'[r] \in {"issuing", "finding"}
                  \/ Progress(r)
                  \/ Fail(r)
<1>1. TypeOK
  BY DEF InductiveInv
<1>2. ASSUME NEW q \in Requests, NEW a \in Accounts, BeginSignIn(q, a) PROVE Own
  BY <1>1, <1>2 DEF BeginSignIn, Begin, TypeOK
<1>3. ASSUME NEW q \in Requests, NEW a \in Accounts, NEW t \in TokenIds, NEW ok \in BOOLEAN,
             BeginRefresh(q, a, t, ok)
      PROVE  Own
  BY <1>1, <1>3 DEF BeginRefresh, Begin, TypeOK
<1>4. ASSUME NEW q \in Requests, Progress(q), q # r PROVE FALSE
  BY <1>1, <1>4 DEF Progress, IssueToken, FindPresented, MintSuccessor, RotateCommits,
     RotateIsCancelled, RotateConflicts, Reread, ClassifyReplay, RevokeAll, LoadAccountAndSign,
     Finish, GoTo, TypeOK
<1>5. ASSUME NEW q \in Requests, Fail(q), q # r PROVE FALSE
  BY <1>1, <1>5 DEF Fail, Finish, TypeOK
<1>6. ASSUME Tick \/ CollectExpired \/ UNCHANGED vars PROVE FALSE
  BY <1>6 DEF Tick, CollectExpired, vars
<1> QED
  BY <1>2, <1>3, <1>4, <1>5, <1>6 DEF Next

\* A request gets past its first read in FindPresented alone, and keeps from
\* there on what it was called with.
LEMMA RequestSteps ==
  ASSUME InductiveInv, [Next]_vars, NEW r \in Requests, stage'[r] \notin BeforeFirstRead
  PROVE  \/ FindPresented(r)
         \/ /\ stage[r] \notin BeforeFirstRead
            /\ call'[r].token = call[r].token
            /\ call'[r].account = call[r].account
            /\ call'[r].secretOk = call[r].secretOk
<1> USE DEF BeforeFirstRead
<1> DEFINE Kept == /\ stage[r] \notin BeforeFirstRead
                   /\ call'[r].token = call[r].token
                   /\ call'[r].account = call[r].account
                   /\ call'[r].secretOk = call[r].secretOk
<1>1. TypeOK
  BY DEF InductiveInv
<1>2. ASSUME NEW q \in Requests, NEW a \in Accounts, BeginSignIn(q, a) PROVE Kept
  BY <1>1, <1>2 DEF BeginSignIn, Begin, TypeOK
<1>3. ASSUME NEW q \in Requests, NEW a \in Accounts, NEW t \in TokenIds, NEW ok \in BOOLEAN,
             BeginRefresh(q, a, t, ok)
      PROVE  Kept
  BY <1>1, <1>3 DEF BeginRefresh, Begin, TypeOK
<1>4. ASSUME NEW q \in Requests, Progress(q), q # r PROVE Kept
  BY <1>1, <1>4 DEF Progress, IssueToken, FindPresented, MintSuccessor, RotateCommits,
     RotateIsCancelled, RotateConflicts, Reread, ClassifyReplay, RevokeAll, LoadAccountAndSign,
     Finish, GoTo, TypeOK
<1>5. ASSUME Progress(r) PROVE FindPresented(r) \/ Kept
  <2>1. call[r] # None => call[r] \in Call
    BY CallFields DEF InductiveInv
  <2>2. stage[r] # "idle" => call[r] # None
    BY DEF InductiveInv, RequestOK
  <2> QED
    BY <1>1, <1>5, <2>1, <2>2 DEF Progress, IssueToken, MintSuccessor, RotateCommits,
       RotateIsCancelled, RotateConflicts, Reread, ClassifyReplay, RevokeAll, LoadAccountAndSign,
       Finish, GoTo, TypeOK, Call
<1>6. ASSUME NEW q \in Requests, Fail(q) PROVE Kept
  BY <1>1, <1>6 DEF Fail, Finish, TypeOK
<1>7. ASSUME Tick \/ CollectExpired \/ UNCHANGED vars PROVE Kept
  BY <1>7 DEF Tick, CollectExpired, vars
<1> QED
  BY <1>2, <1>3, <1>4, <1>5, <1>6, <1>7 DEF Next

\* The first read lets pass whoever has the secret of the account's token.
LEMMA FirstReadChecks ==
  ASSUME InductiveInv, NEW r \in Requests, FindPresented(r), stage'[r] \notin BeforeFirstRead
  PROVE  Genuine(call[r])' /\ call'[r].token \in TokenIds
<1> DEFINE found == FindByIds(call[r].account, call[r].token)
<1>1. TypeOK /\ call[r] \in Call /\ call[r].token \in TokenIds
  BY CallFields DEF InductiveInv, RequestOK, FindPresented
<1>2. /\ found # None /\ call[r].secretOk
      /\ call' = [call EXCEPT ![r].presented = found]
      /\ session' = session
  BY <1>1 DEF FindPresented, Finish, TypeOK, BeforeFirstRead
<1>3. /\ call'[r].token = call[r].token
      /\ call'[r].account = call[r].account
      /\ call'[r].secretOk = call[r].secretOk
  <2> HIDE DEF found
  <2> QED
    BY <1>1, <1>2 DEF TypeOK, Call
<1>4. items[call[r].token] # None /\ items[call[r].token].account = call[r].account
  BY <1>2 DEF FindByIds
<1>5. session[call[r].token] # None /\ session[call[r].token].account = call[r].account
  BY <1>1, <1>4 DEF InductiveInv, TokenOK
<1> QED
  BY <1>1, <1>2, <1>3, <1>5 DEF Genuine

\* What a request presents once it is past its first read.
PresentsOwnToken ==
  \A r \in Requests : stage[r] \notin BeforeFirstRead => call[r].token \in TokenIds

LEMMA StrangersKeeps ==
  ASSUME InductiveInv, StrangersLearnNothing, PresentsOwnToken, [Next]_vars
  PROVE  StrangersLearnNothing' /\ PresentsOwnToken'
<1>1. SUFFICES ASSUME NEW r \in Requests, stage'[r] \notin BeforeFirstRead
               PROVE  Genuine(call[r])' /\ call'[r].token \in TokenIds
  BY DEF StrangersLearnNothing, PresentsOwnToken, BeforeFirstRead
<1>2. CASE FindPresented(r)
  BY <1>1, <1>2, FirstReadChecks
<1>3. CASE /\ stage[r] \notin BeforeFirstRead
           /\ call'[r].token = call[r].token
           /\ call'[r].account = call[r].account
           /\ call'[r].secretOk = call[r].secretOk
  <2>1. Genuine(call[r]) /\ call[r].token \in TokenIds
    BY <1>3 DEF StrangersLearnNothing, PresentsOwnToken, BeforeFirstRead
  <2>2. session'[call[r].token] = session[call[r].token]
    BY <2>1, SessionsStay DEF Genuine
  <2> QED
    BY <1>3, <2>1, <2>2 DEF Genuine
<1> QED
  BY <1>1, <1>2, <1>3, RequestSteps

\* A request re-reads its token only when that token is beyond renewal, or a
\* conflict was reported to it as a cancellation.
RereadTokenIsDead ==
  \A r \in Requests :
    stage[r] = "rereading" => call[r].contested \/ ~Live(call[r].token)

\* While it waits for that reading, nothing of the request changes.
LEMMA RereadingKeepsCall ==
  ASSUME TypeOK, [Next]_vars, NEW r \in Requests,
         stage[r] = "rereading", stage'[r] = "rereading"
  PROVE  call'[r] = call[r]
<1>1. ASSUME NEW q \in Requests, NEW a \in Accounts, BeginSignIn(q, a) PROVE call'[r] = call[r]
  BY <1>1 DEF BeginSignIn, Begin, TypeOK
<1>2. ASSUME NEW q \in Requests, NEW a \in Accounts, NEW t \in TokenIds, NEW ok \in BOOLEAN,
             BeginRefresh(q, a, t, ok)
      PROVE  call'[r] = call[r]
  BY <1>2 DEF BeginRefresh, Begin, TypeOK
<1>3. ASSUME NEW q \in Requests, Progress(q) PROVE call'[r] = call[r]
  BY <1>3 DEF Progress, IssueToken, FindPresented, MintSuccessor, RotateCommits,
     RotateIsCancelled, RotateConflicts, Reread, ClassifyReplay, RevokeAll, LoadAccountAndSign,
     Finish, GoTo, TypeOK
<1>4. ASSUME NEW q \in Requests, Fail(q) PROVE call'[r] = call[r]
  BY <1>4 DEF Fail, Finish, TypeOK
<1>5. ASSUME Tick \/ CollectExpired \/ UNCHANGED vars PROVE call'[r] = call[r]
  BY <1>5 DEF Tick, CollectExpired, vars
<1> QED
  BY <1>1, <1>2, <1>3, <1>4, <1>5 DEF Next

LEMMA RereadTokenStaysDead ==
  ASSUME InductiveInv, StrangersLearnNothing, PresentsOwnToken, RereadTokenIsDead,
         [Next]_vars
  PROVE  RereadTokenIsDead'
<1>1. SUFFICES ASSUME NEW r \in Requests, stage'[r] = "rereading", ~call'[r].contested
               PROVE  ~Live(call[r].token)'
  BY DEF RereadTokenIsDead
<1>2. stage'[r] \notin BeforeFirstRead
  BY <1>1 DEF BeforeFirstRead
<1>3. TypeOK
  BY DEF InductiveInv
<1>4. ~FindPresented(r)
  BY <1>1, <1>3 DEF FindPresented, Finish, GoTo, TypeOK
<1>5. /\ call'[r].token = call[r].token
      /\ call[r].token \in TokenIds
      /\ session[call[r].token] # None
  BY <1>2, <1>4, RequestSteps DEF PresentsOwnToken, StrangersLearnNothing, Genuine, BeforeFirstRead
<1>6. stage[r] = "rereading" \/ RotateIsCancelled(r)
  <2>1. CASE Progress(r)
    <3>1. ASSUME RotateConflicts(r) PROVE FALSE
      <4>1. call' # [call EXCEPT ![r].contested = TRUE]
        <5>1. call[r] # None /\ call[r] \in Call
          BY <1>3, <3>1 DEF InductiveInv, RequestOK, RotateConflicts, TypeOK
        <5> QED
          BY <1>1, <1>3, <5>1 DEF Call, TypeOK
      <4> QED
        BY <1>1, <1>3, <3>1, <4>1 DEF RotateConflicts, Finish, GoTo, TypeOK
    <3> QED
      BY <1>1, <1>3, <2>1, <3>1 DEF Progress, IssueToken, FindPresented, MintSuccessor,
         RotateCommits, Reread, ClassifyReplay, RevokeAll, LoadAccountAndSign, Finish, GoTo, TypeOK
  <2>2. CASE Fail(r)
    BY <1>1, <1>3, <2>2 DEF Fail, Finish, TypeOK
  <2> QED
    BY <1>1, <2>1, <2>2, OwnSteps
<1>7. ~Live(call[r].token)
  <2>1. CASE stage[r] = "rereading"
    <3>1. call'[r] = call[r]
      BY <1>1, <1>3, <2>1, RereadingKeepsCall
    <3> QED
      BY <1>1, <2>1, <3>1 DEF RereadTokenIsDead
  <2>2. CASE RotateIsCancelled(r)
    <3>1. /\ CopyIsStored(call[r])
          /\ ~RotateConditionsHold(call[r].token, call[r].presented)
      BY <2>2 DEF InductiveInv, RequestOK, RotateIsCancelled
    <3> QED
      BY <3>1 DEF CopyIsStored, RotateConditionsHold, Live, Outstanding
  <2> QED
    BY <1>6, <2>1, <2>2
<1> QED
  BY <1>5, <1>7, DeadStaysDead DEF Live, Outstanding

\* An outcome is given by the one step that gives it.
LEMMA OutcomeSteps ==
  ASSUME InductiveInv, [Next]_vars, NEW r \in Requests, Ends(r)
  PROVE  /\ outcome'[r] \in {"unknown", "expired"} => FindPresented(r) \/ Reread(r)
         /\ outcome'[r] = "reuse-detected" => RevokeAll(r)
<1>1. TypeOK /\ stage[r] # "idle" /\ stage'[r] = "idle"
  BY DEF InductiveInv, Ends
<1>2. CASE Progress(r)
  <2>1. ASSUME \/ IssueToken(r) \/ MintSuccessor(r) \/ RotateCommits(r) \/ RotateIsCancelled(r)
               \/ RotateConflicts(r) \/ ClassifyReplay(r) \/ LoadAccountAndSign(r)
        PROVE  outcome'[r] \in {"signed-in", "failed", "benign-replay", "rotated"}
    BY <1>1, <2>1 DEF IssueToken, MintSuccessor, RotateCommits, RotateIsCancelled,
       RotateConflicts, ClassifyReplay, LoadAccountAndSign, Finish, GoTo, TypeOK
  <2>2. ASSUME FindPresented(r) PROVE outcome'[r] \in {"unknown", "failed", "expired"}
    BY <1>1, <2>2 DEF FindPresented, Finish, GoTo, TypeOK
  <2>3. ASSUME Reread(r) PROVE outcome'[r] = "expired"
    BY <1>1, <2>3 DEF Reread, Finish, GoTo, TypeOK
  <2>4. ASSUME RevokeAll(r) PROVE outcome'[r] \in {"reuse-detected", "failed"}
    BY <1>1, <2>4 DEF RevokeAll, Finish, TypeOK
  <2> QED
    BY <1>2, <2>1, <2>2, <2>3, <2>4 DEF Progress
<1>3. CASE Fail(r)
  BY <1>1, <1>3 DEF Fail, Finish, TypeOK
<1> QED
  BY <1>1, <1>2, <1>3, OwnSteps

LEMMA RefusalStep ==
  ASSUME InductiveInv, RereadTokenIsDead, [Next]_vars, NEW r \in Requests,
         TurnsAway(r), ~call[r].contested
  PROVE  IsDead(r)
<1> USE DEF TurnsAway, IsDead
<1> DEFINE t == call[r].token
<1>1. TypeOK
  BY DEF InductiveInv
<1>2. CASE FindPresented(r)
  <2>1. t \in TokenIds
    BY <1>2 DEF InductiveInv, RequestOK, FindPresented
  <2>2. items[t] # None => items[t].account = call[r].account /\ items[t].digest
    BY <2>1 DEF Genuine, InductiveInv, TokenOK
  <2>3. FindByIds(call[r].account, t) = items[t]
    BY <2>2 DEF FindByIds
  <2>4. CASE items[t] = None
    BY <2>4 DEF Live, Outstanding
  <2>5. CASE items[t] # None
    <3>1. ~(outcome'[r] = "failed") /\ stage'[r] = "idle"
      BY DEF Ends
    <3>2. IsPastExpiry(items[t], clock)
      BY <1>1, <1>2, <2>2, <2>3, <2>5, <3>1 DEF FindPresented, Finish, GoTo, Genuine, TypeOK
    <3> QED
      BY <3>2
  <2> QED
    BY <2>4, <2>5
<1>3. CASE Reread(r)
  BY <1>3 DEF Reread, RereadTokenIsDead
<1> QED
  BY <1>2, <1>3, OutcomeSteps

LEMMA ReuseStep ==
  ASSUME InductiveInv, [Next]_vars, NEW r \in Requests,
         Ends(r), outcome'[r] = "reuse-detected",
         NEW t \in TokenIds, items'[t] # None, items'[t].account = call[r].account
  PROVE  ~Live(t)'
<1>1. RevokeAll(r)
  BY OutcomeSteps
<1>2. /\ call[r].account \in Accounts
      /\ generation' = [generation EXCEPT ![call[r].account] = @ + 1]
      /\ items' = items
  BY <1>1, RevokeEffect
<1>3. generation[call[r].account] \in Nat
      /\ generation'[call[r].account] = generation[call[r].account] + 1
  BY <1>2 DEF InductiveInv, TypeOK, StoreTypeOK
<1>4. items[t].generation \in Nat /\ items[t].generation <= generation[call[r].account]
  BY <1>2, ItemFields DEF InductiveInv, TokenOK
<1>5. items'[t].generation # generation'[items'[t].account]
  BY <1>2, <1>3, <1>4
<1> QED
  BY <1>5 DEF Live

-----------------------------------------------------------------------------
(* What a revocation is proof of.                                          *)

\* s is a token that the rotation of t put in its place.
Succeeds(s, t) ==
  /\ s \in TokenIds /\ t \in TokenIds
  /\ session[s] # None /\ session[t] # None
  /\ session[s].root = session[t].root
  /\ session[s].account = session[t].account

\* What is stored tells which tokens were rotated, and into which.
RetiredItemsSound ==
  \A t \in TokenIds :
    items[t] # None => IF IsRetired(items[t])
                         THEN t \in retired /\ Succeeds(items[t].successor, t)
                         ELSE t \notin retired

\* Of the tokens of a sign-in, the collected ones with them, only the last was
\* never rotated.
OneEnd ==
  \A t, u \in TokenIds \ retired :
    session[t] # None /\ session[u] # None /\ session[t].root = session[u].root => t = u

\* The copy a request classifies names the successor of its token.
CopiesSound ==
  \A r \in Requests :
    stage[r] = "classifying" =>
      /\ Succeeds(call[r].presented.successor, call[r].token)
      /\ call[r].presented.account = session[call[r].token].account

ReplaySound ==
  /\ \A t \in TokenIds : session[t] = None => t \notin retired
  /\ RetiredItemsSound
  /\ OneEnd
  /\ CopiesSound

LEMMA SucceedsStays ==
  ASSUME InductiveInv, [Next]_vars, NEW s, NEW t, Succeeds(s, t)
  PROVE  Succeeds(s, t)'
  BY SessionsStay DEF Succeeds

LEMMA RetiredSteps ==
  ASSUME [Next]_vars, \A r \in Requests : ~RotateCommits(r)
  PROVE  retired' = retired
  BY DEF Next, vars, Progress, BeginSignIn, BeginRefresh, IssueToken, FindPresented,
     MintSuccessor, RotateIsCancelled, RotateConflicts, Reread, ClassifyReplay,
     RevokeAll, LoadAccountAndSign, Fail, Tick, CollectExpired

\* The three conjuncts about tokens, through a sign-in,
LEMMA IssueKeepsChains ==
  ASSUME InductiveInv, ReplaySound, [Next]_vars, NEW r \in Requests, IssueToken(r)
  PROVE  /\ (\A t \in TokenIds : session[t] = None => t \notin retired)'
         /\ RetiredItemsSound' /\ OneEnd'
<1>1. retired' = retired /\ nextId \in TokenIds /\ nextId \notin retired
  BY IssueEffect DEF IssueToken, ReplaySound
<1>2. /\ items'[nextId] # None /\ ~IsRetired(items'[nextId])
      /\ session'[nextId] # None /\ session'[nextId].root = nextId
      /\ \A t \in TokenIds \ {nextId} : items'[t] = items[t] /\ session'[t] = session[t]
  <2>1. clock \in Nat /\ call[r].account \in Accounts
    BY IssueEffect DEF InductiveInv, TypeOK
  <2>2. session'[nextId] = [root |-> nextId, account |-> call[r].account, openedAt |-> clock]
    BY IssueEffect
  <2>3. session'[nextId] \in Session /\ session'[nextId].root = nextId
    BY <1>1, <2>1, <2>2 DEF Session
  <2> QED
    BY <2>3, IssueEffect, StoreAssumption
<1>3. \A t \in TokenIds : session[t] # None => session[t].root # nextId
  BY DEF InductiveInv, TokenOK, TypeOK, StoreTypeOK, Session, TokenIds
<1>4. (\A t \in TokenIds : session[t] = None => t \notin retired)'
  BY <1>1, <1>2 DEF ReplaySound
<1>5. RetiredItemsSound'
  <2> SUFFICES ASSUME NEW t \in TokenIds, items'[t] # None
               PROVE  IF IsRetired(items'[t])
                        THEN t \in retired' /\ Succeeds(items[t].successor, t)'
                        ELSE t \notin retired'
    BY DEF RetiredItemsSound
  <2>1. CASE t = nextId
    BY <1>1, <1>2, <2>1
  <2>2. CASE t # nextId
    BY <1>1, <1>2, <2>2, SucceedsStays DEF ReplaySound, RetiredItemsSound
  <2> QED
    BY <2>1, <2>2
<1>6. OneEnd'
  BY <1>1, <1>2, <1>3 DEF ReplaySound, OneEnd
<1> QED
  BY <1>4, <1>5, <1>6

\* a rotation,
LEMMA RotateKeepsChains ==
  ASSUME InductiveInv, ReplaySound, [Next]_vars, NEW r \in Requests, RotateCommits(r)
  PROVE  /\ (\A t \in TokenIds : session[t] = None => t \notin retired)'
         /\ RetiredItemsSound' /\ OneEnd'
<1> DEFINE t == call[r].token
           s == call[r].successor
<1>1. /\ t \in TokenIds /\ s \in TokenIds /\ s # t
      /\ session[s] = None /\ session[t] # None
      /\ items[t] # None /\ ~IsRetired(items[t])
      /\ IsRetired(items'[t]) /\ items'[t].successor = s
      /\ ~IsRetired(items'[s])
      /\ session'[s] = session[t]
      /\ \A u \in TokenIds \ {s} : session'[u] = session[u]
      /\ \A u \in TokenIds \ {s, t} : items'[u] = items[u]
  BY RotateEffect DEF Live, Outstanding
<1>2. retired' = retired \cup {t} /\ t \notin retired /\ s \notin retired
  BY <1>1 DEF RotateCommits, ReplaySound, RetiredItemsSound
<1> HIDE DEF t, s
<1>3. (\A u \in TokenIds : session[u] = None => u \notin retired)'
  BY <1>1, <1>2 DEF ReplaySound
<1>4. RetiredItemsSound'
  <2> SUFFICES ASSUME NEW u \in TokenIds, items'[u] # None
               PROVE  IF IsRetired(items'[u])
                        THEN u \in retired' /\ Succeeds(items[u].successor, u)'
                        ELSE u \notin retired'
    BY DEF RetiredItemsSound
  <2>1. CASE u = t
    BY <1>1, <1>2, <2>1 DEF Succeeds
  <2>2. CASE u = s
    BY <1>1, <1>2, <2>2
  <2>3. CASE u \notin {s, t}
    BY <1>1, <1>2, <2>3, SucceedsStays DEF ReplaySound, RetiredItemsSound
  <2> QED
    BY <2>1, <2>2, <2>3
<1>5. OneEnd'
  <2>1. \A u \in TokenIds \ retired :
          session[u] # None /\ session[u].root = session[t].root => u = t
    BY <1>1, <1>2 DEF ReplaySound, OneEnd
  <2> QED
    BY <1>1, <1>2, <2>1 DEF ReplaySound, OneEnd
<1> QED
  BY <1>3, <1>4, <1>5

\* and whatever else is done to the store, collection included.
LEMMA ChainsKeep ==
  ASSUME InductiveInv, ReplaySound, [Next]_vars
  PROVE  /\ (\A t \in TokenIds : session[t] = None => t \notin retired)'
         /\ RetiredItemsSound' /\ OneEnd'
<1>1. CASE \E r \in Requests : IssueToken(r)
  BY <1>1, IssueKeepsChains
<1>2. CASE \E r \in Requests : RotateCommits(r)
  BY <1>2, RotateKeepsChains
<1>3. CASE /\ session' = session
           /\ \A r \in Requests : ~RotateCommits(r)
           /\ \A t \in TokenIds : items'[t] \in {items[t], None}
  <2>1. retired' = retired
    BY <1>3, RetiredSteps
  <2> QED
    BY <1>3, <2>1 DEF ReplaySound, RetiredItemsSound, OneEnd, Succeeds
<1>4. CASE CollectExpired
  <2>1. \A r \in Requests : ~RotateCommits(r)
    BY <1>4, RotateEffect DEF CollectExpired, Collect, RotateCommits, GoTo, InductiveInv, TypeOK
  <2> QED
    BY <1>3, <1>4, <2>1, CollectEffect
<1> QED
  BY <1>1, <1>2, <1>3, <1>4, StoreSteps, RevokeEffect, LoadEffect

\* A copy comes to be classified by a read that found it retired.
LEMMA ClassifyingSteps ==
  ASSUME InductiveInv, [Next]_vars, NEW r \in Requests, stage'[r] = "classifying"
  PROVE  \/ stage[r] = "classifying" /\ call'[r] = call[r]
         \/ \E t \in TokenIds : /\ items[t] # None /\ IsRetired(items[t])
                                /\ call'[r].presented = items[t] /\ call'[r].token = t
<1> DEFINE Kept == stage[r] = "classifying" /\ call'[r] = call[r]
           Read == \E t \in TokenIds : /\ items[t] # None /\ IsRetired(items[t])
                                       /\ call'[r].presented = items[t] /\ call'[r].token = t
<1>1. TypeOK
  BY DEF InductiveInv
<1>2. ASSUME NEW q \in Requests, NEW a \in Accounts, BeginSignIn(q, a) PROVE Kept
  BY <1>1, <1>2 DEF BeginSignIn, Begin, TypeOK
<1>3. ASSUME NEW q \in Requests, NEW a \in Accounts, NEW t \in TokenIds, NEW ok \in BOOLEAN,
             BeginRefresh(q, a, t, ok)
      PROVE  Kept
  BY <1>1, <1>3 DEF BeginRefresh, Begin, TypeOK
<1>4. ASSUME NEW q \in Requests, Progress(q), q # r PROVE Kept
  BY <1>1, <1>4 DEF Progress, IssueToken, FindPresented, MintSuccessor, RotateCommits,
     RotateIsCancelled, RotateConflicts, Reread, ClassifyReplay, RevokeAll, LoadAccountAndSign,
     Finish, GoTo, TypeOK
<1>5. ASSUME \/ IssueToken(r) \/ MintSuccessor(r) \/ RotateCommits(r) \/ RotateIsCancelled(r)
             \/ RotateConflicts(r) \/ ClassifyReplay(r) \/ RevokeAll(r) \/ LoadAccountAndSign(r)
      PROVE  FALSE
  BY <1>1, <1>5 DEF IssueToken, MintSuccessor, RotateCommits, RotateIsCancelled, RotateConflicts,
     ClassifyReplay, RevokeAll, LoadAccountAndSign, Finish, GoTo, TypeOK
<1>7. ASSUME FindPresented(r) PROVE Read
  <2>1. call[r] \in Call /\ call[r].token \in TokenIds
    BY <1>7, CallFields DEF InductiveInv, RequestOK, FindPresented
  <2> DEFINE c == FindByIds(call[r].account, call[r].token)
  <2>2. c # None /\ IsRetired(c) /\ call' = [call EXCEPT ![r].presented = c]
    BY <1>1, <1>7 DEF FindPresented, Finish, GoTo, TypeOK
  <2>3. c = items[call[r].token]
    BY <2>2 DEF FindByIds
  <2>4. call'[r].presented = c /\ call'[r].token = call[r].token
    <3> HIDE DEF c
    <3> QED
      BY <1>1, <2>1, <2>2 DEF TypeOK, Call
  <2> QED
    BY <2>1, <2>2, <2>3, <2>4
<1>8. ASSUME Reread(r) PROVE Read
  <2>1. call[r] \in Call /\ call[r].token \in TokenIds
    BY <1>8, CallFields DEF InductiveInv, RequestOK, Reread
  <2> DEFINE c == FindByIds(call[r].presented.account, call[r].token)
  <2>2. c # None /\ IsRetired(c) /\ call' = [call EXCEPT ![r].presented = c]
    BY <1>1, <1>8 DEF Reread, Finish, GoTo, TypeOK
  <2>3. c = items[call[r].token]
    BY <2>2 DEF FindByIds
  <2>4. call'[r].presented = c /\ call'[r].token = call[r].token
    <3> HIDE DEF c
    <3> QED
      BY <1>1, <2>1, <2>2 DEF TypeOK, Call
  <2> QED
    BY <2>1, <2>2, <2>3, <2>4
<1>9. ASSUME NEW q \in Requests, Fail(q) PROVE Kept
  BY <1>1, <1>9 DEF Fail, Finish, TypeOK
<1>10. ASSUME Tick \/ CollectExpired \/ UNCHANGED vars PROVE Kept
  BY <1>10 DEF Tick, CollectExpired, vars
<1> HIDE DEF Kept, Read
<1>11. Kept \/ Read
  BY <1>2, <1>3, <1>4, <1>5, <1>7, <1>8, <1>9, <1>10 DEF Next, Progress
<1> QED
  BY <1>11 DEF Kept, Read

LEMMA ReplayKeeps ==
  ASSUME InductiveInv, ReplaySound, [Next]_vars
  PROVE  ReplaySound'
<1>1. ASSUME NEW r \in Requests, stage'[r] = "classifying"
      PROVE  /\ Succeeds(call[r].presented.successor, call[r].token)'
             /\ call'[r].presented.account = session'[call'[r].token].account
  <2>1. CASE stage[r] = "classifying" /\ call'[r] = call[r]
    <3>1. /\ Succeeds(call[r].presented.successor, call[r].token)
          /\ call[r].presented.account = session[call[r].token].account
      BY <2>1 DEF ReplaySound, CopiesSound
    <3>2. session'[call[r].token] = session[call[r].token]
      BY <3>1, SessionsStay DEF Succeeds
    <3>3. Succeeds(call[r].presented.successor, call[r].token)'
      BY <2>1, <3>1, SessionsStay DEF Succeeds
    <3> QED
      BY <2>1, <3>1, <3>2, <3>3
  <2>2. CASE \E t \in TokenIds : /\ items[t] # None /\ IsRetired(items[t])
                                 /\ call'[r].presented = items[t] /\ call'[r].token = t
    <3>1. PICK t \in TokenIds : /\ items[t] # None /\ IsRetired(items[t])
                                /\ call'[r].presented = items[t] /\ call'[r].token = t
      BY <2>2
    <3>2. Succeeds(items[t].successor, t) /\ items[t].account = session[t].account
      BY <3>1 DEF ReplaySound, RetiredItemsSound, InductiveInv, TokenOK
    <3>3. session'[t] = session[t]
      BY <3>2, SessionsStay DEF Succeeds
    <3>4. Succeeds(call[r].presented.successor, call[r].token)'
      BY <3>1, <3>2, SessionsStay DEF Succeeds
    <3> QED
      BY <3>1, <3>2, <3>3, <3>4
  <2> QED
    BY <1>1, <2>1, <2>2, ClassifyingSteps
<1>2. CopiesSound'
  BY <1>1 DEF CopiesSound
<1> QED
  BY <1>2, ChainsKeep DEF ReplaySound

LEMMA ProofStep ==
  ASSUME InductiveInv, ReplaySound, [Next]_vars, NEW r \in Requests,
         stage[r] = "classifying", stage'[r] = "revoking",
         call[r].presented.successor \notin retired,
         NEW t \in TokenIds, Outstanding(t)
  PROVE  session[t].root # session[call[r].token].root
<1> DEFINE s == call[r].presented.successor
<1>1. TypeOK
  BY DEF InductiveInv
<1>2. ClassifyReplay(r)
  <2>1. CASE Progress(r)
    BY <2>1 DEF Progress, IssueToken, FindPresented, MintSuccessor, RotateCommits,
       RotateIsCancelled, RotateConflicts, Reread, RevokeAll, LoadAccountAndSign
  <2>2. CASE Fail(r)
    BY <1>1, <2>2 DEF Fail, Finish, TypeOK
  <2> QED
    BY <2>1, <2>2, OwnSteps
<1>3. /\ Succeeds(s, call[r].token)
      /\ call[r].presented.account = session[s].account
  BY DEF ReplaySound, CopiesSound, Succeeds
<1>4. ~IsUntouchedTip(FindByIds(call[r].presented.account, s))
  BY <1>1, <1>2 DEF ClassifyReplay, Finish, TypeOK
<1>5. items[s] = None
  <2>1. ASSUME items[s] # None PROVE FALSE
    <3>1. items[s].account = session[s].account /\ s \in TokenIds
      BY <1>3, <2>1 DEF Succeeds, InductiveInv, TokenOK
    <3>2. ~IsUntouchedTip(items[s])
      BY <1>3, <1>4, <2>1, <3>1 DEF FindByIds
    <3> QED
      BY <2>1, <3>1, <3>2 DEF IsUntouchedTip, ReplaySound, RetiredItemsSound
  <2> QED
    BY <2>1
<1>6. t \notin retired /\ session[t] # None /\ t # s
  BY <1>5 DEF Outstanding, ReplaySound, RetiredItemsSound, InductiveInv, TokenOK
<1> QED
  BY <1>3, <1>6 DEF Succeeds, ReplaySound, OneEnd

-----------------------------------------------------------------------------
(* The refinement: each step is a step of the abstract sessions, or none.  *)

LEMMA InitRefines == Init => Sessions!Init
  BY DEF Init, StoreInit, Sessions!Init, LiveTokens, Live, Outstanding

\* A committed rotation is a renewal.
LEMMA RotateRefines ==
  ASSUME InductiveInv, NEW r \in Requests, RotateCommits(r)
  PROVE  Sessions!Renew(call[r].token, call[r].successor)
<1> DEFINE t == call[r].token
           s == call[r].successor
<1>1. t \in LiveTokens /\ session[s] = None
  BY RotateEffect DEF LiveTokens
<1>2. ~Live(t)' /\ Live(s)' /\ ~Live(s)
  <2>1. UNCHANGED call
    BY RotateEffect
  <2> QED
    BY <2>1, RotateEffect DEF Live, Outstanding
<1>3. \A u \in TokenIds \ {s, t} : Live(u)' <=> Live(u)
  BY RotateEffect DEF Live, Outstanding
<1>4. LiveTokens' = (LiveTokens \ {t}) \cup {s}
  BY <1>2, <1>3, RotateEffect DEF LiveTokens
<1> QED
  BY <1>1, <1>4, RotateEffect DEF Sessions!Renew

\* A sign-in opens a session, whose token a revocation may already cover.
LEMMA IssueRefines ==
  ASSUME InductiveInv, NEW r \in Requests, IssueToken(r)
  PROVE  Sessions!SignIn(nextId)
<1>1. clock \in Nat
  BY DEF InductiveInv, TypeOK
<1>2. session'[nextId] \in Sessions!SessionOf(nextId)
  <2>1. /\ session'[nextId] = [root |-> nextId, account |-> call[r].account, openedAt |-> clock]
        /\ call[r].account \in Accounts
    BY IssueEffect
  <2> QED
    BY <1>1, <2>1 DEF Sessions!SessionOf
<1>3. \A u \in TokenIds \ {nextId} : Live(u)' <=> Live(u)
  BY IssueEffect DEF Live, Outstanding
<1>4. nextId \notin LiveTokens
  BY IssueEffect DEF LiveTokens, Live, Outstanding
<1>5. LiveTokens' \in {LiveTokens, LiveTokens \cup {nextId}}
  BY <1>3, <1>4 DEF LiveTokens
<1> QED
  BY <1>2, <1>5, IssueEffect DEF Sessions!SignIn

\* One more generation takes every live token of the account, and no other.
LEMMA RevokeRefines ==
  ASSUME InductiveInv, NEW r \in Requests, RevokeAll(r)
  PROVE  call[r].account \in Accounts /\ Sessions!Revoke(call[r].account)
<1> DEFINE a == call[r].account
<1>1. /\ a \in Accounts
      /\ generation' = [generation EXCEPT ![a] = @ + 1]
      /\ UNCHANGED <<items, session>>
  BY RevokeEffect
<1>2. ASSUME NEW t \in TokenIds, Outstanding(t)
      PROVE  Live(t)' <=> Live(t) /\ session[t].account # a
  <2>1. /\ TypeOK /\ items[t] # None /\ items[t].account \in Accounts
        /\ items[t].account = session[t].account
        /\ items[t].generation \in Nat
        /\ items[t].generation <= generation[items[t].account]
    BY <1>2, ItemFields DEF InductiveInv, TokenOK, Outstanding
  <2>2. generation[items[t].account] \in Nat
    BY <2>1 DEF TypeOK, StoreTypeOK
  <2>3. generation'[items[t].account]
          = IF items[t].account = a THEN generation[items[t].account] + 1
            ELSE generation[items[t].account]
    BY <1>1, <2>1 DEF TypeOK, StoreTypeOK
  <2>4. Live(t)' <=> items[t].digest /\ items[t].generation = generation'[items[t].account]
    BY <1>1, <1>2 DEF Live, Outstanding
  <2>5. Live(t) <=> items[t].digest /\ items[t].generation = generation[items[t].account]
    BY <1>2 DEF Live
  <2> QED
    BY <2>1, <2>2, <2>3, <2>4, <2>5
<1>3. \A t \in TokenIds : ~Outstanding(t) => ~Live(t) /\ ~Live(t)'
  BY <1>1 DEF Live, Outstanding
<1>4. LiveTokens' = {t \in LiveTokens : session[t].account # a}
  BY <1>2, <1>3 DEF LiveTokens
<1> QED
  BY <1>1, <1>4 DEF Sessions!Revoke

\* A collected token lapses, if it was still honoured.
LEMMA CollectRefines ==
  ASSUME InductiveInv, CollectExpired
  PROVE  (\E t \in TokenIds : Sessions!Lapse(t)) \/ UNCHANGED <<LiveTokens, session>>
<1>1. PICK t \in TokenIds : /\ items'[t] = None
                            /\ \A u \in TokenIds \ {t} : items'[u] = items[u]
                            /\ UNCHANGED <<generation, session>>
  BY CollectEffect
<1>2. LiveTokens' = LiveTokens \ {t}
  BY <1>1 DEF LiveTokens, Live, Outstanding
<1> QED
  BY <1>1, <1>2 DEF Sessions!Lapse

LEMMA StepRefines ==
  ASSUME InductiveInv, [Next]_vars
  PROVE  [Sessions!Next]_(Sessions!vars)
<1>1. CASE UNCHANGED <<items, generation, session, delivered>>
  BY <1>1 DEF Sessions!vars, LiveTokens, Live, Outstanding
<1>2. ASSUME NEW r \in Requests, IssueToken(r) PROVE Sessions!Next
  BY <1>2, IssueRefines, IssueEffect DEF Sessions!Next
<1>3. ASSUME NEW r \in Requests, RotateCommits(r) PROVE Sessions!Next
  BY <1>3, RotateRefines, RotateEffect DEF Sessions!Next
<1>4. ASSUME NEW r \in Requests, RevokeAll(r) PROVE Sessions!Next
  BY <1>4, RevokeRefines DEF Sessions!Next
<1>5. ASSUME NEW r \in Requests, LoadAccountAndSign(r) PROVE UNCHANGED Sessions!vars
  BY <1>5, LoadEffect DEF Sessions!vars, LiveTokens, Live, Outstanding
<1>6. CASE CollectExpired
  BY <1>6, CollectRefines DEF Sessions!Next, Sessions!vars
<1> QED
  BY <1>1, <1>2, <1>3, <1>4, <1>5, <1>6, StoreSteps

-----------------------------------------------------------------------------

\* Rotation over the store, with its races, conflicts, replays, revocations,
\* expiry and collection, implements the abstract sessions: one chain for each
\* sign-in, of which at most the last token is honoured, and no token that is
\* no longer honoured ever is again.
THEOREM RotationImplementsSessions ==
  CollectedAfterRequestsEnd => (Spec => ImplementsSessions)
<1> SUFFICES ASSUME CollectedAfterRequestsEnd PROVE Spec => ImplementsSessions
  OBVIOUS
<1>1. InductiveInv /\ [Next]_vars => [Sessions!Next]_(Sessions!vars)
  BY StepRefines
<1> QED
  BY <1>1, InitRefines, InductiveInvHolds, PTL DEF Spec, ImplementsSessions, Sessions!Spec

\* No chain of renewals, however long, and whenever its transactions commit,
\* outlasts the ceiling of the sign-in it began with (successorExpiryOf).
THEOREM RenewalsNeverOutlastSignIn ==
  CollectedAfterRequestsEnd => (Spec => []RenewalsStayUnderCeiling)
<1> SUFFICES ASSUME CollectedAfterRequestsEnd PROVE Spec => []RenewalsStayUnderCeiling
  OBVIOUS
<1>1. Init => RenewalsStayUnderCeiling
  BY DEF Init, StoreInit, RenewalsStayUnderCeiling
<1>2. InductiveInv /\ RenewalsStayUnderCeiling /\ [Next]_vars => RenewalsStayUnderCeiling'
  BY CeilingKeeps
<1> QED
  BY <1>1, <1>2, InductiveInvHolds, PTL DEF Spec

\* Every token that has reached a client was stored, whatever its rotation
\* met (attemptRotation's order of rotate and buildRotatedOutcome).
THEOREM DeliveredTokensWereStored ==
  CollectedAfterRequestsEnd => (Spec => []NoPhantomToken)
<1> SUFFICES ASSUME CollectedAfterRequestsEnd PROVE Spec => []NoPhantomToken
  OBVIOUS
<1>1. Init => NoPhantomToken
  BY DEF Init, NoPhantomToken
<1>2. InductiveInv /\ NoPhantomToken /\ [Next]_vars => NoPhantomToken'
  BY NoPhantomKeeps
<1> QED
  BY <1>1, <1>2, InductiveInvHolds, PTL DEF Spec

\* Only a caller with the secret of a token of that account gets past the
\* first read (execute's order of checks, AC-21).
THEOREM StrangersStopAtFirstRead ==
  CollectedAfterRequestsEnd => (Spec => []StrangersLearnNothing)
<1> SUFFICES ASSUME CollectedAfterRequestsEnd PROVE Spec => []StrangersLearnNothing
  OBVIOUS
<1>1. Init => StrangersLearnNothing /\ PresentsOwnToken
  BY DEF Init, StrangersLearnNothing, PresentsOwnToken, BeforeFirstRead
<1>2. InductiveInv /\ StrangersLearnNothing /\ PresentsOwnToken /\ [Next]_vars
        => StrangersLearnNothing' /\ PresentsOwnToken'
  BY StrangersKeeps
<1> QED
  BY <1>1, <1>2, InductiveInvHolds, PTL DEF Spec

\* When reuse is reported, every token of the account is dead: the tip, those
\* of other sign-ins, and those committed while the replay was classified
\* (classifyReplay and revokeAll, AC-16).
THEOREM ReuseEndsEverySession ==
  CollectedAfterRequestsEnd => (Spec => ReuseKillsAccount)
<1> SUFFICES ASSUME CollectedAfterRequestsEnd PROVE Spec => ReuseKillsAccount
  OBVIOUS
<1>1. ASSUME InductiveInv, [Next]_vars
      PROVE  [\A r \in Requests :
                Ends(r) /\ outcome'[r] = "reuse-detected"
                  => \A t \in TokenIds : items'[t] # None /\ items'[t].account = call[r].account
                                         => ~Live(t)']_vars
  BY <1>1, ReuseStep
<1> QED
  BY <1>1, InductiveInvHolds, PTL DEF Spec, ReuseKillsAccount

\* A working token is turned away for one reason only: its transaction met a
\* write conflict, which came as a cancellation.  Every other loss, replay,
\* revocation and collection is told from it (reclassifyAfterConditionFailure).
THEOREM NothingElseTurnsAway ==
  CollectedAfterRequestsEnd => (Spec => OnlyConflictsTurnAway)
<1> SUFFICES ASSUME CollectedAfterRequestsEnd PROVE Spec => OnlyConflictsTurnAway
  OBVIOUS
<1> DEFINE Reads == StrangersLearnNothing /\ PresentsOwnToken /\ RereadTokenIsDead
<1>1. Init => Reads
  BY DEF Init, StrangersLearnNothing, PresentsOwnToken, RereadTokenIsDead, BeforeFirstRead
<1>2. InductiveInv /\ Reads /\ [Next]_vars => Reads'
  BY StrangersKeeps, RereadTokenStaysDead
<1>3. ASSUME InductiveInv, Reads, [Next]_vars
      PROVE  [\A r \in Requests : TurnsAway(r) /\ ~call[r].contested => IsDead(r)]_vars
  BY <1>3, RefusalStep
<1> HIDE DEF Reads
<1> QED
  BY <1>1, <1>2, <1>3, InductiveInvHolds, PTL DEF Spec, OnlyConflictsTurnAway

\* An account's sessions are revoked only when the replayed token's successor
\* has itself been rotated, or else when the sign-in it belongs to has no token
\* left: collection in any order never ends a session that still runs
\* (classifyReplay, ReuseDetectedOutcome).
THEOREM RevocationSparesRunningSession ==
  CollectedAfterRequestsEnd => (Spec => RevokedOnProofOrAfterSession)
<1> SUFFICES ASSUME CollectedAfterRequestsEnd PROVE Spec => RevokedOnProofOrAfterSession
  OBVIOUS
<1>1. Init => ReplaySound
  BY DEF Init, StoreInit, ReplaySound, RetiredItemsSound, OneEnd, CopiesSound
<1>2. InductiveInv /\ ReplaySound /\ [Next]_vars => ReplaySound'
  BY ReplayKeeps
<1>3. ASSUME InductiveInv, ReplaySound, [Next]_vars
      PROVE  [\A r \in Requests :
                stage[r] = "classifying" /\ stage'[r] = "revoking"
                  => \/ call[r].presented.successor \in retired
                     \/ \A t \in TokenIds :
                          Outstanding(t) => session[t].root # session[call[r].token].root]_vars
  BY <1>3, ProofStep
<1> QED
  BY <1>1, <1>2, <1>3, InductiveInvHolds, PTL DEF Spec, RevokedOnProofOrAfterSession

=============================================================================
