-------------------------- MODULE RegistrationProofs --------------------------
(***************************************************************************)
(* Proofs about Registration, for any addresses, passwords, requests and   *)
(* bounds.  What concerns spellings is proved for letters that compose in  *)
(* upper case as they do in lower case (EveryLetterComposes): for the      *)
(* others it is false.                                                     *)
(***************************************************************************)
EXTENDS Registration, TLAPS

EveryLetterComposes == LowerOnly = {}

\* Emails that are stored or looked up went through the parser.
Parsed(email) ==
  EveryLetterComposes => ~email.upper /\ ~email.padded /\ email.composed

\* An id that was handed out and not used yet.
IdIsReserved(r) ==
  /\ call[r].id \in Ids
  /\ call[r].id < nextId
  /\ accounts[call[r].id] = None

IdsDiffer ==
  \A r, q \in Requests :
    r # q /\ stage[r] = "creating" /\ stage[q] = "creating" => call[r].id # call[q].id

\* The account a client was told of, under the email it now comes with.
Promised(c) == EveryLetterComposes /\ c.owed

PromiseIsStored(c) ==
  Promised(c) => \E i \in Ids : /\ accounts[i] # None
                                /\ accounts[i].email = c.email
                                /\ Verify(c.password, accounts[i].digest)

RequestOK(r) ==
  /\ call[r] # None =>
       /\ call[r].email.address = call[r].address
       /\ Parsed(call[r].email)
       /\ PromiseIsStored(call[r])
  /\ stage[r] = "creating" => IdIsReserved(r)
  /\ stage[r] = "answering" => call[r].id \in Ids /\ accounts[call[r].id] # None
  /\ stage[r] = "reading-dummy" => ~Promised(call[r])
  /\ stage[r] = "reading-account" =>
       /\ call[r].id \in Ids
       /\ accounts[call[r].id] # None
       /\ accounts[call[r].id].email = call[r].email
  /\ answer[r] = "unauthorized" => call[r] # None /\ ~Promised(call[r])
  /\ answer[r] = "taken" => call[r] # None /\ locks[call[r].email] # NoId

StoredOK ==
  /\ LocksMatchAccounts
  /\ \A i \in Ids : i >= nextId => accounts[i] = None
  /\ \A i \in Ids : accounts[i] # None => Parsed(accounts[i].email)
  /\ \A i \in told : accounts[i] # None

\* Ids, locks and accounts agree, and what a request knows of them stays
\* true until it ends, because nothing stored is ever changed or removed.
RegistryInv ==
  /\ TypeOK
  /\ StoredOK
  /\ \A r \in Requests : RequestOK(r)
  /\ IdsDiffer

-----------------------------------------------------------------------------

LEMMA ParseFields ==
  ASSUME NEW s \in Spellings
  PROVE  /\ Parse(s) \in Emails
         /\ Parse(s).address = s.address
         /\ Parsed(Parse(s))
  BY DEF Spellings, Emails, Parse, Lower, Nfc, Trim, Parsed, EveryLetterComposes

LEMMA ParsedEmailsAgree ==
  ASSUME EveryLetterComposes, NEW e \in Emails, NEW f \in Emails,
         Parsed(e), Parsed(f), e.address = f.address
  PROVE  e = f
  BY DEF Spellings, Emails, Parsed

LEMMA AccountFields ==
  ASSUME TypeOK, NEW i \in Ids, accounts[i] # None
  PROVE  accounts[i] \in Account /\ accounts[i].email \in Emails
  BY DEF TypeOK, Account

LEMMA CallFields ==
  ASSUME TypeOK, NEW r \in Requests, call[r] # None
  PROVE  /\ call[r] \in Call
         /\ call[r].address \in Addresses
         /\ call[r].email \in Emails
         /\ call[r].password \in Passwords
         /\ call[r].id \in Ids \cup {NoId}
         /\ call[r].attempt \in 0..MaxAttempts
         /\ call[r].owed \in BOOLEAN
  BY DEF TypeOK, Call

LEMMA LockFields ==
  ASSUME RegistryInv, NEW e \in Emails, locks[e] # NoId
  PROVE  /\ locks[e] \in Ids
         /\ accounts[locks[e]] # None
         /\ accounts[locks[e]].email = e
  BY DEF RegistryInv, StoredOK, TypeOK, LocksMatchAccounts

\* Init establishes the invariant.
LEMMA InitEstablishes == Init => RegistryInv
<1> SUFFICES ASSUME Init PROVE RegistryInv
  OBVIOUS
<1> USE RegistrationAssumption DEF Init
<1>1. TypeOK
  BY DEF TypeOK, Stages, Answers, NoId
<1>2. StoredOK
  BY DEF StoredOK, LocksMatchAccounts
<1>3. \A r \in Requests : RequestOK(r)
  BY DEF RequestOK
<1>4. IdsDiffer
  BY DEF IdsDiffer
<1> QED
  BY <1>1, <1>2, <1>3, <1>4 DEF RegistryInv

-----------------------------------------------------------------------------

\* A promise stays stored: nothing stored is changed or removed.
LEMMA PromiseStays ==
  ASSUME TypeOK, NEW c \in Call, PromiseIsStored(c),
         \A i \in Ids : accounts[i] # None => accounts'[i] = accounts[i]
  PROVE  Promised(c) => \E i \in Ids : /\ accounts'[i] # None
                                       /\ accounts'[i].email = c.email
                                       /\ Verify(c.password, accounts'[i].digest)
  BY DEF PromiseIsStored

\* A request is not disturbed by a step of another.
LEMMA OthersKeep ==
  ASSUME RegistryInv, NEW q \in Requests,
         \A i \in Ids : accounts[i] # None => accounts'[i] = accounts[i],
         \A e \in Emails : locks[e] # NoId => locks'[e] = locks[e],
         nextId \in Nat, nextId' \in Nat, nextId' >= nextId,
         stage[q] = "creating" => accounts'[call[q].id] = None,
         stage'[q] = stage[q], call'[q] = call[q], answer'[q] = answer[q]
  PROVE  RequestOK(q)'
<1> TypeOK /\ RequestOK(q)
  BY DEF RegistryInv
<1>1. call[q] # None => call[q] \in Call /\ call[q].email \in Emails
  BY CallFields
<1>2. call'[q] # None =>
        /\ call'[q].email.address = call'[q].address
        /\ Parsed(call'[q].email)
        /\ PromiseIsStored(call[q])'
  BY <1>1, PromiseStays DEF RequestOK, PromiseIsStored, Promised, Parsed
<1>3. stage'[q] = "creating" => IdIsReserved(q)'
  <2> SUFFICES ASSUME stage[q] = "creating" PROVE IdIsReserved(q)'
    OBVIOUS
  <2>1. call[q].id \in Ids /\ call[q].id < nextId
    BY DEF RequestOK, IdIsReserved
  <2> QED
    BY <2>1 DEF IdIsReserved, Ids
<1>4. stage'[q] = "answering" => call'[q].id \in Ids /\ accounts'[call'[q].id] # None
  BY DEF RequestOK
<1>5. stage'[q] = "reading-account" =>
        /\ call'[q].id \in Ids
        /\ accounts'[call'[q].id] # None
        /\ accounts'[call'[q].id].email = call'[q].email
  BY DEF RequestOK
<1>6. /\ stage'[q] = "reading-dummy" => ~Promised(call[q])'
      /\ answer'[q] = "unauthorized" => call'[q] # None /\ ~Promised(call[q])'
  BY DEF RequestOK, Promised
<1>7. answer'[q] = "taken" => call'[q] # None /\ locks'[call'[q].email] # NoId
  BY <1>1 DEF RequestOK
<1> QED
  BY <1>2, <1>3, <1>4, <1>5, <1>6, <1>7 DEF RequestOK

LEMMA IdLeft ==
  ASSUME TypeOK
  PROVE  nextId \in Nat
  BY RegistrationAssumption DEF TypeOK

\* A step of r that stores nothing and hands out no id.
LEMMA QuietStep ==
  ASSUME RegistryInv, TypeOK', NEW r \in Requests,
         UNCHANGED <<accounts, locks, nextId, told>>,
         \A q \in Requests \ {r} :
           stage'[q] = stage[q] /\ call'[q] = call[q] /\ answer'[q] = answer[q],
         stage'[r] = "creating" => stage[r] = "creating" /\ call'[r].id = call[r].id,
         RequestOK(r)'
  PROVE  RegistryInv'
<1> TypeOK /\ StoredOK /\ IdsDiffer
  BY DEF RegistryInv
<1>1. StoredOK'
  BY DEF StoredOK, LocksMatchAccounts, Parsed
<1>2. ASSUME NEW q \in Requests PROVE RequestOK(q)'
  <2>1. CASE q = r
    BY <2>1
  <2>2. CASE q # r
    <3>1. stage[q] = "creating" => accounts[call[q].id] = None
      BY DEF RegistryInv, RequestOK, IdIsReserved
    <3> QED
      BY <2>2, <3>1, OthersKeep, IdLeft
  <2> QED
    BY <2>1, <2>2
<1>3. IdsDiffer'
  BY DEF IdsDiffer
<1> QED
  BY <1>1, <1>2, <1>3 DEF RegistryInv

LEMMA RefuseBodyKeeps ==
  ASSUME RegistryInv, NEW r \in Requests, RefuseBody(r)
  PROVE  RegistryInv'
<1> USE DEF RefuseBody
<1> TypeOK
  BY DEF RegistryInv
<1>1. TypeOK'
  BY DEF TypeOK, Answers
<1>2. RequestOK(r)'
  BY DEF RequestOK, TypeOK
<1> QED
  BY <1>1, <1>2, QuietStep DEF TypeOK

\* A client that was told of its account comes back with the same address.
LEMMA PromiseIsFound ==
  ASSUME RegistryInv, NEW s \in Spellings, NEW p \in Passwords,
         EveryLetterComposes, Owed(s.address, p)
  PROVE  \E i \in Ids : /\ accounts[i] # None
                        /\ accounts[i].email = Parse(s)
                        /\ Verify(p, accounts[i].digest)
<1> TypeOK /\ StoredOK
  BY DEF RegistryInv
<1>1. PICK i \in told : /\ accounts[i].email.address = s.address
                        /\ Verify(p, accounts[i].digest)
  BY DEF Owed
<1>2. i \in Ids /\ accounts[i] # None
  BY <1>1 DEF StoredOK, TypeOK
<1>3. accounts[i].email \in Emails /\ Parsed(accounts[i].email)
  BY <1>2, AccountFields DEF StoredOK
<1>4. accounts[i].email = Parse(s)
  BY <1>1, <1>3, ParseFields, ParsedEmailsAgree
<1> QED
  BY <1>1, <1>2, <1>4

LEMMA BeginKeeps ==
  ASSUME RegistryInv, NEW r \in Requests, NEW s \in Spellings, NEW p \in Passwords,
         NEW first \in {"hashing", "reading-lock"}, Begin(r, s, p, first)
  PROVE  RegistryInv'
<1> USE DEF Begin
<1> TypeOK
  BY DEF RegistryInv
<1> DEFINE c == [address |-> s.address, email |-> Parse(s), password |-> p,
                 id |-> NoId, attempt |-> 0, owed |-> Owed(s.address, p)]
<1>1. c \in Call
  <2>1. s.address \in Addresses
    BY DEF Spellings
  <2>2. Owed(s.address, p) \in BOOLEAN
    BY DEF Owed
  <2>3. 0 \in 0..MaxAttempts
    BY RegistrationAssumption
  <2> QED
    BY <2>1, <2>2, <2>3, ParseFields DEF Call
<1>2. /\ call' = [call EXCEPT ![r] = c]
      /\ call'[r] = c
      /\ stage'[r] = first
      /\ answer'[r] = "none"
  BY DEF TypeOK
<1>3. TypeOK'
  BY <1>1, <1>2, RegistrationAssumption DEF TypeOK, Stages, Answers
<1>4. PromiseIsStored(c)
  BY PromiseIsFound DEF PromiseIsStored, Promised
<1>5. RequestOK(r)'
  <2>1. PromiseIsStored(call[r])'
    BY <1>2, <1>4 DEF PromiseIsStored, Promised
  <2> QED
    BY <1>2, <2>1, ParseFields DEF RequestOK, Parsed
<1> QED
  BY <1>2, <1>3, <1>5, QuietStep DEF TypeOK

\* The request that ends has nothing left to rely on but its answer.
LEMMA EndKeeps ==
  ASSUME RegistryInv, NEW r \in Requests, NEW a \in Answers, stage[r] # "idle", End(r, a),
         UNCHANGED <<accounts, locks, nextId, told, call>>,
         a = "unauthorized" => ~Promised(call[r]),
         a = "taken" => locks[call[r].email] # NoId
  PROVE  RegistryInv'
<1> USE DEF End
<1> TypeOK /\ RequestOK(r)
  BY DEF RegistryInv
<1>1. TypeOK'
  BY DEF TypeOK, Stages
<1>2. call[r] # None
  BY DEF TypeOK
<1>3. stage'[r] = "idle" /\ answer'[r] = a
  BY DEF TypeOK
<1>4. RequestOK(r)'
  BY <1>2, <1>3 DEF RequestOK, Parsed, PromiseIsStored, Promised
<1> QED
  BY <1>1, <1>3, <1>4, QuietStep DEF TypeOK

LEMMA HashPasswordKeeps ==
  ASSUME RegistryInv, NEW r \in Requests, HashPassword(r)
  PROVE  RegistryInv'
<1> TypeOK /\ StoredOK /\ IdsDiffer /\ RequestOK(r)
  BY DEF RegistryInv
<1>1. /\ stage[r] = "hashing"
      /\ nextId <= MaxAccounts
      /\ nextId' = nextId + 1
      /\ accounts' = accounts /\ locks' = locks /\ answer' = answer /\ told' = told
  BY DEF HashPassword
<1>2. call[r] # None /\ call[r] \in Call
  BY <1>1, CallFields DEF TypeOK
<1>3. /\ stage' = [stage EXCEPT ![r] = "creating"]
      /\ call' = [call EXCEPT ![r] = [call[r] EXCEPT !.id = nextId, !.attempt = 1]]
  BY <1>2 DEF HashPassword, TypeOK, Call
<1>4. /\ stage'[r] = "creating"
      /\ call'[r] = [call[r] EXCEPT !.id = nextId, !.attempt = 1]
      /\ \A q \in Requests \ {r} : stage'[q] = stage[q] /\ call'[q] = call[q]
  BY <1>3 DEF TypeOK
<1>5. /\ call'[r].id = nextId
      /\ call'[r].email = call[r].email
      /\ call'[r].address = call[r].address
      /\ call'[r].password = call[r].password
      /\ call'[r].owed = call[r].owed
  BY <1>2, <1>4 DEF Call
<1>6. nextId \in Ids /\ nextId \in Nat /\ nextId' \in 1..(MaxAccounts + 1)
  BY <1>1, IdLeft, RegistrationAssumption DEF TypeOK, Ids
<1>7. call'[r] \in Call
  <2>1. 1 \in 0..MaxAttempts
    BY RegistrationAssumption
  <2> QED
    BY <1>2, <1>4, <1>6, <2>1 DEF Call
<1>8. TypeOK'
  <2>1. /\ stage' \in [Requests -> Stages]
        /\ call' \in [Requests -> Call \cup {None}]
    BY <1>3, <1>4, <1>7 DEF TypeOK, Stages
  <2>2. \A q \in Requests : stage'[q] # "idle" => call'[q] # None
    BY <1>4, <1>7, RegistrationAssumption DEF TypeOK
  <2> QED
    BY <1>1, <1>6, <2>1, <2>2 DEF TypeOK
<1>9. accounts[nextId] = None
  BY <1>6 DEF StoredOK
<1>10. StoredOK'
  <2>1. \A i \in Ids : i >= nextId' => i >= nextId
    BY <1>1, <1>6 DEF Ids
  <2>2. \A i \in Ids : i >= nextId' => accounts'[i] = None
    BY <1>1, <2>1 DEF StoredOK
  <2> QED
    BY <1>1, <2>2 DEF StoredOK, LocksMatchAccounts, Parsed
<1>11. RequestOK(r)'
  <2>1. IdIsReserved(r)'
    BY <1>1, <1>5, <1>6, <1>9 DEF IdIsReserved
  <2>2. PromiseIsStored(call[r])'
    BY <1>1, <1>2, <1>5 DEF RequestOK, PromiseIsStored, Promised
  <2>3. answer'[r] = "unauthorized" => ~Promised(call[r])'
    BY <1>1, <1>5 DEF RequestOK, Promised
  <2>4. /\ call'[r].email.address = call'[r].address
        /\ Parsed(call'[r].email)
    BY <1>2, <1>5 DEF RequestOK, Parsed
  <2>5. call'[r] # None
    BY <1>7, RegistrationAssumption
  <2>6. answer'[r] = "taken" => locks'[call'[r].email] # NoId
    BY <1>1, <1>5 DEF RequestOK
  <2> QED
    BY <1>4, <2>1, <2>2, <2>3, <2>4, <2>5, <2>6 DEF RequestOK, Parsed
<1>12. ASSUME NEW q \in Requests PROVE RequestOK(q)'
  <2>1. CASE q = r
    BY <1>11, <2>1
  <2>2. CASE q # r
    <3>1. stage[q] = "creating" => accounts'[call[q].id] = None
      BY <1>1 DEF RegistryInv, RequestOK, IdIsReserved
    <3>2. stage'[q] = stage[q] /\ call'[q] = call[q] /\ answer'[q] = answer[q]
      BY <1>1, <1>4, <2>2
    <3>3. nextId' \in Nat /\ nextId' >= nextId
      BY <1>1, <1>6
    <3> QED
      BY <1>1, <1>6, <3>1, <3>2, <3>3, OthersKeep
  <2> QED
    BY <2>1, <2>2
<1>13. IdsDiffer'
  <2>1. ASSUME NEW q \in Requests, stage[q] = "creating" PROVE call[q].id # nextId
    <3>1. call[q].id \in Ids /\ call[q].id < nextId
      BY <2>1 DEF RegistryInv, RequestOK, IdIsReserved
    <3> QED
      BY <1>6, <3>1 DEF Ids
  <2>2. ASSUME NEW p \in Requests, NEW q \in Requests, p # q,
               stage'[p] = "creating", stage'[q] = "creating"
        PROVE  call'[p].id # call'[q].id
    <3>1. CASE p = r
      BY <1>4, <1>5, <2>1, <2>2, <3>1
    <3>2. CASE q = r
      BY <1>4, <1>5, <2>1, <2>2, <3>2
    <3>3. CASE p # r /\ q # r
      BY <1>4, <2>2, <3>3 DEF IdsDiffer
    <3> QED
      BY <3>1, <3>2, <3>3
  <2> QED
    BY <2>2 DEF IdsDiffer
<1> QED
  BY <1>8, <1>10, <1>12, <1>13 DEF RegistryInv

\* What the transaction writes has the type of what is stored.
LEMMA StoredTypes ==
  ASSUME RegistryInv, NEW r \in Requests, stage[r] = "creating", PutAccountAndLock(r)
  PROVE  /\ accounts' \in [Ids -> Account \cup {None}]
         /\ locks' \in [Emails -> Ids \cup {NoId}]
<1> TypeOK /\ RequestOK(r)
  BY DEF RegistryInv
<1>1. call[r].email \in Emails /\ call[r].password \in Passwords
  BY CallFields DEF TypeOK
<1>2. call[r].id \in Ids
  BY DEF RequestOK, IdIsReserved
<1>3. AccountItem(call[r].email, call[r].password) \in Account
  BY <1>1 DEF Account, AccountItem
<1> QED
  BY <1>1, <1>2, <1>3 DEF PutAccountAndLock, TypeOK

\* The transaction of the request r lands, whatever becomes of r.
LEMMA StoringKeeps ==
  ASSUME RegistryInv, TypeOK', NEW r \in Requests, stage[r] = "creating",
         PutAccountAndLock(r), nextId' = nextId, told' = told, call' = call,
         \A q \in Requests \ {r} : stage'[q] = stage[q] /\ answer'[q] = answer[q],
         stage'[r] \in {"answering", "idle"},
         answer'[r] = answer[r] \/ answer'[r] = "unavailable"
  PROVE  RegistryInv'
<1> TypeOK /\ StoredOK /\ IdsDiffer /\ RequestOK(r)
  BY DEF RegistryInv
<1> DEFINE i == call[r].id
           e == call[r].email
           account == AccountItem(e, call[r].password)
<1>1. call[r] # None /\ e \in Emails /\ call[r].password \in Passwords
  BY CallFields DEF TypeOK
<1>2. i \in Ids /\ i < nextId /\ accounts[i] = None /\ i # NoId
  BY DEF RequestOK, IdIsReserved, Ids, NoId
<1>3. account \in Account /\ account # None /\ account.email = e /\ Parsed(e)
  BY <1>1, RegistrationAssumption DEF Account, AccountItem, RequestOK
<1>4. /\ accounts' = [accounts EXCEPT ![i] = account]
      /\ locks' = [locks EXCEPT ![e] = i]
      /\ locks[e] = NoId
  BY DEF PutAccountAndLock, LockIsFree
<1>5. /\ accounts'[i] = account
      /\ \A j \in Ids \ {i} : accounts'[j] = accounts[j]
      /\ locks'[e] = i
      /\ \A f \in Emails \ {e} : locks'[f] = locks[f]
  BY <1>1, <1>2, <1>4 DEF TypeOK
<1>6. StoredOK'
  <2>1. LocksMatchAccounts'
    <3>1. ASSUME NEW f \in Emails, locks'[f] # NoId
          PROVE  accounts'[locks'[f]] # None /\ accounts'[locks'[f]].email = f
      <4>1. CASE f = e
        BY <1>3, <1>5, <4>1
      <4>2. CASE f # e
        <5>1. /\ locks[f] \in Ids /\ locks'[f] = locks[f]
              /\ accounts[locks[f]] # None /\ accounts[locks[f]].email = f
          BY <1>5, <3>1, <4>2, LockFields
        <5> QED
          BY <1>2, <1>5, <5>1
      <4> QED
        BY <4>1, <4>2
    <3>2. ASSUME NEW j \in Ids, accounts'[j] # None
          PROVE  locks'[accounts'[j].email] = j
      <4>1. CASE j = i
        BY <1>3, <1>5, <4>1
      <4>2. CASE j # i
        <5>1. /\ accounts'[j] = accounts[j] /\ accounts[j].email \in Emails
              /\ locks[accounts[j].email] = j
          BY <1>5, <3>2, <4>2, AccountFields DEF StoredOK, LocksMatchAccounts
        <5>2. accounts[j].email # e
          BY <1>4, <5>1 DEF Ids, NoId
        <5> QED
          BY <1>5, <5>1, <5>2
      <4> QED
        BY <4>1, <4>2
    <3> QED
      BY <3>1, <3>2 DEF LocksMatchAccounts
  <2>2. \A j \in Ids : j >= nextId' => accounts'[j] = None
    <3>1. ASSUME NEW j \in Ids, j >= nextId PROVE j # i
      BY <1>2, <3>1, IdLeft DEF Ids
    <3> QED
      BY <1>5, <3>1 DEF StoredOK
  <2>3. \A j \in Ids : accounts'[j] # None => Parsed(accounts'[j].email)
    BY <1>3, <1>5 DEF StoredOK
  <2>4. \A j \in told' : accounts'[j] # None
    BY <1>2, <1>5 DEF StoredOK, TypeOK
  <2> QED
    BY <2>1, <2>2, <2>3, <2>4 DEF StoredOK, Parsed
<1>7. RequestOK(r)'
  <2>1. PromiseIsStored(call[r])'
    <3>1. \A j \in Ids : accounts[j] # None => accounts'[j] = accounts[j]
      BY <1>2, <1>5
    <3>2. call[r] \in Call /\ PromiseIsStored(call[r])
      BY <1>1, CallFields DEF RequestOK
    <3> QED
      BY <3>1, <3>2, PromiseStays DEF PromiseIsStored, Promised
  <2>2. /\ call'[r].email.address = call'[r].address
        /\ Parsed(call'[r].email)
    BY <1>1 DEF RequestOK, Parsed
  <2>3. call'[r].id \in Ids /\ accounts'[call'[r].id] # None
    BY <1>2, <1>3, <1>5
  <2>4. answer'[r] = "unauthorized" => call'[r] # None /\ ~Promised(call[r])'
    BY <1>1 DEF RequestOK, Promised
  <2>5. answer'[r] = "taken" => call'[r] # None /\ locks'[call'[r].email] # NoId
    BY <1>1, <1>2, <1>5
  <2> QED
    BY <2>1, <2>2, <2>3, <2>4, <2>5 DEF RequestOK, Parsed
<1>8. ASSUME NEW q \in Requests PROVE RequestOK(q)'
  <2>1. CASE q = r
    BY <1>7, <2>1
  <2>2. CASE q # r
    <3>1. stage[q] = "creating" => accounts'[call[q].id] = None
      <4> SUFFICES ASSUME stage[q] = "creating" PROVE accounts'[call[q].id] = None
        OBVIOUS
      <4>1. call[q].id \in Ids /\ accounts[call[q].id] = None
        BY DEF RegistryInv, RequestOK, IdIsReserved
      <4>2. call[q].id # i
        BY <2>2 DEF IdsDiffer
      <4> QED
        BY <1>5, <4>1, <4>2
    <3>2. \A j \in Ids : accounts[j] # None => accounts'[j] = accounts[j]
      BY <1>2, <1>5
    <3>3. \A f \in Emails : locks[f] # NoId => locks'[f] = locks[f]
      BY <1>4, <1>5
    <3>4. nextId \in Nat /\ nextId' \in Nat /\ nextId' >= nextId
      BY IdLeft
    <3>5. stage'[q] = stage[q] /\ call'[q] = call[q] /\ answer'[q] = answer[q]
      BY <2>2
    <3> QED
      BY <3>1, <3>2, <3>3, <3>4, <3>5, OthersKeep
  <2> QED
    BY <2>1, <2>2
<1>9. IdsDiffer'
  BY DEF IdsDiffer
<1> QED
  BY <1>6, <1>8, <1>9 DEF RegistryInv

LEMMA CreateCommitsKeeps ==
  ASSUME RegistryInv, NEW r \in Requests, CreateCommits(r)
  PROVE  RegistryInv'
<1> TypeOK /\ RequestOK(r)
  BY DEF RegistryInv
<1>1. /\ stage[r] = "creating" /\ PutAccountAndLock(r)
      /\ stage' = [stage EXCEPT ![r] = "answering"]
      /\ nextId' = nextId /\ call' = call /\ answer' = answer /\ told' = told
  BY DEF CreateCommits
<1>2. TypeOK'
  BY <1>1, StoredTypes DEF TypeOK, Stages
<1> QED
  BY <1>1, <1>2, StoringKeeps DEF TypeOK

LEMMA CreateIsRefusedKeeps ==
  ASSUME RegistryInv, NEW r \in Requests, CreateIsRefused(r)
  PROVE  RegistryInv'
<1>1. /\ stage[r] # "idle" /\ locks[call[r].email] # NoId /\ End(r, "taken")
      /\ UNCHANGED <<accounts, locks, nextId, told, call>>
  BY DEF CreateIsRefused, LockIsFree
<1> QED
  BY <1>1, EndKeeps DEF Answers

\* A conflict counts an attempt, or ends the request.
LEMMA CreateConflictsKeeps ==
  ASSUME RegistryInv, NEW r \in Requests, CreateConflicts(r)
  PROVE  RegistryInv'
<1> TypeOK /\ RequestOK(r)
  BY DEF RegistryInv
<1>1. /\ stage[r] = "creating"
      /\ accounts' = accounts /\ locks' = locks /\ nextId' = nextId /\ told' = told
  BY DEF CreateConflicts
<1>2. CASE End(r, "unavailable") /\ UNCHANGED call
  BY <1>1, <1>2, EndKeeps DEF Answers
<1>3. CASE /\ call[r].attempt < MaxAttempts
           /\ call' = [call EXCEPT ![r].attempt = @ + 1]
           /\ UNCHANGED <<stage, answer>>
  <2>1. call[r] # None /\ call[r] \in Call /\ call[r].attempt + 1 \in 0..MaxAttempts
    BY <1>1, <1>3, CallFields, RegistrationAssumption DEF TypeOK
  <2>2. /\ call' = [call EXCEPT ![r] = [call[r] EXCEPT !.attempt = call[r].attempt + 1]]
        /\ stage' = stage /\ answer' = answer
    BY <1>3, <2>1 DEF TypeOK, Call
  <2>3. /\ call'[r] = [call[r] EXCEPT !.attempt = call[r].attempt + 1]
        /\ \A q \in Requests \ {r} : call'[q] = call[q]
    BY <2>2 DEF TypeOK
  <2>4. /\ call'[r].id = call[r].id
        /\ call'[r].email = call[r].email
        /\ call'[r].address = call[r].address
        /\ call'[r].password = call[r].password
        /\ call'[r].owed = call[r].owed
        /\ call'[r] \in Call
    BY <2>1, <2>3 DEF Call
  <2>5. TypeOK'
    <3>1. call' \in [Requests -> Call \cup {None}]
      BY <2>2, <2>3, <2>4 DEF TypeOK
    <3>2. call'[r] # None
      BY <2>4, RegistrationAssumption
    <3> QED
      BY <1>1, <2>2, <2>3, <3>1, <3>2 DEF TypeOK
  <2>6. RequestOK(r)'
    <3>1. PromiseIsStored(call[r])'
      BY <1>1, <2>1, <2>4 DEF RequestOK, PromiseIsStored, Promised
    <3>2. /\ call'[r].email.address = call'[r].address
          /\ Parsed(call'[r].email)
          /\ call'[r] # None
      BY <2>1, <2>4, RegistrationAssumption DEF RequestOK, Parsed
    <3>3. IdIsReserved(r)'
      BY <1>1, <2>4 DEF RequestOK, IdIsReserved
    <3>4. answer'[r] = "unauthorized" => ~Promised(call[r])'
      BY <2>2, <2>4 DEF RequestOK, Promised
    <3>5. answer'[r] = "taken" => locks'[call'[r].email] # NoId
      BY <1>1, <2>2, <2>4 DEF RequestOK
    <3> QED
      BY <1>1, <2>2, <3>1, <3>2, <3>3, <3>4, <3>5 DEF RequestOK, Parsed
  <2> QED
    BY <1>1, <2>2, <2>3, <2>4, <2>5, <2>6, QuietStep
<1> QED
  BY <1>2, <1>3 DEF CreateConflicts, Reattempt, Cancelled

LEMMA AnswerCreatedKeeps ==
  ASSUME RegistryInv, NEW r \in Requests, AnswerCreated(r)
  PROVE  RegistryInv'
<1> TypeOK /\ StoredOK /\ IdsDiffer /\ RequestOK(r)
  BY DEF RegistryInv
<1>1. /\ stage[r] = "answering"
      /\ stage' = [stage EXCEPT ![r] = "idle"]
      /\ answer' = [answer EXCEPT ![r] = "created"]
      /\ told' = told \cup {call[r].id}
      /\ accounts' = accounts /\ locks' = locks /\ nextId' = nextId /\ call' = call
  BY DEF AnswerCreated, End
<1>2. call[r] # None /\ call[r].id \in Ids /\ accounts[call[r].id] # None
  BY <1>1 DEF RequestOK, TypeOK
<1>3. /\ stage'[r] = "idle" /\ answer'[r] = "created"
      /\ \A q \in Requests \ {r} : stage'[q] = stage[q] /\ answer'[q] = answer[q]
  BY <1>1 DEF TypeOK
<1>4. TypeOK'
  BY <1>1, <1>2, <1>3 DEF TypeOK, Stages, Answers
<1>5. StoredOK'
  BY <1>1, <1>2 DEF StoredOK, LocksMatchAccounts, Parsed
<1>6. RequestOK(r)'
  BY <1>1, <1>2, <1>3 DEF RequestOK, Parsed, PromiseIsStored, Promised
<1>7. ASSUME NEW q \in Requests PROVE RequestOK(q)'
  <2>1. CASE q = r
    BY <1>6, <2>1
  <2>2. CASE q # r
    <3>1. stage[q] = "creating" => accounts'[call[q].id] = None
      BY <1>1 DEF RegistryInv, RequestOK, IdIsReserved
    <3>2. stage'[q] = stage[q] /\ call'[q] = call[q] /\ answer'[q] = answer[q]
      BY <1>1, <1>3, <2>2
    <3>3. nextId \in Nat /\ nextId' \in Nat /\ nextId' >= nextId
      BY <1>1, IdLeft
    <3> QED
      BY <1>1, <3>1, <3>2, <3>3, OthersKeep
  <2> QED
    BY <2>1, <2>2
<1>8. IdsDiffer'
  BY <1>1, <1>3 DEF IdsDiffer
<1> QED
  BY <1>4, <1>5, <1>7, <1>8 DEF RegistryInv

\* A lock that names an id says whose account it is; with none, nobody was
\* told of an account under the email.
LEMMA ReadLockKeeps ==
  ASSUME RegistryInv, NEW r \in Requests, ReadLock(r)
  PROVE  RegistryInv'
<1> TypeOK /\ StoredOK /\ RequestOK(r)
  BY DEF RegistryInv
<1> DEFINE e == call[r].email
           next == IF locks[e] = NoId THEN "reading-dummy" ELSE "reading-account"
<1>1. /\ stage[r] = "reading-lock"
      /\ stage' = [stage EXCEPT ![r] = next]
      /\ accounts' = accounts /\ locks' = locks /\ nextId' = nextId
      /\ answer' = answer /\ told' = told
  BY DEF ReadLock
<1>2. call[r] # None /\ call[r] \in Call /\ e \in Emails
  BY <1>1, CallFields DEF TypeOK
<1>3. call' = [call EXCEPT ![r] = [call[r] EXCEPT !.id = locks[e]]]
  BY <1>2 DEF ReadLock, TypeOK, Call
<1>4. /\ stage'[r] = next
      /\ call'[r] = [call[r] EXCEPT !.id = locks[e]]
      /\ \A q \in Requests \ {r} : stage'[q] = stage[q] /\ call'[q] = call[q]
  BY <1>1, <1>3 DEF TypeOK
<1>5. locks[e] \in Ids \cup {NoId}
  BY <1>2 DEF TypeOK
<1>6. /\ call'[r].id = locks[e]
      /\ call'[r].email = call[r].email
      /\ call'[r].address = call[r].address
      /\ call'[r].password = call[r].password
      /\ call'[r].owed = call[r].owed
      /\ call'[r] \in Call
  BY <1>2, <1>4, <1>5 DEF Call
<1>7. TypeOK'
  <2>1. /\ stage' \in [Requests -> Stages]
        /\ call' \in [Requests -> Call \cup {None}]
    BY <1>1, <1>3, <1>4, <1>6 DEF TypeOK, Stages
  <2>2. \A q \in Requests : stage'[q] # "idle" => call'[q] # None
    BY <1>4, <1>6, RegistrationAssumption DEF TypeOK
  <2> QED
    BY <1>1, <2>1, <2>2 DEF TypeOK
<1>8. RequestOK(r)'
  <2>1. PromiseIsStored(call[r])'
    BY <1>1, <1>2, <1>6 DEF RequestOK, PromiseIsStored, Promised
  <2>2. /\ call'[r].email.address = call'[r].address
        /\ Parsed(call'[r].email)
        /\ call'[r] # None
    BY <1>2, <1>6, RegistrationAssumption DEF RequestOK, Parsed
  <2>3. stage'[r] = "reading-dummy" => ~Promised(call[r])'
    <3> SUFFICES ASSUME locks[e] = NoId PROVE ~Promised(call[r])
      BY <1>4, <1>6 DEF Promised
    <3>1. \A i \in Ids : accounts[i] # None => accounts[i].email # e
      BY DEF StoredOK, LocksMatchAccounts, Ids, NoId
    <3> QED
      BY <1>2, <3>1 DEF RequestOK, PromiseIsStored
  <2>4. stage'[r] = "reading-account" =>
          /\ call'[r].id \in Ids
          /\ accounts'[call'[r].id] # None
          /\ accounts'[call'[r].id].email = call'[r].email
    BY <1>1, <1>2, <1>4, <1>6, LockFields
  <2>5. answer'[r] = "unauthorized" => ~Promised(call[r])'
    BY <1>1, <1>6 DEF RequestOK, Promised
  <2>6. answer'[r] = "taken" => locks'[call'[r].email] # NoId
    BY <1>1, <1>6 DEF RequestOK
  <2>7. stage'[r] \notin {"creating", "answering"}
    BY <1>4
  <2> QED
    BY <2>1, <2>2, <2>3, <2>4, <2>5, <2>6, <2>7 DEF RequestOK, Parsed
<1> QED
  BY <1>1, <1>4, <1>7, <1>8, QuietStep

LEMMA ReadDummyKeeps ==
  ASSUME RegistryInv, NEW r \in Requests, ReadDummy(r)
  PROVE  RegistryInv'
<1>1. /\ stage[r] # "idle" /\ ~Promised(call[r]) /\ End(r, "unauthorized")
      /\ UNCHANGED <<accounts, locks, nextId, told, call>>
  BY DEF ReadDummy, RegistryInv, RequestOK
<1> QED
  BY <1>1, EndKeeps DEF Answers

\* The account under the lock is the one that was promised, so the password
\* that made its digest is accepted.
LEMMA ReadAccountKeeps ==
  ASSUME RegistryInv, NEW r \in Requests, ReadAccount(r)
  PROVE  RegistryInv'
<1> TypeOK /\ StoredOK /\ RequestOK(r)
  BY DEF RegistryInv
<1> DEFINE account == accounts[call[r].id]
           accepted == account # None /\ Verify(call[r].password, account.digest)
<1>1. /\ stage[r] = "reading-account"
      /\ End(r, IF accepted THEN "signed-in" ELSE "unauthorized")
      /\ UNCHANGED <<accounts, locks, nextId, told, call>>
  BY DEF ReadAccount
<1>2. call[r] # None /\ account # None /\ account.email = call[r].email /\ call[r].id \in Ids
  BY <1>1 DEF RequestOK, TypeOK
<1>3. ASSUME Promised(call[r]) PROVE accepted
  <2>1. PICK i \in Ids : /\ accounts[i] # None
                         /\ accounts[i].email = call[r].email
                         /\ Verify(call[r].password, accounts[i].digest)
    BY <1>2, <1>3 DEF RequestOK, PromiseIsStored
  <2>2. i = call[r].id
    BY <1>2, <2>1 DEF StoredOK, LocksMatchAccounts
  <2> QED
    BY <1>2, <2>1, <2>2
<1>4. CASE accepted
  BY <1>1, <1>4, EndKeeps DEF Answers
<1>5. CASE ~accepted
  BY <1>1, <1>3, <1>5, EndKeeps DEF Answers
<1> QED
  BY <1>4, <1>5

\* A request that fails leaves nothing, or a transaction that committed.
LEMMA FailKeeps ==
  ASSUME RegistryInv, NEW r \in Requests, Fail(r)
  PROVE  RegistryInv'
<1> TypeOK
  BY DEF RegistryInv
<1>1. /\ stage[r] # "idle" /\ End(r, "unavailable")
      /\ nextId' = nextId /\ call' = call /\ told' = told
  BY DEF Fail
<1>2. CASE UNCHANGED <<accounts, locks>>
  BY <1>1, <1>2, EndKeeps DEF Answers
<1>3. CASE stage[r] = "creating" /\ PutAccountAndLock(r)
  <2>1. /\ stage' = [stage EXCEPT ![r] = "idle"]
        /\ answer' = [answer EXCEPT ![r] = "unavailable"]
    BY <1>1 DEF End
  <2>2. TypeOK'
    BY <1>1, <1>3, <2>1, StoredTypes DEF TypeOK, Stages, Answers
  <2> QED
    BY <1>1, <1>3, <2>1, <2>2, StoringKeeps DEF TypeOK
<1> QED
  BY <1>2, <1>3 DEF Fail

LEMMA NextKeeps == RegistryInv /\ [Next]_vars => RegistryInv'
<1> SUFFICES ASSUME RegistryInv, [Next]_vars PROVE RegistryInv'
  OBVIOUS
<1>1. ASSUME NEW r \in Requests, Begins(r) PROVE RegistryInv'
  <2>1. CASE RefuseBody(r)
    BY <2>1, RefuseBodyKeeps
  <2>2. ASSUME NEW s \in Spellings, NEW p \in Passwords, BeginRegister(r, s, p)
        PROVE  RegistryInv'
    BY <2>2, BeginKeeps DEF BeginRegister
  <2>3. ASSUME NEW s \in Spellings, NEW p \in Passwords, BeginSignIn(r, s, p)
        PROVE  RegistryInv'
    BY <2>3, BeginKeeps DEF BeginSignIn
  <2> QED
    BY <1>1, <2>1, <2>2, <2>3 DEF Begins
<1>2. ASSUME NEW r \in Requests, Proceeds(r) PROVE RegistryInv'
  BY <1>2, HashPasswordKeeps, CreateCommitsKeeps, CreateIsRefusedKeeps,
     CreateConflictsKeeps, AnswerCreatedKeeps, ReadLockKeeps, ReadDummyKeeps,
     ReadAccountKeeps DEF Proceeds
<1>3. ASSUME NEW r \in Requests, Fail(r) PROVE RegistryInv'
  BY <1>3, FailKeeps
<1>4. CASE UNCHANGED vars
  BY <1>4 DEF vars, RegistryInv, TypeOK, StoredOK, LocksMatchAccounts, RequestOK,
     IdIsReserved, IdsDiffer, PromiseIsStored, Promised, Parsed, Account
<1> QED
  BY <1>1, <1>2, <1>3, <1>4 DEF Next

-----------------------------------------------------------------------------

\* The registry keeps its invariant for any number of addresses, requests,
\* ids and attempts: what is stored agrees with itself, and what a request
\* read of it is still so when the request uses it.
THEOREM RegistryInvHolds == Spec => []RegistryInv
<1> QED
  BY InitEstablishes, NextKeeps, PTL DEF Spec

\* The registry's variables keep their types.
THEOREM RegistrationTypeCorrect == Spec => []TypeOK
<1>1. RegistryInv => TypeOK
  BY DEF RegistryInv
<1> QED
  BY <1>1, RegistryInvHolds, PTL

\* However registrations race, fail and are retried, a lock always names an
\* account of its email and an account is always found through its lock.
THEOREM LocksAndAccountsAgree == Spec => []LocksMatchAccounts
<1>1. RegistryInv => LocksMatchAccounts
  BY DEF RegistryInv, StoredOK
<1> QED
  BY <1>1, RegistryInvHolds, PTL

\* A registration that is answered 409 is told the truth: its address has an
\* account.
THEOREM RefusedMeansTaken == Spec => []TakenIsTrue
<1>1. ASSUME RegistryInv PROVE TakenIsTrue
  <2>1. ASSUME NEW r \in Requests, answer[r] = "taken"
        PROVE  \E i \in Ids : accounts[i] # None /\ accounts[i].email.address = call[r].address
    <3>1. /\ call[r] # None /\ locks[call[r].email] # NoId
          /\ call[r].email.address = call[r].address
      BY <1>1, <2>1 DEF RegistryInv, RequestOK
    <3>2. call[r].email \in Emails
      BY <1>1, <3>1, CallFields DEF RegistryInv
    <3> QED
      BY <1>1, <3>1, <3>2, LockFields
  <2> QED
    BY <2>1 DEF TakenIsTrue
<1> QED
  BY <1>1, RegistryInvHolds, PTL

\* One account for each address, however it is spelled: where every letter
\* composes in upper case as it does in lower case.
THEOREM NobodyRegistersTwice ==
  ASSUME EveryLetterComposes
  PROVE  Spec => []OneAccountPerAddress
<1>1. ASSUME RegistryInv PROVE OneAccountPerAddress
  <2>1. ASSUME NEW i \in Ids, NEW j \in Ids, accounts[i] # None, accounts[j] # None,
               accounts[i].email.address = accounts[j].email.address
        PROVE  i = j
    <3>1. /\ accounts[i].email \in Emails /\ Parsed(accounts[i].email)
          /\ accounts[j].email \in Emails /\ Parsed(accounts[j].email)
      BY <1>1, <2>1, AccountFields DEF RegistryInv, StoredOK
    <3>2. accounts[i].email = accounts[j].email
      BY <2>1, <3>1, ParsedEmailsAgree
    <3> QED
      BY <1>1, <2>1, <3>2 DEF RegistryInv, StoredOK, LocksMatchAccounts
  <2> QED
    BY <2>1 DEF OneAccountPerAddress
<1> QED
  BY <1>1, RegistryInvHolds, PTL

\* Whoever was told 201 is not refused afterwards, with any spelling of the
\* address: where every letter composes in upper case as in lower case.
THEOREM RegisteredIsNotRefused ==
  ASSUME EveryLetterComposes
  PROVE  Spec => []RegisteredMaySignIn
<1>1. ASSUME RegistryInv PROVE RegisteredMaySignIn
  <2>1. ASSUME NEW r \in Requests, answer[r] = "unauthorized" PROVE ~call[r].owed
    BY <1>1, <2>1 DEF RegistryInv, RequestOK, Promised
  <2> QED
    BY <2>1 DEF RegisteredMaySignIn
<1> QED
  BY <1>1, RegistryInvHolds, PTL

-----------------------------------------------------------------------------
(* The refinement: each step is a step of the registry, or none.           *)

Status == [r \in Requests |-> StatusOf(stage[r])]

Wish == [r \in Requests |-> WishOf(call[r])]

\* An email is taken when its lock is there.
LEMMA TakenMeansLocked ==
  ASSUME RegistryInv, NEW e \in Emails
  PROVE  (\E c \in StoredCredentials : c.email = e) <=> locks[e] # NoId
<1>1. ASSUME NEW c \in StoredCredentials, c.email = e PROVE locks[e] # NoId
  <2>1. PICK i \in Ids : accounts[i] # None /\ accounts[i].email = e
    BY <1>1 DEF StoredCredentials
  <2> QED
    BY <2>1 DEF RegistryInv, StoredOK, LocksMatchAccounts, Ids, NoId
<1>2. ASSUME locks[e] # NoId PROVE \E c \in StoredCredentials : c.email = e
  <2>1. locks[e] \in Ids /\ accounts[locks[e]] # None /\ accounts[locks[e]].email = e
    BY <1>2, LockFields
  <2> DEFINE c == [email    |-> accounts[locks[e]].email,
                   password |-> accounts[locks[e]].digest.madeFrom]
  <2>2. c \in StoredCredentials /\ c.email = e
    BY <2>1 DEF StoredCredentials
  <2> QED
    BY <2>2
<1> QED
  BY <1>1, <1>2

\* The account of an email is the only one whose password counts.
LEMMA AcceptedMeansStored ==
  ASSUME RegistryInv, NEW i \in Ids, accounts[i] # None, NEW p
  PROVE  [email |-> accounts[i].email, password |-> p] \in StoredCredentials
           <=> Verify(p, accounts[i].digest)
<1> DEFINE e == accounts[i].email
<1>1. ASSUME [email |-> e, password |-> p] \in StoredCredentials
      PROVE  Verify(p, accounts[i].digest)
  <2>1. PICK j \in Ids : /\ accounts[j] # None
                         /\ [email |-> e, password |-> p]
                              = [email    |-> accounts[j].email,
                                 password |-> accounts[j].digest.madeFrom]
    BY <1>1 DEF StoredCredentials
  <2>2. accounts[j].email = e /\ accounts[j].digest.madeFrom = p
    BY <2>1
  <2>3. i = j
    BY <2>1, <2>2 DEF RegistryInv, StoredOK, LocksMatchAccounts
  <2> QED
    BY <2>2, <2>3 DEF Verify
<1>2. ASSUME Verify(p, accounts[i].digest)
      PROVE  [email |-> e, password |-> p] \in StoredCredentials
  BY <1>2 DEF Verify, StoredCredentials
<1> QED
  BY <1>1, <1>2

\* What a request's last step does to its status and its wish.
LEMMA StatusMoves ==
  ASSUME TypeOK, NEW r \in Requests, NEW s, stage' = [stage EXCEPT ![r] = s]
  PROVE  Status' = [Status EXCEPT ![r] = StatusOf(s)]
  BY DEF Status, TypeOK, StatusOf

LEMMA EndReplies ==
  ASSUME TypeOK, NEW r \in Requests, NEW a, End(r, a), UNCHANGED call
  PROVE  Registry!Reply(r, a)
<1>1. Status' = [Status EXCEPT ![r] = "idle"]
  <2>1. StatusOf("idle") = "idle"
    BY DEF StatusOf
  <2> QED
    BY <2>1, StatusMoves DEF End
<1>2. Wish' = Wish
  BY DEF Wish, WishOf
<1> QED
  BY <1>1, <1>2 DEF Registry!Reply, Status, Wish, End

\* The transaction adds the request's credentials to a registry that has none
\* for the email.
LEMMA StoringAdds ==
  ASSUME RegistryInv, NEW r \in Requests, stage[r] = "creating", PutAccountAndLock(r)
  PROVE  Registry!Add(r)
<1> TypeOK /\ RequestOK(r)
  BY DEF RegistryInv
<1> DEFINE i == call[r].id
           e == call[r].email
           account == AccountItem(e, call[r].password)
           c == [email |-> e, password |-> call[r].password]
<1>1. call[r] # None /\ e \in Emails
  BY CallFields DEF TypeOK
<1>2. i \in Ids /\ accounts[i] = None
  BY DEF RequestOK, IdIsReserved
<1>3. /\ accounts' = [accounts EXCEPT ![i] = account]
      /\ locks[e] = NoId
  BY DEF PutAccountAndLock, LockIsFree
<1>4. /\ account # None /\ account.email = e /\ account.digest.madeFrom = call[r].password
  <2>1. account \in Account
    BY <1>1, CallFields DEF Account, AccountItem
  <2> QED
    BY <2>1, RegistrationAssumption DEF AccountItem, Hash
<1>5. /\ accounts'[i] = account
      /\ \A j \in Ids \ {i} : accounts'[j] = accounts[j]
  BY <1>2, <1>3 DEF TypeOK
<1> HIDE DEF account
<1>6. StoredCredentials' = StoredCredentials \cup {c}
  <2> DEFINE Of(item) == [email |-> item.email, password |-> item.digest.madeFrom]
  <2>1. Of(account) = c
    BY <1>4
  <2>2. /\ StoredCredentials = {Of(accounts[j]) : j \in {k \in Ids : accounts[k] # None}}
        /\ StoredCredentials' = {Of(accounts'[j]) : j \in {k \in Ids : accounts'[k] # None}}
    BY DEF StoredCredentials
  <2> HIDE DEF Of, c
  <2>3. {k \in Ids : accounts'[k] # None} = {k \in Ids : accounts[k] # None} \cup {i}
    BY <1>2, <1>4, <1>5
  <2> QED
    BY <1>2, <1>5, <2>1, <2>2, <2>3
<1>7. Status[r] = "registering" /\ Wish[r] = c
  BY <1>1 DEF Status, Wish, StatusOf, WishOf
<1>8. ~\E d \in StoredCredentials : d.email = e
  BY <1>1, <1>3, TakenMeansLocked
<1>9. Wish[r].email = e
  BY <1>7
<1> HIDE DEF c, e
<1> QED
  BY <1>6, <1>7, <1>8, <1>9 DEF Registry!Add, Registry!IsTaken, Status, Wish

LEMMA InitRefines == Init => Registry!Init
  BY DEF Init, Registry!Init, StoredCredentials, StatusOf, WishOf

LEMMA BeginRefines ==
  ASSUME RegistryInv, NEW r \in Requests, NEW s \in Spellings, NEW p \in Passwords,
         NEW first \in {"hashing", "reading-lock"}, Begin(r, s, p, first)
  PROVE  \E c \in Registry!Credentials : \/ Registry!Ask(r, c, "registering")
                                         \/ Registry!Ask(r, c, "signing-in")
<1> DEFINE c == [email |-> Parse(s), password |-> p]
           made == [address |-> s.address, email |-> Parse(s), password |-> p,
                    id |-> NoId, attempt |-> 0, owed |-> Owed(s.address, p)]
<1>1. TypeOK
  BY DEF RegistryInv
<1>2. c \in Registry!Credentials
  BY ParseFields DEF Registry!Credentials
<1>3. made # None /\ WishOf(made) = c
  <2>1. made \in Call
    <3>1. s.address \in Addresses /\ 0 \in 0..MaxAttempts
      BY RegistrationAssumption DEF Spellings
    <3> QED
      BY <3>1, ParseFields DEF Call, Owed
  <2> QED
    BY <2>1, RegistrationAssumption DEF WishOf
<1>4. call' = [call EXCEPT ![r] = made]
  BY DEF Begin
<1> HIDE DEF made, c
<1>5. Wish' = [Wish EXCEPT ![r] = c]
  BY <1>1, <1>3, <1>4 DEF Wish, TypeOK
<1>6. Status' = [Status EXCEPT ![r] = StatusOf(first)]
  BY <1>1, StatusMoves DEF Begin
<1>7. Status[r] = "idle" /\ StoredCredentials' = StoredCredentials
  BY DEF Begin, Status, StatusOf, StoredCredentials
<1>8. Registry!Ask(r, c, StatusOf(first))
  BY <1>5, <1>6, <1>7 DEF Registry!Ask, Status, Wish, Begin
<1> QED
  BY <1>2, <1>8 DEF StatusOf

LEMMA CreateCommitsRefines ==
  ASSUME RegistryInv, NEW r \in Requests, CreateCommits(r)
  PROVE  Registry!Register(r)
<1>1. TypeOK /\ Registry!Add(r)
  BY StoringAdds DEF CreateCommits, RegistryInv
<1>2. Status' = [Status EXCEPT ![r] = "registered"]
  <2>1. StatusOf("answering") = "registered"
    BY DEF StatusOf
  <2> QED
    BY <1>1, <2>1, StatusMoves DEF CreateCommits
<1> QED
  BY <1>1, <1>2 DEF Registry!Register, Registry!Decide, Status, CreateCommits

LEMMA CreateIsRefusedRefines ==
  ASSUME RegistryInv, NEW r \in Requests, CreateIsRefused(r)
  PROVE  Registry!Refuse(r)
<1>1. TypeOK /\ stage[r] = "creating" /\ call[r] # None /\ call[r].email \in Emails
  BY CallFields DEF RegistryInv, TypeOK, CreateIsRefused
<1>2. \E c \in StoredCredentials : c.email = call[r].email
  BY <1>1, TakenMeansLocked DEF CreateIsRefused, LockIsFree
<1>3. Registry!IsTaken(Wish[r].email)
  BY <1>1, <1>2 DEF Registry!IsTaken, Wish, WishOf
<1>4. Status[r] = "registering"
  BY <1>1 DEF Status, StatusOf
<1>5. Registry!Reply(r, "taken") /\ StoredCredentials' = StoredCredentials
  BY <1>1, EndReplies DEF CreateIsRefused, StoredCredentials
<1> QED
  BY <1>3, <1>4, <1>5 DEF Registry!Refuse, Status, Wish

\* A lost answer: whatever ends in 503 is a request the registry may have
\* carried out.
LEMMA EndLoses ==
  ASSUME RegistryInv, NEW r \in Requests, stage[r] # "idle", End(r, "unavailable"),
         UNCHANGED call, Registry!Add(r) \/ UNCHANGED accounts
  PROVE  Registry!Lose(r)
<1>1. TypeOK
  BY DEF RegistryInv
<1>2. Status[r] # "idle"
  <2>1. stage[r] \in Stages
    BY <1>1 DEF TypeOK
  <2> QED
    BY <2>1 DEF Status, StatusOf, Stages
<1>3. Registry!Reply(r, "unavailable")
  BY <1>1, EndReplies
<1>4. Registry!Add(r) \/ StoredCredentials' = StoredCredentials
  BY DEF StoredCredentials
<1> QED
  BY <1>2, <1>3, <1>4 DEF Registry!Lose, Status

LEMMA FailRefines ==
  ASSUME RegistryInv, NEW r \in Requests, Fail(r)
  PROVE  Registry!Lose(r)
  BY EndLoses, StoringAdds DEF Fail

LEMMA CreateConflictsRefines ==
  ASSUME RegistryInv, NEW r \in Requests, CreateConflicts(r)
  PROVE  Registry!Lose(r) \/ UNCHANGED Registry!vars
<1>1. TypeOK /\ stage[r] = "creating" /\ UNCHANGED accounts
  BY DEF CreateConflicts, RegistryInv
<1>2. CASE End(r, "unavailable") /\ UNCHANGED call
  BY <1>1, <1>2, EndLoses
<1>3. CASE call' = [call EXCEPT ![r].attempt = @ + 1] /\ UNCHANGED <<stage, answer>>
  <2>1. call[r] # None /\ call[r] \in Call
    BY <1>1, CallFields DEF TypeOK
  <2> DEFINE next == [call[r] EXCEPT !.attempt = call[r].attempt + 1]
  <2>2. call' = [call EXCEPT ![r] = next]
    BY <1>3
  <2>3. next.email = call[r].email /\ next.password = call[r].password
    BY <2>1 DEF Call
  <2>4. next # None
    <3>1. call'[r] # None
      BY <1>1, <1>3, CreateConflictsKeeps DEF RegistryInv, TypeOK
    <3> QED
      BY <1>1, <2>2, <3>1 DEF TypeOK
  <2> HIDE DEF next
  <2>5. WishOf(next) = WishOf(call[r])
    BY <2>1, <2>3, <2>4 DEF WishOf
  <2>6. Wish' = Wish
    BY <1>1, <2>2, <2>5 DEF Wish, TypeOK
  <2> QED
    BY <1>1, <1>3, <2>6 DEF Registry!vars, Wish, StoredCredentials
<1> QED
  BY <1>2, <1>3 DEF CreateConflicts, Reattempt, Cancelled

LEMMA HashPasswordRefines ==
  ASSUME RegistryInv, NEW r \in Requests, HashPassword(r)
  PROVE  UNCHANGED Registry!vars
<1>1. TypeOK /\ stage[r] = "hashing" /\ UNCHANGED <<accounts, answer>>
  BY DEF HashPassword, RegistryInv
<1>2. call[r] # None /\ call[r] \in Call
  BY <1>1, CallFields DEF TypeOK
<1> DEFINE next == [call[r] EXCEPT !.id = nextId, !.attempt = 1]
<1>3. call' = [call EXCEPT ![r] = next]
  BY <1>2 DEF HashPassword, TypeOK, Call
<1>4. next.email = call[r].email /\ next.password = call[r].password
  BY <1>2 DEF Call
<1>5. next # None
  <2>1. call'[r] # None
    BY <1>1, HashPasswordKeeps DEF RegistryInv, TypeOK, HashPassword
  <2> QED
    BY <1>1, <1>3, <2>1 DEF TypeOK
<1> HIDE DEF next
<1>6. Wish' = Wish
  <2>1. WishOf(next) = WishOf(call[r])
    BY <1>2, <1>4, <1>5 DEF WishOf
  <2> QED
    BY <1>1, <1>3, <2>1 DEF Wish, TypeOK
<1>7. Status' = Status
  BY <1>1 DEF HashPassword, Status, StatusOf, TypeOK
<1> QED
  BY <1>1, <1>6, <1>7 DEF Registry!vars, Wish, Status, StoredCredentials

LEMMA AnswerCreatedRefines ==
  ASSUME RegistryInv, NEW r \in Requests, AnswerCreated(r)
  PROVE  Registry!Confirm(r)
<1>1. TypeOK
  BY DEF RegistryInv
<1>2. Registry!Reply(r, "created")
  BY <1>1, EndReplies DEF AnswerCreated
<1>3. Status[r] = "registered" /\ StoredCredentials' = StoredCredentials
  BY DEF AnswerCreated, Status, StatusOf, StoredCredentials
<1> QED
  BY <1>2, <1>3 DEF Registry!Confirm, Status

\* A lock that is not there decides the sign-in when it is read; one that is
\* decides nothing yet, and its account never changes.
LEMMA ReadLockRefines ==
  ASSUME RegistryInv, NEW r \in Requests, ReadLock(r)
  PROVE  Registry!Deny(r) \/ UNCHANGED Registry!vars
<1> DEFINE e == call[r].email
           next == [call[r] EXCEPT !.id = locks[e]]
<1>1. /\ TypeOK /\ stage[r] = "reading-lock" /\ UNCHANGED <<accounts, answer>>
      /\ stage' = [stage EXCEPT ![r] = IF locks[e] = NoId THEN "reading-dummy"
                                       ELSE "reading-account"]
  BY DEF ReadLock, RegistryInv
<1>2. call[r] # None /\ call[r] \in Call /\ e \in Emails
  BY <1>1, CallFields DEF TypeOK
<1>3. call' = [call EXCEPT ![r] = next]
  BY <1>2 DEF ReadLock, TypeOK, Call
<1>4. next.email = e /\ next.password = call[r].password
  BY <1>2 DEF Call
<1>5. next # None
  <2>1. call'[r] # None
    BY <1>1, ReadLockKeeps DEF RegistryInv, TypeOK
  <2> QED
    BY <1>1, <1>3, <2>1 DEF TypeOK
<1> HIDE DEF next
<1>6. Wish' = Wish
  <2>1. WishOf(next) = WishOf(call[r])
    BY <1>2, <1>4, <1>5 DEF WishOf
  <2> QED
    BY <1>1, <1>3, <2>1 DEF Wish, TypeOK
<1>7. StoredCredentials' = StoredCredentials
  BY <1>1 DEF StoredCredentials
<1>8. Status[r] = "signing-in" /\ Wish[r] = [email |-> e, password |-> call[r].password]
  BY <1>1, <1>2 DEF Status, Wish, StatusOf, WishOf
<1>9. CASE locks[e] = NoId
  <2>1. ~\E c \in StoredCredentials : c.email = e
    BY <1>2, <1>9, TakenMeansLocked
  <2>2. Wish[r].email = e
    BY <1>8
  <2>3. Wish[r] \notin StoredCredentials
    BY <2>1, <2>2
  <2>4. Status' = [Status EXCEPT ![r] = "denied"]
    <3>1. StatusOf("reading-dummy") = "denied" /\ stage' = [stage EXCEPT ![r] = "reading-dummy"]
      BY <1>1, <1>9 DEF StatusOf
    <3>2. TypeOK
      BY <1>1
    <3> QED
      BY <3>1, <3>2, StatusMoves
  <2>5. Registry!Decide(r, "denied")
    BY <1>1, <1>6, <2>4 DEF Registry!Decide, Status, Wish
  <2>6. Status[r] = "signing-in"
    BY <1>8
  <2> HIDE DEF e
  <2> QED
    BY <1>7, <2>3, <2>5, <2>6 DEF Registry!Deny, Status, Wish
<1>10. CASE locks[e] # NoId
  <2>1. Status' = Status
    BY <1>1, <1>10 DEF Status, StatusOf, TypeOK
  <2> QED
    BY <1>1, <1>6, <1>7, <2>1 DEF Registry!vars, Status, Wish
<1> QED
  BY <1>9, <1>10

LEMMA ReadDummyRefines ==
  ASSUME RegistryInv, NEW r \in Requests, ReadDummy(r)
  PROVE  Registry!Report(r)
<1>1. TypeOK
  BY DEF RegistryInv
<1>2. Registry!Reply(r, "unauthorized")
  BY <1>1, EndReplies DEF ReadDummy
<1>3. Status[r] = "denied" /\ StoredCredentials' = StoredCredentials
  BY DEF ReadDummy, Status, StatusOf, StoredCredentials
<1> QED
  BY <1>2, <1>3 DEF Registry!Report, Status

LEMMA ReadAccountRefines ==
  ASSUME RegistryInv, NEW r \in Requests, ReadAccount(r)
  PROVE  Registry!SignIn(r) \/ Registry!Deny(r)
<1> DEFINE account == accounts[call[r].id]
           accepted == Verify(call[r].password, account.digest)
<1>1. /\ TypeOK /\ RequestOK(r) /\ stage[r] = "reading-account"
      /\ UNCHANGED <<accounts, call>>
  BY DEF ReadAccount, RegistryInv
<1>2. /\ call[r] # None /\ call[r].id \in Ids
      /\ account # None /\ account.email = call[r].email
  BY <1>1 DEF RequestOK, TypeOK
<1>3. End(r, IF accepted THEN "signed-in" ELSE "unauthorized")
  BY <1>2 DEF ReadAccount
<1>4. Wish[r] = [email |-> account.email, password |-> call[r].password]
  BY <1>2 DEF Wish, WishOf
<1>5. Wish[r] \in StoredCredentials <=> accepted
  BY <1>2, <1>4, AcceptedMeansStored
<1>6. Status[r] = "signing-in" /\ StoredCredentials' = StoredCredentials
  BY <1>1 DEF Status, StatusOf, StoredCredentials
<1> HIDE DEF accepted
<1>7. CASE accepted
  <2>1. Registry!Reply(r, "signed-in")
    BY <1>1, <1>3, <1>7, EndReplies
  <2> QED
    BY <1>5, <1>6, <1>7, <2>1 DEF Registry!SignIn, Status, Wish
<1>8. CASE ~accepted
  <2>1. Registry!Reply(r, "unauthorized")
    BY <1>1, <1>3, <1>8, EndReplies
  <2> QED
    BY <1>5, <1>6, <1>8, <2>1 DEF Registry!Deny, Status, Wish
<1> QED
  BY <1>7, <1>8

LEMMA RefuseBodyRefines ==
  ASSUME RegistryInv, NEW r \in Requests, RefuseBody(r)
  PROVE  Registry!Dismiss(r)
<1>1. TypeOK
  BY DEF RegistryInv
<1>2. Wish' = [Wish EXCEPT ![r] = None]
  BY <1>1 DEF RefuseBody, Wish, WishOf, TypeOK
<1>3. Status[r] = "idle" /\ Status' = Status /\ StoredCredentials' = StoredCredentials
  BY DEF RefuseBody, Status, StatusOf, StoredCredentials
<1> QED
  BY <1>2, <1>3 DEF Registry!Dismiss, Status, Wish, RefuseBody

LEMMA StepRefines ==
  ASSUME RegistryInv, [Next]_vars
  PROVE  [Registry!Next]_(Registry!vars)
<1>1. ASSUME NEW r \in Requests, Begins(r) PROVE Registry!Next
  <2>1. CASE RefuseBody(r)
    BY <2>1, RefuseBodyRefines DEF Registry!Next
  <2>2. ASSUME NEW s \in Spellings, NEW p \in Passwords,
               BeginRegister(r, s, p) \/ BeginSignIn(r, s, p)
        PROVE  Registry!Next
    BY <2>2, BeginRefines DEF BeginRegister, BeginSignIn, Registry!Next
  <2> QED
    BY <1>1, <2>1, <2>2 DEF Begins
<1>2. ASSUME NEW r \in Requests, Proceeds(r) PROVE Registry!Next \/ UNCHANGED Registry!vars
  BY <1>2, HashPasswordRefines, CreateCommitsRefines, CreateIsRefusedRefines,
     CreateConflictsRefines, AnswerCreatedRefines, ReadLockRefines, ReadDummyRefines,
     ReadAccountRefines DEF Proceeds, Registry!Next
<1>3. ASSUME NEW r \in Requests, Fail(r) PROVE Registry!Next
  BY <1>3, FailRefines DEF Registry!Next
<1>4. CASE UNCHANGED vars
  BY <1>4 DEF vars, Registry!vars, StoredCredentials
<1> QED
  BY <1>1, <1>2, <1>3, <1>4 DEF Next

\* Registration and sign-in, with their races, conflicts, retries and lost
\* answers, implement one registry: every answer is one it would have given at
\* some moment of the request, whatever the letters of the addresses.
THEOREM RegistrationImplementsRegistry == Spec => ImplementsRegistry
<1>1. RegistryInv /\ [Next]_vars => [Registry!Next]_(Registry!vars)
  BY StepRefines
<1> QED
  BY <1>1, InitRefines, RegistryInvHolds, PTL DEF Spec, ImplementsRegistry, Registry!Spec

=============================================================================
