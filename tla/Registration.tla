----------------------------- MODULE Registration -----------------------------
(***************************************************************************)
(* Account registration and the credential check of sign-in:               *)
(* RegisterAccount.execute, AuthenticateAccount.verifyCredentials and      *)
(* DynamoUserRepository, over the account items and the email locks of the *)
(* table.  Requests interleave between any two awaits; each action is the  *)
(* code from one await to the next, and any request may end at any of      *)
(* them (Fail), its write landed or not.                                   *)
(*                                                                         *)
(* An address is what its owner means; a spelling is what a client sends.  *)
(* The model keeps the three differences EmailAddress.parse is there to    *)
(* remove: padding, case, and whether a letter and its mark are written as *)
(* one character or as two.  Digests stand for their passwords, ids are    *)
(* numbers handed out in order.                                            *)
(***************************************************************************)
EXTENDS Naturals

CONSTANTS
  Addresses,        \* what the owners mean
  LowerOnly,        \* those with a marked letter that Unicode composes in
                    \* lower case only, such as j with caron
  Passwords,        \* passwords of an acceptable length
  Requests,         \* request slots: at most this many in flight
  MaxAccounts,      \* bound: ids the generator can hand out
  MaxAttempts,      \* MAX_TRANSACTION_CONFLICT_ATTEMPTS
  ConflictCancels,  \* whether a write conflict may be reported as a cancellation
  None              \* no account item

VARIABLES
  accounts,  \* id -> account item, or None
  locks,     \* normalized email -> the id its lock item names, or NoId
  nextId,    \* the id generator: ids below it have been handed out
  stage,     \* request -> the await it is at
  call,      \* request -> its local variables, of its last call when idle
  answer,    \* request -> how its last call was answered
  told       \* history: ids a client has received in a 201

vars == <<accounts, locks, nextId, stage, call, answer, told>>

Ids == 1..MaxAccounts
NoId == 0

Spellings ==
  {s \in [address : Addresses, upper : BOOLEAN, composed : BOOLEAN, padded : BOOLEAN] :
     s.address \in LowerOnly /\ s.upper => ~s.composed}

Trim(s) == [s EXCEPT !.padded = FALSE]
Nfc(s) == [s EXCEPT !.composed = s.address \in LowerOnly => ~s.upper]
Lower(s) == [s EXCEPT !.upper = FALSE]

\* Mutant: the local part keeps its case.
Parse_KeepsCase(s) == Nfc(Trim(s))

\* EmailAddress.parse: trim, compose, then lower-case.
Parse(s) == Lower(Nfc(Trim(s)))

Emails == Spellings

\* Argon2PasswordHasher: a salted digest tells whether a password made it,
\* and nothing else.
Hash(password) == [madeFrom |-> password]
Verify(password, digest) == digest.madeFrom = password

Account == [email : Emails, digest : {Hash(password) : password \in Passwords}]

\* toAccountItem
AccountItem(email, password) == [email |-> email, digest |-> Hash(password)]

Stages == {"idle", "hashing", "creating", "answering",
           "reading-lock", "reading-dummy", "reading-account"}

Answers == {"none", "created", "taken", "unprocessable", "unavailable",
            "signed-in", "unauthorized"}

Call == [address  : Addresses,
         email    : Emails,
         password : Passwords,
         id       : Ids \cup {NoId},  \* the id minted, or the one the lock names
         attempt  : 0..MaxAttempts,
         owed     : BOOLEAN]  \* history: these credentials were answered 201 before

ASSUME RegistrationAssumption ==
  /\ LowerOnly \subseteq Addresses
  /\ MaxAccounts \in Nat
  /\ MaxAttempts \in Nat \ {0}
  /\ ConflictCancels \in BOOLEAN
  /\ None \notin Account
  /\ None \notin Call

TypeOK ==
  /\ accounts \in [Ids -> Account \cup {None}]
  /\ locks \in [Emails -> Ids \cup {NoId}]
  /\ nextId \in 1..(MaxAccounts + 1)
  /\ stage \in [Requests -> Stages]
  /\ call \in [Requests -> Call \cup {None}]
  /\ answer \in [Requests -> Answers]
  /\ told \in SUBSET Ids
  /\ \A r \in Requests : stage[r] # "idle" => call[r] # None

Init ==
  /\ accounts = [i \in Ids |-> None]
  /\ locks = [e \in Emails |-> NoId]
  /\ nextId = 1
  /\ stage = [r \in Requests |-> "idle"]
  /\ call = [r \in Requests |-> None]
  /\ answer = [r \in Requests |-> "none"]
  /\ told = {}

-----------------------------------------------------------------------------
(* Requests                                                                *)

Owed(address, password) ==
  \E i \in told : /\ accounts[i].email.address = address
                  /\ Verify(password, accounts[i].digest)

\* A body that does not parse is answered at once and reaches nothing.
RefuseBody(r) ==
  /\ stage[r] = "idle"
  /\ answer' = [answer EXCEPT ![r] = "unprocessable"]
  /\ call' = [call EXCEPT ![r] = None]
  /\ UNCHANGED <<accounts, locks, nextId, stage, told>>

\* parseRegisterRequest, parseLoginRequest: the domain parsers at the edge.
Begin(r, s, password, first) ==
  /\ stage[r] = "idle"
  /\ stage' = [stage EXCEPT ![r] = first]
  /\ call' = [call EXCEPT ![r] =
       [address |-> s.address, email |-> Parse(s), password |-> password,
        id |-> NoId, attempt |-> 0, owed |-> Owed(s.address, password)]]
  /\ answer' = [answer EXCEPT ![r] = "none"]
  /\ UNCHANGED <<accounts, locks, nextId, told>>

BeginRegister(r, s, password) == Begin(r, s, password, "hashing")
BeginSignIn(r, s, password) == Begin(r, s, password, "reading-lock")

End(r, a) ==
  /\ stage' = [stage EXCEPT ![r] = "idle"]
  /\ answer' = [answer EXCEPT ![r] = a]

\* After the digest: a fresh id, and the first attempt at the transaction.
HashPassword(r) ==
  /\ stage[r] = "hashing"
  /\ nextId <= MaxAccounts
  /\ nextId' = nextId + 1
  /\ stage' = [stage EXCEPT ![r] = "creating"]
  /\ call' = [call EXCEPT ![r].id = nextId, ![r].attempt = 1]
  /\ UNCHANGED <<accounts, locks, answer, told>>

\* Mutant: the lock's Put has no condition.
LockIsFree_Unconditional(e) == TRUE

\* attribute_not_exists(PK) on the email lock.
LockIsFree(e) == locks[e] = NoId

\* Mutant: two writes in place of the transaction, of which only the lock's
\* has a condition.
PutAccountAndLock_TwoWrites(r) ==
  /\ accounts' = [accounts EXCEPT ![call[r].id] =
                    AccountItem(call[r].email, call[r].password)]
  /\ locks' = IF LockIsFree(call[r].email)
                THEN [locks EXCEPT ![call[r].email] = call[r].id] ELSE locks

\* The transaction of attemptCreate: both items, or neither.
PutAccountAndLock(r) ==
  /\ LockIsFree(call[r].email)
  /\ accounts' = [accounts EXCEPT ![call[r].id] =
                    AccountItem(call[r].email, call[r].password)]
  /\ locks' = [locks EXCEPT ![call[r].email] = call[r].id]

CreateCommits(r) ==
  /\ stage[r] = "creating"
  /\ PutAccountAndLock(r)
  /\ stage' = [stage EXCEPT ![r] = "answering"]
  /\ UNCHANGED <<nextId, call, answer, told>>

\* translateCreateFailure: the condition of the lock, and of the lock alone.
CreateIsRefused(r) ==
  /\ stage[r] = "creating"
  /\ ~LockIsFree(call[r].email)
  /\ End(r, "taken")
  /\ UNCHANGED <<accounts, locks, nextId, call, told>>

\* Another transaction on the same lock is in progress.
Contended(r) ==
  \E q \in Requests \ {r} : stage[q] = "creating" /\ call[q].email = call[r].email

\* Mutant: the last attempt starts the count over.
Reattempt_StartsOver(r) ==
  /\ call' = [call EXCEPT ![r].attempt = IF @ < MaxAttempts THEN @ + 1 ELSE 1]
  /\ UNCHANGED <<stage, answer>>

\* Mutant: one attempt more than the bound.
Reattempt_OneMore(r) ==
  IF call[r].attempt <= MaxAttempts
    THEN call' = [call EXCEPT ![r].attempt = @ + 1] /\ UNCHANGED <<stage, answer>>
    ELSE End(r, "unavailable") /\ UNCHANGED call

\* Another attempt while there is one left; the last conflict is thrown.
Reattempt(r) ==
  IF call[r].attempt < MaxAttempts
    THEN call' = [call EXCEPT ![r].attempt = @ + 1] /\ UNCHANGED <<stage, answer>>
    ELSE End(r, "unavailable") /\ UNCHANGED call

\* Mutant: every cancellation is taken for the lock's condition.
Cancelled_MeansTaken(r) == End(r, "taken") /\ UNCHANGED call

\* A cancellation with another reason at the lock's index is not translated.
Cancelled(r) == End(r, "unavailable") /\ UNCHANGED call

\* create's catch for a write conflict, however DynamoDB reports it.
CreateConflicts(r) ==
  /\ stage[r] = "creating"
  /\ Contended(r)
  /\ Reattempt(r) \/ (ConflictCancels /\ Cancelled(r))
  /\ UNCHANGED <<accounts, locks, nextId, told>>

\* The 201 reaches the client.
AnswerCreated(r) ==
  /\ stage[r] = "answering"
  /\ End(r, "created")
  /\ told' = told \cup {call[r].id}
  /\ UNCHANGED <<accounts, locks, nextId, call>>

-----------------------------------------------------------------------------
(* Sign-in                                                                 *)

\* findByEmail, the lock; an unknown address reads a dummy account next.
ReadLock(r) ==
  /\ stage[r] = "reading-lock"
  /\ call' = [call EXCEPT ![r].id = locks[call[r].email]]
  /\ stage' = [stage EXCEPT ![r] =
                 IF locks[call[r].email] = NoId THEN "reading-dummy" ELSE "reading-account"]
  /\ UNCHANGED <<accounts, locks, nextId, answer, told>>

\* The dummy read and the dummy verification end in InvalidCredentialsError.
ReadDummy(r) ==
  /\ stage[r] = "reading-dummy"
  /\ End(r, "unauthorized")
  /\ UNCHANGED <<accounts, locks, nextId, call, told>>

\* findById and the verification of the password.  The signing and the first
\* refresh token of a successful sign-in are BeginSignIn and IssueToken of
\* RefreshRotation.
ReadAccount(r) ==
  /\ stage[r] = "reading-account"
  /\ LET account == accounts[call[r].id]
     IN  End(r, IF account # None /\ Verify(call[r].password, account.digest)
                  THEN "signed-in" ELSE "unauthorized")
  /\ UNCHANGED <<accounts, locks, nextId, call, told>>

\* A call throws, the instance is killed or the answer is lost: the client
\* has 503 at best.  A transaction that was sent may have committed.
Fail(r) ==
  /\ stage[r] # "idle"
  /\ End(r, "unavailable")
  /\ \/ UNCHANGED <<accounts, locks>>
     \/ stage[r] = "creating" /\ PutAccountAndLock(r)
  /\ UNCHANGED <<nextId, call, told>>

-----------------------------------------------------------------------------

Begins(r) ==
  \/ RefuseBody(r)
  \/ \E s \in Spellings, p \in Passwords : BeginRegister(r, s, p) \/ BeginSignIn(r, s, p)

\* The steps that the hasher and the table decide.
Proceeds(r) ==
  \/ HashPassword(r)
  \/ CreateCommits(r)
  \/ CreateIsRefused(r)
  \/ CreateConflicts(r)
  \/ AnswerCreated(r)
  \/ ReadLock(r)
  \/ ReadDummy(r)
  \/ ReadAccount(r)

Next == \E r \in Requests : Begins(r) \/ Proceeds(r) \/ Fail(r)

Spec == Init /\ [][Next]_vars

\* Every await is answered, or throws: the storage client's time-outs see to
\* it.  Where the bound on ids holds a registration back, it fails.
Fairness == \A r \in Requests : WF_vars(Proceeds(r) \/ (stage[r] = "hashing" /\ Fail(r)))

FairSpec == Spec /\ Fairness

-----------------------------------------------------------------------------
(* Properties                                                              *)

(* Nobody registers twice, however the address is spelled and however many *)
(* requests race for it: one account item per address, and an account      *)
(* whose transaction was refused left nothing behind (AC-2, AC-4).         *)
OneAccountPerAddress ==
  \A i, j \in Ids :
    accounts[i] # None /\ accounts[j] # None
      /\ accounts[i].email.address = accounts[j].email.address => i = j

(* Accounts and locks stay one to one: a lock names an account of its own  *)
(* email, and every account is found through its lock (create's single     *)
(* transaction, and its fixed positions).                                  *)
LocksMatchAccounts ==
  /\ \A e \in Emails : locks[e] # NoId =>
       accounts[locks[e]] # None /\ accounts[locks[e]].email = e
  /\ \A i \in Ids : accounts[i] # None => locks[accounts[i].email] = i

(* A 409 is never told of a free address: neither a write conflict nor the *)
(* loss of another registration's race with a failure counts as taken      *)
(* (translateCreateFailure).                                               *)
TakenIsTrue ==
  \A r \in Requests : answer[r] = "taken" =>
    \E i \in Ids : accounts[i] # None /\ accounts[i].email.address = call[r].address

(* Whoever was told 201 can sign in from then on, with any spelling of the *)
(* address in letters that compose alike in both cases: a sign-in that     *)
(* begins later, with the same password, is never refused (AC-7 and the    *)
(* consistent reads; AC-2 for the spelling).                               *)
RegisteredMaySignIn ==
  \A r \in Requests : answer[r] = "unauthorized" => ~call[r].owed

(* Every request is answered: neither a conflict nor a lost race keeps it  *)
(* in the attempt loop.                                                    *)
EveryRequestIsAnswered ==
  \A r \in Requests : (stage[r] # "idle") ~> (stage[r] = "idle")

\* The credentials the stored accounts stand for.
StoredCredentials ==
  {[email |-> accounts[i].email, password |-> accounts[i].digest.madeFrom] :
     i \in {j \in Ids : accounts[j] # None}}

\* What a request has come to at each await.
StatusOf(s) ==
  IF s \in {"hashing", "creating"} THEN "registering"
  ELSE IF s = "answering" THEN "registered"
  ELSE IF s \in {"reading-lock", "reading-account"} THEN "signing-in"
  ELSE IF s = "reading-dummy" THEN "denied"
  ELSE "idle"

WishOf(c) == IF c = None THEN None ELSE [email |-> c.email, password |-> c.password]

Registry == INSTANCE AccountRegistry WITH
  credentials <- StoredCredentials,
  status <- [r \in Requests |-> StatusOf(stage[r])],
  wish <- [r \in Requests |-> WishOf(call[r])]

(* Every answer is one that a single registry would have given at some     *)
(* moment of the request: the 201 and the 409 of registrations that race,  *)
(* the 200 and the 401 of a sign-in whose two reads straddle a             *)
(* registration; and a 503 has carried out its request once or not at all  *)
(* (create's transaction, findByEmail's two reads, AC-4, AC-7).            *)
ImplementsRegistry == Registry!Spec

=============================================================================
