# Verification of stockroom-api

TLA+ models of stockroom-api, the TLC configurations that check them on small
instances, and TLAPS proofs of what matters most for every instance.

stockroom-api is a NestJS service in front of one DynamoDB table. It runs as a
Lambda function behind a load balancer, so requests run in many short-lived
instances that share nothing but the table. Within an instance JavaScript is
single threaded: code runs without interruption from one `await` to the next,
and anything may happen at the `await`.

Code paths below are relative to the repository root; `PROJECT.json` names the
lines of every definition. Run a check with `tlc -config X.cfg MCModule`, the
proofs with `tlapm M.tla` for each of the eight modules whose name ends in
`Proofs`.

## 1. Inventory

| Component | State it keeps | Operations | Hard behaviour | What makes it correct |
| --- | --- | --- | --- | --- |
| Refresh token store (`src/auth/infrastructure/dynamo/refresh-token.*`) | one item per token; `token_generation` on the account item | `issue`, `findByIds`, `rotate` (a transaction), `revokeAll`; ttl collection by DynamoDB | concurrent rotations, conflicts, collection at any time after expiry | one token per sign-in that has not been rotated away; a revocation covers every token |
| Refresh rotation and sign-in (`src/auth/application/{rotate-refresh-token,authenticate-account}.usecase.ts`) | local copies between awaits | `RotateRefreshToken.execute`, `AuthenticateAccount.execute` | copies go stale; a failure after the commit; replays while another request rotates | sessions end at the ceiling; reuse kills the account; a working token is not turned away; strangers learn nothing |
| Registration (`register-account.usecase.ts`, `user.repository.ts`, `email-address.ts`) | account item, email-lock item | `create` (a transaction, three attempts), `findByEmail`, `findById` | two registrations of one address, many spellings of it, conflicts, a lost answer | one account per address, never a lock without an account, no false 409 |
| Key providers, signer, JWT guard, JWKS (`src/auth/infrastructure/{keys,crypto}`, `jwt-auth.guard.ts`) | memoized promises and imported keys per instance; the two parameters an operator changes | `getSigningKey`, `sign`, `canActivate`, `getJwks` | instances that read their keys at different times of a rotation; a rejected promise stays memoized; an outage reads as 401 | a genuine token is accepted everywhere (it is not: see Divergences); keys are read only by who needs them |
| Throttle counter (`src/throttling/infrastructure/dynamo`) | one item per key: window start, count, previous count | `countRequest`: conditional increment, else classify the returned item, roll over, retry | concurrent callers with skewed clocks, lost rollover races, a budget of attempts, aborted writes that land late | no count is lost or repeated; the window only moves forward; contention does not use up the budget |
| Throttle policy (`src/throttling/domain`) | none | `estimateRequestCount`, `decideAdmission`, `computeRetryAfterSeconds` | boundaries of the arithmetic | never more than the limit in a window or twice it across a boundary; a caller who waits as told is admitted |
| Request admission (`src/throttling/application`, `infrastructure/local`) | a bounded map of local windows per instance | `decide`: store with a deadline, else local limiter, else admit | a deadline racing the store's answer, a full map | store trouble never refuses by itself; the fallback bounds each key it tracks |
| Throttle guard, interceptor, caller identity (`src/throttling/presentation`) | none | derive the key, choose the policy, hand the decision on | two counters in one request's way; a header the client writes | one request, one count, under its own key |
| Lambda entry (`src/lambda.ts`) | a memoized bootstrap promise | `handler` | a failed bootstrap, or a failed forward that discards a working application | a passing failure does not disable the instance |
| Configuration (`src/shared/config`) | one parsed object | `parseAppConfig`, the policies and bounds made from it | blank and zero values, a partly valid environment | what is accepted satisfies what every part assumes |
| Problem details (`src/shared/presentation`, `*-problem-mappings.ts`) | none | from an exception to a status | an exception no row names | a closed set of statuses |
| Catalog (`src/catalog`) | product items in one partition | `list` one page after a cursor | paging while products are written and removed, a damaged item | a walk shows every product that stays, once, and ends |
| Table scripts (`scripts/`) | the table's existence and its ttl setting, seeded products | create if missing, enable ttl if disabled, seed | check-then-act between two runs, a run that dies half way | either run leaves a table with ttl on |
| Health, openapi, local server; observability; terraform and gates | none | static routes; logging; deployment | none | stateless |

Interactions. A request enters through the handler of `lambda.ts`, passes the
JWT guard, the throttle guard and the throttle interceptor, and reaches one
controller, which calls one use case. The guards and the interceptor use the
instance's memoized keys and touch only the counter items; the use cases call
the repositories, which share the one table. `revokeAll` and `rotate` meet on
the account item; `rotate`, `findByIds` and the ttl collection meet on the
token items; `create` and `findByEmail` meet on the lock and account items;
every statement of `countRequest` meets every other instance's on the counter
item; instances meet the operator at Parameter Store. Nothing calls back.

The hazards, each at its line and with the properties that watch it, are in
`PROJECT.json`.

## 2. Plan

| # | Module | Contents | Composition | State |
| --- | --- | --- | --- | --- |
| 1 | `RefreshTokenStore` | the token items as the repository sees them | | done |
| 2 | `RefreshRotation` | both use cases over the store | extends 1 | done |
| 3 | `RefreshSessions` | what rotation promises | implemented by 2 | done |
| 4 | `RefreshRotationProofs`, `RefreshSessionsProofs` | inductive invariant, types, one tip per sign-in; the ceiling, no phantom token, strangers, reuse, refusals, revocations, `Spec => Sessions!Spec` | extend 2 | done |
| 5 | `ThrottlePolicy` | estimate, admission, retry-after | | done |
| 6 | `ThrottleCounter`, `ThrottleRequests`, `ThrottleProofs` | the counter item, requests over it, and their proofs | extend 5 | done |
| 7 | `RequestLedger` | what throttling promises | extends 5; implemented by 6 | done |
| 8 | `ThrottleReturns`, `ReturnsProofs` | what a returning caller may rely on | extend 6 | done |
| 9 | `RequestAdmission`, `AdmissionProofs` | the fallback limiter and the fail-open boundary | extend 6 | done |
| 10 | `Registration`, `RegistrationProofs` | accounts and email locks, conflicts, a lost answer | | done |
| 11 | `AccountRegistry` | what registration and sign-in promise | implemented by 10 | done |
| 12 | `Environment`, `ProblemDetails`, `CallerIdentity` | the pure parts: configuration, statuses, keys of callers | | done |
| 13 | `ServiceRequests`, `ServiceProofs` | what every request passes through in an instance | extend 12 | done |
| 14 | `Catalog`, `CatalogProofs` | walks, seeding, table setup | | done |

Still worth stating: what the service's keys promise, as an abstract
specification that 13 implements.

## 3. Refresh tokens

### `RefreshTokenStore`

`items` maps a token id to its stored item or `None`; `generation` is the
account item's `token_generation`. An id is a fresh number in place of the
UUIDv7; `nextId` is the generator. An item keeps `account`, `startedAt`,
`expiresAt`, `generation`, `replacedBy` (which with `rotated_at` makes it
retired), and `digest`, which tells an item written by `issue` or as a
successor from the half-empty one that an `Update` creates when the item is
gone. Each operator is one call of the repository and atomic: `FindByIds`,
`Issue`, `Rotate` with its three conditions (`RotateConditionsHold`),
`IncrementGeneration` and `Collect`. The history variable `session` remembers
which sign-in a token descends from.

### `RefreshRotation`

One action per stretch of code between awaits, per request slot:

| Action | Code |
| --- | --- |
| `BeginSignIn`, `IssueToken` | `AuthenticateAccount.execute`: reads the account with its generation, then issues the token |
| `BeginRefresh`, `FindPresented` | parses the credential, reads the item, checks the secret, then retirement, then expiry |
| `MintSuccessor`, `RotateCommits`, `RotateIsCancelled`, `RotateConflicts` | `attemptRotation`, and the repository's transaction with its conflict attempts |
| `Reread` | `reclassifyAfterConditionFailure` |
| `ClassifyReplay`, `RevokeAll` | `classifyReplay` |
| `LoadAccountAndSign` | `buildRotatedOutcome` |
| `Fail` | any await throws, the instance dies, or the answer is lost |

`Fail` is possible at every stage: an error after the commit leaves a retired
token whose successor nobody holds, and an increment that landed before its
answer was lost is `RevokeAll` with an undelivered answer. `CollectExpired` is
DynamoDB's ttl deletion, which takes expired items in any order but no sooner
than `CollectionLag` after they expire. `Tick` moves the clock; no request
outlives `RequestLife`, the function's time limit (`terraform/compute.tf:101`,
30 seconds; sessions last days). `RotateConflicts` is a write conflict that the
repository sees as one and tries again; with `ConflictCancels`, DynamoDB may
also report it as a cancelled transaction, which the repository takes for a
failed condition, and `contested` remembers that it did.

### `RefreshSessions`

Sessions without requests or storage: a set of live tokens, each descending
from one sign-in. A renewal replaces a live token by its successor, a
revocation takes all of an account's tokens, a token may lapse, and a token
that is not live never becomes live again. `RefreshRotation` implements it with
`live <- LiveTokens`, the tokens that the rotate transaction would accept.

## 4. Throttling

### `ThrottlePolicy` and `ThrottleCounter`

Time is counted in ticks of which a window has `Window`; the estimate is
multiplied by `Window`, so that the code's fractions become integers and the
comparison with the limit is exact. (The code computes in floating point; a
rounding error at equality is not modelled.) `SelectRolloverBranch` is
`rollover-branch.ts` with `Math.round` spelt out. `Increment` and `Transition`
are the two conditional statements of the repository, atomic on one item;
`Transitioned` reads the item as it is when the statement runs, as the
self-referencing update expression does, and not the copy the branch was chosen
from. The history variable `counted` remembers each landed increment by window.

### `ThrottleRequests`

A request reads its instance's clock once (`BeginRequest`), and then each
action is one statement at the store and the code on its answer: counted
(`IncrementCounts`), or refused by the condition with the stored item returned,
which is `FindSaturated`, `AdoptStoredWindow` or `ChooseTransition` by the
branch, and after a choice `ApplyWindowTransition`, whose loss to another
caller is not an error. `BudgetIsSpent` is `refuseWhenBudgetSpent`, reached
before adopting as well as before a transition. `StoreFails` covers a failed
call, an unreadable item and the deadline's abort: the request ends degraded,
and its write may stay `adrift` and land later. The throttling client has the
library's retries turned off, so a write lands at most once. `FailOpen` is the
outermost catch, before the increment was sent or after it was counted.
Instances in `FastInstances` are `Skew` ticks ahead; the code's one deadline
per request (500 ms by default against windows of 60 s) is the number of ticks
a request may straddle.

### `RequestLedger`

Throttling without items, rollovers, retries or late writes: the requests
counted, by key and window. A request is decided at one moment, by a clock it
has read no more than a deadline ago, against the count of the window and of the
one before; a refusal has no other ground. One that is given up may have been
counted, or be counted a little later. `ThrottleRequests` implements it with its
own `counted`, `served` and `verdict`, so what an item holds is never seen to
differ from what was counted.

### `ThrottleReturns`

The same steps with a history per key: how long it has been silent (`idleFor`),
the latest window it has sent in (`sentIn`), and what its last refusal promised.
The instances' clocks differ here as well, so a caller that means to wait for a
time waits for `Skew` besides: `Patience` is two windows by any two clocks. A
caller honours a promise when its first request after the windows it had sent in
comes at or after the promised time, with no other of its key in flight
(`IsDue`). Every refusal is a promise, also that of a request which straddled a
boundary: it was computed from its own window while its caller had gone on to a
later one, and is short by the difference of the two. `IsDue` adds that
difference, and the properties fail without it, as they do without `Skew`.

### `RequestAdmission`

The limiter's map per instance, and what `decideFromDegraded` makes of a
request that the store could not decide, in the same turn as the failure.
`OneAtATime` is Lambda's rule that an instance serves one request at a time.

## 5. Registration

`accounts` maps an id to its account item, `locks` a normalized email to the id
its lock item names. An address is what its owner means and a spelling what a
client sends; a spelling keeps the three differences that `EmailAddress.parse`
removes: padding, case, and composed or decomposed marks. `Parse` applies the
code's three steps in the code's order. A digest tells which password made it,
an id is a fresh number.

| Action | Code |
| --- | --- |
| `RefuseBody` | a body or an address that does not parse |
| `BeginRegister`, `HashPassword` | `RegisterAccount.execute` up to the repository |
| `CreateCommits`, `CreateIsRefused`, `CreateConflicts` | `create`: both items or neither; the lock's condition, at its fixed place among the reasons; a conflict, with its attempts |
| `AnswerCreated` | the 201 |
| `BeginSignIn`, `ReadLock`, `ReadDummy`, `ReadAccount` | `verifyCredentials` over `findByEmail` and `findById`, with the dummy account for an unknown address |
| `Fail` | any await throws, or the answer is lost; the transaction may have landed |

`told` remembers the ids that a client received in a 201. A conflict needs
another request on the same lock. Where a successful sign-in goes on,
`RefreshRotation` takes over.

`AccountRegistry` is what this promises: one set of credentials, at most one for
an email, which a request consults or adds to at one moment between its question
and its answer; a request whose answer is lost may have been carried out.
`Registration` implements it with `credentials <- StoredCredentials`, those the
stored accounts stand for, and with a request's stage read as what has
been decided for it (`StatusOf`): a sign-in that found no lock has been denied
already, whatever is registered while it verifies the dummy.

## 6. What every request passes through

### `Environment`, `ProblemDetails`, `CallerIdentity`

Three modules of definitions without state. `Environment` is `parseAppConfig`:
a variable is unset, blank, digits with their number, a URL, the one word
`development`, or other text, which is all the schema tells apart; and it has
the policies and bounds that the modules build from the configuration.
`Sound` repeats what the specifications of those parts assume of their
constants (`Limit`, `Window`, `Ceiling`, `MaxAttempts` and so on).
`ProblemDetails` is the table of rows and the filter's lookup, down to the
status. `CallerIdentity` is `client-address.policy.ts`: the right-most part of
the header, an IPv6 address folded to its prefix.

### `ServiceRequests`

Per instance: `app`, the module-level promise of `lambda.ts`; `memo`, the
memoized keys; `request`, the request it serves. Shared: `parameters`, the two
parameters of Parameter Store, and `live`, the keys that signed a token which
has not expired.

| Action | Code |
| --- | --- |
| `Invoke` | `handler` up to the first await; an environment that is refused throws as the modules load, and the platform answers |
| `AppStarts`, `AppFailsToStart`, `CatchFailure` | the memoized promise, its failure, and the catch that resets it and answers with the envelope |
| `RefuseBody` | the body parser, before any guard |
| `Authenticate` | `JwtAuthGuard.canActivate`, one catch for everything |
| `Limit` | `ThrottleGuard`, then `AccountThrottleInterceptor`; the decision itself is `RequestAdmission`'s, here it passes the request on or refuses it |
| `PublishKeys`, `SignToken`, `Handle` | the handlers, as far as keys and statuses go |
| `Kill` | the platform ends an instance at any time |
| `PublishKey`, `SwitchSigningKey`, `RetireKey`, `ExpireTokens` | the operator's rotation in the order of `specs/001-authentication/brainstorm.md:397`, and time: a key is published before it signs, and dropped when it no longer signs and its tokens have expired. The wait in between is for the consumers' caches (300 seconds); instances keep their set for life, so it says nothing of them |

A read of a parameter is one step with the request that causes it, and its
outcome, a failure too, is memoized. `genuine` and `counted` are histories of
the request: that its token was signed here and live when it was verified, and
the keys it was counted under.

## 7. Catalog

`Catalog` has the partition of products, the walks of clients through it, and
the scripts. Products are numbers in the order of their UUIDv7 ids; ids of one
batch, or of two machines, come in no order. A page is one query: the next
products after the cursor up to the limit or to `Chunk`, where DynamoDB ends a
page at a megabyte; `NextCursors` is `LastEvaluatedKey`, which may or may not
be there when the limit falls on the end of the partition. A damaged item
(`Malformed`) fails its page. `stayed` remembers the products that have been
there since the walk began. `ensureTableExists` is three steps (create,
describe, update), and may be killed between any two and run again; a seeder
makes its ids first and then writes them one at a time. Products are removed by
hand.

## 8. Runs

Bounds are named in the modules' CONSTANTS. All runs but `catalog` say
`CHECK_DEADLOCK FALSE`: a clock or ids are bounded, and a bounded model ends
when they are used up; a fully failed `instance` run may also have nothing left
to do for its operator. The catalog can always go on, and TLC checks that it does. Slots
that are alike are symmetric in runs without liveness.

| Run | Shows | Bounds and why they are enough |
| --- | --- | --- |
| `rotation_safety` | `InductiveInv`, of which types are a part; `OneTipPerSignIn`; `RenewalsStayUnderCeiling`; `NoPhantomToken`; `ReuseKillsAccount`; `OnlyConflictsTurnAway`; `RevokedOnProofOrAfterSession`; `ImplementsSessions` | two requests, four tokens, a ttl of 1 under a ceiling of 2, two ticks: a race for one token, a replay against a renewal, a revocation in between, conflicts of both kinds, expiry by ttl and by ceiling, and collection, of a successor before its predecessor too, all occur |
| `rotation_conflicts` | `StrangersLearnNothing`; `RevokedOnlyOnProof`; `EveryRequestEnds` | two accounts and three tokens, so that a chain long enough to prove reuse is presented under either account and with either secret; conflicts are retried or reported as cancellations; a clock that stops before anything is collected |
| `throttle_skew` | types with counts at most the ceiling; `CountsAreExact`; `ServedWithinLimit`; `BoundaryBurstBelowTwice`; `BudgetSuffices`; `WindowNeverGoesBack`; `ImplementsLedger` | two requests at a time in two instances one tick apart, one aborted write at large, windows of three ticks and time enough to see the third begin and the first expire, limit 2 and ceiling 4 (the default factor): contested rollovers, saturation, a count carried over, late increments and transitions, and collection |
| `throttle_liveness` | `EveryRequestIsDecided` | clocks two windows apart, so that each instance resets what the other wrote |
| `returns_honest` | `IdleIsForgiven`; `RetryAfterIsHonest` | two instances one tick apart, two requests at a time, each of which may straddle a boundary; four windows of three ticks, limit 2 and ceiling 3, so that a wait ends inside the fresh window and not with it: enough to saturate one, be refused in it and in the next, and come back when the wait and the skew have passed. A write that lands after its request was aborted is left to `throttle_skew` and to the theorems |
| `admission_lambda` | types with the map's cap; `LocalCeilingHolds`; `TroubleAloneNeverRefuses` | two keys and room for one; two instances and two windows of two ticks; one write whose answer was lost, and which counts its request after the limiter has counted it too. The clocks agree here: the map follows its own instance's clock only, and the theorems hold for any |
| `registration` | types; `OneAccountPerAddress`; `LocksMatchAccounts`; `TakenIsTrue`; `RegisteredMaySignIn`; `EveryRequestIsAnswered`; `ImplementsRegistry` | two requests at a time for one address in its eight spellings, of letters that compose in both cases (`LowerOnly = {}`), two passwords, three ids, the code's three attempts: a race, a lost answer sent again, a sign-in between the two items of nobody |
| `instance` | types; `PoliciesAreSound`; `CountedOnce`; `NoPoisonedContainer`; `KeysAreReadLazily` | two instances and two keys, hence one rotation and the way back; a route of each kind (exempt, counted, signing, protected); an environment for every variable spoilt in each way, and a header with and without an entry of the client's |
| `catalog` | types; `WalkIsExact`; `SetupIsSafeToRepeat`; `WalksEnd` | two setups, two seeders, four products of which one is damaged, pages of one and of two, limits accepted and refused. A walk ends here also because the ids are finite and one that was shown is not made again; no page leading back is the code's part in it |

`throttle_skew` keeps the spread of clock readings (`Skew + Deadline`) below
one window. With a spread of a whole window three windows can meet at one item,
and both `BudgetSuffices` and `WindowNeverGoesBack` fail; by default the spread
is a second or so against sixty. `CollectionLag` is one tick: an item collected
the moment it expires can vanish after a request of its last tick has read its
clock and before that request's increment, and the count to be carried over with
it, so `CountsAreExact` fails with a lag of 0.

Fairness. `FairSpec` of `RefreshRotation` and of `Registration` assumes that
every call of a request in flight settles, and that of `ThrottleRequests` that
the store answers or the deadline's timer fires. All hold of the code: every
`await` is on a call of the AWS client, which has timeouts, or on the hasher,
and the function is killed at its time limit. Nothing is assumed of the order in which
conflicts, losses or other requests come. `Catalog` assumes of a client that it
goes on with a walk it has begun, as long as it is served; the program is not
what drives a walk.

### Divergences

Three runs end in a counterexample, each against a sentence of the repository.

| Run | The code | The sentence |
| --- | --- | --- |
| `refused_by_conflict` | `rotate` takes every cancelled transaction for a failed condition (`refresh-token.repository.ts:95`), and DynamoDB cancels for a write conflict too: of two requests that rotate one token at once, one is told that it has expired while it still works | `src/auth/domain/rotation-outcome.ts:35`, `src/auth/domain/ports/refresh-token-repository.ts:7` |
| `slow_recovery` | a caller that reached the ceiling and then stays silent for a whole window can still be refused | `specs/002-request-throttling/spec.md:234`, `:93` |
| `key_outage` | the guard answers 401 for every failure, the keys' own included, and a failed read stays memoized: one passing outage, and the instance refuses every genuine token until it ends | `src/auth/infrastructure/keys/verification-keys-parameter-missing.error.ts:6`, `src/auth/presentation/auth-problem-mappings.ts:67` |

Others were met while modelling and have no run of their own:

- `classifyReplay` treats a successor that is gone as proof of reuse
  (`rotate-refresh-token.usecase.ts:131`), where
  `src/auth/domain/rotation-outcome.ts:46` asks that the successor "has itself
  been rotated". DynamoDB deletes expired items in no particular order, so an
  expired successor that was never rotated can be gone while the token it
  replaced is still stored: with `RefreshTtl = 2` and `MaxTime = 4` in
  `RotationConflicts.cfg`, `RevokedOnlyOnProof` fails. What this may cost is
  bounded: `RevokedOnProofOrAfterSession` holds with collection in any order, so
  the sign-in in question is over; the account's other sign-ins are revoked with
  it.
- An instance keeps the trusted set it read first for as long as it lives
  (`parameter-store-verification-key-set.provider.ts:47`), and reads the signing
  key on its own. `specs/001-authentication/brainstorm.md:397` publishes a key,
  waits out the consumers' cache age and then switches, so that none has to
  reject valid tokens; that age is of the key document, and the service's own
  instances have none. However long the wait, an instance that read the set
  before refuses genuine tokens, those that it signs itself among them, until it
  ends. `SwitchSigningKey` therefore waits for no instance; with two keys and
  `Outages = FALSE` in `KeyOutage.cfg`, `OutageIsUnavailability` fails in this
  way.
- The repository's `README.md:118-125` and `:203` say that setups which race fail with
  "TimeToLive is already enabled", so that a parallel test run fails once on a
  new table. The code no longer does: `create-table.ts:72-78` tells that error
  from a real one and ends well, and `SetupIsSafeToRepeat` and
  `SetupMayBeRepeated` hold of exactly that race.
- An instance that is behind adopts the stored window and weighs its counts
  with its own elapsed fraction, so that the previous window hardly counts just
  after a boundary (`specs/002-request-throttling/spec.md:241`, AC-8). A request
  that straddles the boundary is weighed in the same way, and its `Retry-After`
  is computed from its own window: a caller that has meanwhile gone on to the
  next is told to come back up to a window too early, which
  `RetryAfterIsHonest` allows for and bounds.
- `EmailAddress.parse` composes before it lower-cases (`email-address.ts:43`).
  A letter such as j with caron has a composed form in lower case only, so its
  decomposed upper-case spelling ends decomposed, and one address gets two
  locks (`email-address.ts:7`). `LowerOnly = {a1}` in `Registration.cfg` makes
  `OneAccountPerAddress` fail.
- A refused environment throws as the modules load, before the handler's catch:
  the client has the platform's 502 and not the 503 of
  `specs/001-authentication/spec.md:196` (AC-23). A body that is not JSON is
  answered 503 by the default row, before the guards.
- A product written later may have the smaller id (two machines, or one
  millisecond) and lands in pages a walk has already been given
  (`specs/003-catalog-listing/spec.md:101`, AC-5); `WalkIsExact` speaks of
  products that were there when the walk began. Running the seeder again after
  it failed half way adds a batch and does not complete the first.

Two neighbours of the checked cases, seen by changing one constant: with
`OneAtATime = FALSE` in `AdmissionLambda.cfg` (the process `main.ts` starts), a
request of the window that ended deletes the limiter's entry of the new one and
its ceiling starts over; with `CollectionLag = 0` in `RotationSafety.cfg`, an
item collected between a request's read and its transaction is recreated half
empty, and two holders of copies can each commit a successor.

## 9. Proofs

Eight modules, each of an inductive invariant `I` with `Init => I`,
`I /\ [Next]_vars => I'` and what follows from `I`. There is a lemma per action,
and under it a step per conjunct that the action disturbs. Every safety
invariant, action property and refinement that a passing run checks is a theorem
here. The hypotheses, where a theorem has any besides the constants'
assumptions, are named definitions:

| Hypothesis | Says | Why it holds of the service |
| --- | --- | --- |
| `CollectedAfterRequestsEnd` | an expired item is collected no sooner than a request's life (for a counter: its deadline) after it expires | DynamoDB's ttl deletion takes minutes to days; a request lives 30 seconds, its calls on the counter half a second |
| `ClocksAgree` | `Skew + Deadline < Window` | windows last 60 seconds by default, the deadline 500 ms, and the clocks of the platform are kept within less than a second. The configuration does not compare the two: a window of one second under a deadline of two is accepted |
| `BudgetCoversRollovers` | three attempts or more, and a window no shorter than two deadlines and the skew | the same defaults, and `DEFAULT_THROTTLE_STORE_MAX_ATTEMPTS` |
| `OneAtATime` | an instance serves one request at a time | Lambda's rule; `main.ts` is outside it |
| `EveryLetterComposes` | letters compose in upper case as in lower case | not true of a few letters: see above |

### `RefreshRotationProofs`

For any accounts, tokens, requests and bounds: `InductiveInvHolds`
(`Spec => []InductiveInv`), `TypeCorrect` (`TypeOK`), `NoSecondChain`
(`OneTipPerSignIn`), under the constants' assumptions and
`CollectedAfterRequestsEnd`, that an expired item is collected no sooner than a
request's life after its expiry (DynamoDB collects typically within days; a
request lives 30 seconds).

`OneTipPerSignIn` is not inductive: from an arbitrary state a request could
commit a successor for a token whose item is not the one it read, or with an id
that is already in use. `InductiveInv` adds what rules this out. `TokenOK`:
ids come from the generator, and an item agrees with its session.
`CopyIsStored`: while a request is minting or rotating, the item behind its
copy is still stored with the same account, generation, start and expiry; this
is where the assumption on collection enters, since the copy was unexpired when
it was read. `SuccessorIsReserved` and `SuccessorsDiffer`: the minted id
belongs to no item and to no other request. The transaction's condition that
the presented item is not retired then does the rest: a commit retires the one
tip of a session and adds one. Steps that change no item go through
`QuietStep`. TLC checks `InductiveInv` in `rotation_safety`.

### `RefreshSessionsProofs`

From the same invariant and under the same hypothesis:
`RotationImplementsSessions` (`ImplementsSessions`), `RenewalsNeverOutlastSignIn`
(`RenewalsStayUnderCeiling`), `DeliveredTokensWereStored` (`NoPhantomToken`),
`StrangersStopAtFirstRead` (`StrangersLearnNothing`), `ReuseEndsEverySession`
(`ReuseKillsAccount`), `NothingElseTurnsAway` (`OnlyConflictsTurnAway`). Four
kinds of step write to the
store (a token issued, a rotation committed, a generation incremented, an item
collected), and a lemma says of each what it leaves there; each is one step of
the abstract sessions, and every other step is none. `PresentsOwnToken` and
`RereadTokenIsDead` are what a request has learnt of its token by the time it
is refused, if its transaction was not cancelled for a conflict: with that the
token works, and is turned away all the same (`refused_by_conflict`).

`RevocationSparesRunningSession` (`RevokedOnProofOrAfterSession`) says how far the
divergence over collected successors goes: an account may be revoked over a
successor that is merely absent, but never while the sign-in it belongs to has a
token left. Its invariant `ReplaySound` counts the collected tokens in: of all
those of a sign-in only the last was never rotated (`OneEnd`), what is stored
tells which were rotated and into which (`RetiredItemsSound`), and the copy a
request classifies names its token's successor (`CopiesSound`). A successor that
is absent and was not rotated is therefore that last one, and nothing of the
sign-in is outstanding (`ProofStep`).

### `ThrottleProofs`

`ThrottleTypeCorrect` (`TypeOK`, so no count passes the ceiling) needs no
hypothesis. Under `ClocksAgree` and `CollectedAfterRequestsEnd`:
`ThrottleInvariant`, `CountsStayExact` (`CountsAreExact`), `LimitIsKept`
(`ServedWithinLimit`), `NoDoubleBurst` (`BoundaryBurstBelowTwice`),
`WindowsMoveForward` (`WindowNeverGoesBack`); with `BudgetCoversRollovers` also
`ThreeAttemptsSuffice` (`BudgetSuffices`).

`CountsAreExact` is not inductive: an item could be behind the window of
requests counted elsewhere, be missing while what it counted still matters, or
be moved back by a transition that was chosen long ago. `ThrottleInv` says that
nothing is counted beyond an item's window, that where no item is, what was
counted has expired (`NothingLost`), and that every request and every write on
its way aims at a window which some clock of its lifetime reads (`AimSound`) and
transitions forwards only (`BranchSound`). Two such aims are at most a window
apart, which is what `ClocksAgree` buys: `reset-item` is never chosen. The
limit follows because an admission is counted in the item it was read from
(`AdmissionWeighs`). The budget has an invariant of its own, `AttemptSound`: an
attempt is lost only to a rollover, and two rollovers bring the item to the
last window that can be written while the request lives.

`RequestsImplementLedger` (`ImplementsLedger`) needs to know where a request's
clock reading stands to the window it ends up in: `WeighedByClock` says that it
began in the window of that reading and can only have moved on by one, since by
`ClocksAgree` no live request meets a window two ahead (`NextStart`). An
increment is then an entry of the ledger below its ceiling, weighed against
exactly what the ledger holds (`IncrementIsEntered`), and a saturated item is a
saturated ledger. `AdmissionsAreDecisions` and `ReturnsAreRequests` carry this,
and every theorem of `ThrottleRequests`, to the modules that extend it.

### `ReturnsProofs`

`ReturnsTypeCorrect` (`ReturnsTypeOK`) and `ReturnsAreRequests` (the history
adds no step) need no hypothesis; the types are proved and left out of the run.
Under `ClocksAgree` and
`CollectedAfterRequestsEnd`, and whatever `Skew` is: `ReturnsInvariant`, `IdleCallersAreForgiven`
(`IdleIsForgiven`), `RetryAfterKeepsItsPromise` (`RetryAfterIsHonest`).

A window is touched by a key that has counted in it, has its item at it, or
aims a request or a write at it. Only a request that comes touches a new one
(`RequestsSettle`, `WritesSettle`, `CollectionSettles`). So no window is touched
that some clock had not reached when the key's last request came (`QuietSound`),
none after the latest the key has sent in (`SentSound`), and a promise that
stands leads, by the slowest clock, past the window it was computed from
(`PromiseSound`). A request that waited is alone, counts in its own window, and
reads a clock by which all that was counted before it is past (`WaitSound`, by
`QuietIsPast`). The arithmetic does the rest:
`RetryLeadsIntoFreshWindow` says that neither bound of `computeRetryAfterSeconds`
cuts it, and `FreshWindowAdmits` that a single request is then admitted after
any window, saturated or not.

### `AdmissionProofs`

`AdmissionTypeCorrect` (`AdmissionTypeOK`, so the map keeps to its cap) needs no
hypothesis. Under `OneAtATime`: `AdmissionInvariant`, `LocalCeilingIsKept`
(`LocalCeilingHolds`), `OutagesDoNotRefuse` (`TroubleAloneNeverRefuses`). The
invariant says that an entry counts what was admitted in its window up to the
ceiling (`EntrySound`), and that a request began no earlier than any window its
instance holds an entry of (`RequestInOrder`), so that it never deletes the
entry of a window that is still running.

### `RegistrationProofs`

For any addresses, passwords, requests and bounds: `RegistryInvHolds`,
`RegistrationTypeCorrect` (`TypeOK`), `LocksAndAccountsAgree`
(`LocksMatchAccounts`), `RefusedMeansTaken` (`TakenIsTrue`); and, where every
letter composes in upper case as in lower case (`EveryLetterComposes`),
`NobodyRegistersTwice` (`OneAccountPerAddress`) and `RegisteredIsNotRefused`
(`RegisteredMaySignIn`). Without that condition the last two are false, as said
above.

`RegistryInv` adds to the properties what a request knows: the id it is
creating was handed out, is unused, and is no other request's (`IdIsReserved`,
`IdsDiffer`), so a transaction never overwrites an account; and the account it
was promised is stored under its normalized email (`PromiseIsStored`), so that
neither the dummy path nor a failed verification is open to it. `OthersKeep`
carries both past the steps of other requests, because nothing stored is ever
changed or removed.

`RegistrationImplementsRegistry` (`ImplementsRegistry`) follows from the same
invariant without hypothesis: a commit, answered or not, is the one step that
adds credentials, and each reading of a lock or an account is the moment of a decision or none.

### `ServiceProofs`

For any environments, instances, keys, addresses and headers:
`ServiceInvHolds`, `ServiceTypeCorrect` (`TypeOK`),
`AcceptedConfigurationsAreSound` (`PoliciesAreSound`),
`NobodyChoosesTheirKey` (`CountedOnce`), `FailedStartIsForgotten`
(`NoPoisonedContainer`), `NoRequestReadsAKeyEarly` (`KeysAreReadLazily`). The assumptions are those of the modules: the
constants' types, and that no request is `None` and no key or set of keys is
the mark of an unread or failed memo.

`GuardedOK` says what
each stage of a request has behind it. `HopDecides` is the lemma about headers:
whatever sequence the client sends, the identity is that of the hop after it.
`AcceptedIsSound` is the one about the environment: whatever each variable
holds, an accepted configuration is sound in every scope and route group.

### `CatalogProofs`

For any products, damaged or not, page sizes, walks, setups and seeders, with no
hypothesis: `CatalogTypeCorrect` (`TypeOK`), `CatalogInvariant`, `WalksAreExact`
(`WalkIsExact`), `SetupMayBeRepeated` (`SetupIsSafeToRepeat`). `WalkRight` is the
invariant of a walk: the cursor bounds what was shown, and nothing that stayed
lies below it unshown (`CursorDivides`). A page keeps it because it reads the
first products beyond the cursor (`PageGoesOn`) and shows them in their order
(`PagesAreInOrder`, over the places `Place` gives them).

### What stays with TLC

`EveryRequestEnds`, `EveryRequestIsDecided`, `EveryRequestIsAnswered` and
`WalksEnd` are liveness, which the prover does not handle (fairness, ENABLED).

## 10. Not modelled

- Cryptography: secrets are known or not, ids are fresh, passwords match or
  not, a token names the key that signed it.
- Formatting: titles and details of problems, DTOs, headers, log events and
  correlation ids.
- `generate-dev-keys` and `watch-status`: the one writes two files, the other
  polls a page.
- Terraform, the gates and the generators of documents under `.specify`: they
  run outside the service, read or write files, and keep no state the service
  uses.
- A change of a window's length between deployments, and floating-point
  rounding in the estimate.
