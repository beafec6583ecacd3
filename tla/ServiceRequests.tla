--------------------------- MODULE ServiceRequests ---------------------------
(***************************************************************************)
(* What every request passes through in an instance of the function: the   *)
(* handler and its memoized application (lambda.ts), the guards and the    *)
(* interceptor in the order Nest runs them, the memoized keys, and the     *)
(* handlers as far as their answers go.  An instance serves one request at *)
(* a time; several instances share Parameter Store, where an operator      *)
(* rotates the signing key in the order the design lays down: publish the  *)
(* new public key, wait out the age consumers may cache the set for, then  *)
(* sign with it, and withdraw the old one when the last token it signed    *)
(* has expired (specs/001-authentication/brainstorm.md:397).  That order   *)
(* says nothing of the instances, whose memo has no age.                   *)
(*                                                                         *)
(* Each action is the code from one await to the next.  What a handler     *)
(* does to the table is the subject of the other modules: here it succeeds *)
(* or throws one of its errors.                                            *)
(***************************************************************************)
EXTENDS Environment, ProblemDetails, CallerIdentity

CONSTANTS
  Environments,  \* the environments a deployment may have
  Instances,     \* of the function
  Routes,        \* bound: the routes requests are sent to
  Keys,          \* RS256 key pairs, named by their kid
  InitialKey,    \* the one that signs at first
  Peers,         \* addresses the load balancer accepts connections from
  Headers,       \* X-Forwarded-For as clients send it
  Account,       \* the account of the tokens
  Outages,       \* whether Parameter Store may fail
  Unread,        \* a memo that nothing was read into
  Failed,        \* a rejected promise, memoized like any other
  None           \* no request yet

VARIABLES
  config,      \* what parseAppConfig made of the environment
  parameters,  \* Parameter Store: the signing key and the trusted set
  live,        \* keys with which some unexpired access token is signed
  app,         \* instance -> its module-level appPromise
  memo,        \* instance -> the memoized keys of its application
  request      \* instance -> the request it serves, or served last

vars == <<config, parameters, live, app, memo, request>>

\* The decorators of the controllers, and what their handlers throw.
Public(group, signs, success, problems) ==
  [public |-> TRUE, exempt |-> FALSE, group |-> group,
   signs |-> signs, success |-> success, problems |-> problems]

Exempt == [Public("default", FALSE, 200, {}) EXCEPT !.exempt = TRUE]

Protected(problems) == [Public("default", FALSE, 200, problems) EXCEPT !.public = FALSE]

Storage == "DynamoDBServiceException"

HealthRoute == Exempt
OpenApiRoute == Exempt
MeRoute == Protected({})
ProductsRoute == Protected({"InvalidCursorError", "InvalidPageLimitError",
                            "CatalogQueryFailedError"})

RouteTable ==
  [health   |-> HealthRoute,
   openapi  |-> OpenApiRoute,
   jwks     |-> Public("jwks", FALSE, 200, {}),
   register |-> Public("credentials", FALSE, 201,
                       {"InvalidEmailAddressError", "InvalidPasswordLengthError",
                        "EmailAlreadyRegisteredError", Storage}),
   login    |-> Public("credentials", TRUE, 200,
                       {"InvalidEmailAddressError", "InvalidPasswordLengthError",
                        "InvalidCredentialsError", Storage}),
   refresh  |-> Public("refresh", TRUE, 200,
                       {"InvalidRefreshTokenCredentialError", "RefreshRejectedError",
                        "RefreshTokenAccountNotFoundError", Storage}),
   me       |-> MeRoute,
   products |-> ProductsRoute]

Route(r) == RouteTable[r.route]

\* A token is named by the key it is signed with; one that does not parse
\* counts as none, and a forged one names a trusted kid.
Tokens == Keys \cup {"none", "forged"}

\* A counter's key: scope, identity, route group.
CounterKeys == Scopes \X ([v6 : {TRUE}, prefix : Prefixes] \cup Address \cup {Missing, Account})
                      \X RouteGroups

Stages == {"awaiting", "limiting", "handling", "done"}

Statuses == {0, 200, 201, 401, 409, 422, 429, 502, 503}

Request ==
  [route   : Routes,
   token   : Tokens,
   peer    : Peers,
   sent    : Headers,
   stage   : Stages,
   genuine : BOOLEAN,  \* history: its token was signed here and live when verified
   counted : Seq(CounterKeys),  \* the keys it was counted under
   status  : Statuses]

ASSUME ServiceAssumption ==
  /\ Environments \subseteq RawEnvironment
  /\ Routes \subseteq DOMAIN RouteTable
  /\ InitialKey \in Keys
  /\ Peers \subseteq Address
  /\ Headers \subseteq Seq(Address \cup {Blank})
  /\ <<>> \in Headers
  /\ Outages \in BOOLEAN
  /\ Unread # Failed
  /\ Keys \cap {Unread, Failed} = {}
  /\ \A keys \in SUBSET Keys : keys # Unread /\ keys # Failed
  /\ None \notin Request

\* What a deployment may start from.
Configurations == {ParseAppConfig(env) : env \in Environments}

NoMemo == [signing |-> Unread, trusted |-> Unread]

TypeOK ==
  /\ config \in Configurations
  /\ parameters \in [signing : Keys, trusted : SUBSET Keys]
  /\ live \subseteq Keys
  /\ app \in [Instances -> {"none", "starting", "ready", "rejected"}]
  /\ memo \in [Instances -> [signing : Keys \cup {Unread, Failed},
                             trusted : (SUBSET Keys) \cup {Unread, Failed}]]
  /\ request \in [Instances -> Request \cup {None}]
  /\ \A i \in Instances :
       request[i] # None => (request[i].stage = "done" <=> request[i].status # 0)

Init ==
  /\ config \in Configurations
  /\ parameters = [signing |-> InitialKey, trusted |-> {InitialKey}]
  /\ live = {}
  /\ app = [i \in Instances |-> "none"]
  /\ memo = [i \in Instances |-> NoMemo]
  /\ request = [i \in Instances |-> None]

Idle(i) == request[i] # None => request[i].stage = "done"

\* Mutant: an answer leaves the request open.
Answered_Open(r, status) == [r EXCEPT !.status = status]

\* Bound: what the client sent is forgotten once nothing reads it any more.
Forgotten(r) == [r EXCEPT !.token = "none", !.sent = <<>>]

\* Of an answer, the history that its status leaves in doubt is kept.
Answered(r, status) ==
  [Forgotten(r) EXCEPT !.stage = "done", !.status = status,
                       !.genuine = @ /\ status \in {401, 429},
                       !.counted = IF status = 429 THEN @ ELSE <<>>]

Answer(i, status) == request' = [request EXCEPT ![i] = Answered(@, status)]

-----------------------------------------------------------------------------
(* The handler of lambda.ts                                                *)

\* An invocation.  The modules are loaded first if they are not: a refused
\* environment makes that throw, and the platform answers.  Then the promise
\* of the application is created, unless there is one.
Invoke(i, route, token, peer, sent) ==
  /\ Idle(i)
  /\ LET r == [route |-> route, token |-> token, peer |-> peer, sent |-> sent,
               stage |-> "awaiting", genuine |-> FALSE, counted |-> <<>>, status |-> 0]
     IN  IF config = Invalid
           THEN /\ request' = [request EXCEPT ![i] = Answered(r, 502)]
                /\ UNCHANGED app
           ELSE /\ request' = [request EXCEPT ![i] = r]
                /\ app' = [app EXCEPT ![i] = IF @ = "none" THEN "starting" ELSE @]
  /\ UNCHANGED <<config, parameters, live, memo>>

\* The memo of a parameter: one read, kept whatever came of it.
Memoized(cached, value) ==
  IF cached # Unread THEN {cached} ELSE {value} \cup (IF Outages THEN {Failed} ELSE {})

LocalKeys == config.keySource = "filesystem"

SigningParameter == IF LocalKeys THEN InitialKey ELSE parameters.signing

TrustedParameter == IF LocalKeys THEN {InitialKey} ELSE parameters.trusted

\* Mutant: the application reads its signing key as it starts.
KeysReadAtStart_Signing == Memoized(Unread, SigningParameter)

\* bootstrapLambdaHandler constructs the providers; nothing is read yet.
KeysReadAtStart == {Unread}

AppStarts(i) ==
  /\ app[i] = "starting"
  /\ app' = [app EXCEPT ![i] = "ready"]
  /\ \E key \in KeysReadAtStart : memo' = [memo EXCEPT ![i].signing = key]
  /\ UNCHANGED <<config, parameters, live, request>>

AppFailsToStart(i) ==
  /\ app[i] = "starting"
  /\ app' = [app EXCEPT ![i] = "rejected"]
  /\ UNCHANGED <<config, parameters, live, memo, request>>

\* Mutant: the catch answers, and keeps the promise.
AfterFailure_Kept(promise) == promise

\* The catch of the handler: whatever failed, the next invocation starts over.
AfterFailure(promise) == "none"

\* The start, or the forwarding of the request, rejected: the envelope.
CatchFailure(i) ==
  /\ ~Idle(i)
  /\ app[i] \in {"ready", "rejected"}
  /\ app' = [app EXCEPT ![i] = AfterFailure(@)]
  /\ memo' = [memo EXCEPT ![i] = NoMemo]
  /\ Answer(i, 503)
  /\ UNCHANGED <<config, parameters, live>>

\* The platform ends an instance, idle or not.
Kill(i) ==
  /\ app[i] # "none"
  /\ app' = [app EXCEPT ![i] = "none"]
  /\ memo' = [memo EXCEPT ![i] = NoMemo]
  /\ request' = [request EXCEPT ![i] = None]
  /\ UNCHANGED <<config, parameters, live>>

-----------------------------------------------------------------------------
(* Guards, interceptor and handlers                                        *)

Serving(i, stage) == ~Idle(i) /\ app[i] = "ready" /\ request[i].stage = stage

\* A body that is not JSON is refused before the guards; no row names it.
RefuseBody(i) ==
  /\ Serving(i, "awaiting")
  /\ request[i].route \in {"register", "login", "refresh"}
  /\ Answer(i, StatusOf("BadRequestException"))
  /\ UNCHANGED <<config, parameters, live, app, memo>>

IsPublicRoute(r) == Route(r).public

\* jwtVerify with the keys that resolve a kid.
Verifies(r, keys) == keys # Failed /\ r.token \in keys /\ r.token \in live

\* JwtAuthGuard, where the route is not public: a failure of any kind, also
\* of the keys, is a 401.
Authenticate(i) ==
  /\ Serving(i, "awaiting")
  /\ ~IsPublicRoute(request[i])
  /\ LET r == request[i]
     IN  IF r.token = "none"
           THEN Answer(i, StatusOf("UnauthorizedException")) /\ UNCHANGED memo
         ELSE \E keys \in Memoized(memo[i].trusted, TrustedParameter) :
                /\ memo' = [memo EXCEPT ![i].trusted = keys]
                /\ request' = [request EXCEPT ![i] =
                     LET checked == [r EXCEPT !.genuine = r.token \in live]
                     IN  IF Verifies(r, keys) THEN [checked EXCEPT !.stage = "limiting"]
                         ELSE Answered(checked, StatusOf("UnauthorizedException"))]
  /\ UNCHANGED <<config, parameters, live, app>>

\* The client's portion of the header, then the hop.
Forwarded(r) == Append(r.sent, r.peer)

AddressKey(r) == <<"ip", DeriveClientAddressIdentity(Forwarded(r)), Route(r).group>>
AccountKey(r) == <<"account", Account, Route(r).group>>

\* Mutant: the guard leaves out the exemption alone.
GuardCounts_Protected(r) == ~Route(r).exempt

\* ThrottleGuard.canActivate
GuardCounts(r) == ~Route(r).exempt /\ Route(r).public

\* AccountThrottleInterceptor.intercept
InterceptorCounts(r) == ~Route(r).exempt /\ ~Route(r).public

\* Each of the two counts the request by DecideRequestAdmission, which passes
\* it on or has it refused; nothing that others see happens between them.
Limit(i) ==
  /\ Serving(i, "awaiting") => IsPublicRoute(request[i])
  /\ Serving(i, "awaiting") \/ Serving(i, "limiting")
  /\ LET r == request[i]
         counted == [Forgotten(r) EXCEPT !.counted =
                       (IF GuardCounts(r) THEN <<AddressKey(r)>> ELSE <<>>)
                         \o (IF InterceptorCounts(r) THEN <<AccountKey(r)>> ELSE <<>>)]
     IN  \/ request' = [request EXCEPT ![i] = [counted EXCEPT !.stage = "handling"]]
         \/ /\ counted.counted # <<>>
            /\ request' = [request EXCEPT ![i] =
                             Answered(counted, StatusOf("RateLimitExceededError"))]
  /\ UNCHANGED <<config, parameters, live, app, memo>>

\* JwksController: the set as it was read once.
PublishKeys(i) ==
  /\ Serving(i, "handling")
  /\ request[i].route = "jwks"
  /\ \E keys \in Memoized(memo[i].trusted, TrustedParameter) :
       /\ memo' = [memo EXCEPT ![i].trusted = keys]
       /\ Answer(i, IF keys = Failed THEN StatusOf("Error") ELSE Route(request[i]).success)
  /\ UNCHANGED <<config, parameters, live, app>>

\* Rs256AccessTokenSigner.sign, at the end of a sign-in or a renewal.
SignToken(i) ==
  /\ Serving(i, "handling")
  /\ Route(request[i]).signs
  /\ \E key \in Memoized(memo[i].signing, SigningParameter) :
       /\ memo' = [memo EXCEPT ![i].signing = key]
       /\ live' = IF key = Failed THEN live ELSE live \cup {key}
       /\ Answer(i, IF key = Failed THEN StatusOf("Error") ELSE Route(request[i]).success)
  /\ UNCHANGED <<config, parameters, app>>

\* The handlers that end without a key.
Handle(i) ==
  /\ Serving(i, "handling")
  /\ \/ \E problem \in Route(request[i]).problems : Answer(i, StatusOf(problem))
     \/ /\ ~Route(request[i]).signs
        /\ request[i].route # "jwks"
        /\ Answer(i, Route(request[i]).success)
  /\ UNCHANGED <<config, parameters, live, app, memo>>

-----------------------------------------------------------------------------
(* The operator, and time                                                  *)

\* The new key is published alongside those that are.
PublishKey(k) ==
  /\ parameters' = [parameters EXCEPT !.trusted = @ \cup {k}]
  /\ UNCHANGED <<config, live, app, memo, request>>

\* Once it is published and the consumers' cache age has passed, which ends
\* no memo of an instance.
SwitchSigningKey(k) ==
  /\ k \in parameters.trusted
  /\ parameters' = [parameters EXCEPT !.signing = k]
  /\ UNCHANGED <<config, live, app, memo, request>>

\* Once the last token it signed has expired; an instance that has read it
\* may sign another all the same.
RetireKey(k) ==
  /\ k # parameters.signing
  /\ k \notin live
  /\ parameters' = [parameters EXCEPT !.trusted = @ \ {k}]
  /\ UNCHANGED <<config, live, app, memo, request>>

\* Every token signed with k so far has passed its exp.
ExpireTokens(k) ==
  /\ k \in live
  /\ live' = live \ {k}
  /\ UNCHANGED <<config, parameters, app, memo, request>>

-----------------------------------------------------------------------------

\* Bound: only a protected route is sent a token, and only a counted public
\* one a header.
Invocations(i) ==
  \E route \in Routes, token \in Tokens, peer \in Peers, sent \in Headers :
    /\ RouteTable[route].public => token = "none"
    /\ ~RouteTable[route].public \/ RouteTable[route].exempt => sent = <<>>
    /\ Invoke(i, route, token, peer, sent)

Serve(i) ==
  \/ AppStarts(i) \/ AppFailsToStart(i) \/ CatchFailure(i)
  \/ RefuseBody(i) \/ Authenticate(i) \/ Limit(i)
  \/ PublishKeys(i) \/ SignToken(i) \/ Handle(i)

Operate(k) ==
  \/ ~LocalKeys /\ (PublishKey(k) \/ SwitchSigningKey(k) \/ RetireKey(k))
  \/ ExpireTokens(k)

Next ==
  \/ \E i \in Instances : Invocations(i) \/ Serve(i) \/ Kill(i)
  \/ config # Invalid /\ \E k \in Keys : Operate(k)

Spec == Init /\ [][Next]_vars

-----------------------------------------------------------------------------
(* Properties                                                              *)

(* A configuration that is accepted gives every part what its own          *)
(* specification assumes: positive limits, windows, lifetimes and budgets, *)
(* and a ceiling that is not below its limit (parseAppConfig,              *)
(* resolveThrottlePolicy).                                                 *)
PoliciesAreSound == config # Invalid => Sound(config)

(* Every request that is decided or handled was counted once, under the    *)
(* one key that is its own: the account where there is a token, else the   *)
(* peer's address with nothing of what the client sent; exempt routes and  *)
(* requests without a genuine token on a protected route, under none       *)
(* (ThrottleGuard, AccountThrottleInterceptor, client-address.policy).     *)
CountedOnce ==
  \A i \in Instances : LET r == request[i] IN
    r # None =>
      /\ r.stage = "handling" \/ r.status = 429 =>
           r.counted = IF Route(r).exempt THEN <<>>
                       ELSE IF Route(r).public
                         THEN <<<<"ip", FoldIpv6Prefix(r.peer), Route(r).group>>>>
                       ELSE <<<<"account", Account, Route(r).group>>>>
      /\ ~Route(r).public /\ ~r.genuine => r.stage # "handling" /\ r.counted = <<>>

(* A start that failed is not served again: an instance waiting for its    *)
(* next invocation never keeps a rejected application (lambda.ts).         *)
NoPoisonedContainer ==
  \A i \in Instances : Idle(i) => app[i] # "rejected"

(* Keys are read by the requests that need them and by no others: the      *)
(* signing key to sign, the trusted set to verify a token or to publish    *)
(* it.  Health therefore survives any outage of Parameter Store (FR25).    *)
KeysAreReadLazily ==
  [][\A i \in Instances :
       /\ memo[i].signing = Unread /\ memo'[i].signing # Unread =>
            Serving(i, "handling") /\ Route(request[i]).signs
       /\ memo[i].trusted = Unread /\ memo'[i].trusted # Unread =>
            ~Idle(i) /\ (request[i].route = "jwks" \/ ~Route(request[i]).public)]_vars

(* An outage of the key store is unavailability, and not the caller's      *)
(* fault: a genuine token is never answered 401.                           *)
OutageIsUnavailability ==
  \A i \in Instances : request[i] # None /\ request[i].genuine => request[i].status # 401

=============================================================================
