----------------------------- MODULE ServiceProofs -----------------------------
(***************************************************************************)
(* Proofs about ServiceRequests: what holds for every environment a        *)
(* deployment may be given, and for every header a client may send.        *)
(***************************************************************************)
EXTENDS ServiceRequests, TLAPS

\* Every number is positive, by the schema or by its default.
LEMMA NumbersArePositive ==
  ASSUME NEW env \in RawEnvironment, Accepts(env), NEW v \in Numbers
  PROVE  NumberOf(env, v) \in Nat \ {0}
<1>1. env[v] \in Raw
  BY DEF RawEnvironment, Variables
<1>2. CASE Absent(env[v])
  BY <1>2 DEF NumberOf, Numbers, Default
<1>3. CASE ~Absent(env[v])
  BY <1>1, <1>3 DEF NumberOf, Accepts, NumberIsAccepted, Raw
<1> QED
  BY <1>2, <1>3

LEMMA ProductKeepsOrder ==
  ASSUME NEW limit \in Nat \ {0}, NEW factor \in Nat \ {0}
  PROVE  limit * factor >= limit
  OBVIOUS

\* A limit is positive and its ceiling is not below it, in every scope and
\* group.
LEMMA PoliciesFromNumbers ==
  ASSUME NEW env \in RawEnvironment, Accepts(env),
         NEW scope \in Scopes, NEW group \in RouteGroups
  PROVE  LET config_ == ToAppConfig(env)
             policy == ResolveThrottlePolicy(config_, scope, group)
             bounds == StoreBounds(config_, scope, group)
         IN  /\ policy.limit \in Nat \ {0}
             /\ bounds.windowSeconds \in Nat \ {0}
             /\ bounds.saturationCeiling >= policy.limit
             /\ bounds.maxAttempts \in Nat \ {0}
<1> DEFINE c == ToAppConfig(env)
           limit == IF scope = "account" THEN c.throttleAuthenticatedLimit
                                         ELSE PublicLimit(c, group)
           factor == c.throttleCounterSaturationFactor
           policy == ResolveThrottlePolicy(c, scope, group)
<1>1. /\ c.throttleCredentialsLimit = NumberOf(env, "THROTTLE_CREDENTIALS_LIMIT")
      /\ c.throttleRefreshLimit = NumberOf(env, "THROTTLE_REFRESH_LIMIT")
      /\ c.throttleJwksLimit = NumberOf(env, "THROTTLE_JWKS_LIMIT")
      /\ c.throttleAuthenticatedLimit = NumberOf(env, "THROTTLE_AUTHENTICATED_LIMIT")
      /\ factor = NumberOf(env, "THROTTLE_COUNTER_SATURATION_FACTOR")
      /\ c.throttleStoreMaxAttempts = NumberOf(env, "THROTTLE_STORE_MAX_ATTEMPTS")
  BY DEF ToAppConfig
<1>2. /\ c.throttleCredentialsWindowSeconds = NumberOf(env, "THROTTLE_CREDENTIALS_WINDOW_SECONDS")
      /\ c.throttleRefreshWindowSeconds = NumberOf(env, "THROTTLE_REFRESH_WINDOW_SECONDS")
      /\ c.throttleJwksWindowSeconds = NumberOf(env, "THROTTLE_JWKS_WINDOW_SECONDS")
      /\ c.throttleAuthenticatedWindowSeconds = NumberOf(env, "THROTTLE_AUTHENTICATED_WINDOW_SECONDS")
  BY DEF ToAppConfig
<1>3. {"THROTTLE_CREDENTIALS_LIMIT", "THROTTLE_REFRESH_LIMIT", "THROTTLE_JWKS_LIMIT",
       "THROTTLE_AUTHENTICATED_LIMIT", "THROTTLE_COUNTER_SATURATION_FACTOR",
       "THROTTLE_STORE_MAX_ATTEMPTS", "THROTTLE_CREDENTIALS_WINDOW_SECONDS",
       "THROTTLE_REFRESH_WINDOW_SECONDS", "THROTTLE_JWKS_WINDOW_SECONDS",
       "THROTTLE_AUTHENTICATED_WINDOW_SECONDS"} \subseteq Numbers
  BY DEF Numbers, Default
<1>4. limit \in Nat \ {0}
  BY <1>1, <1>3, NumbersArePositive DEF PublicLimit, RouteGroups
<1>5. PublicWindowSeconds(c, group) \in Nat \ {0} /\ c.throttleAuthenticatedWindowSeconds \in Nat \ {0}
  BY <1>2, <1>3, NumbersArePositive DEF PublicWindowSeconds, RouteGroups
<1>6. factor \in Nat \ {0} /\ c.throttleStoreMaxAttempts \in Nat \ {0}
  BY <1>1, <1>3, NumbersArePositive
<1>7. /\ policy.limit = limit
      /\ policy.windowSeconds = IF scope = "account" THEN c.throttleAuthenticatedWindowSeconds
                                                     ELSE PublicWindowSeconds(c, group)
      /\ policy.saturationCeiling = limit * factor
  BY DEF ResolveThrottlePolicy
<1>8. limit * factor >= limit
  BY <1>4, <1>6, ProductKeepsOrder
<1>9. /\ StoreBounds(c, scope, group).windowSeconds = policy.windowSeconds
      /\ StoreBounds(c, scope, group).saturationCeiling = policy.saturationCeiling
      /\ StoreBounds(c, scope, group).maxAttempts = c.throttleStoreMaxAttempts
  BY DEF StoreBounds
<1> QED
  BY <1>4, <1>5, <1>6, <1>7, <1>8, <1>9
\* Whatever is accepted is sound, however the environment is written.
LEMMA AcceptedIsSound ==
  ASSUME NEW env \in RawEnvironment, Accepts(env)
  PROVE  Sound(ToAppConfig(env))
<1> DEFINE c == ToAppConfig(env)
<1>1. /\ c.throttleLocalCacheMaxEntries = NumberOf(env, "THROTTLE_LOCAL_CACHE_MAX_ENTRIES")
      /\ c.throttleStoreDeadlineMilliseconds = NumberOf(env, "THROTTLE_STORE_DEADLINE_MILLISECONDS")
      /\ c.throttleLocalFallbackFactor = NumberOf(env, "THROTTLE_LOCAL_FALLBACK_FACTOR")
      /\ c.accessTokenTtlSeconds = NumberOf(env, "ACCESS_TOKEN_TTL_SECONDS")
      /\ c.refreshTokenTtlSeconds = NumberOf(env, "REFRESH_TOKEN_TTL_SECONDS")
      /\ c.sessionCeilingSeconds = NumberOf(env, "SESSION_CEILING_SECONDS")
  BY DEF ToAppConfig
<1>2. {"THROTTLE_LOCAL_CACHE_MAX_ENTRIES", "THROTTLE_STORE_DEADLINE_MILLISECONDS",
       "THROTTLE_LOCAL_FALLBACK_FACTOR", "ACCESS_TOKEN_TTL_SECONDS",
       "REFRESH_TOKEN_TTL_SECONDS", "SESSION_CEILING_SECONDS"} \subseteq Numbers
  BY DEF Numbers, Default
<1>3. /\ c.throttleLocalCacheMaxEntries \in Nat \ {0}
      /\ c.throttleStoreDeadlineMilliseconds \in Nat \ {0}
      /\ c.throttleLocalFallbackFactor \in Nat \ {0}
      /\ c.accessTokenTtlSeconds \in Nat \ {0}
      /\ c.refreshTokenTtlSeconds \in Nat \ {0}
      /\ c.sessionCeilingSeconds \in Nat \ {0}
  BY <1>1, <1>2, NumbersArePositive
<1>4. \A bound \in DOMAIN AdmissionBounds(c) : AdmissionBounds(c)[bound] \in Nat \ {0}
  BY <1>3 DEF AdmissionBounds
<1>5. \A bound \in DOMAIN SessionBounds(c) : SessionBounds(c)[bound] \in Nat \ {0}
  BY <1>3 DEF SessionBounds
<1> QED
  BY <1>4, <1>5, PoliciesFromNumbers DEF Sound

-----------------------------------------------------------------------------
(* Routes, statuses and callers                                            *)

LEMMA RouteFields ==
  ASSUME NEW name \in DOMAIN RouteTable
  PROVE  /\ RouteTable[name].group \in RouteGroups
         /\ RouteTable[name].success \in {200, 201}
         /\ "NotFoundException" \notin RouteTable[name].problems
<1> USE DEF Public, Exempt, Protected
<1>1. DOMAIN RouteTable = {"health", "openapi", "jwks", "register", "login", "refresh",
                           "me", "products"}
  BY DEF RouteTable
<1>2. /\ RouteTable["health"] = HealthRoute
      /\ RouteTable["openapi"] = OpenApiRoute
      /\ RouteTable["jwks"] = Public("jwks", FALSE, 200, {})
      /\ RouteTable["me"] = MeRoute
      /\ RouteTable["products"] = ProductsRoute
  BY DEF RouteTable
<1>3. /\ RouteTable["register"] =
           Public("credentials", FALSE, 201,
                  {"InvalidEmailAddressError", "InvalidPasswordLengthError",
                   "EmailAlreadyRegisteredError", Storage})
      /\ RouteTable["login"] =
           Public("credentials", TRUE, 200,
                  {"InvalidEmailAddressError", "InvalidPasswordLengthError",
                   "InvalidCredentialsError", Storage})
      /\ RouteTable["refresh"] =
           Public("refresh", TRUE, 200,
                  {"InvalidRefreshTokenCredentialError", "RefreshRejectedError",
                   "RefreshTokenAccountNotFoundError", Storage})
  BY DEF RouteTable
<1>4. CASE name \in {"health", "openapi", "jwks", "me", "products"}
  BY <1>2, <1>4 DEF HealthRoute, OpenApiRoute, MeRoute, ProductsRoute, RouteGroups
<1>5. CASE name \in {"register", "login", "refresh"}
  BY <1>3, <1>5 DEF RouteGroups, Storage
<1> QED
  BY <1>1, <1>4, <1>5

LEMMA RowStatuses ==
  ASSUME NEW r \in Rows
  PROVE  r.status \in {401, 409, 422, 429, 503}
  BY DEF Rows, authProblemMappings, throttlingProblemMappings, catalogProblemMappings, row

\* Every exception but an unmatched route has a status that clients know.
LEMMA StatusType ==
  ASSUME NEW kind, kind # "NotFoundException"
  PROVE  StatusOf(kind) \in Statuses \ {0}
<1>1. CASE \E r \in Rows : kind \in r.kinds
  BY <1>1, RowStatuses DEF StatusOf, MapException, Statuses
<1>2. CASE ~\E r \in Rows : kind \in r.kinds
  BY <1>2 DEF StatusOf, MapException, DefaultMapping, row, Statuses
<1> QED
  BY <1>1, <1>2

\* No row that claims one of these says 429.
LEMMA KnownStatuses ==
  /\ StatusOf("BadRequestException") # 429
  /\ StatusOf("UnauthorizedException") # 429
<1> USE DEF Rows, authProblemMappings, throttlingProblemMappings, catalogProblemMappings, row
<1>1. ~\E r \in Rows : "BadRequestException" \in r.kinds
  OBVIOUS
<1>2. \A r \in Rows : "UnauthorizedException" \in r.kinds => r.status # 429
  OBVIOUS
<1> HIDE DEF Rows
<1> QED
  BY <1>1, <1>2 DEF StatusOf, MapException, DefaultMapping

\* The load balancer's hop decides, whatever the client sent before it.
LEMMA HopDecides ==
  ASSUME NEW r \in Request
  PROVE  DeriveClientAddressIdentity(Forwarded(r)) = FoldIpv6Prefix(r.peer)
<1> DEFINE parts == Forwarded(r)
           last == Len(r.sent) + 1
<1>1. r.sent \in Seq(Address \cup {Blank}) /\ r.peer \in Address /\ r.peer # Blank
  BY ServiceAssumption, IdentityAssumption DEF Request
<1>2. parts \in Seq(Address \cup {Blank}) /\ Len(parts) = last /\ parts[last] = r.peer
  BY <1>1 DEF Forwarded
<1>3. last \in NonBlank(parts) /\ \A m \in NonBlank(parts) : m \in Int /\ m <= last
  BY <1>1, <1>2 DEF NonBlank
<1>4. RightMost(parts) = r.peer
  <2> DEFINE n == CHOOSE n \in NonBlank(parts) : \A m \in NonBlank(parts) : m <= n
  <2>1. n \in NonBlank(parts) /\ \A m \in NonBlank(parts) : m <= n
    BY <1>3
  <2>2. n = last
    BY <1>3, <2>1
  <2> QED
    BY <1>2, <2>2 DEF RightMost
<1> QED
  BY <1>3, <1>4 DEF DeriveClientAddressIdentity

-----------------------------------------------------------------------------
(* The invariant                                                           *)

\* The one key that is the request's own.
Own(r) ==
  IF Route(r).exempt THEN <<>>
  ELSE IF Route(r).public THEN <<<<"ip", FoldIpv6Prefix(r.peer), Route(r).group>>>>
  ELSE <<<<"account", Account, Route(r).group>>>>

\* How a request stands with the guards, at each of its stages.
GuardedOK(r) ==
  /\ r.stage = "awaiting" => ~r.genuine /\ r.counted = <<>>
  /\ r.stage = "limiting" => ~Route(r).public /\ r.genuine /\ r.counted = <<>>
  /\ r.stage = "handling" => r.counted = Own(r) /\ (~Route(r).public => r.genuine)
  /\ r.status = 429 => r.counted = Own(r)
  /\ Route(r).public => ~r.genuine
  /\ ~Route(r).public /\ ~r.genuine => r.counted = <<>>

InstanceOK(i) ==
  /\ app[i] \in {"starting", "rejected"} => ~Idle(i)
  /\ request[i] # None => GuardedOK(request[i])

ServingInv == \A i \in Instances : InstanceOK(i)

ServiceInv == TypeOK /\ ServingInv

LEMMA RequestFields ==
  ASSUME TypeOK, NEW i \in Instances, request[i] # None
  PROVE  /\ request[i] \in Request
         /\ Route(request[i]) = RouteTable[request[i].route]
         /\ request[i].route \in DOMAIN RouteTable
  BY ServiceAssumption DEF TypeOK, Request, Route

\* A request under way is one, and has no status yet.
LEMMA UnderWay ==
  ASSUME TypeOK, NEW i \in Instances, ~Idle(i)
  PROVE  /\ request[i] # None /\ request[i] \in Request
         /\ request[i].stage # "done" /\ request[i].status = 0
  BY RequestFields DEF Idle, TypeOK

LEMMA InitIsInvariant == Init => ServiceInv
<1> SUFFICES ASSUME Init PROVE ServiceInv
  OBVIOUS
<1> USE DEF Init, NoMemo
<1>1. TypeOK
  BY ServiceAssumption DEF TypeOK
<1>2. ServingInv
  BY DEF ServingInv, InstanceOK
<1> QED
  BY <1>1, <1>2 DEF ServiceInv

LEMMA ForgottenFields ==
  ASSUME NEW r \in Request
  PROVE  /\ Forgotten(r) \in Request
         /\ Forgotten(r).route = r.route /\ Forgotten(r).peer = r.peer
         /\ Forgotten(r).stage = r.stage /\ Forgotten(r).status = r.status
         /\ Forgotten(r).genuine = r.genuine /\ Forgotten(r).counted = r.counted
  BY ServiceAssumption DEF Forgotten, Request, Tokens

\* What an answer leaves of a request.
LEMMA AnsweredFields ==
  ASSUME NEW r \in Request, NEW status \in Statuses \ {0}
  PROVE  /\ Answered(r, status) \in Request
         /\ Answered(r, status).stage = "done"
         /\ Answered(r, status).status = status
         /\ Answered(r, status).route = r.route
         /\ Answered(r, status).peer = r.peer
         /\ Answered(r, status).genuine = (r.genuine /\ status \in {401, 429})
         /\ Answered(r, status).counted = IF status = 429 THEN r.counted ELSE <<>>
<1> DEFINE f == Forgotten(r)
           genuine == f.genuine /\ status \in {401, 429}
           counted == IF status = 429 THEN f.counted ELSE <<>>
           a == [f EXCEPT !.stage = "done", !.status = status,
                          !.genuine = genuine, !.counted = counted]
<1>1. f \in Request /\ Answered(r, status) = a
  BY ForgottenFields DEF Answered
<1>2. genuine \in BOOLEAN /\ counted \in Seq(CounterKeys) /\ "done" \in Stages
  BY <1>1 DEF Request, Stages
<1> HIDE DEF f, genuine, counted
<1>3. /\ a \in Request
      /\ a.stage = "done" /\ a.status = status /\ a.genuine = genuine /\ a.counted = counted
      /\ a.route = f.route /\ a.peer = f.peer
  BY <1>1, <1>2 DEF Request
<1> QED
  BY <1>1, <1>3, ForgottenFields DEF f, genuine, counted

\* An answer keeps what holds of a request with the guards, unless it says
\* 429 of one that was not counted.
LEMMA AnsweredIsGuarded ==
  ASSUME NEW r \in Request, NEW status \in Statuses \ {0},
         Route(r).public => ~r.genuine,
         ~Route(r).public /\ ~r.genuine => r.counted = <<>>,
         status = 429 => r.counted = Own(r)
  PROVE  GuardedOK(Answered(r, status))
<1> DEFINE a == Answered(r, status)
<1>1. /\ a.stage = "done" /\ a.status = status
      /\ a.genuine = (r.genuine /\ status \in {401, 429})
      /\ a.counted = IF status = 429 THEN r.counted ELSE <<>>
      /\ Route(a) = Route(r) /\ Own(a) = Own(r)
  BY AnsweredFields DEF Route, Own
<1> HIDE DEF a
<1>2. /\ a.genuine => r.genuine
      /\ status = 429 /\ r.genuine => a.genuine
  BY <1>1
<1>3. /\ Route(a).public => ~a.genuine
      /\ ~Route(a).public /\ ~a.genuine => a.counted = <<>>
  BY <1>1, <1>2
<1> QED
  BY <1>1, <1>3 DEF GuardedOK, a

-----------------------------------------------------------------------------
(* Steps                                                                   *)

RequestsOK ==
  /\ request \in [Instances -> Request \cup {None}]
  /\ \A i \in Instances :
       request[i] # None => (request[i].stage = "done" <=> request[i].status # 0)

\* A step of one instance that leaves the others as they are.
LEMMA OthersStay ==
  ASSUME ServingInv, NEW i \in Instances, InstanceOK(i)',
         \A j \in Instances \ {i} :
           app'[j] = app[j] /\ memo'[j] = memo[j] /\ request'[j] = request[j]
  PROVE  ServingInv'
<1> SUFFICES ASSUME NEW j \in Instances, j # i PROVE InstanceOK(j)'
  BY DEF ServingInv
<1>1. InstanceOK(j) /\ app'[j] = app[j] /\ memo'[j] = memo[j] /\ request'[j] = request[j]
  BY DEF ServingInv
<1>2. Idle(j)' <=> Idle(j)
  BY <1>1 DEF Idle
<1>3. GuardedOK(request[j])' <=> GuardedOK(request[j])
  BY <1>1 DEF GuardedOK, Route, Own
<1> QED
  BY <1>1, <1>2, <1>3 DEF InstanceOK

\* The request of an instance moves to a state that is right by itself.
LEMMA RequestMoves ==
  ASSUME TypeOK, NEW i \in Instances, NEW a \in Request,
         request' = [request EXCEPT ![i] = a],
         a.stage = "done" <=> a.status # 0,
         GuardedOK(a),
         app'[i] \in {"starting", "rejected"} => a.stage # "done"
  PROVE  /\ InstanceOK(i)' /\ RequestsOK'
         /\ \A j \in Instances \ {i} : request'[j] = request[j]
<1>1. request'[i] = a /\ a # None /\ \A j \in Instances \ {i} : request'[j] = request[j]
  BY ServiceAssumption DEF TypeOK
<1>2. RequestsOK'
  BY <1>1 DEF RequestsOK, TypeOK
<1>3. GuardedOK(request[i])' <=> GuardedOK(a)
  BY <1>1 DEF GuardedOK, Route, Own
<1>4. InstanceOK(i)'
  BY <1>1, <1>3 DEF InstanceOK, Idle
<1> QED
  BY <1>1, <1>2, <1>4

\* A request is answered.
LEMMA AnswerMoves ==
  ASSUME TypeOK, NEW i \in Instances, InstanceOK(i), ~Idle(i),
         NEW status \in Statuses \ {0}, Answer(i, status),
         status = 429 => request[i].counted = Own(request[i]),
         app'[i] \notin {"starting", "rejected"}
  PROVE  /\ InstanceOK(i)' /\ RequestsOK'
         /\ \A j \in Instances \ {i} : request'[j] = request[j]
<1> DEFINE r == request[i]
           a == Answered(r, status)
<1>1. r # None /\ r \in Request /\ GuardedOK(r)
  BY UnderWay DEF InstanceOK
<1>2. request' = [request EXCEPT ![i] = a]
  BY DEF Answer
<1>3. a \in Request /\ a.stage = "done" /\ a.status = status /\ a.status # 0
  <2>1. a \in Request /\ a.stage = "done" /\ a.status = status
    BY <1>1, AnsweredFields
  <2> HIDE DEF a
  <2> QED
    BY <2>1
<1>4. GuardedOK(a)
  <2>1. /\ Route(r).public => ~r.genuine
        /\ ~Route(r).public /\ ~r.genuine => r.counted = <<>>
    BY <1>1 DEF GuardedOK
  <2> QED
    BY <1>1, <2>1, AnsweredIsGuarded
<1> HIDE DEF a
<1> QED
  BY <1>2, <1>3, <1>4, RequestMoves

\* What a read of a parameter, or its memo, comes to.
LEMMA KeysRead ==
  ASSUME TypeOK, NEW i \in Instances
  PROVE  /\ Memoized(memo[i].trusted, TrustedParameter) \subseteq (SUBSET Keys) \cup {Failed}
         /\ Memoized(memo[i].signing, SigningParameter) \subseteq Keys \cup {Failed}
<1>1. TrustedParameter \in SUBSET Keys /\ SigningParameter \in Keys
  BY ServiceAssumption DEF TrustedParameter, SigningParameter, TypeOK
<1>2. /\ memo[i].trusted \in (SUBSET Keys) \cup {Unread, Failed}
      /\ memo[i].signing \in Keys \cup {Unread, Failed}
  BY DEF TypeOK
<1> QED
  BY <1>1, <1>2 DEF Memoized

-----------------------------------------------------------------------------
(* The actions                                                             *)

LEMMA InvokeKeeps ==
  ASSUME ServiceInv, NEW i \in Instances, NEW route \in Routes, NEW token \in Tokens,
         NEW peer \in Peers, NEW sent \in Headers, Invoke(i, route, token, peer, sent)
  PROVE  ServiceInv'
<1> TypeOK /\ ServingInv
  BY DEF ServiceInv
<1> DEFINE r == [route |-> route, token |-> token, peer |-> peer, sent |-> sent,
                 stage |-> "awaiting", genuine |-> FALSE, counted |-> <<>>, status |-> 0]
           a == Answered(r, 502)
<1>1. /\ config' = config /\ parameters' = parameters /\ live' = live /\ memo' = memo
      /\ Idle(i) /\ InstanceOK(i)
  BY DEF Invoke, ServingInv
<1>2. r \in Request /\ GuardedOK(r)
  <2>1. <<>> \in Seq(CounterKeys)
    OBVIOUS
  <2> QED
    BY <2>1 DEF Request, Stages, Statuses, GuardedOK
<1>3. /\ a \in Request /\ GuardedOK(a)
      /\ a.stage = "done" /\ a.status = 502
  <2>1. 502 \in Statuses \ {0} /\ ~r.genuine /\ r.counted = <<>>
    BY DEF Statuses
  <2> QED
    BY <1>2, <2>1, AnsweredFields, AnsweredIsGuarded
<1>4. \/ request' = [request EXCEPT ![i] = a] /\ app' = app
      \/ /\ request' = [request EXCEPT ![i] = r]
         /\ app' = [app EXCEPT ![i] = IF @ = "none" THEN "starting" ELSE @]
  BY DEF Invoke
<1>5. /\ app' \in [Instances -> {"none", "starting", "ready", "rejected"}]
      /\ \A j \in Instances \ {i} : app'[j] = app[j]
  BY <1>4 DEF TypeOK
<1>6. /\ InstanceOK(i)' /\ RequestsOK'
      /\ \A j \in Instances \ {i} : request'[j] = request[j]
  <2>1. CASE request' = [request EXCEPT ![i] = a] /\ app' = app
    <3>1. app'[i] \notin {"starting", "rejected"}
      BY <1>1, <2>1 DEF InstanceOK
    <3> HIDE DEF a, r
    <3>2. /\ a.stage = "done" <=> a.status # 0
          /\ app'[i] \in {"starting", "rejected"} => a.stage # "done"
      BY <1>3, <3>1
    <3>3. a \in Request /\ GuardedOK(a) /\ request' = [request EXCEPT ![i] = a]
      BY <1>3, <2>1
    <3> QED
      BY <3>2, <3>3, RequestMoves
  <2>2. CASE request' = [request EXCEPT ![i] = r]
    <3>1. (r.stage = "done" <=> r.status # 0) /\ r.stage # "done"
      OBVIOUS
    <3> HIDE DEF r
    <3> QED
      BY <1>2, <2>2, <3>1, RequestMoves
  <2> QED
    BY <1>4, <2>1, <2>2
<1>7. TypeOK'
  BY <1>1, <1>5, <1>6 DEF TypeOK, RequestsOK, Configurations
<1>8. ServingInv'
  BY <1>1, <1>5, <1>6, OthersStay
<1> QED
  BY <1>7, <1>8 DEF ServiceInv

\* Forgetting what was read: the memo of one instance starts over.
LEMMA MemoStartsOver ==
  ASSUME TypeOK, NEW i \in Instances, memo' = [memo EXCEPT ![i] = NoMemo]
  PROVE  /\ memo' \in [Instances -> [signing : Keys \cup {Unread, Failed},
                                     trusted : (SUBSET Keys) \cup {Unread, Failed}]]
         /\ \A j \in Instances \ {i} : memo'[j] = memo[j]
  BY DEF NoMemo, TypeOK

LEMMA AppStartsKeeps ==
  ASSUME ServiceInv, NEW i \in Instances, AppStarts(i)
  PROVE  ServiceInv'
<1> TypeOK /\ ServingInv
  BY DEF ServiceInv
<1>1. /\ config' = config /\ parameters' = parameters /\ live' = live /\ request' = request
      /\ app' = [app EXCEPT ![i] = "ready"]
      /\ memo' = [memo EXCEPT ![i] = [memo[i] EXCEPT !.signing = Unread]]
  BY DEF AppStarts, KeysReadAtStart, TypeOK
<1>2. /\ app'[i] = "ready"
      /\ memo'[i].signing = Unread /\ memo'[i].trusted = memo[i].trusted
      /\ \A j \in Instances \ {i} : app'[j] = app[j] /\ memo'[j] = memo[j]
  BY <1>1 DEF TypeOK
<1>3. TypeOK'
  <2>1. memo[i] \in [signing : Keys \cup {Unread, Failed},
                     trusted : (SUBSET Keys) \cup {Unread, Failed}]
    BY DEF TypeOK
  <2>2. [memo[i] EXCEPT !.signing = Unread] \in
          [signing : Keys \cup {Unread, Failed}, trusted : (SUBSET Keys) \cup {Unread, Failed}]
    BY <2>1
  <2> QED
    BY <1>1, <2>2 DEF TypeOK, Configurations
<1>4. InstanceOK(i)'
  <2>1. InstanceOK(i)
    BY DEF ServingInv
  <2>2. GuardedOK(request[i])' <=> GuardedOK(request[i])
    BY <1>1 DEF GuardedOK, Route, Own
  <2> QED
    BY <1>1, <1>2, <2>1, <2>2 DEF InstanceOK
<1> QED
  BY <1>1, <1>2, <1>3, <1>4, OthersStay DEF ServiceInv

LEMMA AppFailsToStartKeeps ==
  ASSUME ServiceInv, NEW i \in Instances, AppFailsToStart(i)
  PROVE  ServiceInv'
<1> TypeOK /\ ServingInv
  BY DEF ServiceInv
<1>1. /\ config' = config /\ parameters' = parameters /\ live' = live /\ request' = request
      /\ memo' = memo /\ app[i] = "starting" /\ app' = [app EXCEPT ![i] = "rejected"]
  BY DEF AppFailsToStart
<1>2. TypeOK'
  BY <1>1 DEF TypeOK, Configurations
<1>3. InstanceOK(i)'
  <2>1. InstanceOK(i)
    BY DEF ServingInv
  <2>2. /\ GuardedOK(request[i])' <=> GuardedOK(request[i])
        /\ Idle(i)' <=> Idle(i)
    BY <1>1 DEF GuardedOK, Route, Own, Idle
  <2> QED
    BY <1>1, <2>1, <2>2 DEF InstanceOK
<1>4. \A j \in Instances \ {i} : app'[j] = app[j]
  BY <1>1 DEF TypeOK
<1> QED
  BY <1>1, <1>2, <1>3, <1>4, OthersStay DEF ServiceInv

LEMMA CatchFailureKeeps ==
  ASSUME ServiceInv, NEW i \in Instances, CatchFailure(i)
  PROVE  ServiceInv'
<1> TypeOK /\ ServingInv
  BY DEF ServiceInv
<1>1. /\ config' = config /\ parameters' = parameters /\ live' = live
      /\ app' = [app EXCEPT ![i] = "none"]
      /\ memo' = [memo EXCEPT ![i] = NoMemo]
      /\ ~Idle(i) /\ InstanceOK(i) /\ Answer(i, 503)
  BY DEF CatchFailure, AfterFailure, ServingInv
<1>2. /\ app' \in [Instances -> {"none", "starting", "ready", "rejected"}]
      /\ app'[i] = "none" /\ \A j \in Instances \ {i} : app'[j] = app[j]
  BY <1>1 DEF TypeOK
<1>3. 503 \in Statuses \ {0} /\ app'[i] \notin {"starting", "rejected"}
  BY <1>2 DEF Statuses
<1>4. /\ InstanceOK(i)' /\ RequestsOK'
      /\ \A j \in Instances \ {i} : request'[j] = request[j]
  BY <1>1, <1>3, AnswerMoves
<1>5. TypeOK'
  BY <1>1, <1>2, <1>4, MemoStartsOver DEF TypeOK, RequestsOK, Configurations
<1> QED
  BY <1>1, <1>2, <1>4, <1>5, MemoStartsOver, OthersStay DEF ServiceInv

LEMMA KillKeeps ==
  ASSUME ServiceInv, NEW i \in Instances, Kill(i)
  PROVE  ServiceInv'
<1> TypeOK /\ ServingInv
  BY DEF ServiceInv
<1>1. /\ config' = config /\ parameters' = parameters /\ live' = live
      /\ app' = [app EXCEPT ![i] = "none"]
      /\ memo' = [memo EXCEPT ![i] = NoMemo]
      /\ request' = [request EXCEPT ![i] = None]
  BY DEF Kill
<1>2. /\ app' \in [Instances -> {"none", "starting", "ready", "rejected"}]
      /\ app'[i] = "none" /\ request'[i] = None
      /\ \A j \in Instances \ {i} : app'[j] = app[j] /\ request'[j] = request[j]
  BY <1>1 DEF TypeOK
<1>3. InstanceOK(i)'
  BY <1>2 DEF InstanceOK
<1>4. TypeOK'
  <2>1. request' \in [Instances -> Request \cup {None}]
    BY <1>1 DEF TypeOK
  <2>2. \A j \in Instances :
          request'[j] # None => (request'[j].stage = "done" <=> request'[j].status # 0)
    BY <1>2 DEF TypeOK
  <2> QED
    BY <1>1, <1>2, <2>1, <2>2, MemoStartsOver DEF TypeOK, Configurations
<1> QED
  BY <1>1, <1>2, <1>3, <1>4, MemoStartsOver, OthersStay DEF ServiceInv

\* What a request that is served has gone through.
LEMMA ServedRequest ==
  ASSUME ServiceInv, NEW i \in Instances, NEW stage, Serving(i, stage)
  PROVE  /\ TypeOK /\ ServingInv /\ InstanceOK(i)
         /\ ~Idle(i) /\ app[i] = "ready"
         /\ request[i] # None /\ request[i] \in Request
         /\ request[i].stage = stage /\ stage # "done" /\ request[i].status = 0
         /\ GuardedOK(request[i])
         /\ Route(request[i]) = RouteTable[request[i].route]
         /\ request[i].route \in DOMAIN RouteTable
  BY UnderWay, RequestFields DEF Serving, ServiceInv, ServingInv, InstanceOK

\* A step in which an instance does no more than move its request on.
LEMMA OnlyRequestMoves ==
  ASSUME ServiceInv, NEW i \in Instances,
         config' = config, parameters' = parameters, live' = live, app' = app, memo' = memo,
         InstanceOK(i)', RequestsOK',
         \A j \in Instances \ {i} : request'[j] = request[j]
  PROVE  ServiceInv'
<1> TypeOK /\ ServingInv
  BY DEF ServiceInv
<1>1. TypeOK'
  BY DEF TypeOK, RequestsOK, Configurations
<1>2. ServingInv'
  BY OthersStay
<1> QED
  BY <1>1, <1>2 DEF ServiceInv

LEMMA RefuseBodyKeeps ==
  ASSUME ServiceInv, NEW i \in Instances, RefuseBody(i)
  PROVE  ServiceInv'
<1> DEFINE status == StatusOf("BadRequestException")
<1>1. /\ config' = config /\ parameters' = parameters /\ live' = live /\ app' = app
      /\ memo' = memo /\ Serving(i, "awaiting") /\ Answer(i, status)
  BY DEF RefuseBody
<1>2. status \in Statuses \ {0} /\ status # 429
  BY StatusType, KnownStatuses
<1>3. /\ TypeOK /\ InstanceOK(i) /\ ~Idle(i)
      /\ app'[i] \notin {"starting", "rejected"}
  BY <1>1, ServedRequest DEF GuardedOK
<1> HIDE DEF status
<1>4. /\ InstanceOK(i)' /\ RequestsOK'
      /\ \A j \in Instances \ {i} : request'[j] = request[j]
  BY <1>1, <1>2, <1>3, AnswerMoves
<1> QED
  BY <1>1, <1>4, OnlyRequestMoves

LEMMA HandleKeeps ==
  ASSUME ServiceInv, NEW i \in Instances, Handle(i)
  PROVE  ServiceInv'
<1> DEFINE r == request[i]
<1>1. /\ config' = config /\ parameters' = parameters /\ live' = live /\ app' = app
      /\ memo' = memo /\ Serving(i, "handling")
  BY DEF Handle
<1>2. /\ TypeOK /\ InstanceOK(i) /\ ~Idle(i) /\ r.counted = Own(r)
      /\ app'[i] \notin {"starting", "rejected"}
      /\ Route(r) = RouteTable[r.route] /\ r.route \in DOMAIN RouteTable
  BY <1>1, ServedRequest DEF GuardedOK
<1>3. PICK status \in Statuses \ {0} : Answer(i, status)
  <2>1. CASE Answer(i, Route(r).success)
    <3>1. Route(r).success \in {200, 201}
      BY <1>2, RouteFields
    <3> QED
      BY <2>1, <3>1 DEF Statuses
  <2>2. ASSUME NEW problem \in Route(r).problems, Answer(i, StatusOf(problem))
        PROVE  \E status \in Statuses \ {0} : Answer(i, status)
    <3>1. problem # "NotFoundException"
      BY <1>2, <2>2, RouteFields
    <3> QED
      BY <2>2, <3>1, StatusType
  <2> QED
    BY <2>1, <2>2 DEF Handle
<1>4. /\ InstanceOK(i)' /\ RequestsOK'
      /\ \A j \in Instances \ {i} : request'[j] = request[j]
  BY <1>2, <1>3, AnswerMoves
<1> QED
  BY <1>1, <1>4, OnlyRequestMoves

\* One of the two guards counts a request, under the key that is its own.
LEMMA CountedUnderOwn ==
  ASSUME NEW r \in Request, r.route \in DOMAIN RouteTable
  PROVE  LET counted == (IF GuardCounts(r) THEN <<AddressKey(r)>> ELSE <<>>)
                          \o (IF InterceptorCounts(r) THEN <<AccountKey(r)>> ELSE <<>>)
         IN  counted = Own(r) /\ counted \in Seq(CounterKeys)
<1> DEFINE address == <<"ip", FoldIpv6Prefix(r.peer), Route(r).group>>
           account == <<"account", Account, Route(r).group>>
<1>1. AddressKey(r) = address /\ AccountKey(r) = account
  BY HopDecides DEF AddressKey, AccountKey
<1>2. Route(r).group \in RouteGroups
  BY RouteFields DEF Route
<1>3. address \in CounterKeys
  <2>1. r.peer \in Address
    BY ServiceAssumption DEF Request
  <2>2. FoldIpv6Prefix(r.peer) \in [v6 : {TRUE}, prefix : Prefixes] \cup Address
    BY <2>1 DEF FoldIpv6Prefix, Address
  <2> QED
    BY <1>2, <2>2 DEF CounterKeys, Scopes
<1>4. account \in CounterKeys
  BY <1>2 DEF CounterKeys, Scopes
<1> HIDE DEF address, account
<1>5. CASE Route(r).exempt
  BY <1>5 DEF GuardCounts, InterceptorCounts, Own
<1>6. CASE ~Route(r).exempt /\ Route(r).public
  <2>1. <<address>> \o <<>> = <<address>> /\ <<address>> \in Seq(CounterKeys)
    BY <1>3
  <2> QED
    BY <1>1, <1>6, <2>1 DEF GuardCounts, InterceptorCounts, Own, address
<1>7. CASE ~Route(r).exempt /\ ~Route(r).public
  <2>1. <<>> \o <<account>> = <<account>> /\ <<account>> \in Seq(CounterKeys)
    BY <1>4
  <2> QED
    BY <1>1, <1>7, <2>1 DEF GuardCounts, InterceptorCounts, Own, account
<1> QED
  BY <1>5, <1>6, <1>7

LEMMA CountedFields ==
  ASSUME NEW r \in Request, NEW counted \in Seq(CounterKeys)
  PROVE  LET f == [Forgotten(r) EXCEPT !.counted = counted]
         IN  /\ f \in Request /\ f.counted = counted
             /\ f.route = r.route /\ f.peer = r.peer
             /\ f.stage = r.stage /\ f.status = r.status /\ f.genuine = r.genuine
<1> DEFINE f == Forgotten(r)
<1>1. /\ f \in Request /\ f.route = r.route /\ f.peer = r.peer
      /\ f.stage = r.stage /\ f.status = r.status /\ f.genuine = r.genuine
  BY ForgottenFields
<1> HIDE DEF f
<1>2. LET g == [f EXCEPT !.counted = counted]
      IN  /\ g \in Request /\ g.counted = counted
          /\ g.route = r.route /\ g.peer = r.peer
          /\ g.stage = r.stage /\ g.status = r.status /\ g.genuine = r.genuine
  BY <1>1 DEF Request
<1> QED
  BY <1>2 DEF f

LEMMA LimitKeeps ==
  ASSUME ServiceInv, NEW i \in Instances, Limit(i)
  PROVE  ServiceInv'
<1> DEFINE r == request[i]
           own == (IF GuardCounts(r) THEN <<AddressKey(r)>> ELSE <<>>)
                    \o (IF InterceptorCounts(r) THEN <<AccountKey(r)>> ELSE <<>>)
           counted == [Forgotten(r) EXCEPT !.counted = own]
           passed == [counted EXCEPT !.stage = "handling"]
           refused == Answered(counted, StatusOf("RateLimitExceededError"))
<1>1. /\ config' = config /\ parameters' = parameters /\ live' = live /\ app' = app
      /\ memo' = memo
      /\ Serving(i, "limiting") \/ (Serving(i, "awaiting") /\ Route(r).public)
      /\ \/ request' = [request EXCEPT ![i] = passed]
         \/ counted.counted # <<>> /\ request' = [request EXCEPT ![i] = refused]
  BY DEF Limit, IsPublicRoute
<1>2. /\ TypeOK /\ InstanceOK(i) /\ r \in Request /\ r.route \in DOMAIN RouteTable
      /\ app'[i] \notin {"starting", "rejected"} /\ r.status = 0
      /\ GuardedOK(r) /\ r.stage \in {"awaiting", "limiting"}
      /\ ~Route(r).public => r.genuine
      /\ Route(r).public => ~r.genuine
  <2>1. CASE Serving(i, "limiting")
    BY <1>1, <2>1, ServedRequest DEF GuardedOK
  <2>2. CASE Serving(i, "awaiting") /\ Route(r).public
    BY <1>1, <2>2, ServedRequest DEF GuardedOK
  <2> QED
    BY <1>1, <2>1, <2>2
<1>3. own = Own(r) /\ own \in Seq(CounterKeys)
  BY <1>2, CountedUnderOwn
<1> HIDE DEF own
<1>4. /\ counted \in Request /\ counted.counted = own
      /\ counted.route = r.route /\ counted.peer = r.peer
      /\ counted.status = 0 /\ counted.genuine = r.genuine
  BY <1>2, <1>3, CountedFields
<1> HIDE DEF counted
<1>5. /\ Route(counted) = Route(r) /\ Own(counted) = Own(r)
  BY <1>4 DEF Route, Own
<1>6. CASE request' = [request EXCEPT ![i] = passed]
  <2>1. /\ passed \in Request /\ passed.counted = own /\ passed.stage = "handling"
        /\ passed.route = r.route /\ passed.peer = r.peer
        /\ passed.status = 0 /\ passed.genuine = r.genuine
    BY <1>4 DEF Request, Stages
  <2> HIDE DEF passed
  <2>2. Route(passed) = Route(r) /\ Own(passed) = Own(r)
    BY <2>1 DEF Route, Own
  <2>3. GuardedOK(passed)
    BY <1>2, <1>3, <2>1, <2>2 DEF GuardedOK
  <2>4. passed.stage = "done" <=> passed.status # 0
    BY <2>1
  <2>5. /\ InstanceOK(i)' /\ RequestsOK'
        /\ \A j \in Instances \ {i} : request'[j] = request[j]
    BY <1>2, <1>6, <2>1, <2>3, <2>4, RequestMoves
  <2> QED
    BY <1>1, <2>5, OnlyRequestMoves
<1>7. CASE request' = [request EXCEPT ![i] = refused]
  <2> DEFINE status == StatusOf("RateLimitExceededError")
  <2>1. status \in Statuses \ {0}
    BY StatusType
  <2> HIDE DEF status
  <2>2. /\ Route(counted).public => ~counted.genuine
        /\ ~Route(counted).public /\ ~counted.genuine => counted.counted = <<>>
        /\ status = 429 => counted.counted = Own(counted)
    BY <1>2, <1>3, <1>4, <1>5
  <2>3. /\ Answered(counted, status) \in Request
        /\ Answered(counted, status).stage = "done"
        /\ Answered(counted, status).status = status
    BY <1>4, <2>1, AnsweredFields
  <2>4. GuardedOK(Answered(counted, status))
    BY <1>4, <2>1, <2>2, AnsweredIsGuarded
  <2>5. refused = Answered(counted, status)
    BY DEF status
  <2> HIDE DEF refused
  <2>6. /\ refused \in Request /\ GuardedOK(refused)
        /\ refused.stage = "done" <=> refused.status # 0
    BY <2>1, <2>3, <2>4, <2>5
  <2>7. /\ InstanceOK(i)' /\ RequestsOK'
        /\ \A j \in Instances \ {i} : request'[j] = request[j]
    BY <1>2, <1>7, <2>6, RequestMoves
  <2> QED
    BY <1>1, <2>7, OnlyRequestMoves
<1> QED
  BY <1>1, <1>6, <1>7

\* The trusted set is read, or was read before: the memo of one instance.
LEMMA TrustedMemo ==
  ASSUME TypeOK, NEW i \in Instances,
         NEW keys \in Memoized(memo[i].trusted, TrustedParameter),
         memo' = [memo EXCEPT ![i].trusted = keys]
  PROVE  /\ memo' \in [Instances -> [signing : Keys \cup {Unread, Failed},
                                     trusted : (SUBSET Keys) \cup {Unread, Failed}]]
         /\ \A j \in Instances \ {i} : memo'[j] = memo[j]
<1>1. memo[i] \in [signing : Keys \cup {Unread, Failed},
                   trusted : (SUBSET Keys) \cup {Unread, Failed}]
  BY DEF TypeOK
<1>2. keys \in (SUBSET Keys) \cup {Failed}
  BY KeysRead
<1> DEFINE m == [memo[i] EXCEPT !.trusted = keys]
<1>3. memo' = [memo EXCEPT ![i] = m]
  BY DEF TypeOK
<1>4. m \in [signing : Keys \cup {Unread, Failed}, trusted : (SUBSET Keys) \cup {Unread, Failed}]
  BY <1>1, <1>2
<1> HIDE DEF m
<1> QED
  BY <1>3, <1>4 DEF TypeOK

\* A step of an instance that moves its request and keeps what it read.
LEMMA ServedStep ==
  ASSUME ServiceInv, NEW i \in Instances,
         config' = config, parameters' = parameters, live' \in SUBSET Keys, app' = app,
         InstanceOK(i)', RequestsOK',
         memo' \in [Instances -> [signing : Keys \cup {Unread, Failed},
                                 trusted : (SUBSET Keys) \cup {Unread, Failed}]],
         \A j \in Instances \ {i} : memo'[j] = memo[j] /\ request'[j] = request[j]
  PROVE  ServiceInv'
<1> TypeOK /\ ServingInv
  BY DEF ServiceInv
<1>1. TypeOK'
  BY DEF TypeOK, RequestsOK, Configurations
<1>2. ServingInv'
  BY OthersStay
<1> QED
  BY <1>1, <1>2 DEF ServiceInv

LEMMA AuthenticateKeeps ==
  ASSUME ServiceInv, NEW i \in Instances, Authenticate(i)
  PROVE  ServiceInv'
<1> DEFINE r == request[i]
           status == StatusOf("UnauthorizedException")
           checked == [r EXCEPT !.genuine = r.token \in live]
           passed == [checked EXCEPT !.stage = "limiting"]
           refused == Answered(checked, status)
<1>1. /\ config' = config /\ parameters' = parameters /\ live' = live /\ app' = app
      /\ Serving(i, "awaiting") /\ ~Route(r).public
  BY DEF Authenticate, IsPublicRoute
<1>2. /\ TypeOK /\ InstanceOK(i) /\ ~Idle(i) /\ r \in Request
      /\ app'[i] \notin {"starting", "rejected"} /\ r.status = 0
      /\ ~r.genuine /\ r.counted = <<>> /\ live \in SUBSET Keys
  BY <1>1, ServedRequest DEF GuardedOK, TypeOK
<1>3. status \in Statuses \ {0} /\ status # 429
  BY StatusType, KnownStatuses
<1> HIDE DEF status
<1>4. CASE Answer(i, status) /\ memo' = memo
  <2>1. /\ InstanceOK(i)' /\ RequestsOK'
        /\ \A j \in Instances \ {i} : request'[j] = request[j]
    BY <1>2, <1>3, <1>4, AnswerMoves
  <2> QED
    BY <1>1, <1>4, <2>1, OnlyRequestMoves
<1>5. ASSUME NEW keys \in Memoized(memo[i].trusted, TrustedParameter),
             memo' = [memo EXCEPT ![i].trusted = keys],
             request' = [request EXCEPT ![i] = IF Verifies(r, keys) THEN passed ELSE refused]
      PROVE  ServiceInv'
  <2>1. /\ memo' \in [Instances -> [signing : Keys \cup {Unread, Failed},
                                    trusted : (SUBSET Keys) \cup {Unread, Failed}]]
        /\ \A j \in Instances \ {i} : memo'[j] = memo[j]
    BY <1>1, <1>2, <1>5, TrustedMemo
  <2>2. /\ checked \in Request
        /\ checked.genuine <=> r.token \in live
        /\ checked.counted = <<>> /\ checked.status = 0
        /\ checked.route = r.route
    <3> DEFINE verified == r.token \in live
               c == [r EXCEPT !.genuine = verified]
    <3>1. verified \in BOOLEAN /\ c = checked
      OBVIOUS
    <3> HIDE DEF verified
    <3>2. /\ c \in Request /\ c.genuine = verified
          /\ c.counted = <<>> /\ c.status = 0 /\ c.route = r.route
      BY <1>2, <3>1 DEF Request
    <3> QED
      BY <3>1, <3>2 DEF verified
  <2> HIDE DEF checked
  <2>3. Route(checked) = Route(r)
    BY <2>2 DEF Route
  <2>4. CASE Verifies(r, keys)
    <3>1. r.token \in live
      BY <2>4 DEF Verifies
    <3>2. /\ passed \in Request /\ passed.stage = "limiting" /\ passed.status = 0
          /\ passed.genuine = checked.genuine /\ passed.counted = <<>>
          /\ passed.route = r.route
      BY <2>2 DEF Request, Stages
    <3> HIDE DEF passed
    <3>3. Route(passed) = Route(r)
      BY <3>2 DEF Route
    <3>4. passed.genuine
      BY <2>2, <3>1, <3>2
    <3>5. GuardedOK(passed) /\ (passed.stage = "done" <=> passed.status # 0)
      BY <1>1, <3>2, <3>3, <3>4 DEF GuardedOK
    <3>6. /\ InstanceOK(i)' /\ RequestsOK'
          /\ \A j \in Instances \ {i} : request'[j] = request[j]
      BY <1>2, <1>5, <2>4, <3>2, <3>5, RequestMoves
    <3> QED
      BY <1>1, <1>2, <2>1, <3>6, ServedStep
  <2>5. CASE ~Verifies(r, keys)
    <3>1. refused \in Request /\ refused.stage = "done" /\ refused.status = status
      BY <1>3, <2>2, AnsweredFields
    <3>2. GuardedOK(refused)
      BY <1>1, <1>3, <2>2, <2>3, AnsweredIsGuarded
    <3> HIDE DEF refused
    <3>3. refused.stage = "done" <=> refused.status # 0
      BY <1>3, <3>1
    <3>4. /\ InstanceOK(i)' /\ RequestsOK'
          /\ \A j \in Instances \ {i} : request'[j] = request[j]
      BY <1>2, <1>5, <2>5, <3>1, <3>2, <3>3, RequestMoves
    <3> QED
      BY <1>1, <1>2, <2>1, <3>4, ServedStep
  <2> QED
    BY <2>4, <2>5
<1> QED
  BY <1>4, <1>5 DEF Authenticate, status

LEMMA PublishKeysKeeps ==
  ASSUME ServiceInv, NEW i \in Instances, PublishKeys(i)
  PROVE  ServiceInv'
<1> DEFINE r == request[i]
<1>1. /\ config' = config /\ parameters' = parameters /\ live' = live /\ app' = app
      /\ Serving(i, "handling")
  BY DEF PublishKeys
<1>2. /\ TypeOK /\ InstanceOK(i) /\ ~Idle(i) /\ live \in SUBSET Keys
      /\ r.counted = Own(r) /\ app'[i] \notin {"starting", "rejected"}
      /\ Route(r) = RouteTable[r.route] /\ r.route \in DOMAIN RouteTable
  BY <1>1, ServedRequest DEF GuardedOK, TypeOK
<1>3. PICK keys \in Memoized(memo[i].trusted, TrustedParameter) :
        /\ memo' = [memo EXCEPT ![i].trusted = keys]
        /\ Answer(i, IF keys = Failed THEN StatusOf("Error") ELSE Route(r).success)
  BY DEF PublishKeys
<1>4. /\ memo' \in [Instances -> [signing : Keys \cup {Unread, Failed},
                                  trusted : (SUBSET Keys) \cup {Unread, Failed}]]
      /\ \A j \in Instances \ {i} : memo'[j] = memo[j]
  BY <1>1, <1>2, <1>3, TrustedMemo
<1>5. PICK status \in Statuses \ {0} : Answer(i, status)
  <2>1. Route(r).success \in Statuses \ {0}
    BY <1>2, RouteFields DEF Statuses
  <2>2. StatusOf("Error") \in Statuses \ {0}
    BY StatusType
  <2> QED
    BY <1>3, <2>1, <2>2
<1>6. /\ InstanceOK(i)' /\ RequestsOK'
      /\ \A j \in Instances \ {i} : request'[j] = request[j]
  BY <1>2, <1>5, AnswerMoves
<1> QED
  BY <1>1, <1>2, <1>4, <1>6, ServedStep

LEMMA SignTokenKeeps ==
  ASSUME ServiceInv, NEW i \in Instances, SignToken(i)
  PROVE  ServiceInv'
<1> DEFINE r == request[i]
<1>1. /\ config' = config /\ parameters' = parameters /\ app' = app
      /\ Serving(i, "handling")
  BY DEF SignToken
<1>2. /\ TypeOK /\ InstanceOK(i) /\ ~Idle(i) /\ live \in SUBSET Keys
      /\ r.counted = Own(r) /\ app'[i] \notin {"starting", "rejected"}
      /\ Route(r) = RouteTable[r.route] /\ r.route \in DOMAIN RouteTable
  BY <1>1, ServedRequest DEF GuardedOK, TypeOK
<1>3. PICK key \in Memoized(memo[i].signing, SigningParameter) :
        /\ memo' = [memo EXCEPT ![i].signing = key]
        /\ live' = IF key = Failed THEN live ELSE live \cup {key}
        /\ Answer(i, IF key = Failed THEN StatusOf("Error") ELSE Route(r).success)
  BY DEF SignToken
<1>4. key \in Keys \cup {Failed}
  BY <1>2, KeysRead
<1> DEFINE m == [memo[i] EXCEPT !.signing = key]
<1>5. memo' = [memo EXCEPT ![i] = m]
  BY <1>2, <1>3 DEF TypeOK
<1>6. m \in [signing : Keys \cup {Unread, Failed}, trusted : (SUBSET Keys) \cup {Unread, Failed}]
  <2>1. memo[i] \in [signing : Keys \cup {Unread, Failed},
                     trusted : (SUBSET Keys) \cup {Unread, Failed}]
    BY <1>2 DEF TypeOK
  <2> QED
    BY <1>4, <2>1
<1> HIDE DEF m
<1>7. /\ memo' \in [Instances -> [signing : Keys \cup {Unread, Failed},
                                  trusted : (SUBSET Keys) \cup {Unread, Failed}]]
      /\ \A j \in Instances \ {i} : memo'[j] = memo[j]
  BY <1>2, <1>5, <1>6 DEF TypeOK
<1>8. live' \in SUBSET Keys
  BY <1>2, <1>3, <1>4
<1>9. PICK status \in Statuses \ {0} : Answer(i, status)
  <2>1. Route(r).success \in Statuses \ {0}
    BY <1>2, RouteFields DEF Statuses
  <2>2. StatusOf("Error") \in Statuses \ {0}
    BY StatusType
  <2> QED
    BY <1>3, <2>1, <2>2
<1>10. /\ InstanceOK(i)' /\ RequestsOK'
       /\ \A j \in Instances \ {i} : request'[j] = request[j]
  BY <1>2, <1>9, AnswerMoves
<1> QED
  BY <1>1, <1>7, <1>8, <1>10, ServedStep

\* The operator moves the trusted set and the signing key; the instances and
\* their requests do not notice.
LEMMA OperatorMoves ==
  ASSUME ServiceInv, UNCHANGED <<config, app, memo, request>>,
         parameters' \in [signing : Keys, trusted : SUBSET Keys], live' \in SUBSET Keys
  PROVE  ServiceInv'
<1> TypeOK /\ ServingInv
  BY DEF ServiceInv
<1>1. TypeOK'
  BY DEF TypeOK, Configurations
<1>2. ServingInv'
  BY DEF ServingInv, InstanceOK, Idle, GuardedOK, Own, Route
<1> QED
  BY <1>1, <1>2 DEF ServiceInv

LEMMA OperateKeeps ==
  ASSUME ServiceInv, NEW k \in Keys, Operate(k)
  PROVE  ServiceInv'
<1>1. parameters \in [signing : Keys, trusted : SUBSET Keys] /\ live \in SUBSET Keys
  BY DEF ServiceInv, TypeOK
<1>2. CASE PublishKey(k) \/ SwitchSigningKey(k) \/ RetireKey(k)
  <2>1. UNCHANGED <<config, app, memo, request>> /\ live' = live
    BY <1>2 DEF PublishKey, SwitchSigningKey, RetireKey
  <2>2. parameters' \in [signing : Keys, trusted : SUBSET Keys]
    BY <1>1, <1>2 DEF PublishKey, SwitchSigningKey, RetireKey
  <2> QED
    BY <1>1, <2>1, <2>2, OperatorMoves
<1>3. CASE ExpireTokens(k)
  <2>1. /\ UNCHANGED <<config, app, memo, request>> /\ parameters' = parameters
        /\ live' = live \ {k}
    BY <1>3 DEF ExpireTokens
  <2> QED
    BY <1>1, <2>1, OperatorMoves
<1> QED
  BY <1>2, <1>3 DEF Operate

LEMMA NextKeeps == ServiceInv /\ [Next]_vars => ServiceInv'
<1> SUFFICES ASSUME ServiceInv, [Next]_vars PROVE ServiceInv'
  OBVIOUS
<1>1. ASSUME NEW i \in Instances, Invocations(i) PROVE ServiceInv'
  BY <1>1, InvokeKeeps DEF Invocations
<1>2. ASSUME NEW i \in Instances, Serve(i) PROVE ServiceInv'
  BY <1>2, AppStartsKeeps, AppFailsToStartKeeps, CatchFailureKeeps, RefuseBodyKeeps,
     AuthenticateKeeps, LimitKeeps, PublishKeysKeeps, SignTokenKeeps, HandleKeeps DEF Serve
<1>3. ASSUME NEW i \in Instances, Kill(i) PROVE ServiceInv'
  BY <1>3, KillKeeps
<1>4. ASSUME NEW k \in Keys, Operate(k) PROVE ServiceInv'
  BY <1>4, OperateKeeps
<1>5. CASE UNCHANGED vars
  <2>1. /\ UNCHANGED <<config, app, memo, request>>
        /\ parameters' = parameters /\ live' = live
    BY <1>5 DEF vars
  <2>2. parameters \in [signing : Keys, trusted : SUBSET Keys] /\ live \in SUBSET Keys
    BY DEF ServiceInv, TypeOK
  <2> QED
    BY <2>1, <2>2, OperatorMoves
<1> QED
  BY <1>1, <1>2, <1>3, <1>4, <1>5 DEF Next

-----------------------------------------------------------------------------

\* At each of its stages a request stands with the guards as the stage says:
\* verified before it is counted under the account, counted once under its own
\* key before it is handled, and no instance waits with a rejected start; for
\* any environments, instances, keys, addresses and headers, and whatever the
\* operator does with the keys.
THEOREM ServiceInvHolds == Spec => []ServiceInv
<1> QED
  BY InitIsInvariant, NextKeeps, PTL DEF Spec

\* The variables of the service keep their types; among them, every status
\* is one of those that clients are promised.
THEOREM ServiceTypeCorrect == Spec => []TypeOK
<1>1. ServiceInv => TypeOK
  BY DEF ServiceInv
<1> QED
  BY <1>1, ServiceInvHolds, PTL

\* Every part is built from bounds that its own specification assumes,
\* whatever the environment, or nothing is built at all.
THEOREM AcceptedConfigurationsAreSound == Spec => []PoliciesAreSound
<1>1. ASSUME ServiceInv PROVE PoliciesAreSound
  <2> SUFFICES ASSUME config # Invalid PROVE Sound(config)
    BY DEF PoliciesAreSound
  <2>1. PICK env \in Environments : config = ParseAppConfig(env)
    BY <1>1 DEF ServiceInv, TypeOK, Configurations
  <2>2. env \in RawEnvironment /\ Accepts(env) /\ config = ToAppConfig(env)
    BY <2>1, ServiceAssumption DEF ParseAppConfig
  <2> QED
    BY <2>2, AcceptedIsSound
<1> QED
  BY <1>1, ServiceInvHolds, PTL

\* Whatever a client writes into its headers, a request is counted once,
\* under the key that is its own.
THEOREM NobodyChoosesTheirKey == Spec => []CountedOnce
<1>1. ASSUME ServiceInv PROVE CountedOnce
  <2>1. ASSUME NEW i \in Instances, request[i] # None PROVE GuardedOK(request[i])
    BY <1>1, <2>1 DEF ServiceInv, ServingInv, InstanceOK
  <2> QED
    BY <2>1 DEF CountedOnce, GuardedOK, Own
<1> QED
  BY <1>1, ServiceInvHolds, PTL

\* A start that failed is never served again.
THEOREM FailedStartIsForgotten == Spec => []NoPoisonedContainer
<1>1. ServiceInv => NoPoisonedContainer
  BY DEF ServiceInv, ServingInv, InstanceOK, NoPoisonedContainer
<1> QED
  BY <1>1, ServiceInvHolds, PTL

-----------------------------------------------------------------------------
(* When keys are read.                                                     *)

ReadsLazily(i) ==
  /\ memo[i].signing = Unread /\ memo'[i].signing # Unread =>
       Serving(i, "handling") /\ Route(request[i]).signs
  /\ memo[i].trusted = Unread /\ memo'[i].trusted # Unread =>
       ~Idle(i) /\ (request[i].route = "jwks" \/ ~Route(request[i]).public)

\* A memo that is replaced as a whole, or in one of its two parts.
LEMMA MemoMoves ==
  ASSUME TypeOK, NEW i \in Instances, NEW j \in Instances
  PROVE  /\ memo' = memo => memo'[j] = memo[j]
         /\ memo' = [memo EXCEPT ![i] = NoMemo] => memo'[j] = IF j = i THEN NoMemo ELSE memo[j]
         /\ \A key : memo' = [memo EXCEPT ![i].signing = key] =>
              /\ memo'[j].trusted = memo[j].trusted
              /\ memo'[j].signing = IF j = i THEN key ELSE memo[j].signing
         /\ \A keys : memo' = [memo EXCEPT ![i].trusted = keys] =>
              /\ memo'[j].signing = memo[j].signing
              /\ memo'[j].trusted = IF j = i THEN keys ELSE memo[j].trusted
<1>1. \A k \in Instances : memo[k] \in [signing : Keys \cup {Unread, Failed},
                                     trusted : (SUBSET Keys) \cup {Unread, Failed}]
  BY DEF TypeOK
<1>2. ASSUME NEW key, memo' = [memo EXCEPT ![i].signing = key]
      PROVE  /\ memo'[j].trusted = memo[j].trusted
             /\ memo'[j].signing = IF j = i THEN key ELSE memo[j].signing
  BY <1>1, <1>2 DEF TypeOK
<1>3. ASSUME NEW keys, memo' = [memo EXCEPT ![i].trusted = keys]
      PROVE  /\ memo'[j].signing = memo[j].signing
             /\ memo'[j].trusted = IF j = i THEN keys ELSE memo[j].trusted
  BY <1>1, <1>3 DEF TypeOK
<1>4. memo' = [memo EXCEPT ![i] = NoMemo] => memo'[j] = IF j = i THEN NoMemo ELSE memo[j]
  BY DEF TypeOK
<1> QED
  BY <1>2, <1>3, <1>4

LEMMA StepsReadLazily ==
  ASSUME TypeOK, [Next]_vars, NEW j \in Instances
  PROVE  ReadsLazily(j)
<1>1. ASSUME memo'[j] = memo[j] PROVE ReadsLazily(j)
  BY <1>1 DEF ReadsLazily
<1>2. ASSUME memo'[j] = NoMemo PROVE ReadsLazily(j)
  BY <1>2 DEF ReadsLazily, NoMemo
<1>3. ASSUME NEW i \in Instances, CatchFailure(i) \/ Kill(i) PROVE ReadsLazily(j)
  <2>1. memo' = [memo EXCEPT ![i] = NoMemo]
    BY <1>3 DEF CatchFailure, Kill
  <2> QED
    BY <1>1, <1>2, <2>1, MemoMoves
<1>4. ASSUME NEW i \in Instances, AppStarts(i) PROVE ReadsLazily(j)
  <2>1. memo' = [memo EXCEPT ![i].signing = Unread]
    BY <1>4 DEF AppStarts, KeysReadAtStart
  <2> QED
    BY <2>1, MemoMoves DEF ReadsLazily
<1>5. ASSUME NEW i \in Instances, Authenticate(i) PROVE ReadsLazily(j)
  <2>1. ~Idle(i) /\ ~Route(request[i]).public
    BY <1>5 DEF Authenticate, Serving, IsPublicRoute
  <2>2. CASE memo' = memo
    BY <1>1, <2>2
  <2>3. ASSUME NEW keys, memo' = [memo EXCEPT ![i].trusted = keys] PROVE ReadsLazily(j)
    BY <2>1, <2>3, MemoMoves DEF ReadsLazily
  <2> QED
    BY <1>5, <2>2, <2>3 DEF Authenticate
<1>6. ASSUME NEW i \in Instances, PublishKeys(i) PROVE ReadsLazily(j)
  <2>1. PICK keys : memo' = [memo EXCEPT ![i].trusted = keys]
    BY <1>6 DEF PublishKeys
  <2>2. ~Idle(i) /\ request[i].route = "jwks"
    BY <1>6 DEF PublishKeys, Serving
  <2> QED
    BY <2>1, <2>2, MemoMoves DEF ReadsLazily
<1>7. ASSUME NEW i \in Instances, SignToken(i) PROVE ReadsLazily(j)
  <2>1. PICK key : memo' = [memo EXCEPT ![i].signing = key]
    BY <1>7 DEF SignToken
  <2>2. Serving(i, "handling") /\ Route(request[i]).signs
    BY <1>7 DEF SignToken
  <2> QED
    BY <2>1, <2>2, MemoMoves DEF ReadsLazily
<1>8. ASSUME NEW i \in Instances,
             Invocations(i) \/ AppFailsToStart(i) \/ RefuseBody(i) \/ Limit(i) \/ Handle(i)
      PROVE  memo' = memo
  BY <1>8 DEF Invocations, Invoke, AppFailsToStart, RefuseBody, Limit, Handle
<1>9. ASSUME NEW k \in Keys, Operate(k) PROVE memo' = memo
  BY <1>9 DEF Operate, PublishKey, SwitchSigningKey, RetireKey, ExpireTokens
<1>10. UNCHANGED vars => memo' = memo
  BY DEF vars
<1> QED
  BY <1>1, <1>3, <1>4, <1>5, <1>6, <1>7, <1>8, <1>9, <1>10 DEF Next, Serve

\* No key is read before a request needs it, and none by a request that does
\* not: health never depends on Parameter Store (FR25).
THEOREM NoRequestReadsAKeyEarly == Spec => KeysAreReadLazily
<1> DEFINE Lazily == \A i \in Instances :
                       /\ memo[i].signing = Unread /\ memo'[i].signing # Unread =>
                            Serving(i, "handling") /\ Route(request[i]).signs
                       /\ memo[i].trusted = Unread /\ memo'[i].trusted # Unread =>
                            ~Idle(i) /\ (request[i].route = "jwks" \/ ~Route(request[i]).public)
<1>1. TypeOK /\ [Next]_vars => [Lazily]_vars
  BY StepsReadLazily DEF ReadsLazily
<1> QED
  BY <1>1, ServiceTypeCorrect, PTL DEF Spec, KeysAreReadLazily

================================================================================
