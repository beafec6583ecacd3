----------------------------- MODULE Environment -----------------------------
(***************************************************************************)
(* The configuration every instance starts from: parseAppConfig, which     *)
(* accepts or refuses the environment as a whole, and the policies and     *)
(* bounds that the modules hand from it to their parts.                    *)
(*                                                                         *)
(* A variable's text is kept as far as the schema tells texts apart: not   *)
(* set, blank, digits (with the number they spell), a URL, the one word    *)
(* "development", any other text.                                          *)
(***************************************************************************)
EXTENDS Naturals

CONSTANT Invalid  \* the outcome of a parse that throws

Unset == "unset"

Raw == [kind : {Unset, "blank", "digits", "url", "development", "text"}, number : Nat]

\* The variables with a default (FR7, and the throttle's own defaults).
Default ==
  [ACCESS_TOKEN_TTL_SECONDS             |-> 900,
   REFRESH_TOKEN_TTL_SECONDS            |-> 604800,
   SESSION_CEILING_SECONDS              |-> 2592000,
   THROTTLE_CREDENTIALS_LIMIT           |-> 10,
   THROTTLE_CREDENTIALS_WINDOW_SECONDS  |-> 60,
   THROTTLE_REFRESH_LIMIT               |-> 60,
   THROTTLE_REFRESH_WINDOW_SECONDS      |-> 60,
   THROTTLE_JWKS_LIMIT                  |-> 120,
   THROTTLE_JWKS_WINDOW_SECONDS         |-> 60,
   THROTTLE_AUTHENTICATED_LIMIT         |-> 100,
   THROTTLE_AUTHENTICATED_WINDOW_SECONDS |-> 60,
   THROTTLE_COUNTER_SATURATION_FACTOR   |-> 2,
   THROTTLE_LOCAL_FALLBACK_FACTOR       |-> 1,
   THROTTLE_LOCAL_CACHE_MAX_ENTRIES     |-> 10000,
   THROTTLE_STORE_DEADLINE_MILLISECONDS |-> 500,
   THROTTLE_STORE_MAX_ATTEMPTS          |-> 3]

Numbers == DOMAIN Default

RequiredStrings == {"TABLE_NAME", "AWS_REGION", "JWT_AUDIENCE",
                    "SIGNING_KEY_PARAMETER_NAME", "VERIFICATION_KEYS_PARAMETER_NAME"}

Variables == Numbers \cup RequiredStrings \cup {"JWT_ISSUER", "DYNAMODB_ENDPOINT", "NODE_ENV"}

RawEnvironment == [Variables -> Raw]

Absent(raw) == raw.kind \in {Unset, "blank"}

\* Mutant: the digits are checked, what they spell is not.
NumberIsAccepted_Zero(raw) == Absent(raw) \/ raw.kind = "digits"

\* positiveIntegerWithDefault: only digits, and not those of zero.
NumberIsAccepted(raw) == Absent(raw) \/ (raw.kind = "digits" /\ raw.number > 0)

\* rawEnvironmentSchema: every variable is accepted, or none is used.
Accepts(env) ==
  /\ \A v \in Numbers : NumberIsAccepted(env[v])
  /\ \A v \in RequiredStrings : ~Absent(env[v])
  /\ env["JWT_ISSUER"].kind = "url"
  /\ Absent(env["DYNAMODB_ENDPOINT"]) \/ env["DYNAMODB_ENDPOINT"].kind = "url"

NumberOf(env, v) == IF Absent(env[v]) THEN Default[v] ELSE env[v].number

\* toKeySource: one exact value selects the local key pair.
KeySourceOf(nodeEnv) == IF nodeEnv.kind = "development" THEN "filesystem" ELSE "parameter-store"

\* toAppConfig: the fields the rest of the program computes with.
ToAppConfig(env) ==
  [keySource                        |-> KeySourceOf(env["NODE_ENV"]),
   accessTokenTtlSeconds            |-> NumberOf(env, "ACCESS_TOKEN_TTL_SECONDS"),
   refreshTokenTtlSeconds           |-> NumberOf(env, "REFRESH_TOKEN_TTL_SECONDS"),
   sessionCeilingSeconds            |-> NumberOf(env, "SESSION_CEILING_SECONDS"),
   throttleCredentialsLimit         |-> NumberOf(env, "THROTTLE_CREDENTIALS_LIMIT"),
   throttleCredentialsWindowSeconds |-> NumberOf(env, "THROTTLE_CREDENTIALS_WINDOW_SECONDS"),
   throttleRefreshLimit             |-> NumberOf(env, "THROTTLE_REFRESH_LIMIT"),
   throttleRefreshWindowSeconds     |-> NumberOf(env, "THROTTLE_REFRESH_WINDOW_SECONDS"),
   throttleJwksLimit                |-> NumberOf(env, "THROTTLE_JWKS_LIMIT"),
   throttleJwksWindowSeconds        |-> NumberOf(env, "THROTTLE_JWKS_WINDOW_SECONDS"),
   throttleAuthenticatedLimit       |-> NumberOf(env, "THROTTLE_AUTHENTICATED_LIMIT"),
   throttleAuthenticatedWindowSeconds |-> NumberOf(env, "THROTTLE_AUTHENTICATED_WINDOW_SECONDS"),
   throttleCounterSaturationFactor  |-> NumberOf(env, "THROTTLE_COUNTER_SATURATION_FACTOR"),
   throttleLocalFallbackFactor      |-> NumberOf(env, "THROTTLE_LOCAL_FALLBACK_FACTOR"),
   throttleLocalCacheMaxEntries     |-> NumberOf(env, "THROTTLE_LOCAL_CACHE_MAX_ENTRIES"),
   throttleStoreDeadlineMilliseconds |-> NumberOf(env, "THROTTLE_STORE_DEADLINE_MILLISECONDS"),
   throttleStoreMaxAttempts         |-> NumberOf(env, "THROTTLE_STORE_MAX_ATTEMPTS")]

ParseAppConfig(env) == IF Accepts(env) THEN ToAppConfig(env) ELSE Invalid

-----------------------------------------------------------------------------
(* What the parts are given                                                *)

Scopes == {"ip", "account"}
RouteGroups == {"credentials", "refresh", "jwks", "default"}

PublicLimit(config, group) ==
  CASE group = "credentials" -> config.throttleCredentialsLimit
    [] group = "refresh"     -> config.throttleRefreshLimit
    [] group = "jwks"        -> config.throttleJwksLimit
    [] OTHER                 -> config.throttleAuthenticatedLimit

PublicWindowSeconds(config, group) ==
  CASE group = "credentials" -> config.throttleCredentialsWindowSeconds
    [] group = "refresh"     -> config.throttleRefreshWindowSeconds
    [] group = "jwks"        -> config.throttleJwksWindowSeconds
    [] OTHER                 -> config.throttleAuthenticatedWindowSeconds

\* resolveThrottlePolicy: an account has one limit, whatever the route.
ResolveThrottlePolicy(config, scope, group) ==
  LET account == scope = "account"
      limit == IF account THEN config.throttleAuthenticatedLimit ELSE PublicLimit(config, group)
  IN  [limit             |-> limit,
       windowSeconds     |-> IF account THEN config.throttleAuthenticatedWindowSeconds
                                        ELSE PublicWindowSeconds(config, group),
       saturationCeiling |-> limit * config.throttleCounterSaturationFactor]

\* What ConfiguredThrottleStore builds its repository with.
StoreBounds(config, scope, group) ==
  [windowSeconds     |-> ResolveThrottlePolicy(config, scope, group).windowSeconds,
   saturationCeiling |-> ResolveThrottlePolicy(config, scope, group).saturationCeiling,
   maxAttempts       |-> config.throttleStoreMaxAttempts]

\* What the limiter and the admission use case are built with.
AdmissionBounds(config) ==
  [maxEntries |-> config.throttleLocalCacheMaxEntries,
   deadline   |-> config.throttleStoreDeadlineMilliseconds,
   factor     |-> config.throttleLocalFallbackFactor]

\* What the sign-in and rotation use cases and the signer are built with.
SessionBounds(config) ==
  [accessTtl  |-> config.accessTokenTtlSeconds,
   refreshTtl |-> config.refreshTokenTtlSeconds,
   ceiling    |-> config.sessionCeilingSeconds]

\* What the specifications of those parts assume of their constants.
Sound(config) ==
  /\ \A scope \in Scopes, group \in RouteGroups :
       LET policy == ResolveThrottlePolicy(config, scope, group)
           bounds == StoreBounds(config, scope, group)
       IN  /\ policy.limit \in Nat \ {0}
           /\ bounds.windowSeconds \in Nat \ {0}
           /\ bounds.saturationCeiling >= policy.limit
           /\ bounds.maxAttempts \in Nat \ {0}
  /\ \A bound \in DOMAIN AdmissionBounds(config) : AdmissionBounds(config)[bound] \in Nat \ {0}
  /\ \A bound \in DOMAIN SessionBounds(config) : SessionBounds(config)[bound] \in Nat \ {0}

=============================================================================
