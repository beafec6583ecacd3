---------------------------- MODULE ProblemDetails ----------------------------
(***************************************************************************)
(* The closed table from what a request threw to what its client is told:  *)
(* ProblemDetailsFilter and the rows that auth, throttling and the catalog *)
(* contribute.  No error belongs to two rows, so the order in which the    *)
(* filter tries them does not matter.  A detail repeats the error's own    *)
(* message only where the row exposes it.                                  *)
(***************************************************************************)

row(kinds, status, code, exposeMessage) ==
  [kinds |-> kinds, status |-> status, code |-> code, exposeMessage |-> exposeMessage]

authProblemMappings == {
  row({"EmailAlreadyRegisteredError"}, 409, "EMAIL_ALREADY_REGISTERED", TRUE),
  row({"InvalidPasswordLengthError"}, 422, "PASSWORD_LENGTH_INVALID", TRUE),
  row({"InvalidEmailAddressError"}, 422, "EMAIL_INVALID", TRUE),
  row({"InvalidCredentialsError"}, 401, "INVALID_CREDENTIALS", TRUE),
  row({"InvalidRefreshTokenCredentialError", "RefreshRejectedError"},
      401, "INVALID_REFRESH_TOKEN", TRUE),
  row({"UnauthorizedException"}, 401, "INVALID_ACCESS_TOKEN", FALSE),
  row({"RefreshTokenAccountNotFoundError", "MissingAuthClaimsError",
       "SigningKeyParameterMissingError", "VerificationKeysParameterMissingError",
       "VerificationKeysParameterNotJsonArrayError",
       "VerificationKeysParameterNotStringArrayError"},
      503, "SERVICE_UNAVAILABLE", FALSE)}

throttlingProblemMappings ==
  {row({"RateLimitExceededError"}, 429, "RATE_LIMIT_EXCEEDED", FALSE)}

catalogProblemMappings == {
  row({"InvalidCursorError"}, 422, "INVALID_CURSOR", TRUE),
  row({"InvalidPageLimitError"}, 422, "INVALID_PAGE_LIMIT", TRUE),
  row({"CatalogQueryFailedError", "MalformedProductItemError"},
      503, "SERVICE_UNAVAILABLE", FALSE)}

Rows == authProblemMappings \cup throttlingProblemMappings \cup catalogProblemMappings

DefaultMapping == row({}, 503, "SERVICE_UNAVAILABLE", FALSE)

\* A route the router never matched keeps its 404, outside the table.
MapException(kind) ==
  IF kind = "NotFoundException" THEN row({kind}, 404, "none", FALSE)
  ELSE IF \E r \in Rows : kind \in r.kinds THEN CHOOSE r \in Rows : kind \in r.kinds
  ELSE DefaultMapping

StatusOf(kind) == MapException(kind).status

=============================================================================
