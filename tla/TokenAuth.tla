------------------------------ MODULE TokenAuth ------------------------------
(***************************************************************************)
(* The bearer token layers over HTTP and gRPC (middleware/paseto.rs,       *)
(* jwt.rs, token.rs, revocation.rs; GrpcTokenAuthLayer).  Validation reads *)
(* keys only; whether a token is revoked is asked of Redis.                *)
(***************************************************************************)
EXTENDS CallerAuth

VARIABLE revoked        \* token:revoked:{jti} in Redis

TokenInit == revoked = {}

\* What Redis does with a command: an error is the caller's error.
Fails == dep.redis_fails

extract_token(r) == Asked(r).header = "Bearer"

\* "rotated" is a key the rotation system still verifies with.
validate_with(token, key) == token.key = key /\ acceptable(token.payload, dep.issuer)

\* PASETO has no kid: the static key first, then each verification key.
validate_paseto(token) ==
    \/ validate_with(token, "static")
    \/ dep.key_manager /\ validate_with(token, "rotated")

\* A kid that is known decides; an unknown one means every key is tried; the
\* static key is for tokens without a kid and for those no other key verified.
validate_jwt(token) ==
    IF dep.key_manager /\ token.kid = "rotated" THEN validate_with(token, "rotated")
    ELSE \/ dep.key_manager /\ token.kid # "none" /\ validate_with(token, "rotated")
         \/ validate_with(token, "static")

\* Neither parser takes a token of the other format.
validate_token(token) ==
    token.format = dep.token /\ IF dep.token = "jwt" THEN validate_jwt(token) ELSE validate_paseto(token)
token_error == IF dep.token = "jwt" THEN "Jwt" ELSE "Paseto"

\* OPTIONS, probes, documentation and configured paths need no token.
skips_authentication(r) ==
    \/ dep.listener # "grpc" /\ Asked(r).method = "OPTIONS"
    \/ IF dep.listener = "grpc" THEN is_grpc_infra_path(Asked(r).path)
       ELSE Asked(r).path \in {<<"/health">>, <<"/ready">>}
              \/ starts_with_any(Asked(r).path, {<<"/swagger-ui">>, <<"/api-docs">>})
    \/ starts_with_any(Asked(r).path, dep.token_public)
    \/ bearer_waived(r)

claims_of(r) == json_to_claims(Asked(r).token.format, Asked(r).token.payload)

\* The claims go into the request's extensions.
Authenticated(r) ==
    /\ PassOn(r, [ext[r] EXCEPT !.claims = claims_of(r)])
    /\ IF dep.listener = "grpc" THEN UNCHANGED audited ELSE Logged(r, "AuthLoginSuccess")

\* Over gRPC a refusal is not audited.
TokenRefused(r, error, kind) ==
    /\ Refuse(r, error)
    /\ IF dep.listener = "grpc" THEN UNCHANGED audited ELSE Logged(r, kind)

\* PasetoAuth::middleware, JwtAuth::middleware, GrpcTokenAuthService::call.
TokenMiddleware(r) ==
    /\ Calls(r, "token")
    /\ IF skips_authentication(r) THEN PassOn(r, ext[r]) /\ UNCHANGED audited
       ELSE IF ~extract_token(r) THEN TokenRefused(r, "Unauthorized", "AuthTokenMissing")
       ELSE IF ~validate_token(Asked(r).token) THEN TokenRefused(r, token_error, "AuthTokenInvalid")
       ELSE IF dep.revocation /\ claims_of(r).jti # "none"
            THEN Await(r, "is_revoked", << >>) /\ UNCHANGED audited
       ELSE Authenticated(r)
    /\ UNCHANGED <<dep, stack, revoked>>

\* RedisTokenRevocation::is_revoked; its error fails the request, unaudited.
is_revoked(r) ==
    /\ In(r, "token", "is_revoked")
    /\ \/ /\ Fails /\ Refuse(r, "Internal") /\ UNCHANGED audited
       \/ IF claims_of(r).jti \in revoked
          THEN TokenRefused(r, "Unauthorized", "AuthTokenRevoked")
          ELSE Authenticated(r)
    /\ UNCHANGED <<dep, stack, revoked>>

\* RedisTokenRevocation::revoke, from wherever the application calls it.
revoke(jti) ==
    /\ dep.revocation /\ jti \notin revoked
    /\ revoked' = revoked \cup {jti}
    /\ UNCHANGED reqVars

TokenStep(r) == TokenMiddleware(r) \/ is_revoked(r)

==============================================================================
