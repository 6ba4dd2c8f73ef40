------------------------------- MODULE Tokens -------------------------------
(***************************************************************************)
(* Access tokens from their making to their reading: the claims an         *)
(* application puts together (auth/tokens/mod.rs), what the PASETO and JWT *)
(* generators make of them and sign with (paseto_generator.rs,             *)
(* jwt_generator.rs), and the claims the validators take out again         *)
(* (middleware/paseto.rs, jwt.rs).  A value of a payload is a JSON value,  *)
(* a string that no JSON value is written as, or the string that is the    *)
(* text of a JSON value, be it an application's own or made by PASETO.     *)
(***************************************************************************)
EXTENDS Naturals, Sequences, TLC

\* A map with one entry set; one map written over another.
insert(f, key, v) == [k \in DOMAIN f \cup {key} |-> IF k = key THEN v ELSE f[k]]
extend(f, g) == [k \in DOMAIN f \cup DOMAIN g |-> IF k \in DOMAIN g THEN g[k] ELSE f[k]]

NoClaims == [sub |-> << >>, role |-> "none", jti |-> "none", iss |-> "none", custom |-> << >>]

\* ClaimsBuilder.
user(claims, id) == [claims EXCEPT !.sub = <<"user:", id>>]
client(claims, id) == [claims EXCEPT !.sub = <<"client:", id>>]
with_role(claims, r) == [claims EXCEPT !.role = r]
issued_by(claims, i) == [claims EXCEPT !.iss = i]
custom_claim(claims, key, value) == [claims EXCEPT !.custom = insert(@, key, value)]

\* Claims need a subject; the generator sets the id.
build_claims(claims) == IF claims.sub = << >> THEN NoClaims ELSE [claims EXCEPT !.jti = "none"]

-----------------------------------------------------------------------------
(* Generators: format and purpose ("paseto" local or public, "jwt" with a  *)
(* secret or a key pair), issuer, whether ids are made, the id that will   *)
(* be made, whether rotation is on, and the active key if there is one.    *)

Text(v) == [form |-> "text", of |-> v]
Json(v) == [form |-> "json", of |-> v]
Stringified(v) == [form |-> "stringified", of |-> v]

standard_keys == {"sub", "exp", "iat", "jti", "iss", "aud"}

\* TokenGenerationConfig: its issuer is the default of the format's own.
TokenGenerationConfig == [issuer |-> "none", include_jti |-> TRUE]
issuer_of(own, config) == IF own # "none" THEN own ELSE config.issuer

\* PasetoGenerator::new, JwtGenerator::new and their setters; a key of another
\* length or an unknown algorithm is an error there.
generator(format, purpose, own_issuer, config, id, active) ==
    [format |-> format, purpose |-> purpose, issuer |-> issuer_of(own_issuer, config),
     include_jti |-> config.include_jti, id |-> id, active |-> active]

\* generate_internal: custom claims are written over the first ones, the
\* generator's issuer over those; empty roles are left out.
payload_of(g, claims, expiry) ==
    LET jti == IF g.include_jti THEN g.id ELSE claims.jti
        iss == IF g.issuer # "none" THEN g.issuer ELSE claims.iss
        first == [sub |-> Text(claims.sub), exp |-> Text(expiry)]
        with_roles == IF claims.role = "none" THEN first ELSE insert(first, "roles", Json(claims.role))
        with_id == IF jti = "none" THEN with_roles ELSE insert(with_roles, "jti", Text(jti))
        with_own == extend(with_id, claims.custom)
    IN  IF iss = "none" THEN with_own ELSE insert(with_own, "iss", Text(iss))

\* PASETO's own claims hold strings only: the others become JSON text.
normalize_custom_claims(payload) ==
    [k \in DOMAIN payload |->
        IF k \in standard_keys \/ payload[k].form # "json" THEN payload[k] ELSE Stringified(payload[k].of)]

\* populate_builder_claims sets the standard claims that are strings.
populate_builder_claims(payload) ==
    [k \in {x \in DOMAIN payload : x \notin standard_keys \/ payload[x].form = "text"} |-> payload[k]]

\* A rotated key is 32 random bytes: no Ed25519 or RSA private key.
signs_with_rotated(g) == g.purpose \in {"local", "secret"}

Unsigned == [format |-> "none", key |-> "none", kid |-> "none", payload |-> << >>]

\* generate_token: the active key of the rotation system with its kid, else the
\* generator's own; with a key that does not fit there is no token.
generate_token(g, claims, expiry) ==
    LET made == payload_of(g, claims, expiry)
        payload == IF g.format = "paseto" THEN populate_builder_claims(normalize_custom_claims(made)) ELSE made
    IN  IF g.active = "none" THEN [format |-> g.format, key |-> "static", kid |-> "none", payload |-> payload]
        ELSE IF signs_with_rotated(g)
        THEN [format |-> g.format, key |-> g.active, kid |-> g.active, payload |-> payload]
        ELSE Unsigned

-----------------------------------------------------------------------------
(* Reading.                                                                *)

Has(payload, k) == k \in DOMAIN payload

\* What a validator takes a value for: PASETO's parses every string and keeps
\* those that are no JSON text, whoever wrote them; serde leaves a JWT's alone.
parsed(format, v) == IF format = "paseto" /\ v.form = "stringified" THEN Json(v.of) ELSE v

\* parse_string_or_array: a JSON array or its text; anything else is empty.
parse_string_or_array(format, payload) ==
    IF Has(payload, "roles") /\ parsed(format, payload["roles"]).form = "json" THEN payload["roles"].of ELSE "none"

as_str(payload, k) == IF Has(payload, k) /\ payload[k].form # "json" THEN payload[k].of ELSE "none"

known_keys == standard_keys \cup {"email", "username", "roles", "perms"}

\* A token without a subject or an expiry is refused.
complete(payload) == Has(payload, "sub") /\ Has(payload, "exp")

\* json_to_claims, and JWT's deserialization into the same Claims.
json_to_claims(format, payload) ==
    [sub |-> payload["sub"].of, role |-> parse_string_or_array(format, payload), jti |-> as_str(payload, "jti"),
     iss |-> as_str(payload, "iss"),
     custom |-> [k \in DOMAIN payload \ known_keys |-> parsed(format, payload[k])]]

\* The parser checks the expiry, and the issuer if one is configured.
acceptable(payload, issuer) ==
    /\ complete(payload)
    /\ payload["exp"].of = "future"
    /\ issuer = "none" \/ as_str(payload, "iss") = issuer

=============================================================================
