----------------------------- MODULE MCPipeline -----------------------------
(***************************************************************************)
(* Deployments of Pipeline for TLC: one request with every combination of  *)
(* credentials, and a few requests that meet in a limiter, in the policy   *)
(* cache or in the bulkhead.                                               *)
(***************************************************************************)
EXTENDS Pipeline

CONSTANTS r1, r2, r3

Users == <<"/api", "/v1", "/users", "/42">>
Upload == <<"/api", "/v2", "/upload">>
Health == <<"/health">>
Docs == <<"/swagger-ui", "/index">>
Open == <<"/open", "/x">>
Infra == <<"/grpc.health.v1.Health/", "Check">>
Rpc == <<"/users.v1.Users/", "Get">>

\* Two versions, one of them deprecated, documentation and an open page.
Api ==
    LET based == with_base_path(NewApi, TRUE, <<"/api">>)
        versions == add_version(add_version(based, 1, {<<"/users", "/{id}">>}), 2, {<<"/users", "/{id}">>, <<"/upload">>})
    IN  with_frontend_routes(deprecate_version(versions, 1, DeprecationInfo(1, 2, "2026", "none")), {Docs, Open})

San(k, v) == [kind |-> k, value |-> v]
Cert(names) == [present |-> TRUE, parses |-> TRUE, names |-> names]

Certificates ==
    {NoCertificate, [present |-> TRUE, parses |-> FALSE, names |-> << >>],
     Cert(<<San("URI", "wildcard"), San("IP", "ingest")>>), Cert(<<San("DNS", "ingest")>>),
     Cert(<<San("DNS", "other"), San("URI", "ingest")>>)}

\* Claims of the application's own: a JSON value, a string, and a string of digits.
Tenant ==
    custom_claim(custom_claim(custom_claim(NoClaims, "tenant", Json("t1")), "city", Text("Bern")),
                 "code", Stringified("42"))
Alice(r) == build_claims(with_role(user(Tenant, "alice"), r))
Batch == build_claims(client(Tenant, "batch"))

\* A local or public PASETO, or a JWT of either kind of key.
Generator(format, purpose, active) == generator(format, purpose, "none", TokenGenerationConfig, "j1", active)
Own == Generator("paseto", "local", "none")
Static(claims) == generate_token(Own, claims, "future")

Ask(path) ==
    [path |-> path, method |-> "GET", cert |-> NoCertificate, header |-> "Bearer", large |-> FALSE,
     issued |-> Alice("reader"), generator |-> Own, token |-> Static(Alice("reader")),
     query |-> [page |-> Unset, per_page |-> Unset], peer |-> "ip1", forwarded_for |-> "none", real_ip |-> "none"]
By(claims, a) == [issued |-> claims, token |-> Static(claims)] @@ a
Silent(path) == [header |-> "none"] @@ Ask(path)

One(a) == r1 :> a
Two(a, b) == r1 :> a @@ r2 :> b
Three(a) == [r \in Ids |-> a]

Reads == {<<"reader", <<"GET", <<"/api", "/v1", "/users", "/{id}">>>>>>, <<"reader", <<"grpc", Rpc>>>>}

Plain ==
    [listener |-> "http", switches |-> Switches, audit |-> TRUE, audit_auth_events |-> TRUE, audit_all |-> TRUE,
     excluded |-> {}, audited_routes |-> {}, caller |-> "off",
     allowlist |-> {San("URI", "ingest")}, caller_public |-> {}, token |-> "paseto", token_public |-> {},
     issuer |-> "none", api |-> build_routes(Api), key_manager |-> FALSE, revocation |-> FALSE, redis_fails |-> FALSE, cedar |-> "absent", cached |-> FALSE,
     fail_open |-> FALSE, policies |-> <<Reads>>, governor |-> FALSE, rate_limit |-> FALSE, routes |-> {},
     per_user_rpm |-> 10, per_client_rpm |-> 10, refills |-> 0, trust_forwarded |-> FALSE, max_entries |-> 99, max_concurrent |-> 0, window |-> 0,
     rows |-> 0, outcomes |-> {"ok"}, disconnects |-> FALSE, asks |-> One(Ask(Users))]

\* Every certificate and header, on paths of every kind, under every mode.
Callers ==
    {[listener |-> l, caller |-> m, token |-> t, cedar |-> c, caller_public |-> {<<"/open">>},
      token_public |-> {<<"/open">>},
      asks |-> One([cert |-> crt, header |-> h] @@ Ask(p))] @@ Plain :
        l \in {"http", "grpc"}, m \in {"off", "mtls", "mtls-or-bearer"}, t \in {"off", "paseto"},
        c \in {"absent", "enabled"}, crt \in Certificates, h \in {"none", "bearer", "Bearer"},
        p \in {Users, Rpc, Infra, Health, Docs, Open}}

\* Every token under both formats, with and without rotation and an issuer, as
\* method and body vary; kids that are unknown and keys that are not ours too.
Reader == issued_by(Alice("reader"), "other")
Making(g, e) == [issued |-> Reader, generator |-> g, token |-> generate_token(g, Reader, e)]
Signing ==
    {<<"paseto", "local", "rotated">>, <<"paseto", "public", "none">>, <<"paseto", "public", "rotated">>,
     <<"jwt", "secret", "rotated">>, <<"jwt", "public", "none">>}
Made ==
    {m \in {Making(generator(s[1], s[2], i, TokenGenerationConfig, "j1", s[3]), e) :
                s \in Signing, i \in {"none", "us"}, e \in {"past", "future"}} : m.token # Unsigned}
Presented ==
    Made \cup {[m EXCEPT !.token.kid = "gone"] : m \in Made} \cup {[m EXCEPT !.token.key = "forged"] : m \in Made}
Bearers ==
    {[token |-> f, key_manager |-> k, cedar |-> c, fail_open |-> o, issuer |-> i,
      asks |-> One([method |-> m, large |-> o] @@ t @@ Ask(Users))] @@ Plain :
        f \in {"paseto", "jwt"}, k \in BOOLEAN, c \in {"absent", "disabled", "enabled"}, o \in BOOLEAN,
        i \in {"none", "us"}, t \in Presented, m \in {"GET", "POST", "OPTIONS"}}

\* Handlers that fail in every way, audited in every way.
Handled ==
    {[outcomes |-> {"ok", "unserializable", "panic", "hang"} \cup {sqlx_error[e] : e \in DOMAIN sqlx_error}
                     \cup DOMAIN Responses \cup DOMAIN ApiError \cup DOMAIN RepositoryError,
      switches |-> sw,
      api |-> build_routes(IF all THEN Api ELSE with_fallback(add_version(NewApi, 1, {}))), excluded |-> x,
      audit_all |-> all, audited_routes |-> {<<"/api">>}, disconnects |-> TRUE,
      asks |-> One(Ask(Users))] @@ Plain :
        sw \in {{}, Switches}, x \in {{}, {<<"/api">>}}, all \in BOOLEAN}

\* The errors of the other two drivers, reported without the repository traits.
Reported ==
    {[listener |-> "server", token |-> "off",
      outcomes |-> {libsql_error[e] : e \in DOMAIN libsql_error} \cup {surrealdb_error[e] : e \in DOMAIN surrealdb_error},
      asks |-> One(Silent(Users))] @@ Plain}

\* Pages and sizes at and around the limits, of tables that end on a page or
\* within one.
Listed ==
    {[token |-> "off", rows |-> n, outcomes |-> {"list"},
      asks |-> One([query |-> [page |-> p, per_page |-> s]] @@ Silent(Users))] @@ Plain :
        n \in {0, 1, 19, 20, 21, 100, 101, 200, 250}, p \in {Unset, 0, 1, 2, 3, 11},
        s \in {Unset, 0, 1, 20, 99, 100, 101, 1000}}

\* A route by its method, a route, and patterns.
Route(m, p, per_user) == [method |-> m, pattern |-> p, rpm |-> 1, burst |-> 1, per_user |-> per_user]
Routed ==
    {{Route("POST", Upload, TRUE), Route("any", Upload, FALSE)},
     {Route("any", <<"/api", "/v1", "/users", "/{id}">>, TRUE), Route("any", <<"/api", "/**">>, FALSE)}, {}}

\* Three requests of one user or of one address meet in a bucket or a window.
Limited ==
    {[governor |-> TRUE, routes |-> rs, refills |-> 1, asks |-> Three([method |-> m] @@ a)] @@ Plain :
        rs \in Routed, m \in {"GET", "POST"}, a \in {Ask(Upload), Ask(Users), Silent(Open)}}
      \cup {[governor |-> TRUE, trust_forwarded |-> t, max_entries |-> n, token_public |-> {<<"/open">>},
             asks |-> (r1 :> ([forwarded_for |-> "ip2"] @@ Silent(Open))) @@ (r2 :> ([real_ip |-> "ip3"] @@ Silent(Open)))
                        @@ (r3 :> Silent(Open))] @@ Plain : t \in BOOLEAN, n \in {0, 1, 99}}
      \cup {[listener |-> "grpc", governor |-> TRUE, per_user_rpm |-> 1, asks |-> Three(Ask(Rpc))] @@ Plain}
      \cup {[listener |-> "grpc", governor |-> TRUE, per_user_rpm |-> 1, asks |-> One(Ask(Infra))] @@ Plain}
\* Two methods of one path, each with a limit of its own, share a window.
Unequal == {[method |-> m, pattern |-> Upload, rpm |-> IF m = "POST" THEN 1 ELSE 2, burst |-> 1, per_user |-> FALSE]
                : m \in {"GET", "POST"}}
Windows ==
    {[listener |-> "server", rate_limit |-> TRUE, routes |-> Unequal, redis_fails |-> f, disconnects |-> f,
      asks |-> (r1 :> ([method |-> "POST"] @@ Ask(Upload))) @@ (r2 :> Ask(Upload)) @@ (r3 :> Ask(Upload))] @@ Plain :
        f \in BOOLEAN} \cup
    {[listener |-> "server", rate_limit |-> TRUE, routes |-> rs, per_user_rpm |-> 2, per_client_rpm |-> 1,
      redis_fails |-> f, disconnects |-> f, token_public |-> {<<"/open">>}, asks |-> Three(a)] @@ Plain :
        rs \in Routed, f \in BOOLEAN,
        a \in {Ask(Users), Ask(Upload), Silent(Open),
               By(Batch, Ask(Open))}}

\* Tokens are revoked while they are used.
Revoking ==
    {[listener |-> l, revocation |-> TRUE, redis_fails |-> f, asks |-> Two(Ask(Users), Ask(Users))] @@ Plain :
        l \in {"http", "server", "grpc"}, f \in BOOLEAN}

\* Policies are reloaded under requests of one principal with two roles.
Policed ==
    {[listener |-> l, cedar |-> "enabled", cached |-> c, redis_fails |-> c, policies |-> <<Reads, {}, Reads>>,
      asks |-> Two(Ask(p), By(Alice("writer"), Ask(p)))] @@ Plain :
        l \in {"http", "grpc"}, p \in {Users, Rpc}, c \in BOOLEAN}

\* Overload and failing backends under Server::serve.
Resilient ==
    {[listener |-> "server", token |-> "off", max_concurrent |-> n, window |-> w,
      outcomes |-> {"ok", "panic", "hang", "Timeout", "NotFound"}, asks |-> Three(Silent(Users))] @@ Plain :
        n \in {0, 1, 2}, w \in {0, 2}}

MCDeployments ==
    Callers \cup Bearers \cup Handled \cup Reported \cup Listed \cup Limited \cup Windows \cup Revoking \cup Policed \cup Resilient

=============================================================================
