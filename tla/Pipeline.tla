------------------------------ MODULE Pipeline ------------------------------
(***************************************************************************)
(* Requests through the whole stack of a listener: caller and token        *)
(* authentication, rate limits, auditing, policies, resilience, limits on  *)
(* body and time, and the handler, which may fail, panic or hang           *)
(* (audit/middleware.rs, middleware/resilience.rs, server.rs).             *)
(***************************************************************************)
EXTENDS CedarAuthz

VARIABLES
    breaker,        \* the circuit breaker's state and last results
    arrived         \* the policies and revocations in force when a request came

pipelineVars == <<reqVars, revoked, limitVars, cedarVars, breaker, arrived>>
others == <<dep, stack, revoked, limitVars, cedarVars, arrived>>

PipelineInit ==
    /\ ReqInit /\ TokenInit /\ LimitInit /\ CedarInit
    /\ breaker = [state |-> "closed", results |-> << >>]
    /\ arrived = [r \in Ids |-> [policy_set |-> 0, revoked |-> {}]]

Arrive(r) ==
    /\ Arrives(r)
    /\ arrived' = [arrived EXCEPT ![r] = [policy_set |-> policy_set, revoked |-> revoked]]
    /\ UNCHANGED <<revoked, limitVars, cedarVars, breaker>>

-----------------------------------------------------------------------------
(* Resilience.  The breaker and the semaphore are tower-resilience's.      *)

Position(l) == CHOOSE i \in DOMAIN stack : stack[i] = l

\* The calls inside the bulkhead; a permit goes with the future that holds it.
Permits == {r \in Ids : doing[r] \notin {"idle", "return", "answered", "gone"} /\ at[r] > Position("bulkhead")}

\* BulkheadLayer: a call waits for a permit until max_wait is over.
\* handle_resilience_error makes the rejection a 503.
Bulkhead(r) ==
    /\ Calls(r, "bulkhead")
    /\ IF Cardinality(Permits) < dep.max_concurrent THEN PassOn(r, ext[r])
       ELSE AnswerFrom(r, at[r], "bulkhead", 503)
    /\ UNCHANGED <<others, audited, breaker>>

\* CircuitBreakerLayer: open it answers at once; half open it lets calls try.
CircuitBreaker(r) ==
    /\ Calls(r, "circuit_breaker")
    /\ IF breaker.state # "open" THEN PassOn(r, ext[r])
       ELSE AnswerFrom(r, at[r], "circuit_breaker", 503)
    /\ UNCHANGED <<others, audited, breaker>>

\* The window is circuit_breaker_min_requests long; half of it failing opens.
Results(code) ==
    LET last == Append(breaker.results, IF is_server_error(code) THEN "failure" ELSE "success")
    IN  IF Len(last) > dep.window THEN Tail(last) ELSE last
Failures(results) == Cardinality({i \in DOMAIN results : results[i] = "failure"})

BreakerRecords(r) ==
    /\ In(r, "circuit_breaker", "return")
    /\ breaker' =
         CASE breaker.state = "half_open" ->
                [state |-> IF is_server_error(answer[r].status) THEN "open" ELSE "closed", results |-> << >>]
           [] breaker.state = "open" -> breaker
           [] OTHER ->
                LET last == Results(answer[r].status) IN
                IF Len(last) = dep.window /\ 2 * Failures(last) >= dep.window
                THEN [state |-> "open", results |-> << >>] ELSE [breaker EXCEPT !.results = last]
    /\ PassBack(r)
    /\ UNCHANGED <<others, audited>>

\* circuit_breaker_wait_duration is over.
HalfOpen ==
    /\ breaker.state = "open"
    /\ breaker' = [state |-> "half_open", results |-> << >>]
    /\ UNCHANGED <<reqVars, revoked, limitVars, cedarVars, arrived>>

-----------------------------------------------------------------------------
(* The other layers and the handler.                                       *)

\* RequestBodyLimitLayer, on a declared length.
BodyLimit(r) ==
    /\ Calls(r, "body_limit")
    /\ IF Asked(r).large THEN AnswerFrom(r, at[r], "body_limit", 413) ELSE PassOn(r, ext[r])
    /\ UNCHANGED <<others, audited, breaker>>

\* CorsLayer answers every OPTIONS itself.
Cors(r) ==
    /\ Calls(r, "cors")
    /\ IF Asked(r).method = "OPTIONS" THEN AnswerFrom(r, at[r], "cors", 200) ELSE PassOn(r, ext[r])
    /\ UNCHANGED <<others, audited, breaker>>

\* Where the router sends a request: tonic by service, axum by path.
Matched(r) ==
    IF dep.listener = "grpc"
    THEN [kind |-> IF is_grpc_infra_path(Asked(r).path) THEN "probe" ELSE "version", routes |-> {}, headers |-> {}]
    ELSE dispatch(dep.api, Asked(r).path)

\* A handler answers in one of the ways there are, makes an error of its own or
\* of its repository, or reports an error of the backend.
Outcome(s) ==
    IF s \in {"ok", "unserializable"} THEN VersionedResponse(s = "ok")
    ELSE IF s \in DOMAIN Responses THEN Responses[s]
    ELSE IF s \in DOMAIN ApiError THEN status_code[ApiError[s]]
    ELSE IF s \in DOMAIN RepositoryError THEN status_code[api_kind[RepositoryError[s]]]
    ELSE IF s = "list" THEN 200
    ELSE IF dep.listener = "http" THEN ThroughRepository(s) ELSE Direct(s)

HandlerAnswers(r) ==
    /\ doing[r] = "handler"
    /\ IF Matched(r).kind = "none" THEN AnswerFrom(r, at[r], "handler", 404)
       ELSE \E s \in dep.outcomes \ {"panic", "hang"} :
               AnswerWith(r, at[r], "handler", Outcome(s), Matched(r).headers,
                          IF s = "list" THEN ListResponse(Asked(r).query, dep.rows) ELSE NoList)
    /\ UNCHANGED <<others, audited, breaker>>

\* A panic unwinds up to CatchPanicLayer; without one the connection is lost.
HandlerPanics(r) ==
    /\ doing[r] = "handler" /\ "panic" \in dep.outcomes /\ Matched(r).kind # "none"
    /\ IF \E i \in DOMAIN stack : stack[i] = "catch_panic"
       THEN AnswerFrom(r, Position("catch_panic"), "catch_panic", 500)
       ELSE doing' = [doing EXCEPT ![r] = "gone"] /\ UNCHANGED <<at, held, ext, answer>>
    /\ UNCHANGED <<others, audited, breaker>>

\* TimeoutLayer drops what is inside it.
TimesOut(r) ==
    /\ "hang" \in dep.outcomes
    /\ \E i \in DOMAIN stack : stack[i] = "timeout" /\ at[r] > i
    /\ doing[r] \notin {"idle", "return", "answered", "gone"}
    /\ AnswerFrom(r, Position("timeout"), "timeout", 408)
    /\ UNCHANGED <<others, audited, breaker>>

\* audit_middleware on the way back: not an excluded path, and either all or the
\* listed ones.  It looks for an AuditRoute before the request goes inward, where
\* the route's own Extension would put it, so that it never finds one.
should_audit(r) ==
    LET path == Asked(r).path IN
    ~starts_with_any(path, dep.excluded) /\ (dep.audit_all \/ starts_with_any(path, dep.audited_routes))

AuditMiddleware(r) ==
    /\ In(r, "audit", "return")
    /\ audited' = IF should_audit(r)
                  THEN audited \cup {[of |-> r, status |-> answer[r].status, kind |-> "HttpRequest"]} ELSE audited
    /\ PassBack(r)
    /\ UNCHANGED <<others, breaker>>

Disconnect(r) ==
    /\ dep.disconnects /\ Dropped(r)
    /\ UNCHANGED <<revoked, limitVars, cedarVars, breaker, arrived>>

-----------------------------------------------------------------------------
Jtis == {claims_of(r).jti : r \in DOMAIN dep.asks} \ {"none"}

PipelineNext ==
    \/ \E r \in Ids :
         \/ Arrive(r) \/ Disconnect(r)
         \/ CallerAuthService(r) /\ UNCHANGED <<revoked, limitVars, cedarVars, breaker, arrived>>
         \/ TokenStep(r) /\ UNCHANGED <<limitVars, cedarVars, breaker, arrived>>
         \/ LimitStep(r) /\ UNCHANGED <<cedarVars, breaker, arrived>>
         \/ CedarStep(r) /\ UNCHANGED <<breaker, arrived>>
         \/ Bulkhead(r) \/ CircuitBreaker(r) \/ BreakerRecords(r)
         \/ BodyLimit(r) \/ Cors(r) \/ HandlerAnswers(r) \/ HandlerPanics(r) \/ TimesOut(r)
         \/ AuditMiddleware(r)
    \/ \E jti \in Jtis : revoke(jti) /\ UNCHANGED <<limitVars, cedarVars, breaker, arrived>>
    \/ \E key \in DOMAIN bucket : Replenish(key) /\ UNCHANGED <<cedarVars, breaker, arrived>>
    \/ dep.max_entries < 10 /\ cleanup_stale_limiters(dep.max_entries) /\ UNCHANGED <<cedarVars, breaker, arrived>>
    \/ \E key \in DOMAIN window : WindowEnds(key) /\ UNCHANGED <<cedarVars, breaker, arrived>>
    \/ (EditPolicies \/ reload_policies) /\ UNCHANGED <<breaker, arrived>>
    \/ \E key \in DOMAIN cache : CacheExpires(key) /\ UNCHANGED <<breaker, arrived>>
    \/ HalfOpen

PipelineSpec == PipelineInit /\ [][PipelineNext]_pipelineVars

-----------------------------------------------------------------------------
\* The probes, and documentation; never a handler of a version.
Infrastructure(r) ==
    \/ Matched(r).kind = "probe"
    \/ Matched(r).kind # "version" /\ starts_with_any(Asked(r).path, {<<"/swagger-ui">>, <<"/api-docs">>})

\* The credentials a request really brings.
BringsCertificate(r) ==
    Asked(r).cert.parses /\ \E i \in DOMAIN Asked(r).cert.names : Asked(r).cert.names[i] \in dep.allowlist
BringsToken(r) ==
    /\ Asked(r).header = "Bearer" /\ Asked(r).token.payload["exp"].of = "future"
    /\ dep.issuer \in {"none", claims_of(r).iss}
    /\ Asked(r).token.key \in (IF dep.key_manager THEN {"static", "rotated"} ELSE {"static"})
    /\ dep.revocation => claims_of(r).jti \notin arrived[r].revoked

\* A policy in force since the request came permits it; with the cache, one
\* that was in force before, for a request of the same principal.
Permitted(r) ==
    IF dep.cached
    THEN \E v \in 1 .. policy_set, o \in DOMAIN dep.asks :
            /\ claims_of(o).sub = ext[r].claims.sub
            /\ is_authorized(v, claims_of(o), build_action(r))
    ELSE \E v \in arrived[r].policy_set .. policy_set : is_authorized(v, ext[r].claims, build_action(r))

\* A listener that authorizes callers by certificate.
Certified(d) == d.caller \in {"mtls", "mtls-or-bearer"}

\* The claims a request acts under are the ones its token was issued with.
ActsAsIssued(r) ==
    LET claims == ext[r].claims
        issued == Asked(r).issued
        spelled(v) == dep.token = "paseto" /\ v = Stringified(v.of)
    IN  /\ claims.sub = issued.sub /\ claims.role = issued.role
        /\ DOMAIN claims.custom = DOMAIN issued.custom
        /\ \A k \in DOMAIN issued.custom :
             claims.custom[k] = IF spelled(issued.custom[k]) THEN Json(issued.custom[k].of) ELSE issued.custom[k]

\* Whatever the order of the layers and whatever changes meanwhile, a request
\* that reaches a handler outside the exempt paths brought what the deployment
\* asks for: the certificate under mtls, and under mtls-or-bearer that or some
\* bearer credential, which without a token layer nobody examines; a token that
\* was good and not revoked when it came or, under mtls-or-bearer, the
\* certificate instead; and a policy that permits it.  And whoever made the
\* token, with whatever key, the subject, roles and further claims it acts under
\* are those the token was issued for, but for a PASETO's strings that happen to
\* be JSON text, which are read as what they spell.
OnlyAuthorizedReach ==
    \A r \in Ids : doing[r] = "handler" /\ ~Infrastructure(r) =>
        /\ Certified(dep) /\ ~starts_with_any(Asked(r).path, dep.caller_public) =>
             BringsCertificate(r) \/ (dep.caller = "mtls-or-bearer" /\ has_bearer_credential(r))
        /\ dep.token # "off" /\ ~starts_with_any(Asked(r).path, dep.token_public) =>
             BringsToken(r) \/ (dep.caller = "mtls-or-bearer" /\ BringsCertificate(r))
        /\ dep.cedar = "enabled" => BringsToken(r) /\ (dep.fail_open \/ Permitted(r))
        /\ ext[r].claims # NoClaims => ActsAsIssued(r)

\* With auditing of everything, an answer a client gets from behind the
\* certificate check left its trace: a denial by the token layer or the
\* governor its own event, any other answer, a caught panic and a timeout
\* included, an event with the status that was sent.  Only an error of the
\* revocation store, a 500 of the token layer, leaves none.
AnswersAreLogged ==
    \A r \in Ids :
        /\ doing[r] = "answered" /\ dep.listener = "http" /\ dep.audit /\ dep.audit_auth_events /\ dep.audit_all
        /\ ~starts_with_any(Asked(r).path, dep.excluded)
        /\ answer[r].by # "caller_auth" /\ <<answer[r].by, answer[r].status>> # <<"token", into_response["Internal"]>>
        => \E e \in audited :
              /\ e.of = r
              /\ IF answer[r].by \in {"token", "governor"}
                 THEN e.kind \in {"AuthTokenMissing", "AuthTokenInvalid", "AuthTokenRevoked", "HttpRequestDenied"}
                 ELSE e.kind = "HttpRequest" /\ e.status = answer[r].status

\* However requests interleave: of the requests let through in one window those
\* under a limit, or under a smaller one that shares the key, are no more than
\* that limit, and no bucket lets through more than its burst and what was
\* added; and whatever page of whatever size a client asks for, a listing has at
\* most MAX_PER_PAGE rows and announces a next page exactly when rows are left
\* behind it.
LimitsHold ==
    /\ \A key \in DOMAIN window : \A p \in window[key].passed :
         Cardinality({q \in window[key].passed : q.limit <= p.limit}) <= p.limit
    /\ \A key \in DOMAIN bucket : bucket[key].passed <= bucket[key].burst + bucket[key].added
    /\ \A r \in Ids : LET l == answer[r].list IN
         /\ l.rows <= MAX_PER_PAGE
         /\ l.meta.has_next = ((l.meta.page - 1) * l.meta.per_page + l.rows < l.meta.total)

=============================================================================
