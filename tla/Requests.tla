------------------------------ MODULE Requests ------------------------------
(***************************************************************************)
(* Requests on their way through the layers of a listener and back.  A     *)
(* layer passes a request on, answers it, or waits for something; an       *)
(* answer goes back through the layers that were passed.  Only the layers  *)
(* that do something of interest are met.                                  *)
(***************************************************************************)
EXTENDS Layers, Responses, Tokens, Versioning

CONSTANTS
    Ids,            \* requests
    Deployments     \* listeners, their settings, and what is asked of them

VARIABLES
    dep,            \* the deployment
    stack,          \* its layers, in the order a request meets them
    at,             \* the layer a request is in: 0 outside, then by position
    doing,          \* "idle", "call", "handler", "return", "answered", "gone",
                    \* or the await inside the layer
    held,           \* what is kept across that await, if anything
    ext,            \* the request's extensions: Claims and CallerIdentity
    answer,         \* the response's status, the layer that made it, what a
                    \* deprecated version added, and the listing it carries
    audited         \* audit events about requests

reqVars == <<dep, stack, at, doing, held, ext, answer, audited>>

\* A path is a sequence of pieces, so that a string prefix is a prefix.
starts_with(path, prefix) == IsPrefix(prefix, path)
starts_with_any(path, prefixes) == \E p \in prefixes : starts_with(path, p)

NoExtensions == [claims |-> NoClaims, identity |-> "none"]

\* Mutant of http_stack: catch_panic goes around everything, as if it had been
\* added last.
http_stack_PanicOutermost(d) ==
    Append(caller_layers(Added(authorization_layers(apply_middleware(d.switches \ {"catch_panic"}),
                                                    d.cedar # "absent", d.audit, d.governor),
                               d.token # "off", "token"),
                         d.caller \in {"mtls", "mtls-or-bearer"}, d.audit), "catch_panic")

\* ActonService's HTTP router.
http_stack(d) ==
    caller_layers(Added(authorization_layers(apply_middleware(d.switches),
                                             d.cedar # "absent", d.audit, d.governor),
                        d.token # "off", "token"),
                  d.caller \in {"mtls", "mtls-or-bearer"}, d.audit)

\* A router put together by hand, with the middleware the builder never adds,
\* under Server::serve; and the gRPC router, its services limited by hand.
Stack(d) ==
    Executes(CASE d.listener = "http" -> http_stack(d)
               [] d.listener = "server" ->
                    server_stack(Added(Added(<< >>, d.rate_limit, "rate_limit"), d.token # "off", "token"),
                                 d.max_concurrent > 0, d.window > 0)
               [] d.listener = "grpc" ->
                    Added(<< >>, d.governor, "grpc_rate_limit")
                      \o grpc_stack(d.cedar # "absent", d.token # "off",
                                    d.caller \in {"mtls", "mtls-or-bearer"}, d.audit))

ReqInit ==
    /\ dep \in Deployments
    /\ stack = Stack(dep)
    /\ at = [r \in Ids |-> 0] /\ doing = [r \in Ids |-> "idle"] /\ held = [r \in Ids |-> << >>]
    /\ ext = [r \in Ids |-> NoExtensions]
    /\ answer = [r \in Ids |-> [status |-> 0, by |-> "none", headers |-> {}, list |-> NoList]]
    /\ audited = {}

-----------------------------------------------------------------------------
(* What a deployment is, for any number of them.                           *)

ASSUME IdsAssumption == IsFiniteSet(Ids)

\* Counts are unsigned, and a table has rows.  Certificates and policies are
\* layers of the builder's routers only.
ASSUME DeploymentsAssumption ==
    \A d \in Deployments :
        /\ d.listener \in {"http", "server", "grpc"}
        /\ d.listener = "server" => d.caller = "off" /\ d.cedar = "absent"
        /\ {d.per_user_rpm, d.per_client_rpm, d.max_concurrent, d.rows} \subseteq Nat
        /\ \A e \in d.routes : e.rpm \in Nat /\ e.burst \in Nat
        /\ \A r \in DOMAIN d.asks : {d.asks[r].query.page, d.asks[r].query.per_page} \subseteq Nat \cup {Unset}

\* An application's own claims do not take the names of the standard ones.
OwnNames(claims) ==
    /\ claims.custom = [k \in DOMAIN claims.custom |-> claims.custom[k]]
    /\ \A k \in DOMAIN claims.custom :
         LET v == claims.custom[k] IN k \notin known_keys /\ v \in {Json(v.of), Text(v.of), Stringified(v.of)}

\* Nobody else has the keys: what they sign is what the ask's generator made of
\* the claims that were issued.
ASSUME SignaturesAssumption ==
    \A d \in Deployments : \A r \in DOMAIN d.asks :
        d.asks[r].token.key \in {"static", "rotated"} =>
            /\ OwnNames(d.asks[r].issued) /\ d.asks[r].token.format = d.asks[r].generator.format
            /\ \E e \in {"past", "future"} :
                 d.asks[r].token.payload = generate_token(d.asks[r].generator, d.asks[r].issued, e).payload

-----------------------------------------------------------------------------
Asked(r) == dep.asks[r]

Acting == {"caller_auth", "token", "governor", "grpc_rate_limit", "rate_limit", "cedar",
           "circuit_breaker", "bulkhead", "body_limit", "cors"}
Returning == {"audit", "circuit_breaker"}

Inner(i) == Min({j \in i + 1 .. Len(stack) : stack[j] \in Acting} \cup {Len(stack) + 1})
Outer(i) == Max({j \in 1 .. i - 1 : stack[j] \in Returning} \cup {0})

\* r is in the call of layer l; r awaits step w inside it.
In(r, l, w) == doing[r] = w /\ at[r] \in 1 .. Len(stack) /\ stack[at[r]] = l
Calls(r, l) == In(r, l, "call")

\* inner.call(request), with these extensions.
PassOn(r, e) ==
    /\ at' = [at EXCEPT ![r] = Inner(@)]
    /\ doing' = [doing EXCEPT ![r] = IF Inner(at[r]) > Len(stack) THEN "handler" ELSE "call"]
    /\ ext' = [ext EXCEPT ![r] = e]
    /\ held' = [held EXCEPT ![r] = << >>]
    /\ UNCHANGED answer

\* The layer at position i answers in place of what is inside it.
AnswerWith(r, i, by, status, headers, list) ==
    /\ at' = [at EXCEPT ![r] = Outer(i)]
    /\ doing' = [doing EXCEPT ![r] = IF Outer(i) = 0 THEN "answered" ELSE "return"]
    /\ answer' = [answer EXCEPT ![r] = [status |-> status, by |-> by, headers |-> headers, list |-> list]]
    /\ held' = [held EXCEPT ![r] = << >>]
    /\ UNCHANGED ext

AnswerFrom(r, i, by, status) == AnswerWith(r, i, by, status, {}, NoList)
Refuse(r, error) == AnswerFrom(r, at[r], stack[at[r]], into_response[error])

\* The answer leaves the layer it is in.
PassBack(r) ==
    /\ at' = [at EXCEPT ![r] = Outer(@)]
    /\ doing' = [doing EXCEPT ![r] = IF Outer(at[r]) = 0 THEN "answered" ELSE "return"]
    /\ UNCHANGED <<held, ext, answer>>

Await(r, step, value) ==
    /\ doing' = [doing EXCEPT ![r] = step]
    /\ held' = [held EXCEPT ![r] = value]
    /\ UNCHANGED <<at, ext, answer>>

\* log_auth: only with a logger among the extensions and the events wanted.
Logged(r, kind) ==
    audited' = IF dep.audit /\ dep.audit_auth_events
               THEN audited \cup {[of |-> r, kind |-> kind, status |-> 0]} ELSE audited

Arrives(r) ==
    /\ doing[r] = "idle" /\ r \in DOMAIN dep.asks
    /\ at' = [at EXCEPT ![r] = Inner(0)]
    /\ doing' = [doing EXCEPT ![r] = IF Inner(0) > Len(stack) THEN "handler" ELSE "call"]
    /\ UNCHANGED <<dep, stack, held, ext, answer, audited>>

\* The client is gone: the future is dropped wherever it waits.
Dropped(r) ==
    /\ doing[r] \notin {"idle", "answered", "gone"}
    /\ doing' = [doing EXCEPT ![r] = "gone"]
    /\ held' = [held EXCEPT ![r] = << >>]
    /\ UNCHANGED <<dep, stack, at, ext, answer, audited>>

=============================================================================
