----------------------------- MODULE RateLimits -----------------------------
(***************************************************************************)
(* The three rate limiters: the in-memory governor of the builder          *)
(* (middleware/governor.rs), the Redis window applied by hand              *)
(* (middleware/rate_limit.rs), and the single bucket of a gRPC server      *)
(* (grpc/middleware.rs), with the route patterns the first two match       *)
(* (middleware/route_matcher.rs).                                          *)
(***************************************************************************)
EXTENDS TokenAuth

VARIABLES
    window,     \* Redis: of each key its count and whether it will expire; and
                \* the requests let through on it, each with the count it got
                \* and the limit it was under
    bucket      \* governor: of each key the tokens left, the burst, the tokens
                \* added since it was made and the requests let through

limitVars == <<window, bucket>>

LimitInit == window = << >> /\ bucket = << >>

Keyed(f, key, new) == IF key \in DOMAIN f THEN f[key] ELSE new

-----------------------------------------------------------------------------
(* Routes.                                                                 *)

\* Segments that are a number or a UUID.
normalize_path(path) == [i \in DOMAIN path |-> IF path[i] \in {"/42", "/uuid"} THEN "/{id}" ELSE path[i]]

\* A pattern: "/*" and "/{id}" stand for a segment, a final "/**" for the rest.
wildcard(pattern) == \E i \in DOMAIN pattern : pattern[i] \in {"/*", "/**", "/{id}"}
SegmentMatches(p, s) == p = s \/ p \in {"/*", "/{id}"}
is_match(pattern, path) ==
    LET open == pattern[Len(pattern)] = "/**"
        fixed == IF open THEN Len(pattern) - 1 ELSE Len(pattern)
    IN  /\ IF open THEN Len(path) > fixed ELSE Len(path) = fixed
        /\ \A i \in 1 .. fixed : SegmentMatches(pattern[i], path[i])

calculate_specificity(pattern) ==
    FoldLeft(LAMBDA acc, s : acc + (CASE s = "/*" -> 5 [] s = "/**" -> 1 [] s = "/{id}" -> 7 [] OTHER -> 10),
             0, pattern)

NoRoute == [method |-> "none", pattern |-> << >>, rpm |-> 0, burst |-> 0, per_user |-> FALSE]

\* A route with the method, then one without, then the most specific pattern.
match_route(method, path) ==
    LET exact(m) == {e \in dep.routes : ~wildcard(e.pattern) /\ e.pattern = path /\ e.method = m}
        patterns == {e \in dep.routes : /\ wildcard(e.pattern) /\ e.method \in {"any", method}
                                        /\ is_match(e.pattern, path)}
        best == {e \in patterns : \A o \in patterns :
                    calculate_specificity(o.pattern) <= calculate_specificity(e.pattern)}
    IN  IF exact(method) # {} THEN CHOOSE e \in exact(method) : TRUE
        ELSE IF exact("any") # {} THEN CHOOSE e \in exact("any") : TRUE
        ELSE IF best # {} THEN CHOOSE e \in best : TRUE ELSE NoRoute

\* Claims::is_user, is_client: by the prefix of the subject.
subject_kind(sub) ==
    IF starts_with(sub, <<"user:">>) THEN "user"
    ELSE IF starts_with(sub, <<"client:">>) THEN "client" ELSE "unknown"
global_rpm(claims) == IF subject_kind(claims.sub) = "client" THEN dep.per_client_rpm ELSE dep.per_user_rpm

-----------------------------------------------------------------------------
(* Governor.                                                               *)

at_least_one(n) == IF n = 0 THEN 1 ELSE n

\* create_limiter: the bucket starts full.
create_limiter(burst) == [tokens |-> at_least_one(burst), burst |-> at_least_one(burst), added |-> 0, passed |-> 0]

\* extract_client_ip: what a proxy in front says, if it is trusted and says an
\* address; else the peer of the connection.
extract_client_ip(ask, trust_forwarded_headers) ==
    LET said == SelectSeq(<<ask.forwarded_for, ask.real_ip>>, LAMBDA ip : ip # "none")
    IN  IF trust_forwarded_headers /\ said # << >> THEN Head(said) ELSE ask.peer

\* check_rate_limit: the bucket a request draws from, and its size.
governor_key(r) ==
    LET path == normalize_path(Asked(r).path)
        route == match_route(Asked(r).method, path)
        claims == ext[r].claims
        ip == extract_client_ip(Asked(r), dep.trust_forwarded)
        who == IF claims # NoClaims THEN <<"user", claims.sub>> ELSE <<"ip", ip>>
    IN  IF route # NoRoute
        THEN [key |-> <<"route", path>> \o (IF route.per_user THEN who ELSE <<"global">>), burst |-> route.burst]
        ELSE IF claims # NoClaims
        THEN [key |-> <<subject_kind(claims.sub), claims.sub>>, burst |-> global_rpm(claims) \div 10]
        ELSE [key |-> <<"ip", ip>>, burst |-> dep.per_user_rpm \div 10]

\* check_with_limiter: a token is taken if there is one.
check_with_limiter(r, k) ==
    LET b == Keyed(bucket, k.key, create_limiter(k.burst)) IN
    IF b.tokens > 0
    THEN /\ bucket' = insert(bucket, k.key, [b EXCEPT !.tokens = @ - 1, !.passed = @ + 1])
         /\ PassOn(r, ext[r]) /\ UNCHANGED audited
    ELSE /\ bucket' = insert(bucket, k.key, b)
         /\ Refuse(r, "RateLimitExceeded")
         /\ IF dep.listener = "grpc" THEN UNCHANGED audited ELSE Logged(r, "HttpRequestDenied")

GovernorMiddleware(r) ==
    /\ Calls(r, "governor")
    /\ check_with_limiter(r, governor_key(r))
    /\ UNCHANGED <<dep, stack, revoked, window>>

\* GrpcRateLimitService::call: one bucket for the whole server.
GrpcRateLimit(r) ==
    /\ Calls(r, "grpc_rate_limit")
    /\ IF is_grpc_infra_path(Asked(r).path)
       THEN PassOn(r, ext[r]) /\ UNCHANGED <<audited, bucket>>
       ELSE check_with_limiter(r, [key |-> <<"grpc">>, burst |-> dep.per_user_rpm])
    /\ UNCHANGED <<dep, stack, revoked, window>>

\* cleanup_stale_limiters, called by the application: of the routes' limiters
\* and of the others any above the limit are dropped, fresh ones too.
cleanup_stale_limiters(max_entries) ==
    LET of_routes(s) == {key \in s : key[1] = "route"}
        left(s, kept) == Cardinality(kept) = Min({Cardinality(s), max_entries})
    IN  \E kept \in SUBSET DOMAIN bucket :
          /\ kept # DOMAIN bucket
          /\ left(of_routes(DOMAIN bucket), of_routes(kept))
          /\ left(DOMAIN bucket \ of_routes(DOMAIN bucket), kept \ of_routes(kept))
          /\ bucket' = [key \in kept |-> bucket[key]]
          /\ UNCHANGED <<reqVars, revoked, window>>

\* The quota adds a token whenever its interval is over.
Replenish(key) ==
    /\ bucket[key].tokens < bucket[key].burst /\ bucket[key].added < dep.refills
    /\ bucket' = [bucket EXCEPT ![key].tokens = @ + 1, ![key].added = @ + 1]
    /\ UNCHANGED <<reqVars, revoked, window>>

-----------------------------------------------------------------------------
(* The Redis window.                                                       *)

\* check_rate_limit_with_route: no claims and no route means no limit.
Unlimited == [key |-> << >>, limit |-> 0]
window_key(r) ==
    LET path == normalize_path(Asked(r).path)
        route == match_route(Asked(r).method, path)
        claims == ext[r].claims
    IN  IF route # NoRoute
        THEN [key |-> <<"route", path>> \o (IF route.per_user /\ claims # NoClaims
                                            THEN <<"user", claims.sub>> ELSE <<"global">>),
              limit |-> route.rpm]
        ELSE IF claims = NoClaims THEN Unlimited
        ELSE [key |-> <<subject_kind(claims.sub), claims.sub>>, limit |-> global_rpm(claims)]

NoCount == [count |-> 0, expires |-> FALSE, passed |-> {}]

\* The verdict on the count n that INCR returned, with w in Redis by then.  The
\* key has no method in it: two routes of one path share a window, each request
\* under its own route's limit.
Verdict(r, k, n, w) ==
    IF n > k.limit
    THEN Refuse(r, "RateLimitExceeded") /\ Logged(r, "HttpRequestDenied") /\ window' = insert(window, k.key, w)
    ELSE /\ PassOn(r, ext[r]) /\ UNCHANGED audited
         /\ window' = insert(window, k.key,
                             [w EXCEPT !.passed = @ \cup {[of |-> r, nth |-> n, limit |-> k.limit]}])

\* Mutant of incr: the count is read first and written back, two commands.
incr_Separate(r, k) ==
    LET w == Keyed(window, k.key, NoCount) IN
    IF held[r] = << >>
    THEN /\ Await(r, "call", <<w.count>>)
         /\ UNCHANGED <<window, audited>>
    ELSE Verdict(r, k, held[r][1] + 1, [w EXCEPT !.count = held[r][1] + 1, !.expires = TRUE])

\* INCR; on the first count of a window EXPIRE comes next, else the verdict.
incr(r, k) ==
    LET w == Keyed(window, k.key, NoCount)
        n == w.count + 1
        counted == [w EXCEPT !.count = n]
    IN  IF n = 1 THEN window' = insert(window, k.key, counted) /\ Await(r, "expire", <<k>>) /\ UNCHANGED audited
        ELSE Verdict(r, k, n, counted)

\* RateLimit::middleware and check_and_increment.  A Redis error fails the
\* request.
RateLimitMiddleware(r) ==
    /\ Calls(r, "rate_limit")
    /\ LET k == window_key(r) IN
       IF k = Unlimited THEN PassOn(r, ext[r]) /\ UNCHANGED <<window, audited>>
       ELSE \/ Fails /\ Refuse(r, "Redis") /\ UNCHANGED <<window, audited>>
            \/ incr(r, k)
    /\ UNCHANGED <<dep, stack, revoked, bucket>>

\* EXPIRE of the window's first request; if it fails the count stays for good.
expire(r) ==
    /\ In(r, "rate_limit", "expire")
    /\ LET k == held[r][1] IN
       \/ Fails /\ Refuse(r, "Redis") /\ UNCHANGED <<window, audited>>
       \/ Verdict(r, k, 1, [window[k.key] EXCEPT !.expires = TRUE])
    /\ UNCHANGED <<dep, stack, revoked, bucket>>

\* Redis deletes a key whose time is over.
WindowEnds(key) ==
    /\ window[key].expires
    /\ window' = [window EXCEPT ![key] = NoCount]
    /\ UNCHANGED <<reqVars, revoked, bucket>>

LimitStep(r) == GovernorMiddleware(r) \/ GrpcRateLimit(r) \/ RateLimitMiddleware(r) \/ expire(r)

=============================================================================
