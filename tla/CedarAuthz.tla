----------------------------- MODULE CedarAuthz -----------------------------
(***************************************************************************)
(* Policy authorization (middleware/cedar.rs): the policies in memory, the *)
(* file they are reloaded from, and the decision cache in Redis, whose key *)
(* is the principal, the action and the one resource, but not the context  *)
(* (roles, address, time).                                                 *)
(***************************************************************************)
EXTENDS RateLimits

VARIABLES
    file,       \* the version of the policy file
    policy_set, \* the version in memory
    cache       \* decisions by principal and action

cedarVars == <<file, policy_set, cache>>

CedarInit == file = 1 /\ policy_set = 1 /\ cache = << >>

\* build_action_http, build_action_grpc: the matched route's template.
build_action(r) == IF dep.listener = "grpc" THEN <<"grpc", Asked(r).path>>
                   ELSE <<Asked(r).method, normalize_path(Asked(r).path)>>

\* build_principal; the entity and the context carry the role.
build_principal(claims) == <<subject_kind(claims.sub), claims.sub>>
is_authorized(version, claims, action) == <<claims.role, action>> \in dep.policies[version]

cache_key(r) == <<build_principal(ext[r].claims), build_action(r)>>

apply_fail_open(decision) == decision \/ dep.fail_open

\* What the layer does with a decision; a denial is audited over both.
Decide(r, decision) ==
    IF apply_fail_open(decision) THEN PassOn(r, ext[r]) /\ UNCHANGED audited
    ELSE Refuse(r, "Forbidden") /\ Logged(r, "AuthPermissionDenied")

\* Only the probes, and over gRPC the infrastructure services, are exempt:
\* what the token layer let pass without claims is refused.
skips_authorization(r) ==
    \/ dep.cedar = "disabled"
    \/ IF dep.listener = "grpc" THEN is_grpc_infra_path(Asked(r).path)
       ELSE Asked(r).path \in {<<"/health">>, <<"/ready">>}

\* CedarAuthz::middleware and authorize_grpc_request, up to the first await.
CedarMiddleware(r) ==
    /\ Calls(r, "cedar")
    /\ IF skips_authorization(r) THEN PassOn(r, ext[r]) /\ UNCHANGED audited
       ELSE IF ext[r].claims = NoClaims THEN Refuse(r, "Unauthorized") /\ UNCHANGED audited
       ELSE Await(r, IF dep.cached THEN "cache_get" ELSE "evaluate", << >>) /\ UNCHANGED audited
    /\ UNCHANGED <<dep, stack, revoked, limitVars, cedarVars>>

\* RedisPolicyCache::get: an error fails the request.
cache_get(r) ==
    /\ In(r, "cedar", "cache_get")
    /\ \/ Fails /\ Refuse(r, "Internal") /\ UNCHANGED audited
       \/ IF cache_key(r) \in DOMAIN cache THEN Decide(r, cache[cache_key(r)])
          ELSE Await(r, "evaluate", << >>) /\ UNCHANGED audited
    /\ UNCHANGED <<dep, stack, revoked, limitVars, cedarVars>>

\* The policies are read under their lock.
evaluate(r) ==
    /\ In(r, "cedar", "evaluate")
    /\ LET decision == is_authorized(policy_set, ext[r].claims, build_action(r)) IN
       IF dep.cached THEN Await(r, "cache_set", <<decision>>) /\ UNCHANGED audited ELSE Decide(r, decision)
    /\ UNCHANGED <<dep, stack, revoked, limitVars, cedarVars>>

\* RedisPolicyCache::set: an error is ignored.
cache_set(r) ==
    /\ In(r, "cedar", "cache_set")
    /\ \/ Fails /\ UNCHANGED cache
       \/ cache' = insert(cache, cache_key(r), held[r][1])
    /\ Decide(r, held[r][1])
    /\ UNCHANGED <<dep, stack, revoked, limitVars, file, policy_set>>

\* The operator edits the file; reload_policies replaces the set if the file
\* can be read and parses, and leaves the cache alone.
EditPolicies ==
    /\ file < Len(dep.policies)
    /\ file' = file + 1
    /\ UNCHANGED <<reqVars, revoked, limitVars, policy_set, cache>>

reload_policies ==
    /\ policy_set # file
    /\ policy_set' = file
    /\ UNCHANGED <<reqVars, revoked, limitVars, file, cache>>

\* cache_ttl_secs are over.
CacheExpires(key) ==
    /\ cache' = [k \in DOMAIN cache \ {key} |-> cache[k]]
    /\ UNCHANGED <<reqVars, revoked, limitVars, file, policy_set>>

CedarStep(r) == CedarMiddleware(r) \/ cache_get(r) \/ evaluate(r) \/ cache_set(r)

=============================================================================
