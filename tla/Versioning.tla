----------------------------- MODULE Versioning -----------------------------
(***************************************************************************)
(* Versioned routes (versioning.rs): how the builder puts the probes, the  *)
(* versions, the frontend and the fallback together, which of them a path  *)
(* is routed to, and the headers a deprecated version adds to its answers. *)
(* A path is a sequence of pieces; a route is a path that may hold "/{id}".*)
(***************************************************************************)
EXTENDS Naturals, Sequences

ApiVersion == 1 .. 5
as_path_segment == <<"/v1", "/v2", "/v3", "/v4", "/v5">>

NoInfo == [version |-> 0, replacement |-> 0, sunset_date |-> "none", message |-> "none"]

\* DeprecationInfo::new, with_sunset_date, with_message.
DeprecationInfo(version, replacement, sunset, message) ==
    [version |-> version, replacement |-> replacement, sunset_date |-> sunset, message |-> message]

\* What the layer inserts into an answer.  The link names the successor without
\* the base path it is mounted under.
Headers(info) ==
    {<<"Deprecation", info.version>>, <<"Link", <<as_path_segment[info.replacement]>>>>}
      \cup (IF info.sunset_date = "none" THEN {} ELSE {<<"Sunset", info.sunset_date>>})
      \cup (IF info.message = "none" THEN {} ELSE {<<"Warning", info.message>>})

-----------------------------------------------------------------------------
(* VersionedRouter, for a router nested by hand.                           *)

versioned_router(version, routes) == [version |-> version, routes |-> routes, deprecation |-> NoInfo]
deprecated(router, info) == [router EXCEPT !.deprecation = info]

\* The layer is always there; without a deprecation it only counts.
into_router(router) ==
    [routes |-> router.routes, headers |-> IF router.deprecation = NoInfo THEN {} ELSE Headers(router.deprecation)]

-----------------------------------------------------------------------------
(* VersionedApiBuilder.                                                    *)

NewApi == [versions |-> << >>, base_path |-> << >>, frontend |-> {}, fallback |-> FALSE]

\* A missing leading slash is added and trailing ones go; of the empty string
\* only the added slash remains.
with_base_path(api, leading, pieces) ==
    [api EXCEPT !.base_path = IF ~leading /\ pieces = << >> THEN <<"/">> ELSE pieces]

add_version_deprecated(api, version, routes, info) ==
    [api EXCEPT !.versions = Append(@, deprecated(versioned_router(version, routes), info))]
add_version(api, version, routes) == add_version_deprecated(api, version, routes, NoInfo)

\* The first entry of the version; there must be one.
deprecate_version(api, version, info) ==
    LET first == CHOOSE i \in DOMAIN api.versions :
                    /\ api.versions[i].version = version
                    /\ \A j \in 1 .. i - 1 : api.versions[j].version # version
    IN  [api EXCEPT !.versions[first] = deprecated(@, info)]

with_frontend_routes(api, routes) == [api EXCEPT !.frontend = routes]
with_fallback(api) == [api EXCEPT !.fallback = TRUE]

Mounted(prefix, routes) == {prefix \o route : route \in routes}

\* Probes and frontend at the root, each version nested under its path with the
\* layer around its own routes only, and the fallback last.
build_routes(api) ==
    LET path(v) == Append(api.base_path, as_path_segment[v.version])
    IN  {[kind |-> "probe", routes |-> {<<"/health">>, <<"/ready">>}, headers |-> {}],
         [kind |-> "frontend", routes |-> api.frontend, headers |-> {}]}
          \cup {[kind |-> "version", routes |-> Mounted(path(v), into_router(v).routes),
                 headers |-> into_router(v).headers] :
                    v \in {api.versions[i] : i \in DOMAIN api.versions}}
          \cup (IF api.fallback THEN {[kind |-> "fallback", routes |-> {}, headers |-> {}]} ELSE {})

\* An answer that cannot be serialized is a 500.
VersionedResponse(serializes) == IF serializes THEN 200 ELSE 500

-----------------------------------------------------------------------------
Serves(route, path) ==
    /\ Len(route) = Len(path)
    /\ \A i \in DOMAIN route : route[i] = "/{id}" \/ route[i] = path[i]

\* The router's choice: a route that serves the path, else the fallback.
dispatch(mounted, path) ==
    LET serving == {m \in mounted : \E route \in m.routes : Serves(route, path)}
        fallback == {m \in mounted : m.kind = "fallback"}
    IN  IF serving # {} THEN CHOOSE m \in serving : TRUE
        ELSE IF fallback # {} THEN CHOOSE m \in fallback : TRUE
        ELSE [kind |-> "none", routes |-> {}, headers |-> {}]

=============================================================================
