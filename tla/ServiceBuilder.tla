--------------------------- MODULE ServiceBuilder ---------------------------
(***************************************************************************)
(* ServiceBuilder::build, ActonService::serve and graceful shutdown        *)
(* (service_builder.rs, metrics_exporter.rs), together with the pool       *)
(* agents that connect meanwhile.  The stages of build are functions of    *)
(* the service being put together; build is a step up to the spawn of the  *)
(* agents, one up to the look at their pools, and one for the rest, which  *)
(* shares no state with them.  Once a listener is open requests come, a    *)
(* signal may stop the service, and the agents are stopped after the       *)
(* listeners have drained.                                                 *)
(***************************************************************************)
EXTENDS PoolAgents, Layers, TLC

CONSTANTS
    Configs         \* what is deployed: builder options over Config::default
                    \* (base), layers of settings, lowest priority first (/etc,
                    \* XDG, ./config.toml, ACTON_*), whether they parse, pools

\* A TLS section: what from_tls_config and the validations make of it.
TlsSections == {"absent", "disabled", "plain", "ca", "broken", "zero_interval", "zero_timeout"}

\* What the configuration and the builder's with_* methods say.
ConfigFields ==
    [flavor : {"multi", "single", "none"},      \* of the tokio runtime
     audit : BOOLEAN, rotation : BOOLEAN, worker : BOOLEAN, extensions : BOOLEAN,
     graphql : BOOLEAN, governor : BOOLEAN, drift : BOOLEAN, routed : BOOLEAN,
     switches : SUBSET Switches,
     cedar : {"off", "injected", "valid", "invalid"},
     session : {"off", "memory", "redis", "redis_down", "no_url"},
     token : {"off", "paseto", "jwt", "invalid"},
     caller : {"off", "invalid", "bearer", "mtls", "mtls-or-bearer"},
     tls : TlsSections, tls_override : BOOLEAN,
     grpc : {"absent", "disabled", "shared", "separate"}, services : BOOLEAN,
     grpc_tls : TlsSections, grpc_override : BOOLEAN,
     exporter : {"off", "own_port", "port_zero", "http_port", "grpc_port"},
     requests : Nat]                            \* bound: in flight on a listener

\* The builder's methods.  A setting given twice is the last one given; an
\* extension is added to those there are.
with_tls_config(b) == [tls_override |-> TRUE] @@ b
with_grpc_tls_config(b) == [grpc_override |-> TRUE] @@ b
with_actor(b) == [extensions |-> TRUE] @@ b
with_routes(b) == [routed |-> TRUE] @@ b
with_grpc_services(b) == [services |-> TRUE] @@ b
with_versioned_graphql(b) == [graphql |-> TRUE] @@ b
with_cedar(b) == [cedar |-> "injected"] @@ b
with_state(how, p) == [supply |-> how] @@ p

\* A configuration the application brings is not read from files.
with_config(b, p) == [base |-> b, layers |-> << >>, malformed |-> FALSE, pools |-> p]

Listeners == {"http", "grpc", "exporter"}

VARIABLES
    written,        \* what the operator configured
    cfg,            \* the configuration build works with
    stage,          \* the next step of build or of serve
    service,        \* what build has put together
    listener,       \* of each listener: "closed", "open", "draining", "done"
    inflight,       \* requests in flight on each listener
    signal,         \* SIGTERM or Ctrl+C has come
    result          \* of try_build or serve

builder == <<written, cfg, stage, service, listener, inflight, signal, result>>
vars == <<builder, poolVars>>

\* ServiceBuilder::new: nothing is put together yet.
NothingBuilt ==
    [startup_error |-> "none", runtime |-> FALSE, audit |-> FALSE, fingerprint |-> FALSE, keys |-> FALSE,
     worker |-> FALSE, extensions |-> FALSE, wired |-> {}, routes |-> {},
     cedar |-> FALSE, policy |-> "off", http |-> << >>, grpc |-> << >>,
     tls |-> "none", grpc_tls |-> "none", exporter |-> FALSE]

\* Every layer is merged over the defaults, section by section.
load_for_service(base, layers) == FoldLeft(LAMBDA acc, layer : layer @@ acc, base, layers)

\* build: settings that do not parse are reported on stderr and replaced by
\* the defaults.
Load(c) == IF c.malformed THEN c.base ELSE load_for_service(c.base, c.layers)

\* Whatever the layers say, Config has the fields and values of its type.
ASSUME BuilderAssumption ==
    \A c \in Configs : /\ Load(c) \in ConfigFields /\ c.malformed \in BOOLEAN
                       /\ c.pools \in PoolSettings

Init ==
    /\ \E c \in Configs : /\ written = FoldLeft(LAMBDA acc, layer : layer @@ acc, c.base, c.layers)
                          /\ cfg = Load(c)
                          /\ PoolInit(c.pools)
    /\ stage = "pools" /\ service = NothingBuilt
    /\ listener = [l \in Listeners |-> "closed"] /\ inflight = [l \in Listeners |-> 0]
    /\ signal = FALSE /\ result = "none"

-----------------------------------------------------------------------------
(* build.                                                                  *)

\* Mutant of record_startup_error: the error is logged and forgotten.
record_startup_error_Logged(b, fatal, what) == b

\* The first of the fatal errors is kept.
record_startup_error(b, fatal, what) ==
    IF fatal /\ b.startup_error = "none" THEN [b EXCEPT !.startup_error = what] ELSE b

\* block_in_place needs a multi-threaded runtime; a single-threaded one is
\* refused, and without a runtime the subsystem is left out.
runtime_supports_block_in_place == cfg.flavor = "multi"
Spawns(wanted) == wanted /\ runtime_supports_block_in_place
RefusedRuntime(b, wanted, what) == record_startup_error(b, wanted /\ cfg.flavor = "single", what)

PoolsToSpawn == IF runtime_supports_block_in_place THEN pools.configured ELSE {}

spawn_pools(b) ==
    RefusedRuntime([b EXCEPT !.runtime = PoolsToSpawn # {}], pools.configured # {}, "pools")

spawn_audit(b) ==
    RefusedRuntime([b EXCEPT !.audit = Spawns(cfg.audit), !.runtime = @ \/ Spawns(cfg.audit)],
                   cfg.audit, "audit")

fingerprint_config(b) == [b EXCEPT !.fingerprint = b.audit]

\* Rotation starts only on a pool that is connected at this moment.
start_rotation(b) ==
    LET starts == Spawns(cfg.rotation) /\ \E k \in {"database", "turso", "surrealdb"} : shared[k]
    IN  RefusedRuntime([b EXCEPT !.keys = starts, !.runtime = @ \/ starts], cfg.rotation, "rotation")

spawn_worker(b) ==
    RefusedRuntime([b EXCEPT !.worker = Spawns(cfg.worker), !.runtime = @ \/ Spawns(cfg.worker)],
                   cfg.worker, "worker")

spawn_extensions(b) ==
    RefusedRuntime([b EXCEPT !.extensions = Spawns(cfg.extensions),
                             !.runtime = @ \/ Spawns(cfg.extensions)],
                   cfg.extensions, "extensions")

\* Only a state made here is given what build spawned; a provided one is not.
wire_state(b) ==
    LET parts == {p \in {"audit", "fingerprint", "keys", "worker", "extensions"} : b[p]}
    IN  [b EXCEPT !.wired = IF pools.supply = "none" THEN pools.configured \cup parts ELSE {}]

\* Versioned routes bring their health routes; a plain router gets them here.
mount_routes(b) ==
    [b EXCEPT !.routes = {"health", "ready", "metrics"}
        \cup (IF cfg.drift /\ cfg.audit THEN {"drift"} ELSE {})
        \cup (IF cfg.routed THEN {"versioned"} ELSE {})]

\* Cedar that is enabled and cannot be set up is fatal, whatever the reason.
resolve_cedar(b) ==
    LET set_up == cfg.cedar = "injected" \/ (cfg.cedar = "valid" /\ runtime_supports_block_in_place)
    IN  record_startup_error([b EXCEPT !.cedar = set_up], cfg.cedar # "off" /\ ~set_up, "cedar")

\* Merged before the layers, which therefore cover it.
mount_graphql(b) == [b EXCEPT !.routes = IF cfg.graphql THEN @ \cup {"graphql"} ELSE @]

general_middleware(b) == [b EXCEPT !.http = apply_middleware(cfg.switches)]

\* A Redis session store that cannot be had is only logged.
apply_session(b) ==
    LET layered == cfg.session = "memory" \/ (cfg.session = "redis" /\ runtime_supports_block_in_place)
    IN  RefusedRuntime([b EXCEPT !.http = Added(@, layered, "session")],
                       cfg.session \in {"redis", "redis_down"}, "session")

apply_authorization(b) ==
    [b EXCEPT !.http = authorization_layers(@, b.cedar, b.audit, cfg.governor)]

apply_token(b) ==
    record_startup_error([b EXCEPT !.http = Added(@, cfg.token \in {"paseto", "jwt"}, "token")],
                         cfg.token = "invalid", "token")

\* The policy's layer is added in the certificate modes only.
requires_client_ca(b) == b.policy \in {"mtls", "mtls-or-bearer"}

apply_caller_auth(b) ==
    LET p == [b EXCEPT !.policy = IF cfg.caller = "invalid" THEN "off" ELSE cfg.caller]
    IN  record_startup_error(
            [p EXCEPT !.http = caller_layers(@, requires_client_ca(p), b.audit)],
            cfg.caller = "invalid", "caller")

Enabled(section) == section \notin {"absent", "disabled"}
from_tls_config(section) == section # "broken"

\* The HTTP listener's credentials: injected, of [tls], or none.
resolve_tls(b) ==
    record_startup_error(
        [b EXCEPT !.tls = IF cfg.tls_override THEN "injected"
                          ELSE IF Enabled(cfg.tls) /\ from_tls_config(cfg.tls) THEN "loaded"
                          ELSE "none"],
        ~cfg.tls_override /\ Enabled(cfg.tls) /\ ~from_tls_config(cfg.tls), "tls")

\* Only an absent [grpc.tls] inherits; a disabled one means plaintext.
resolve_grpc_tls(b) ==
    record_startup_error(
        [b EXCEPT !.grpc_tls = IF cfg.grpc_override THEN "injected"
                               ELSE IF Enabled(cfg.grpc_tls) /\ from_tls_config(cfg.grpc_tls) THEN "loaded"
                               ELSE IF cfg.grpc_tls = "absent" THEN b.tls ELSE "none"],
        ~cfg.grpc_override /\ Enabled(cfg.grpc_tls) /\ ~from_tls_config(cfg.grpc_tls), "grpc_tls")

\* What is known of the client certificates a listener asks for.
listener_client_ca(section) ==
    IF ~Enabled(section) THEN "Plaintext" ELSE IF section = "ca" THEN "Verified" ELSE "NotVerified"

http_client_ca == IF cfg.tls_override THEN "Unknown" ELSE listener_client_ca(cfg.tls)
grpc_client_ca ==
    IF cfg.grpc_override THEN "Unknown"
    ELSE IF cfg.grpc_tls = "absent" THEN http_client_ca ELSE listener_client_ca(cfg.grpc_tls)

SeparateGrpc == cfg.services /\ cfg.grpc = "separate"

\* A certificate mode needs a listener that may ask for certificates.
validate_listener(b, client_ca) == requires_client_ca(b) => client_ca \in {"Verified", "Unknown"}

cross_check_caller_auth(b) ==
    record_startup_error(b, \/ ~validate_listener(b, http_client_ca)
                            \/ SeparateGrpc /\ ~validate_listener(b, grpc_client_ca), "client_ca")

\* Zero is refused; only an enabled section is looked at.
validate_reload_interval(section) == section # "zero_interval"
validate_handshake_timeout(section) == section # "zero_timeout"

validate_reload_intervals(b) ==
    record_startup_error(b, \E t \in {cfg.tls, cfg.grpc_tls} : ~validate_reload_interval(t), "interval")

validate_handshake_timeouts(b) ==
    record_startup_error(b, \E t \in {cfg.tls, cfg.grpc_tls} : ~validate_handshake_timeout(t), "timeout")

\* Services registered that no listener will expose.
grpc_registration_error(b) ==
    record_startup_error(b, cfg.services /\ cfg.grpc \in {"absent", "disabled"}, "registration")

\* A port of the exporter's own; the gRPC port counts only if it will be bound.
resolve_exporter_addr ==
    /\ cfg.exporter \notin {"port_zero", "http_port"}
    /\ ~(cfg.exporter = "grpc_port" /\ cfg.grpc = "separate")

resolve_exporter(b) ==
    record_startup_error([b EXCEPT !.exporter = cfg.exporter # "off" /\ resolve_exporter_addr],
                         ~resolve_exporter_addr, "exporter")

\* The gRPC router has a stack of its own; no layer of the HTTP one covers it.
build_grpc_router(b) ==
    [b EXCEPT !.grpc = IF ~cfg.services THEN << >>
                       ELSE grpc_stack(b.cedar, cfg.token \in {"paseto", "jwt"},
                                       requires_client_ca(b), b.audit)]

Step(this, next, b) ==
    /\ stage = this
    /\ stage' = next
    /\ service' = b
    /\ UNCHANGED <<written, cfg, listener, inflight, signal, result>>

\* ServiceBuilder::build.
build ==
    \/ /\ StateProvided /\ ~StateRefused
       /\ Step("pools", "rotation", fingerprint_config(spawn_audit(spawn_pools(service))))
       /\ spawn(PoolsToSpawn)
    \/ /\ Step("rotation", "layers", spawn_extensions(spawn_worker(start_rotation(service))))
       /\ UNCHANGED poolVars
    \/ /\ LET routed == mount_graphql(resolve_cedar(mount_routes(wire_state(service))))
              layered == apply_caller_auth(apply_token(apply_authorization(
                             apply_session(general_middleware(routed)))))
              secured == cross_check_caller_auth(resolve_grpc_tls(resolve_tls(layered)))
              timed == validate_handshake_timeouts(validate_reload_intervals(secured))
          IN  Step("layers", "built",
                   build_grpc_router(resolve_exporter(grpc_registration_error(timed))))
       /\ UNCHANGED poolVars

-----------------------------------------------------------------------------
(* serve and shutdown.                                                     *)

Serving(next, l, r) ==
    /\ stage' = next /\ listener' = l /\ result' = r
    /\ UNCHANGED <<written, cfg, service, inflight, signal, poolVars>>

\* try_build or serve: a startup error is returned before anything binds.
RefuseStartup ==
    /\ stage = "built" /\ service.startup_error # "none"
    /\ Serving("ended", listener, "refused")

\* The exporter is bound first; the port may be taken.
StartExporter ==
    /\ stage = "built" /\ service.startup_error = "none"
    /\ IF ~service.exporter THEN Serving("bind", listener, result)
       ELSE \/ Serving("bind", [listener EXCEPT !["exporter"] = "open"], result)
            \/ Serving("ended", listener, "error")

Bound == IF SeparateGrpc THEN {"http", "grpc"} ELSE {"http"}

\* serve_listeners: a listener that cannot be bound ends serve; the exporter
\* is shut down, the agents are not.
BindListeners ==
    /\ stage = "bind"
    /\ \/ Serving("serving", [l \in Listeners |-> IF l \in Bound THEN "open" ELSE listener[l]], result)
       \/ Serving("ended", [l \in Listeners |-> IF listener[l] = "open" THEN "done" ELSE listener[l]],
                  "error")

Request(l) ==
    /\ l \in Bound /\ listener[l] = "open" /\ inflight[l] < cfg.requests
    /\ inflight' = [inflight EXCEPT ![l] = @ + 1]
    /\ UNCHANGED <<written, cfg, stage, service, listener, signal, result, poolVars>>

Respond(l) ==
    /\ inflight[l] > 0
    /\ inflight' = [inflight EXCEPT ![l] = @ - 1]
    /\ UNCHANGED <<written, cfg, stage, service, listener, signal, result, poolVars>>

shutdown_signal ==
    /\ stage = "serving" /\ ~signal
    /\ signal' = TRUE
    /\ UNCHANGED <<written, cfg, stage, service, listener, inflight, result, poolVars>>

\* Each listener hears the signal by itself, accepts no more and drains.
Drain(l) ==
    /\ l \in Bound /\ signal
    /\ \/ listener[l] = "open" /\ Serving(stage, [listener EXCEPT ![l] = "draining"], result)
       \/ /\ listener[l] = "draining" /\ inflight[l] = 0
          /\ Serving(stage, [listener EXCEPT ![l] = "done"], result)

\* Mutant of Served: the task of the gRPC listener is not awaited.
Served_HttpOnly == listener["http"] = "done"

\* serve of the HTTP listener has returned and the gRPC task has been joined.
Served == \A l \in Bound : listener[l] = "done"

\* runtime.shutdown_all after the last serve has returned.
ShutdownAgents ==
    /\ stage = "serving" /\ Served
    /\ stage' = "agents"
    /\ stop' = [k \in Kinds |-> phase[k] # "absent"]
    /\ UNCHANGED <<written, cfg, service, listener, inflight, signal, result,
                   phase, mailbox, task, attempt, model, handler, releasing, shared, link, world,
                   question, probe>>

\* shutdown_all has returned; serve shuts the exporter down: a drain of at
\* most DRAIN_TIMEOUT, after which its task is abandoned.
ShutdownExporter ==
    /\ stage = "agents" /\ \A k \in Kinds : phase[k] \in {"absent", "stopped"}
    /\ Serving("ended", [listener EXCEPT !["exporter"] = IF @ = "open" THEN "done" ELSE @], "ok")

serve ==
    \/ RefuseStartup \/ StartExporter \/ BindListeners \/ ShutdownAgents \/ ShutdownExporter
    \/ \E l \in Listeners : Drain(l)

\* A readiness request reaches the handler.
Ready ==
    /\ listener["http"] = "open"
    /\ readiness(pools.configured)
    /\ UNCHANGED builder

\* A health request reaches the gRPC services, wherever they are served.
Health ==
    /\ cfg.services /\ listener[IF SeparateGrpc THEN "grpc" ELSE "http"] = "open"
    /\ HealthService_check(pools.configured)
    /\ UNCHANGED builder

\* A handler of the application asks its state how the pools are.
Summary ==
    /\ listener["http"] = "open"
    /\ AppState_pool_health(pools.configured)
    /\ UNCHANGED builder

Next ==
    \/ build \/ serve \/ shutdown_signal \/ Ready \/ Health \/ Summary
    \/ \E l \in Listeners : Request(l) \/ Respond(l)
    \/ PoolNext /\ UNCHANGED builder

\* build and serve are polled until they return, and the agents' own fairness.
\* Nothing is assumed of the requests: a stream or a call of gRPC, which has no
\* TimeoutLayer, may never end.
Fairness ==
    /\ WF_vars(build) /\ WF_vars(serve)
    /\ \A k \in Kinds : WF_vars(PoolStep(k) /\ UNCHANGED builder)

Spec == Init /\ [][Next]_vars /\ Fairness

-----------------------------------------------------------------------------
(* Properties.                                                             *)

TypeOK ==
    /\ PoolTypeOK
    /\ cfg \in ConfigFields
    /\ listener \in [Listeners -> {"closed", "open", "draining", "done"}]
    /\ inflight \in [Listeners -> 0 .. cfg.requests] /\ signal \in BOOLEAN
    /\ result \in {"none", "refused", "error", "ok"}

Guards(stack) ==
    /\ written.token # "off" => "token" \in Range(stack)
    /\ written.cedar # "off" => "cedar" \in Range(stack)
    /\ written.caller \notin {"off", "bearer"} => "caller_auth" \in Range(stack)

\* No listener ever accepts with a weaker posture than the operator configured: the layers
\* of token authentication, Cedar and caller authorization are on the router it
\* serves, its credentials are those configured for it, and a caller policy
\* that needs certificates finds a listener that can ask for them.
PostureAsConfigured ==
    /\ listener["http"] = "open" =>
         /\ Guards(service.http)
         /\ (written.tls_override \/ Enabled(written.tls)) = (service.tls # "none")
         /\ written.caller \in {"mtls", "mtls-or-bearer"} => written.tls_override \/ written.tls = "ca"
         /\ written.services => written.grpc \in {"shared", "separate"} /\ Guards(service.grpc)
    /\ listener["grpc"] = "open" =>
         /\ Guards(service.grpc)
         /\ (service.grpc_tls # "none")
              = (written.grpc_override \/ Enabled(written.grpc_tls)
                  \/ (written.grpc_tls = "absent" /\ service.tls # "none"))
         /\ written.caller \in {"mtls", "mtls-or-bearer"} /\ ~written.grpc_override =>
              written.grpc_tls = "ca" \/ (written.grpc_tls = "absent" /\ (written.tls_override \/ written.tls = "ca"))

\* A caller that was told its pool is ready finds it in AppState at once.
ReadyMeansPublished ==
    \A c \in Callers : question[c].answer = "Healthy" /\ question[c].ask = "WaitForPoolReady"
                         => shared[question[c].of]

\* /ready answers 200 only when every required pool is in the state the
\* handlers read; the gRPC health service says serving only when every one is
\* that it asks (it asks neither Turso nor ClickHouse).  The summary of the
\* pools, which leaves out those that are not there, promises neither.
ReadyIsTrue ==
    probe.status = "200" /\ probe.via # "summary" =>
        \A k \in pools.required \cap (IF probe.via = "grpc" THEN check_dependencies ELSE Kinds) : InState(k)

\* While a request is in flight on a served listener the pool it may be using
\* is not closed: the agents are stopped after every listener has drained.
InFlightSeesOpenPool ==
    (\E l \in Bound : inflight[l] > 0) => \A k \in Kinds : link[k] # "closed"

\* Whoever asks an agent is answered, unless the agent is stopped first.
AskedIsAnswered ==
    \A c \in Callers : question[c].of # NoKind
        ~> (question[c].answer # "none" \/ \E k \in Kinds : question[c].of = k /\ phase[k] = "stopped")

\* After the signal serve returns once the requests in flight have ended, for
\* which it waits without limit: nothing else, not even an attempt that a pool
\* agent awaits before its first message, keeps the service from stopping.
ShutdownCompletes ==
    <>[](\A l \in Listeners : inflight[l] = 0) => (signal ~> (result = "ok"))

=============================================================================
