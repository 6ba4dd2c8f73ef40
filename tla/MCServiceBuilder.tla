--------------------------- MODULE MCServiceBuilder ---------------------------
(* Configurations of ServiceBuilder for TLC: every setting of every subsystem *)
(* in a service without pools, and every kind of pool in a service with the   *)
(* default subsystems.                                                        *)
EXTENDS ServiceBuilder, TLC

CONSTANT c1

New ==
    [flavor |-> "multi", audit |-> TRUE, rotation |-> FALSE, worker |-> FALSE,
     extensions |-> FALSE, graphql |-> FALSE, governor |-> FALSE, drift |-> FALSE,
     routed |-> FALSE, switches |-> Switches, cedar |-> "off", session |-> "off",
     token |-> "paseto", caller |-> "off", tls |-> "absent", tls_override |-> FALSE,
     grpc |-> "absent", services |-> FALSE, grpc_tls |-> "absent", grpc_override |-> FALSE,
     exporter |-> "off", requests |-> 0]

Default == with_routes(New)
When(given, with(_), b) == IF given THEN with(b) ELSE b

NoPools == [outages |-> 0, asking |-> {}, probes |-> 0, configured |-> {}, required |-> {}, supply |-> "none",
            turso_mode |-> "local", turso_given |-> {"path"}]

\* Every runtime with the subsystems that need one.
Runtimes ==
    {When(~a, with_actor, When(c = "injected", with_cedar,
        [flavor |-> f, audit |-> a, rotation |-> ~a, worker |-> ~a, cedar |-> c, session |-> s] @@ Default)) :
        f \in {"multi", "single", "none"}, a \in BOOLEAN, c \in {"off", "injected", "valid", "invalid"},
        s \in {"off", "memory", "redis", "redis_down", "no_url"}}

\* Every caller policy on every pair of listeners.
Postures ==
    {When(o, with_tls_config, When(o /\ gt = "ca", with_grpc_tls_config, When(g # "absent", with_grpc_services,
        [caller |-> p, tls |-> t, grpc |-> g, grpc_tls |-> gt,
         token |-> IF gt = "broken" THEN "invalid" ELSE "jwt"] @@ Default))) :
        p \in {"off", "invalid", "bearer", "mtls", "mtls-or-bearer"},
        t \in {"absent", "plain", "ca", "broken"}, o \in BOOLEAN,
        g \in {"absent", "disabled", "shared", "separate"},
        gt \in {"absent", "disabled", "ca", "broken"}}

Surfaces ==
    {with_grpc_services(When(b, with_versioned_graphql,
        [exporter |-> e, grpc |-> g, governor |-> b, drift |-> b, grpc_tls |-> gt,
         switches |-> IF b THEN {} ELSE Switches] @@ IF b THEN New ELSE Default)) :
        e \in {"off", "own_port", "port_zero", "http_port", "grpc_port"},
        g \in {"shared", "separate"}, b \in BOOLEAN, gt \in {"absent", "zero_interval", "zero_timeout"}}

Alone(k) == [configured |-> {k}, required |-> {k}, outages |-> 1] @@ NoPools

Pooled ==
    {Alone(k) : k \in Kinds}
      \cup {[turso_mode |-> m, turso_given |-> g] @@ Alone("turso") :
              m \in {"remote", "replica"}, g \in {{"url", "auth_token"}, {"path", "url", "auth_token"}}}
      \cup {with_state(s, [configured |-> {"redis", "nats"}, required |-> {"nats"}] @@ NoPools) :
              s \in {"explicit", "lazy", "eager"}}

\* A system-wide section, a file in the working directory and the environment.
FromFiles(broken) ==
    [base |-> [token |-> "off"] @@ Default, malformed |-> broken, pools |-> NoPools,
     layers |-> <<[token |-> "jwt", cedar |-> "valid"], [tls |-> "ca", caller |-> "mtls"],
                  [cedar |-> "off", governor |-> TRUE]>>]

\* One caller and one probe of each kind of pool; requests on two listeners
\* while the database pool connects and is closed; two pools, one of them
\* optional and awaited before its agent takes a message.
MCConfigs ==
    {with_config(c, NoPools) : c \in Runtimes \cup Postures \cup Surfaces}
      \cup {with_config([rotation |-> TRUE] @@ Default, [asking |-> {c1}] @@ Alone(k)) : k \in Kinds}
      \cup {with_config(Default, [probes |-> 1] @@ p) : p \in Pooled}
      \cup {with_config(with_grpc_services([grpc |-> "separate", requests |-> 1] @@ Default),
                     Alone("database")),
            with_config(Default, [configured |-> {"database", "redis"}, required |-> {"database"},
                               outages |-> 1, probes |-> 1] @@ NoPools),
            FromFiles(FALSE)}
      \cup {with_config(with_grpc_services([grpc |-> g] @@ Default),
                     with_state("lazy", [configured |-> {"nats"}, required |-> {"nats"}, probes |-> 1] @@ NoPools)) : g \in {"shared", "separate"}}

\* The same files with a value that does not parse in one of them.
MCMalformed == {FromFiles(TRUE)}

===============================================================================
