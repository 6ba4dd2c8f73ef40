------------------------------- MODULE Layers -------------------------------
(***************************************************************************)
(* The middleware stacks of service_builder.rs and server.rs, as sequences *)
(* of layers in the order Router::layer is called.  axum wraps: the layer  *)
(* added last is the outermost and meets a request first.                  *)
(***************************************************************************)
EXTENDS Sequences, SequencesExt

\* Executes(stack): the order in which a request meets the layers.
Executes(stack) == Reverse(stack)

\* layer(app, l) if the configuration asks for it.
Added(stack, wanted, l) == IF wanted THEN Append(stack, l) ELSE stack

\* [middleware]: the switches of the general stack.
Switches == {"compression", "metrics", "sensitive_headers", "propagation", "request_id", "catch_panic"}

\* ServiceBuilder::apply_middleware.
apply_middleware(on) ==
    LET limits == Added(<<"cors", "security_headers">>, "compression" \in on, "compression")
                    \o <<"timeout", "body_limit", "trace">>
        context == Append(Added(limits, "metrics" \in on, "metrics"), "request_context")
        tracked == Added(Added(Added(context, "sensitive_headers" \in on, "sensitive_headers"),
                               "propagation" \in on, "propagation"),
                         "request_id" \in on, "request_id")
    IN  Added(tracked, "catch_panic" \in on, "catch_panic")

\* ServiceBuilder::build adds what depends on the caller around those.
authorization_layers(stack, cedar, audit, governor) ==
    Added(Added(Added(stack, cedar, "cedar"), audit, "audit"), governor, "governor")

caller_layers(stack, certificates, audit) ==
    Added(Added(stack, certificates, "caller_auth"), audit, "audit_extension")

\* The gRPC router has a stack of its own; no layer of the HTTP one covers it.
grpc_stack(cedar, token, certificates, audit) ==
    caller_layers(Added(Added(<< >>, cedar, "cedar"), token, "token"), certificates, audit)

\* The bulkhead is inside the circuit breaker, which counts what it rejects.
apply_resilience(stack, bulkhead, circuit_breaker) ==
    Added(Added(stack, bulkhead, "bulkhead"), circuit_breaker, "circuit_breaker")

\* Server::serve puts a stack of its own around the application's router.
server_stack(stack, bulkhead, circuit_breaker) ==
    apply_resilience(stack \o <<"cors", "security_headers">>, bulkhead, circuit_breaker)
      \o <<"compression", "timeout", "body_limit", "trace", "sensitive_headers",
           "propagation", "request_id", "catch_panic">>

=============================================================================
