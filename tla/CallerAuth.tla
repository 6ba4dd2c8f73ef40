----------------------------- MODULE CallerAuth -----------------------------
(***************************************************************************)
(* Authorization of callers by client certificate (caller_auth.rs).  A     *)
(* certificate is the names of its subjectAltName extension; rustls has    *)
(* verified its chain.                                                     *)
(***************************************************************************)
EXTENDS Requests

NoCertificate == [present |-> FALSE, parses |-> FALSE, names |-> << >>]

\* CallerSan::new: what cannot name a caller, wildcards among it.
usable(name) == name.kind \in {"DNS", "URI"} /\ name.value \notin {"empty", "oversized", "wildcard", "blank"}

\* CallerAllowlist::from_entries: one entry that is not usable, or none at all,
\* and there is no list.
from_entries(entries) == entries # {} /\ \A e \in entries : usable(e)

CallerAuthMode == {"bearer", "mtls", "mtls-or-bearer"}
uses_client_certificates(mode) == mode \in CallerAuthMode \ {"bearer"}

\* CallerAuthConfig::to_policy: a certificate mode needs an allowlist, bearer
\* mode admits none.
to_policy(mode, entries) == IF uses_client_certificates(mode) THEN from_entries(entries) ELSE entries = {}

\* A listener is not built on a policy that is refused.
ASSUME PolicyAssumption == \A d \in Deployments : d.caller # "off" => to_policy(d.caller, d.allowlist)

subject_alt_names(cert) == {name \in Range(cert.names) : usable(name)}

\* A name matches within its kind only.
authorize_certificate(cert) ==
    LET sans == subject_alt_names(cert) IN
    IF ~cert.parses THEN "MalformedCertificate"
    ELSE IF sans = {} THEN "NoUsableSan"
    ELSE IF sans \cap dep.allowlist # {} THEN "Certificate" ELSE "NotAllowlisted"

\* The certificate is tried first; in mtls-or-bearer a bearer credential,
\* valid or not, passes the question on to the token layer.
authorize(cert, bearer_present) ==
    LET outcome == IF cert.present THEN authorize_certificate(cert) ELSE "NoClientCertificate" IN
    IF dep.caller = "mtls" \/ outcome = "Certificate" THEN outcome
    ELSE IF bearer_present THEN "BearerDeferred"
    ELSE IF outcome = "NoClientCertificate" THEN "NoCredential" ELSE outcome

CallerAuthError == {"NoClientCertificate", "NoCredential", "MalformedCertificate", "NoUsableSan", "NotAllowlisted"}

status(error) ==
    IF error \in {"NoClientCertificate", "NoCredential", "MalformedCertificate"} THEN 401 ELSE 403

\* The scheme is compared without case here, with case by extract_token.
has_bearer_credential(r) == Asked(r).header \in {"Bearer", "bearer"}

is_grpc_infra_path(path) ==
    starts_with_any(path, {<<"/grpc.health.v1.Health/">>, <<"/grpc.reflection.">>})

HTTP_PROBE_PATHS == {<<"/health">>, <<"/ready">>}
HTTP_DOC_PATH_PREFIXES == {<<"/swagger-ui">>, <<"/api-docs">>}

\* The probes' paths are the probes' (axum refuses a second route on one), and
\* no version is mounted where the documentation is: the certificate check lets
\* those paths through whatever answers there.
ASSUME RoutesAssumption ==
    \A d \in Deployments : d.listener # "grpc" => \A r \in DOMAIN d.asks :
        /\ d.asks[r].path \in HTTP_PROBE_PATHS => dispatch(d.api, d.asks[r].path).kind = "probe"
        /\ starts_with_any(d.asks[r].path, HTTP_DOC_PATH_PREFIXES) => dispatch(d.api, d.asks[r].path).kind # "version"

is_exempt(path) ==
    \/ IF dep.listener = "grpc" THEN is_grpc_infra_path(path)
       ELSE path \in HTTP_PROBE_PATHS \/ starts_with_any(path, HTTP_DOC_PATH_PREFIXES)
    \/ starts_with_any(path, dep.caller_public)

\* Mutant of waives_bearer: a certificate always stands in for the token.
waives_bearer_Always == TRUE

\* CallerIdentity: under mtls the certificate is asked for besides the token.
waives_bearer == dep.caller = "mtls-or-bearer"

bearer_waived(r) == ext[r].identity = "waives"

\* CallerAuthService::call.  A refusal is logged and not audited.
CallerAuthService(r) ==
    /\ Calls(r, "caller_auth")
    /\ LET verdict == authorize(Asked(r).cert, has_bearer_credential(r)) IN
       IF is_exempt(Asked(r).path) \/ verdict = "BearerDeferred" THEN PassOn(r, ext[r])
       ELSE IF verdict \in CallerAuthError THEN AnswerFrom(r, at[r], "caller_auth", status(verdict))
       ELSE PassOn(r, [ext[r] EXCEPT !.identity = IF waives_bearer THEN "waives" ELSE "proven"])
    /\ UNCHANGED <<dep, stack, audited>>

=============================================================================
