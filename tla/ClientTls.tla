----------------------------- MODULE ClientTls -----------------------------
(***************************************************************************)
(* Outbound TLS (client_tls.rs): a ClientIdentitySource whose identity and *)
(* trust anchors sit in two cells that reload replaces one after the       *)
(* other, the handshakes that read them, and the transports built once     *)
(* from the files.  An operator rewrites the files one by one meanwhile.   *)
(***************************************************************************)
EXTENDS Integers

CONSTANTS
    Reloaders,      \* tasks of the application that call reload
    Users,          \* tasks that connect or build a transport of their own
    MaxRotations    \* bound: rotations of the files

ASSUME ClientAssumption == Reloaders \cap Users = {} /\ MaxRotations \in Nat

Broken == -1        \* a file that cannot be read or does not parse
NoBundle == -2      \* no root_ca_path

VARIABLES
    peer_ca,            \* ClientIdentityConfig: "public" without a root_ca_path,
                        \* else "bundle"
    pem,                \* the files: cert, key and ca
    rotation,           \* the version the operator is writing
    resolver,           \* RotatingClientCertResolver: the files it was read from
    verifier,           \* RotatingWebPkiVerifier: the same
    job,                \* where a task is in its call
    got,                \* the files it has read
    used,               \* the identity and anchors of a user's connection or transport
    overlapped          \* two reloads have run at once

clientVars == <<peer_ca, pem, rotation, resolver, verifier, job, got, used, overlapped>>

Callers == Reloaders \cup Users
NothingRead == [cert |-> Broken, key |-> Broken, ca |-> Broken]
Unused == [identity |-> NothingRead, anchors |-> Broken]

\* load_identity_material: both files parse and keys_match.
keys_match(m) == m.cert # Broken /\ m.key = m.cert

\* build_root_store: without a bundle the public roots; with exclusive_roots
\* or not, what may be missing is the bundle.
build_root_store(ca) == IF peer_ca = "public" THEN NoBundle ELSE ca

\* ClientIdentitySource::from_config, on complete files.
ClientInit ==
    /\ peer_ca \in {"public", "bundle"}
    /\ rotation = 0
    /\ pem = [cert |-> 0, key |-> 0, ca |-> 0]
    /\ resolver = pem /\ verifier = pem
    /\ job = [c \in Callers |-> "idle"] /\ got = [c \in Callers |-> NothingRead]
    /\ used = [u \in Users |-> Unused]
    /\ overlapped = FALSE

-----------------------------------------------------------------------------
(* The operator.                                                           *)

Rotate ==
    /\ rotation < MaxRotations /\ \A f \in DOMAIN pem : pem[f] = rotation
    /\ rotation' = rotation + 1
    /\ UNCHANGED <<peer_ca, pem, resolver, verifier, job, got, used, overlapped>>

Rewrite(f) ==
    /\ pem[f] # rotation
    /\ pem' = [pem EXCEPT ![f] = rotation]
    /\ UNCHANGED <<peer_ca, rotation, resolver, verifier, job, got, used, overlapped>>

Spoil(f) ==
    /\ pem[f] \notin {rotation, Broken}
    /\ pem' = [pem EXCEPT ![f] = Broken]
    /\ UNCHANGED <<peer_ca, rotation, resolver, verifier, job, got, used, overlapped>>

-----------------------------------------------------------------------------
(* Reading.                                                                *)

Goes(c, where) == job' = [job EXCEPT ![c] = where]

\* A call that fails leaves what is installed alone.
GivesUp(c) == Goes(c, "idle") /\ got' = [got EXCEPT ![c] = NothingRead]

\* load_identity_material: the certificate, then the key.
read_cert(c) ==
    /\ job[c] = "cert"
    /\ got' = [got EXCEPT ![c] = [NothingRead EXCEPT !.cert = pem.cert]]
    /\ Goes(c, "key")
    /\ UNCHANGED <<peer_ca, pem, rotation, resolver, verifier, used, overlapped>>

read_key(c, next) ==
    /\ job[c] = "key"
    /\ LET m == [got[c] EXCEPT !.key = pem.key] IN
       IF keys_match(m) THEN got' = [got EXCEPT ![c] = m] /\ Goes(c, next) ELSE GivesUp(c)
    /\ UNCHANGED <<peer_ca, pem, rotation, resolver, verifier, used, overlapped>>

-----------------------------------------------------------------------------
(* ClientIdentitySource::reload.                                           *)

Running == {c \in Reloaders : job[c] # "idle"}

reload(c) ==
    /\ job[c] = "idle"
    /\ Goes(c, "cert")
    /\ overlapped' = (overlapped \/ Running # {})
    /\ UNCHANGED <<peer_ca, pem, rotation, resolver, verifier, got, used>>

\* build_peer_verifier, the last part of prepare_reload.
build_peer_verifier(c) ==
    /\ job[c] = "ca"
    /\ IF peer_ca # "public" /\ pem.ca = Broken THEN GivesUp(c)
       ELSE got' = [got EXCEPT ![c].ca = pem.ca] /\ Goes(c, "store_key")
    /\ UNCHANGED <<peer_ca, pem, rotation, resolver, verifier, used, overlapped>>

\* Mutant of store_key: the identity is stored as soon as it was read.
store_key_Early(c) ==
    /\ job[c] \in {"ca", "store_key"}
    /\ resolver' = got[c]
    /\ Goes(c, IF job[c] = "ca" THEN "ca" ELSE "store_verifier")
    /\ UNCHANGED <<peer_ca, pem, rotation, verifier, got, used, overlapped>>

store_key(c) ==
    /\ job[c] = "store_key"
    /\ resolver' = got[c]
    /\ Goes(c, "store_verifier")
    /\ UNCHANGED <<peer_ca, pem, rotation, verifier, got, used, overlapped>>

store_verifier(c) ==
    /\ job[c] = "store_verifier"
    /\ verifier' = got[c]
    /\ GivesUp(c)
    /\ UNCHANGED <<peer_ca, pem, rotation, resolver, used, overlapped>>

Reload(c) ==
    \/ reload(c) \/ read_cert(c) \/ read_key(c, "ca")
    \/ build_peer_verifier(c) \/ store_key(c) \/ store_verifier(c)

-----------------------------------------------------------------------------
(* Connections through the source: a handshake verifies the peer, then     *)
(* presents the identity, each as the cells are at that moment.            *)

\* RotatingTlsConnector::call, for a fresh connection.
connect_tls(u) ==
    /\ job[u] = "idle"
    /\ Goes(u, "verify") /\ used' = [used EXCEPT ![u] = Unused]
    /\ UNCHANGED <<peer_ca, pem, rotation, resolver, verifier, got, overlapped>>

\* The anchors do not know the peer, the host is no name, TCP or the handshake
\* fails, or connect_timeout is over.
connect_fails(u) ==
    /\ job[u] \in {"verify", "resolve"}
    /\ Goes(u, "idle") /\ used' = [used EXCEPT ![u] = Unused]
    /\ UNCHANGED <<peer_ca, pem, rotation, resolver, verifier, got, overlapped>>

verify_server_cert(u) ==
    /\ job[u] = "verify"
    /\ used' = [used EXCEPT ![u].anchors = build_root_store(verifier.ca)]
    /\ Goes(u, "resolve")
    /\ UNCHANGED <<peer_ca, pem, rotation, resolver, verifier, got, overlapped>>

resolve(u) ==
    /\ job[u] = "resolve"
    /\ used' = [used EXCEPT ![u].identity = resolver]
    /\ Goes(u, "idle")
    /\ UNCHANGED <<peer_ca, pem, rotation, resolver, verifier, got, overlapped>>

-----------------------------------------------------------------------------
(* reqwest_client_builder and tonic_client_tls_config: transports that do  *)
(* not rotate.  The bundle is read twice: to validate it, and to use it.   *)

build_transport(u) ==
    /\ job[u] = "idle"
    /\ Goes(u, "cert") /\ used' = [used EXCEPT ![u] = Unused]
    /\ UNCHANGED <<peer_ca, pem, rotation, resolver, verifier, got, overlapped>>

read_validated_ca_bundle(u) ==
    /\ job[u] = "validate"
    /\ IF peer_ca # "public" /\ pem.ca = Broken THEN GivesUp(u) ELSE Goes(u, "reread") /\ UNCHANGED got
    /\ UNCHANGED <<peer_ca, pem, rotation, resolver, verifier, used, overlapped>>

\* What a second read finds broken is refused by one builder and kept by the
\* other until it connects, to trust nobody.
transport_built(u) ==
    /\ job[u] = "reread"
    /\ \/ GivesUp(u) /\ peer_ca # "public" /\ pem.ca = Broken /\ UNCHANGED used
       \/ /\ used' = [used EXCEPT ![u] = [identity |-> got[u], anchors |-> build_root_store(pem.ca)]]
          /\ GivesUp(u)
    /\ UNCHANGED <<peer_ca, pem, rotation, resolver, verifier, overlapped>>

Use(u) ==
    \/ connect_tls(u) \/ connect_fails(u) \/ verify_server_cert(u) \/ resolve(u)
    \/ build_transport(u) \/ read_cert(u) \/ read_key(u, "validate")
    \/ read_validated_ca_bundle(u) \/ transport_built(u)

ClientNext ==
    \/ Rotate \/ \E f \in {"cert", "key", "ca"} : Rewrite(f) \/ Spoil(f)
    \/ \E c \in Reloaders : Reload(c)
    \/ \E u \in Users : Use(u)

ClientSpec == ClientInit /\ [][ClientNext]_clientVars

-----------------------------------------------------------------------------
\* Between the two stores of a reload nothing can be said of the pair.
Quiet == \A c \in Reloaders : job[c] # "store_verifier"

\* A reload is all or nothing and a rotation in progress never leaks: unless
\* reloads overlap, identity and anchors come from one reading of all files as
\* soon as no reload is between its two stores; the anchors installed are
\* always a bundle that parsed, if one is configured; and every connection and
\* every transport presents a key that belongs to its certificate.
ReloadAllOrNothing ==
    /\ keys_match(resolver) /\ build_root_store(verifier.ca) # Broken
    /\ ~overlapped /\ Quiet => resolver = verifier
    /\ \A u \in Users : used[u].identity # NothingRead => keys_match(used[u].identity)

=============================================================================
