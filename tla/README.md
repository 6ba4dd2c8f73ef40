# A TLA+ development for acton-service

acton-service is a Rust framework for backend services: a builder puts together HTTP and
gRPC listeners with authentication, rate limits, policies and an audit trail, pools that
actors keep connected, background work, sessions, accounts and websockets. Much of it is
plumbing. What goes wrong in ways a test hardly reaches is where several tasks, several
replicas, a crash or an order of layers meet shared state, and that is what these modules
are about.

Paths below are relative to `acton-service/src/` unless they say otherwise.

## 1. Inventory

| Part | State it keeps | Operations | Hard about it | What makes it correct |
|---|---|---|---|---|
| Audit agent, chain, writer (`audit/agent.rs`, `chain.rs`, `storage/`) | mailbox, chain tip, pending buffer, writer channel, the shared table | log, load the chain, seal, append, verify | replicas share one table; start-up races the pool; crashes; failing appends | the stored hash chain does not break unnoticed, events are stored in order, none vanishes |
| Audit retention (`run_cleanup`, `archive.rs`, `purge_before` of four backends) | table, its protection, archive files | query, archive, lift, delete, reinstate | statements without a transaction, several replicas | nothing is deleted unarchived, the table ends up protected |
| Audit alerts (`failure_tracker.rs`, `alert*.rs`) | outage start, counter, cooldown | record_failure, record_success, hook tasks | flags that outlive an outage | alerts and recoveries agree with the outages |
| Signing key rotation (`auth/key_rotation/`) | key table, a cache per instance, agent | check, rotate, drain, retire, refresh, sign, validate | read-then-write over several calls, stale caches, crash in the middle | one active key, every issued token accepted, rotation resumes |
| Background worker (`agents/background_worker.rs`) | registry, waiters, tokens, semaphore, tracker | submit, cancel, wait, cleanup, stop | messages against spawned futures against shutdown | the limit holds, answers are true, nobody waits for ever |
| TLS rotation and listener (`tls.rs`) | installed configuration, the poll's baseline, handshakes | poll tick, SIGHUP, load, store; accept, handshake, time limit | files rewritten while they are read; silent peers | matching pairs only, the last rotation takes effect, every handshake ends |
| Client TLS (`client_tls.rs`) | identity and anchors in two cells | reload, connect, build a transport | two stores, overlapping reloads | a reload is all or nothing |
| Pool agents (`agents/pool.rs`, `database.rs`, `cache.rs`, `events.rs`, `turso.rs`, ...) | link, retries, waiters, the slot in AppState | connect with retry, wait, health, stop | attempts finish while the agent handles messages or stops | waiters answered, what is called ready is there |
| Builder, configuration, server (`service_builder.rs`, `config.rs`, `state.rs`, `server.rs`) | settings, start-up errors, runtime, router, listeners | load, build, serve, graceful shutdown | start-up errors of one part against the posture of the whole; order of stop | never weaker than configured; drained before closed |
| Health (`health.rs`, `pool_health.rs`, `grpc/health.rs`) | derived | /ready, gRPC check and watch, summary | several sources read one after the other | ready only if the required pools are there |
| Accounts (`accounts/`) | one row per account | create, update, verify, lock, disable, suspend, expire, delete | read, decide, write whole rows | a lock is not undone by a side effect |
| Login lockout (`lockout/`) | Redis counter and lock | check, record, unlock | separate commands | guessing is bounded |
| Refresh tokens, revocation (`auth/tokens/refresh.rs`, `middleware/revocation.rs`) | token rows and sets per family | store, rotate, revoke, cleanup | two-step rotation; reuse | a rotation is atomic, or at least spends the old token first; a revoked token stays revoked |
| API keys, OAuth state (`auth/api_keys/`, `auth/oauth/`) | keys, prefixes, user sets; states | create, present, revoke, delete; issue, redeem | read-modify-write in Redis | what is spent is refused |
| Sessions, CSRF (`session/`) | one record per session | load, login, logout, CSRF, save | every request writes the whole record | an identifier given to a guest never becomes a user's |
| Request pipeline (`middleware/`, `grpc/`, `caller_auth.rs`, `audit/middleware.rs`) | extensions of a request, policies and their cache | layers on the way in and out | order of the layers, early returns, panics, reloads | only authorized requests reach handlers; answers are audited |
| Rate limits, resilience (`governor.rs`, `rate_limit.rs`, `route_matcher.rs`, `resilience.rs`) | buckets, Redis windows, permits, breaker | check, increment, acquire | concurrent counting, eviction, errors | limits hold |
| Tokens (`auth/tokens/`, `middleware/token.rs`, `paseto.rs`, `jwt.rs`) | none | build claims, sign, read back | two formats, static and rotated keys | the claims read are the claims issued, as far as the format keeps them |
| Versioning, responses, errors, paging (`versioning.rs`, `responses.rs`, `error.rs`, `handlers/`, `repository/`) | none | routing, conversion, clamping | boundaries, two error paths | a page is bounded; a next page is announced when there is one |
| Rooms and broadcast (`websocket/`) | room maps, lock, bounded channels | join, leave, broadcast | slow receivers, tasks that end | maps agree, nobody waits in a circle |
| Server-sent events (`sse/`) | a map of tokio broadcast channels | subscribe, send | none: lookup and insert under one guard, nothing is removed | not modelled |
| Observability, HTMX, templates, OpenAPI, the CLI | none | conversions, file generation, export | none of the above | not modelled |

Interactions. The builder spawns the actors (pool agents, audit agent, key rotation agent,
worker) on one acton_reactive runtime; each has one FIFO mailbox. Handlers registered with
`mutate_on` run one at a time and their futures are awaited before the next message;
`act_on` futures run beside the mailbox. A pool agent publishes a connected pool through a
shared lock that AppState, lazy storages, the rotation start-up and the health checks read.
Middleware and generators call the key manager and the audit logger directly. Replicas of a
service meet only in PostgreSQL, Turso, ClickHouse, SurrealDB or Redis.

## 2. Modules

Actions and helpers keep the source's names. A composing module joins components of one
subject and says in Next which of them a step leaves alone; components that share no state
are composed so that a behaviour is about one of them (`duty`, `side`), which keeps the
state space a sum and not a product. Configurations, workloads and deployments are chosen
in Init from a CONSTANT (`Workloads`, `Configs`, `Deployments`, `Scripts`), so that one run
covers all of them.

**Audit.** *AuditTrail* (`audit/agent.rs`, `chain.rs`, `storage/{pg,turso,clickhouse_impl,lazy}.rs`):
`phase`, `mailbox`, `chain`, `pending` and `channel` are the agent's and the writer task's
state per replica, `db` the shared table. `wait_for_storage` and `load_chain` are the task
spawned by after_start; they end with a ChainLoaded message (`HandleChainLoaded`), before
which `HandleEvent` buffers and after which it seals and dispatches. `WriterAppend` is one
iteration of the writer: it stores, fails, or commits without hearing of it. A BLAKE3 hash
is the sequence of inputs it covers (no collisions); the clock is whether a reading has
digits the column drops. *AuditRetention*: each statement of a cleanup cycle is an action of
a replica on a table of one of four backends: PostgreSQL's rule, Turso's trigger,
SurrealDB's permission and ClickHouse's nothing. *AuditAlerts*: the tracker's fields, a log
of the outcomes it was told, one delivery step per hook task; the properties are stated over
the log. *AuditUpkeep* composes the last two.

**Keys and worker.** *KeyRotation* (`auth/key_rotation/`, `service_builder.rs`, generators,
validators): each instance has an agent thread and a request thread; every storage call and
every write of the cache is a step. Time is a set of events that may happen at any moment:
a cache becomes stale, a key old enough, a drain window passes. *BackgroundWorker*: submit
in its three steps (permit, announcement, spawn), the futures, the handlers, `cancel` and
`wait_for_task` as callers see them, cleanup and `before_stop`.

**TLS.** *TlsReload*: an operator rewrites files one by one; the poll task hashes and loads
them, the SIGHUP task loads every source in turn; each file read is a step. *ClientTls*:
reload reads certificate, key and bundle and stores two cells one after the other;
connections read both; transports are built from the files. *TlsCredentials* adds a listener
(the accept pump, one task per handshake under `handshake_timeout`, the bounded channel into
axum's serve loop, the end of the pump) and composes the three.

**Life cycle.** *Layers*: the stacks as sequences in the order `Router::layer` is called.
*PoolAgents*: six agents with their attempts, retries, cancellation, handlers await by
await, parked waiters, the publication in AppState, probes (`/ready`, gRPC health, summary).
*ServiceBuilder* extends both: settings merged from files and environment, the stages of
build with their start-up errors, serve, requests on the listeners, the signal, drain, and
the stop of the agents.

**Authentication services.** *Calls*: clients that make lists of calls; a call is one step
per awaited command, holds what it read, and may be dropped between two steps. *Accounts*,
*Lockout* (around the login handler of Accounts), *RefreshTokens*, *ApiKeys* (with the OAuth
state) and *Sessions* extend it and *Credentials* composes them. A check of the lockout may
fail to read the lock and let the login pass (`check_fails_open`). Sessions has several records,
each under its identifier, and the cookie of one browser; login, renewal of the identifier,
logout, destroy, clear and ordinary pages load, change and save whole records.
*RefreshTokenStorage* is an abstract specification: what the trait documents of any storage,
with a rotation that is atomic. RefreshTokens instantiates it with a refinement mapping (what a
call has still to do); `ImplementsTrait` is its specification, `PgImplementsTrait` the same for
the storage with a transaction.

**Request pipeline.** *Responses*, *Versioning* and *Tokens* are operators: tables
from driver errors to statuses, response types and paging, the routes of a versioned API,
and tokens from claims to signature and back. A value in a payload is JSON, a string that is no
JSON text, or a string that is: the PASETO validator parses every string and so cannot tell the
last from JSON its own generator had to turn into text (`parsed`). *Requests* is a request on its way through a
stack (`doing`, `ext`, `answer`, `audited`); *CallerAuth*, *TokenAuth*, *RateLimits* and
*CedarAuthz* add the layers that may answer, each with the state it keeps, and *Pipeline*
adds auditing, bulkhead and breaker, body and time limits, the handler, revocations, policy
reloads and disconnects. The chain of EXTENDS is that of the calls: each module uses the
extensions the ones before it set.

**Realtime.** *Connections*: a connection's task and its forwarding task around a bounded
channel. *Rooms*: the room manager actor. *Broadcaster*: the senders behind a fair RwLock.
*Realtime* composes them. A peer may stop reading while it stays connected (`Stall`), for as long
as it likes.

*MC...* modules hold the instances TLC needs that a .cfg cannot write down (KeyRotation ends with
its own);
**AuditTrailProofs**, **AuditUpkeepProofs**, **KeyRotationProofs**,
**BackgroundWorkerProofs**, **TlsProofs**, **ServiceBuilderProofs**, **CredentialsProofs** and
**TrafficProofs** the proofs of section 5.

Code outside the repository is modelled from its use and marked external in PROJECT.json:
tower's service composition, hyper dropping a request, Redis and SQL statements as far as
the callers see them, the application's handlers and repositories, acton_reactive's mailbox.

## 3. Runs

| Run | Module, cfg | Shows |
|---|---|---|
| audit_replicas | AuditTrail, AuditReplicas | two replicas on one table with outages, a crash and a full buffer: no unreported break of the chain (BreaksAreReported), per-replica order (EmissionOrder), no event unaccounted for (Accounted); what a single writer wrote verifies (UntamperedVerifies); every event is stored, reported or lost with its process (Settles) |
| audit_upkeep | AuditUpkeep, AuditUpkeep | two replicas clean up one table of any backend with a crash and failing statements: PurgedWereArchived, ProtectedWhenQuiet; all patterns of six outcomes over five ticks: AlertsSpaced, RecoveriesMatchOutages, LongOutagesAlerted |
| retention_batches | AuditUpkeep, RetentionBatches | *violated*: with more old rows than a batch, unarchived rows are deleted |
| keys | KeyRotation, Keys | six workloads on one or two instances: AtMostOneActive, ReplacedOnce, SigningKeyVerifiable, JwtAccepted; a rotation cut short is made up for (SigningResumes) |
| worker_tasks | BackgroundWorker, WorkerTasks | two tasks for one slot, a caller, a panic, a cleanup, a stop: ConcurrencyLimited, AnswersAreTrue, QuestionsAnswered |
| tls_reload | TlsCredentials, TlsReload | two sources, by poll or by SIGHUP: ServesPair, PollConverges, SighupTakesEffect; a client identity: ReloadAllOrNothing; a listener with a silent peer: HandshakesSettle |
| lifecycle | MCServiceBuilder, Lifecycle | some 900 configurations built, served and stopped: PostureAsConfigured, ReadyMeansPublished, ReadyIsTrue, InFlightSeesOpenPool, AskedIsAnswered, ShutdownCompletes |
| lifecycle_malformed | MCServiceBuilder, LifecycleMalformed | *violated*: a value that does not parse, and the service starts on defaults, without the authentication and TLS its files ask for |
| credentials | MCCredentials, Credentials | pairs of concurrent call lists on every storage, with dropped calls: StatusAsAdministered, GuessesBounded, FixedIdStaysAnonymous, SpentIsRefused, OldSpentFirst; the refinement PgImplementsTrait |
| rotation | MCCredentials, Rotation | *violated*: on the storages without a transaction a rotation is not atomic (ImplementsTrait) |
| realtime | MCRealtime, Realtime | three sockets, one of which may stop reading: RoomsConsistent, TasksFinish |
| pipeline | MCPipeline, Pipeline | some 4000 deployments with one to three requests: OnlyAuthorizedReach, AnswersAreLogged, LimitsHold |

Each property of a passing run has a mutant: an operator named `<definition>_<What>`,
defined before the definition it distorts, under which TLC finds the property violated.

What the longer properties say:

* *PostureAsConfigured*: while a listener accepts, the layers for token, policies and
  callers are in its stack, it has TLS exactly if that was configured, and a certificate
  policy finds a listener that asks for certificates. Every stage of build that fails must
  therefore end in a refusal to serve and not in a log line.
* *ReadyIsTrue*, *ReadyMeansPublished*: a 200 from `/ready` or a "serving" of gRPC health,
  and a reply to WaitForPoolReady, mean the pool is in the slot handlers read.
* *StatusAsAdministered*: a locked, disabled or suspended account is not re-activated by a
  password change, an update, a verification or an expiry, provided the operation that
  locked it met no pending write of the same row. The proviso is the code's: the other
  operations write whole rows, and one that read before the lock undoes it.
* *GuessesBounded*: between two clearings of an identity at most `max_attempts` wrong
  passwords are tried, one more for each other login in flight, for each call that was
  dropped before INCR and for each check whose TTL command failed: `check` takes such an error
  for "not locked" and the handler runs.
* *SpentIsRefused*: a proviso like that of StatusAsAdministered, in the history variable
  `spent`: a key in Redis counts once no write of a value read before is pending.
* *FixedIdStaysAnonymous*: an identifier drawn for a record without a user never leads to a
  user's record, although requests that loaded the old record save it after a login has renewed
  the identifier. It says nothing of a logout, which a late save undoes (section 4).
* *ImplementsTrait*, *PgImplementsTrait*: `RefreshTokens` implements `RefreshTokenStorage`, in
  which a call does all of its work in one step or none. The first is refuted; PostgreSQL, with
  its transaction, keeps it whatever is dropped.
* *OldSpentFirst*: on all four storages the new token of a rotation becomes valid only when the
  old one no longer is, whatever other calls are under way and wherever they are dropped.
* *OnlyAuthorizedReach*: outside the exempt paths a request in a handler brought what its
  deployment asks for. Under mtls that is the certificate; under mtls-or-bearer the certificate or
  some bearer credential. With a token layer it is a token, good and not revoked when it
  arrived, for which under mtls-or-bearer the certificate stands in. With policies it is a
  permission of a version in force since it arrived; with the decision cache on, of any
  version so far, for a request of the same principal. It acts under the claims its
  token was issued for, whichever generator made it, except that a PASETO's string claims which
  are JSON text are read as what they spell. Two things are therefore not excluded, and section 4
  names them: a bearer credential nobody examines, and a permission that was withdrawn.
* *AnswersAreLogged*: with audit_all_requests every answer a client gets from behind the
  certificate check left its event, panics caught and timeouts included. Errors of the
  revocation store are the exception the code makes. Of requests whose client left it says nothing.
* *LimitsHold*: of the requests that were let through in a window, those under one limit, or
  under a smaller one on the same key, are no more than that limit. A request counts by its
  own verdict, in the step that lets it pass. Buckets let through no more than their burst and what was
  added since, and pages keep to their limits.
* *ShutdownCompletes*: after the signal serve returns, provided the requests in flight end.
  Nothing in the code bounds that: the gRPC router has no TimeoutLayer, the HTTP one does not
  cover a body that is still streaming, and the graceful shutdown has no limit of its own.
* *TasksFinish*: although a broadcast holds the lock while it awaits full channels, nobody waits in
  a circle: every connection task ends, provided no connected peer stops reading for good.
  Without the proviso TLC refutes it (section 4).

**Bounds.** They are CONSTANTS or fields of a workload. Two replicas are enough for the
races of the pairwise kind the code has (both resume from one row, both rotate one key, one
lifts the rule the other reinstates). Three events with a buffer of two fill the buffer and
leave one to arrive after it (four events in all, MaxTotal); one crash separates two lives of a
process. The table of audit_replicas is Turso's, which keeps the clock as it was hashed; that the
other columns do not is in section 4. In audit_upkeep the batch holds every row, because a smaller one is what
retention_batches refutes; six outcomes hold two outages with a recovery between them, five
ticks are more than threshold plus cooldown. Two rotations need three keys. Two tasks for one
permit make one wait. Two TLS sources are what HTTP and gRPC are; one rotation has every
mixture of old, torn, missing and new files. In lifecycle each configuration has at most two
pools, one caller and one probe, one retry and one outage, because agents share nothing but
the service that stops them; subsystems vary in services without pools, pools in services
with default subsystems. In credentials two clients with up to four calls make every pair of
operations meet at every await. In realtime three connections with channels of one message
are a sender, a receiver that is full, and one that must not be held up; at most one peer does
not read at a time (MaxStalled). In pipeline single
requests take every combination of certificate, header, token, path and mode; where requests
meet in a limiter, a cache or the bulkhead two or three do, with limits of one and two, on one
key too, where two routes differ in their method only. No
run uses symmetry, and there is no state constraint: bounds are guards.

**Deadlock.** Checked in the audit trail runs, where the environment can always move. It is
off where call lists, scripts and requests come to an end, a bounded clock stops, or a
service that refused to start has nothing more to do.

**Fairness.** AuditTrail (`FairSpec`): the tokio runtime keeps polling the start-up task, the
actor's loop and the writer of a live process; nothing is assumed of the database or of a
crashed process. KeyRotation: the ticker ticks, a handler runs to its end, the pool agent
keeps trying, time passes, and a crashed process is restarted by its supervisor.
BackgroundWorker: weak fairness for futures, callers and the actor loop, strong fairness for
`acquire`, because tokio's semaphore is first come, first served; work is assumed to end or
to notice its token. TlsCredentials: the poll task's, the signal task's and the handshake
tasks' steps (the time limit included), strong fairness for the pump's accept, which the
select in the pump takes up again after each back-off; operator and peers owe nothing.
ServiceBuilder: build and serve go on, an agent and its attempt take steps; nothing of the
database, which may fail for ever, and nothing of requests, which may hang. Realtime: tasks are
scheduled, a send to a peer that reads gets through, and the actor takes its next message once
its broadcasts are through. Peers owe nothing: one that stalls may stall for ever, since no send
has a timeout. The actor is not assumed to go on earlier, since
whether the future of a broadcast is awaited before the next message is up to the actor
library.

## 4. Where the code and its documentation part

Kept as runs that TLC refutes (the findings):

* *Retention.* `run_cleanup` archives one batch and then purges everything below the cutoff.
* *Rotation.* `refresh.rs:102` documents rotate as "atomically revoke old and create new"
  (`token-generation/page.md:324` says the same). Redis, Turso and SurrealDB revoke and then store
  in two commands: a drop or a failure between them leaves neither token valid.
* *Malformed configuration.* When `Config::load` fails, build warns and goes on with
  `Config::default()`: no token layer, no policies, no TLS. The comment above it says that
  security-relevant subsystems record an error "instead of degrading to a weaker posture".

Stated as definitions and refuted by TLC in a few steps, but not kept as runs:
`VerifyFromAnySequence`, `NothingDroppedWhileConnecting` (AuditTrail: verification of a suffix
has no anchor; what does not fit the buffer is dropped and reported), `SequencesNeverReused`
(AuditRetention: a restart after retention emptied the table starts again at 1),
`OutagesPastThresholdAlerted`, `RecoveryAfterAlert` (AuditAlerts: the cooldown of an earlier
outage suppresses a later alert; the hooks run as independent tasks), `RotationStarts`,
`PasetoAccepted` (KeyRotation: an instance whose pool connects after the build never rotates;
PASETO validation tries cached keys only), `ShutdownCancelsEverything` (BackgroundWorker: a
submit between RegisterTask and spawn starts a task nobody cancels).

Seen while modelling, by part:

* *Audit.* `seal` hashes nanoseconds, TIMESTAMPTZ keeps microseconds and ClickHouse
  milliseconds, so an untampered table does not verify (UntamperedVerifies with Backend
  "postgres"). Turso's query_before ends quietly at an unreadable row (`turso.rs:222`) and the
  purge then takes rows no file holds. SurrealDB's purge_before returns early when its count
  fails and leaves DELETE allowed (`surrealdb_impl.rs:292`); DEFINE TABLE IF NOT EXISTS does not
  restore it. Two replicas that share an archive directory and archive within one second write
  one file.
* *Keys.* `rotate` computes `drain_expires_at` and only logs it, so draining keys never retire
  (`manager.rs:259`). Two instances that bootstrap an empty table both insert an active key.
  `KeyCache::empty` is documented stale and starts fresh. Rotated key material is 32 random
  bytes, with which v4.public PASETO and RSA or EC JWTs cannot be signed.
* *TLS.* With poll and SIGHUP both enabled an older reload may store last and the baseline
  hides it (`tls.rs:224`); the run takes the triggers one at a time. `client_tls.rs:733` says a
  half-applied rotation must never be observable; the two cells are stored one after the other.
* *Life cycle.* Comments in `service_builder.rs` and `server.rs` call the first layer added the
  outermost, which axum makes the innermost. `config.rs:1815` says the first file found is
  used; all are merged. `pool.rs:4` promises automatic reconnection; after `max_retries` there
  is none. An AppState the application provides gets none of the agents' pools, so a required
  Turso, SurrealDB or ClickHouse is never ready. A bind failure ends serve without stopping the
  agents. The pool summary counts pools that are not there as healthy. gRPC health asks four
  of the six pools, and its watch sends one status and ends.
* *Accounts and credentials.* Whole-row writes overwrite a concurrent lock
  (`accounts/mod.rs:437`); usernames are not unique under a race; authenticate ignores
  `expires_at`. A crash between INCR and EXPIRE leaves attempts that never expire
  (`lockout/service.rs:173`). An error of TTL counts as unlocked (`:112-116`) and the middleware
  runs the handler, while `login-lockout/page.md:290` says that errors are returned. Two
  concurrent refreshes of one token both succeed (`refresh.rs:457`); revoke_family misses a token stored meanwhile; Turso compares RFC 3339 text with
  `datetime('now')`. Redis API keys are read, changed and written back, which can un-revoke
  (`api_keys/mod.rs:361`). A request in flight during logout writes the login back
  (`session/extractors.rs:176`): there is no property that a logout is final, TLC refutes it.
* *Pipeline.* The request context layer runs inside token and governor, so their audit events
  lack the peer address their comments promise. Refusals by certificate and refusals of gRPC
  tokens are not audited. With policies on, OPTIONS, public paths and callers whose bearer is
  waived get 401. mtls-or-bearer without `[token]` hands any bearer header to a layer that is
  not there, although `caller_auth.rs:607-608` says a forged token "is then rejected downstream";
  the run has such deployments, and OnlyAuthorizedReach says of them only that some bearer
  credential was there. An `AuditRoute` annotation is never seen: audit_middleware looks
  for it before the request goes inward (`audit/middleware.rs:77`), where the Extension of the
  route puts it, so it neither names events nor overrides an exclusion, as `audit/middleware.rs:63`
  and `audit/page.md:182-192` have it. A client that leaves before the answer leaves no audit
  event (`audit/middleware.rs:112`). PASETO validation parses every string claim
  (`paseto.rs:354-361`): a custom claim "42" comes back as a number. Keys of rate limits have no
  method (`rate_limit.rs:168-179`): routes that differ in the method alone share one window, in which
  requests of the larger limit use up the smaller one, and one governor, whose first user's burst
  governs both. `governor.rs:400` panics above 60000 per
  minute; its cleanup refills buckets (`:439`). A lost EXPIRE makes a window permanent
  (`rate_limit.rs:255`). The decision cache survives a reload of the policies (`cedar.rs:397`)
  and its key omits roles and context (`:634`). The Link header of a deprecated version omits
  the base path (`versioning.rs:172`). PoolExhausted is 500 reported directly and 503 through
  the repository traits.
* *Realtime.* A broadcast holds the read lock over its sends (`broadcast.rs:91`): a task that
  unregistered inside it would wait for itself (the mutant of TasksFinish). No send has a
  timeout, so a connected peer that never reads again fills its channel, and the broadcast waits
  under the lock for ever: nobody registers or unregisters any more. TasksFinish without its
  proviso is refuted that way. A member of a full
  room that joins again is refused. idle_timeout and ping settings are unused.

## 5. Proofs

Every theorem rests on the named assumptions about the constants, which TLC evaluates in the
runs. Most of them (`ConstantsAssumption`, `RetentionAssumption`, `AlertsAssumption`,
`WorkerAssumption`, `TlsAssumption`, `ClientAssumption`, `LockoutAssumption`, `RoomsAssumption`) only say that counts are numbers and different kinds of tasks different.
`KeyRotationAssumption` and `CallsAssumption` add that there are finitely many instances and
clients, `ConnectionsAssumption` and `WorkloadsAssumption` that scripts and workloads consist
of the messages and calls there are, `PoolAssumption` and `BuilderAssumption` that max_retries is
a number and that, however files are merged, the result is a Config. `IdsAssumption` and
`DeploymentsAssumption` say the same of requests and deployments: finitely many requests, counts
that are unsigned, certificates and policies on the builder's listeners only. Three have content:

* `WorkloadsAssumption` and `KeysAssumption`: accounts, tokens, keys and OAuth states are made
  under identifiers no two calls draw, because the code draws them at random (UUIDs, 32 random
  bytes).
* `SignaturesAssumption`: a payload under one of the service's keys is what a generator made of
  the claims that were issued, because nobody else has the keys; and an application's own claims
  are not called like standard ones. The last is a condition on the application, the code does not
  enforce it: generate_internal writes custom claims over the standard ones, so that
  `custom_claim("sub", ...)` changes the subject.
* `RoutesAssumption`: the paths of the probes are the probes' (axum refuses a second route on
  one) and no version of the API is mounted under `/swagger-ui` or `/api-docs`. The certificate and
  token layers let these prefixes through whatever answers there, and HandlersAreGuarded says
  nothing of a deployment that puts its API there.

**AuditTrailProofs**, for any set of replicas, any buffer size and any number of events and
crashes:

* `TypeCorrect`: `Spec => []TypeOK`;
* `NoSilentBreak`: `Spec => []BreaksAreReported`;
* `StoredAsEmitted`: `Spec => []EmissionOrder`;
* `EventsAccounted`: `Spec => []Accounted`;
* `TableVerifies`: `Spec => []UntamperedVerifies` where the column keeps what the clock reads
  (`KeepsClock`: Turso, or events without the digits the column drops), the condition without
  which verification fails on an untampered table (section 4).

BreaksAreReported speaks of stored rows only and is not inductive: a row breaks the chain
when it is stored, but the mistake would be made earlier, when it is sealed. `IInv` follows
the chain backwards. Stored and queued rows carry as many hash inputs as their sequence
number says (`StoredShape`, `ChannelShape`, `ChainShape`, `LoadedShape`), so that with a
UNIQUE sequence column two rows with the same hash length cannot both be stored
(`StoredUnique`). The start-up task sends one ChainLoaded and nothing is sealed before it
(`LoadedOnce`). The rows in the writer's channel continue each other up to the chain tip
(`ChannelLinked`), and while nothing was reported the first of them, or the tip itself,
continues a stored row or genesis (`ChannelAnchored`, `StoredAnchored`). `SealedRun` says what
sealing a run of events yields; there is one lemma per action, and `WriterStep` is the heart:
an append that fails reports, and one that succeeds makes its row the next anchor.

EmissionOrder compares rows that two lives of a process may have written. `OrderInv` says that
what is closer to the table was emitted earlier (`MemoryInOrder`, `StoredFirst`: rows before the
channel, channel and buffer before the mailbox) and that the sequence number a replica resumes
from, and then its chain tip, is past all rows it has ever stored (`SequencesRise`). A writer
stores nothing between the read of the newest row and ChainLoaded, which is why a stale read
does no harm. Accounted is inductive on top of IInv: `StepKeepsFound` follows an event from
mailbox to buffer, channel and table. For UntamperedVerifies, `RowsAsSealed` carries the hash of
each row from `seal` (`HashAfterNext`) through the channel into the table.

**AuditUpkeepProofs**, for any set of replicas, any number of rows, seconds and crashes, any
threshold and cooldown and any sequence of outcomes:

* `AlwaysProtected`: `UpkeepSpec => []ProtectedWhenQuiet`. With the types of `pc` and of the two
  flags the property is inductive: whoever lifts the rule is in a purge until it reinstates it,
  fails to, or dies, and the last two set `exposed`.
* `AlwaysArchived`: `UpkeepSpec => []PurgedWereArchived` where each replica has a directory of
  its own and a batch is larger than the table, the two conditions without which the property
  fails (section 4). A purge goes by the cutoff, not by the batch, so the invariant must say
  what the rows below the cutoff have to do with the file: `Covered` (a batch, and then its file,
  holds all of them until the delete; rows that arrive meanwhile are younger than the cutoff),
  `Kept` (a purged row is in a file no replica will write over: the file of an earlier second, or
  of the last batch of a cycle that has nothing more to archive, `Through`), on top of `TableInv`.
  `WholeBatch` counts rows by the injection of ids to show that LIMIT cuts nothing off.
* `AlwaysSpaced`, `AlwaysMatched`, `AlwaysAlerted`: AlertsSpaced, RecoveriesMatchOutages and
  LongOutagesAlerted. The tracker keeps four fields; the properties are about outages, maximal
  runs of failures in a log. `AlertsInv` ties them: `Tracks` (first_failure_at, the counter and
  alert_active describe the run of failures that is going on), `Dated` (last_alert_at is the time
  of the latest alert), `Begun` and `OneStart` (each failure is in exactly one outage), `InTime`.
  `Grown` and `OldOutcomes` show that an outcome leaves all that is said of earlier ones as it
  was; `FailureStep` and `SuccessStep` then have to look at the last outcome only.

**TlsProofs**, for any set of sources, two or three files each, any number of rotations and
signals, and any combination of triggers (both at once included):

* `TypeCorrect`: fingerprints and installed configurations cover every file;
* `AlwaysServesPair`: `Spec => []ServesPair`.

`Progress(t, s)` is the strengthening: a task that is still reading holds fewer than all files,
and one that is about to store holds all of them and they load. `Moved` shows that a step of
one task on one source keeps it for all; `LoadableServes` turns it into ServesPair.

and, of the client's side, for any set of reloading and connecting tasks and any number of
rotations:

* `AlwaysAllOrNothing`: `ReloadAllOrNothing`, always. `ClientInv` adds to the types that a task
  past its reading of the key holds a pair (`Reading`), that what is installed or about to be
  parsed (`Parsed`), that reloads that never overlapped run one at a time, with the identity they
  read stored between their two stores (`OneAtATime`), and that handshakes presented pairs
  (`Presented`). `Moved` and `CalmMove` say what any step of a task keeps; the lemmas of the steps
  then show what is theirs.

**KeyRotationProofs**, for any finite set of instances, any number of keys, failures and
crashes:

* `TypeCorrect`: `Spec => []TypeOK`. That a fresh key can be drawn while the budget says so
  needs a count (`KeysLeft`), and that a returning thread goes to a step of its own needs
  `ReturnsOK` and `SubjectsOK`.
* `KeysReplacedOnce`: ReplacedOnce. `OneRotationEach` follows a rotation from the drain to the
  store: the key an agent has drained is draining, replaced by nobody yet, and no other agent's.
* `SingleHasOneActive`: AtMostOneActive. Where one instance runs, an agent about to store has
  left no key active (`OneActive`); `DeployedOnly` says the other instances' threads are idle.
* `SigningKeyStaysVerifiable`, `JwtsAccepted`: what is cached, or read by a refresh that has not
  yet written, is a key in use and among the keys read with it (`CachesSound`); keys stay in use
  (`InUseStays`), so tokens signed from any cache stay acceptable (`TokensSound`).

**BackgroundWorkerProofs**, for any number of tasks and callers and any limit:

* `TypeCorrect`; `LimitHolds`: ConcurrencyLimited. A running future holds its permit (`Holders`)
  and the semaphore never hands out more than it has (`Semaphore`).
* `ToldTheTruth`: AnswersAreTrue. An answer passes from the future through the mailbox, the
  registry and the parked waiters, so `Truth` says it of each: a TaskCompleted under way tells
  how the future ended, the registry shows only such ends, and who is parked on a task asked
  about it. `FactsStand` shows that no step takes back what was true.

**TrafficProofs**, first of Realtime, for any number of connections and rooms and any limits:

* `RoomsStayConsistent`: RoomsConsistent. That both maps mirror each other (`Agree`) is inductive
  for each handler alone; that nothing is left of a connection that is gone is not, and needs
  the order of the mailbox: the disconnect is the last message of its connection and sent by a
  task that is over (`Parting`). `LockQueue` says who waits for the broadcaster's lock.

Then of Pipeline, for any number of requests, every set of deployments (settings, route tables,
policies, tokens, certificates) and any interleaving of requests with revocations, reloads, expiries
and disconnects:

* `LimitsAlwaysHold`: `PipelineSpec => []LimitsHold`;
* `AnswersLeaveTraces`: `PipelineSpec => []AnswersAreLogged`;
* `HandlersAreGuarded`: `PipelineSpec => []OnlyAuthorizedReach`;
* `RoundTrip`: what a generator wrote, its validator reads back: subject and roles always, own
  claims always from a JWT and from a PASETO unless they are strings that are JSON text.

The three invariants share two facts. `StackHasShape` says what the stack of a deployment is, for
every combination of settings: the layers it asks for are in it, and around the
audit layer only the certificate check, the token layer and the governor (`AuditMet`). And
`Placed` says where a request may be in that stack. Each action then is one of a few `Moves`: it
enters, passes a layer, waits in one, replies from one, comes back through one, or leaves
(`PlacedKept`, one lemma per layer); passing goes to the next layer that acts and skips none
(`InnerFacts`, `OuterFacts`).

LimitsHold is inductive with `LimitInv`. A window keeps the requests its verdicts let through,
each with the count INCR gave it and its own limit; `WindowGood` says that these counts differ
and that each is within its request's limit, so that those under a limit are no more than it
(`WindowBound`), however many limits share the key. The verdict on the first count comes after
an await, EXPIRE, during which nobody else may be given that count (`First`, `ExpireCounts`). Of a
bucket, tokens and passed requests together are the burst and what was added (`BucketGood`).
`GoodList` is the arithmetic of a page for any page number, size and table.

For AnswersAreLogged, `Traced` follows an answer: one on its way back is met by the audit layer
and no other (`WayBack`), so it cannot be overtaken by an answer of a layer outside; what reached
the client without passing there is one of the denials that log themselves. The proof made
the property name its exception, the 500 of the token layer when the revocation store fails.

For OnlyAuthorizedReach, `AuthInv` says of every request what each layer behind it has seen to
(`Checked`), and that what it carries is true: claims come from a token that was verified, a waiver
from a certificate on the allowlist (`Vouched`). It has to say what was established before an
await still holds after it (`Meanwhile`): a token is judged by the revocations that were there
when the request came, policies by those in force since. `CacheSound` is about everybody's
requests: a cached permission was given by some version of the policies to some request of that
principal. `RoundTrip` then turns the claims that were read into those that were issued: PASETO
turns own claims into text and the validator parses them back, the ones that were text among
them.

**ServiceBuilderProofs**, for any set of configurations, any number of retries, callers, outages
and requests:

* `TypeCorrect`: `Spec => []TypeOK`. That no connection loop runs past max_retries needs to know
  that a task that still connects has a retry left, and that an agent not yet spawned has begun
  nothing (`AttemptsLeft`).
* `PublishedBeforeReady`: ReadyMeansPublished. The handler updates the model before the shared
  lock, so `HeldIsShared` makes an exception of the await between the two, and holds because an
  agent answers nobody during it; whoever is queued, parked or being released asked this very
  agent (`QueuedAsked`, `ParkedAsked`), so an answer is about the pool the caller asked for.
* `ReadyIsTruthful`: ReadyIsTrue. While no verdict was bad, each required pool is still to be
  asked or in the state (`ProbeInv`), and no step takes a pool out of the state (`StateGrows`).
  It uses that a required pool is a configured one (`PoolSettings`): a section that is absent has
  no `optional = false`.
* `RequestsKeepTheirPools`: InFlightSeesOpenPool. `ShutdownInv`: listeners are open or draining
  only while serving, a request in flight is on one of them, agents are asked to stop only after
  that, and a pool is closed only by an agent that was asked.
* `PostureHolds`: PostureAsConfigured, where every configuration file parses (`NoneMalformed`);
  the run lifecycle_malformed shows that without this condition it fails. `Assured` says what
  serve may rely on when build has recorded no error. There is one lemma per stage of build, from
  `RoutedStages` to `GrpcStage`: each keeps the guards earlier stages put on the stack
  (`AddedLayer`) and either does its part or records an error, which no later stage takes back
  (`RecordedError`).

**CredentialsProofs**, for any finite set of clients, any calls, any number of dropped calls
and every storage. `CallsTyped` says which operation may be at which await and carries what; the
theorems share it.

* `GuestIdsStayAnonymous`: FixedIdStaysAnonymous. `SessionInv` says it of the stored records and of
  every record a request has loaded, changed and will save under the identifier it came with.
* `GuessesStayBounded`: GuessesBounded. The bound counts logins by where they are: `Within(k)`
  relates the wrong passwords tried to the stored counter, to the calls about to count or to
  lock, to those that passed the check before the lock or because TTL failed, and to the calls
  dropped. One lemma per
  command shows which of these sets gains or loses a call (`LoginMoved`). The history variable
  counts guesses while the lockout is enabled, since the code counts none otherwise.
* `SpentStaysRefused`: `Spec => SpentIsRefused`, an action property. What is spent is revoked in
  the table and in every value that will be written back (`SpentGone`), and is not going to be
  made again (`SecretsKnown`), which follows from `DrawnOnce`: no identifier is drawn twice.
* `StatusStaysAsAdministered`: StatusAsAdministered, with the same two ideas for rows
  (`RowsAsGiven`, `AccountsKnown`).
* `PgStorageImplementsTrait`: `Spec => PgImplementsTrait`, the refinement. `TokenInv` says that a
  token to be stored is absent; then every step of every method of the storage with a
  transaction, its drop at any await included, is a call, a `Commit`, a return or an expiry of
  RefreshTokenStorage or leaves its variables alone (`TraitMoves`).
* `RotationSpendsFirst`: `Spec => OldSpentFirst`, on every storage. `RotationOf` follows one
  rotation: between the command that revokes the old token and the one that stores the new, the
  old one is not valid, because no call is left that would make it (`DrawnOnce`).

Only model-checked: liveness (Settles, SigningResumes, QuestionsAnswered, PollConverges,
SighupTakesEffect, HandshakesSettle, AskedIsAnswered, ShutdownCompletes, TasksFinish), because
the prover does neither fairness nor ENABLED. Every invariant and every action property of a
passing run is a theorem. Maps are changed with `insert` and `extend` where `:>` and `@@` would do,
because the prover cannot see into those. No module uses RECURSIVE operators.

## 6. Not modelled

Of the modelled parts:

* *Audit*: the append of the SurrealDB audit backend, and export to syslog and OTLP, which is
  best effort and does not feed back; the redaction and fingerprint of the configuration.
* *Keys and tokens*: key material and signature algorithms beyond who can verify what, and
  audiences: the validators' audience check (`paseto.rs:432`) refuses more than the model does. Passwords are values; Argon2 is a comparison.
* *Worker*: its read-only queries.
* *TLS*: ALPN, certificate contents and URIs, static sources (nothing to reload), and
  credentials that go back to an earlier version (a rotation A, B, A in which the hash sees A
  and the load sees B would leave B installed). A torn file is one that does not parse; a
  truncated CA bundle that still parses counts as a version of its own.
* *Life cycle*: the drivers behind the pools, pool sizes and DSN texts, and the overflow of
  `2_u32.pow(attempt)` in the back-off for more than 31 retries.
* *Pipeline*: response headers other than those the layers decide on, bodies, sorting and
  filters; the clamp of total_pages to u32; `extract_version_from_path`; the GraphQL schema,
  which is the application's.

* *Sessions*: the entries of a record besides user, CSRF token and flash messages.

Whole parts: server-sent events (`sse/`: a channel is looked up or inserted under one guard and
none is removed; tokio's broadcast does the rest), observability (metrics, tracing, log formats: output only), HTMX, templates and
OpenAPI (rendering), and the command line tool (it generates projects from templates). Their
reasons are in the notes of `PROJECT.json`.
