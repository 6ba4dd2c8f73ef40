----------------------------- MODULE PoolAgents -----------------------------
(***************************************************************************)
(* The connection pool agents (agents/pool.rs), the connection attempts    *)
(* they run (database.rs, cache.rs, events.rs, turso.rs,                   *)
(* surrealdb_backend.rs, clickhouse_backend.rs), the storage AppState      *)
(* reads their pools from (state.rs), the readiness probe (health.rs) and   *)
(* the gRPC health service (grpc/health.rs).                               *)
(*                                                                         *)
(* An agent handles one message at a time; a connection attempt runs in a  *)
(* task of its own and reports to the agent by message.  A handler that    *)
(* awaits is several steps, between which tasks, callers and probes run.   *)
(***************************************************************************)
EXTENDS Integers, Sequences, FiniteSets

CONSTANTS
    Callers,        \* who asks agents about their state
    MaxRetries      \* max_retries

ASSUME PoolAssumption == MaxRetries \in Nat

Kinds == {"database", "redis", "nats", "turso", "surrealdb", "clickhouse"}

\* The pool sections of Config: which are there, which are not optional,
\* how Turso is reached with which of its settings, and, when the application
\* hands the service builder an AppState of its own, how AppStateBuilder got
\* that state's pools ("none": the service builder makes the state).
\* Bounds: how often backends go away or come back, who asks, and how many
\* readiness requests come.
PoolSettings ==
    {p \in [outages : Nat, asking : SUBSET Callers, probes : {0, 1},
            configured : SUBSET Kinds, required : SUBSET Kinds,
            supply : {"none", "explicit", "lazy", "eager"},
            turso_mode : {"local", "remote", "replica"},
            turso_given : SUBSET {"path", "url", "auth_token"}] :
        p.required \subseteq p.configured}

NoKind == "none"

\* What GetPoolHealth and WaitForPoolReady are answered with.
HealthStatus == {"none", "Healthy", "Connecting", "Unhealthy"}

NoCaller == "none"
Messages == ({"Connected", "Failed"} \X {NoCaller})
              \cup ({"GetPoolHealth", "WaitForPoolReady"} \X Callers)

VARIABLES
    pools,          \* the PoolSettings of this process
    phase,          \* of the agent: "absent" until spawned, "starting" while
                    \* after_start awaits, "running", "stopping", "stopped"
    stop,           \* the runtime has asked the agent to stop
    mailbox,        \* messages queued for the agent
    task,           \* the connection task: "none", "connecting", "done"
    attempt,        \* failed attempts so far
    connecting, held, last_error, ready_waiters, cancelled,  \* its model
    handler,        \* "idle", or the await a handler is in
    releasing,      \* the waiters the running handler took
    shared,         \* AppState's Arc<RwLock<Option<Pool>>> holds the pool
    link,           \* the pool itself: "none", "open", "closed"
    own, supplied,  \* kinds a provided AppState holds, and is done with
    up, outages,    \* the backend answers; changes so far
    question,       \* what each caller asked, of whom, and the answer
    probe           \* the readiness or health request: kinds left, verdict so far

model == <<connecting, held, last_error, ready_waiters, cancelled>>
agents == <<phase, stop, mailbox, task, attempt, model, handler, releasing>>
world == <<pools, own, supplied, up, outages>>
poolVars == <<agents, shared, link, world, question, probe>>

PoolInit(settings) ==
    /\ pools = settings /\ own = {} /\ supplied = {}
    /\ phase = [k \in Kinds |-> "absent"] /\ stop = [k \in Kinds |-> FALSE]
    /\ mailbox = [k \in Kinds |-> << >>]
    /\ task = [k \in Kinds |-> "none"] /\ attempt = [k \in Kinds |-> 0]
    /\ connecting = [k \in Kinds |-> FALSE] /\ held = [k \in Kinds |-> FALSE]
    /\ last_error = [k \in Kinds |-> FALSE]
    /\ ready_waiters = [k \in Kinds |-> {}] /\ cancelled = [k \in Kinds |-> FALSE]
    /\ handler = [k \in Kinds |-> "idle"] /\ releasing = [k \in Kinds |-> {}]
    /\ shared = [k \in Kinds |-> FALSE] /\ link = [k \in Kinds |-> "none"]
    /\ up \in {f \in [Kinds -> BOOLEAN] : \A k \in Kinds \ settings.configured : f[k]}
    /\ outages = 0
    /\ question = [c \in Callers |-> [of |-> NoKind, ask |-> "none", answer |-> "none"]]
    /\ probe = [via |-> "http", status |-> "idle", left |-> {}, ready |-> TRUE]

\* A message reaches the mailbox of an agent that has not stopped.
Delivered(k, m) ==
    IF phase[k] = "stopped" THEN mailbox ELSE [mailbox EXCEPT ![k] = Append(@, m)]

-----------------------------------------------------------------------------
(* The six agents.  They differ in how after_start runs the attempt (as a  *)
(* task raced against the cancellation token, or awaited before the first  *)
(* message) and in what before_stop does with the pool.                    *)

DatabasePoolAgent   == [raced |-> TRUE,  closes |-> TRUE]
RedisPoolAgent      == [raced |-> FALSE, closes |-> FALSE]
NatsPoolAgent       == [raced |-> FALSE, closes |-> FALSE]
TursoDbAgent        == [raced |-> TRUE,  closes |-> FALSE]
SurrealDbAgent      == [raced |-> TRUE,  closes |-> FALSE]
ClickHousePoolAgent == [raced |-> FALSE, closes |-> FALSE]

AgentOf == [database |-> DatabasePoolAgent, redis |-> RedisPoolAgent,
            nats |-> NatsPoolAgent, turso |-> TursoDbAgent,
            surrealdb |-> SurrealDbAgent, clickhouse |-> ClickHousePoolAgent]

\* spawn, for every kind of S: the model is set up and after_start begins the
\* attempt.
spawn(S) ==
    /\ \A k \in S : phase[k] = "absent"
    /\ phase' = [k \in Kinds |-> IF k \notin S THEN phase[k]
                                 ELSE IF AgentOf[k].raced THEN "running" ELSE "starting"]
    /\ connecting' = [k \in Kinds |-> k \in S \/ connecting[k]]
    /\ task' = [k \in Kinds |-> IF k \in S THEN "connecting" ELSE task[k]]
    /\ UNCHANGED <<stop, mailbox, attempt, held, last_error, ready_waiters, cancelled,
                   handler, releasing, shared, link, world, question, probe>>

\* Mutant of Report: after_start returns only once there is a pool.
Report_OnlySuccess(k, m) ==
    /\ task' = [task EXCEPT ![k] = "done"]
    /\ mailbox' = Delivered(k, <<m, NoCaller>>)
    /\ phase' = [phase EXCEPT ![k] = IF @ = "starting" /\ m = "Connected" THEN "running" ELSE @]

\* The attempt is over: its message is sent, and after_start returns.
Report(k, m) ==
    /\ task' = [task EXCEPT ![k] = "done"]
    /\ mailbox' = Delivered(k, <<m, NoCaller>>)
    /\ phase' = [phase EXCEPT ![k] = IF @ = "starting" THEN "running" ELSE @]

\* What one attempt needs of the backend: a connection (and, for Redis and
\* ClickHouse, an answered request; for SurrealDB sign-in and the choice of a
\* namespace).
try_create_pool == up["database"]
try_create_redis_pool == up["redis"]
try_create_nats_client == up["nats"]
try_create_surrealdb_client == up["surrealdb"]
try_create_clickhouse_client == up["clickhouse"]

build_local_database == "path" \in pools.turso_given
build_remote_database == {"url", "auth_token"} \subseteq pools.turso_given /\ up["turso"]
build_embedded_replica == {"path", "url", "auth_token"} \subseteq pools.turso_given /\ up["turso"]

\* A setting the mode needs and the configuration lacks fails every attempt.
try_create_database ==
    \/ pools.turso_mode = "local" /\ build_local_database
    \/ pools.turso_mode = "remote" /\ build_remote_database
    \/ pools.turso_mode = "replica" /\ build_embedded_replica

Succeeds(k) ==
    \/ k = "database" /\ try_create_pool
    \/ k = "redis" /\ try_create_redis_pool
    \/ k = "nats" /\ try_create_nats_client
    \/ k = "turso" /\ try_create_database
    \/ k = "surrealdb" /\ try_create_surrealdb_client
    \/ k = "clickhouse" /\ try_create_clickhouse_client

\* An attempt is the last one when the failures exceed max_retries.
GivesUp(failed, limit) == failed > limit

\* One turn of create_*_with_retries: the six loops are the same.
Attempt(k) ==
    /\ task[k] = "connecting"
    /\ AgentOf[k].raced => ~cancelled[k]
    /\ \/ /\ Succeeds(k)
          /\ link' = [link EXCEPT ![k] = "open"]
          /\ Report(k, "Connected")
          /\ UNCHANGED attempt
       \/ /\ ~Succeeds(k)
          /\ attempt' = [attempt EXCEPT ![k] = @ + 1]
          /\ IF GivesUp(attempt'[k], MaxRetries)
             THEN Report(k, "Failed")
             ELSE UNCHANGED <<task, mailbox, phase>>
          /\ UNCHANGED link
    /\ UNCHANGED <<stop, model, handler, releasing, shared, world, question, probe>>

\* The biased select takes the cancellation branch first.
Cancelled(k) ==
    /\ task[k] = "connecting" /\ AgentOf[k].raced /\ cancelled[k]
    /\ Report(k, "Failed")
    /\ UNCHANGED <<stop, attempt, model, handler, releasing, shared, link, world, question, probe>>

-----------------------------------------------------------------------------
(* AppStateBuilder::build, for an application that brings its own state:   *)
(* the three pools it knows are given, connected before build returns, or  *)
(* connected by a task.  They are not the agents' and are never closed.    *)

Suppliable == {"database", "redis", "nats"}

\* Every eager connection is over; a required one that failed ends build.
StateProvided == pools.supply = "eager" => (pools.configured \cap Suppliable) \subseteq supplied
StateRefused == pools.supply = "eager" /\ (supplied \ own) \cap pools.required # {}

AppStateBuilder_build(k) ==
    /\ pools.supply # "none" /\ k \in (Suppliable \cap pools.configured) \ supplied
    /\ ~StateRefused
    /\ supplied' = supplied \cup {k}
    /\ own' = IF pools.supply = "explicit" \/ Succeeds(k) THEN own \cup {k} ELSE own
    /\ UNCHANGED <<agents, shared, link, pools, up, outages, question, probe>>

-----------------------------------------------------------------------------
(* The handlers.                                                           *)

\* pool_health.
pool_health(k) ==
    IF held[k] THEN "Healthy" ELSE IF connecting[k] THEN "Connecting" ELSE "Unhealthy"

\* The agent takes the message at the head of its mailbox.
Receives(k, m, c) ==
    /\ phase[k] = "running" /\ handler[k] = "idle"
    /\ mailbox[k] # << >> /\ Head(mailbox[k]) = <<m, c>>
    /\ mailbox' = [mailbox EXCEPT ![k] = Tail(@)]

Answered(callers, status) ==
    question' = [c \in Callers |-> IF c \in callers
                                   THEN [question[c] EXCEPT !.answer = status] ELSE question[c]]

\* Mutant of OnConnected: the waiters are released before the pool is there.
OnConnected_ReleaseFirst(k) ==
    \/ /\ Receives(k, "Connected", NoCaller)
       /\ held' = [held EXCEPT ![k] = TRUE]
       /\ connecting' = [connecting EXCEPT ![k] = FALSE]
       /\ last_error' = [last_error EXCEPT ![k] = FALSE]
       /\ Answered(ready_waiters[k], "Healthy")
       /\ ready_waiters' = [ready_waiters EXCEPT ![k] = {}]
       /\ handler' = [handler EXCEPT ![k] = "publish"]
       /\ UNCHANGED <<releasing, shared>>
    \/ /\ handler[k] = "publish"
       /\ shared' = [shared EXCEPT ![k] = TRUE]
       /\ handler' = [handler EXCEPT ![k] = "idle"]
       /\ UNCHANGED <<mailbox, held, connecting, last_error, ready_waiters, releasing, question>>

\* The model is updated, the pool stored in the shared lock, and only then
\* the waiters taken from the model are answered.
OnConnected(k) ==
    \/ /\ Receives(k, "Connected", NoCaller)
       /\ held' = [held EXCEPT ![k] = TRUE]
       /\ connecting' = [connecting EXCEPT ![k] = FALSE]
       /\ last_error' = [last_error EXCEPT ![k] = FALSE]
       /\ releasing' = [releasing EXCEPT ![k] = ready_waiters[k]]
       /\ ready_waiters' = [ready_waiters EXCEPT ![k] = {}]
       /\ handler' = [handler EXCEPT ![k] = "publish"]
       /\ UNCHANGED <<shared, question>>
    \/ /\ handler[k] = "publish"
       /\ shared' = [shared EXCEPT ![k] = TRUE]
       /\ handler' = [handler EXCEPT ![k] = "release"]
       /\ UNCHANGED <<mailbox, held, connecting, last_error, ready_waiters, releasing, question>>
    \/ /\ handler[k] = "release"
       /\ Answered(releasing[k], "Healthy")
       /\ releasing' = [releasing EXCEPT ![k] = {}]
       /\ handler' = [handler EXCEPT ![k] = "idle"]
       /\ UNCHANGED <<mailbox, held, connecting, last_error, ready_waiters, shared>>

\* Mutant of OnFailed: the parked callers are forgotten.
OnFailed_KeepsWaiters(k) ==
    /\ Receives(k, "Failed", NoCaller)
    /\ connecting' = [connecting EXCEPT ![k] = FALSE]
    /\ last_error' = [last_error EXCEPT ![k] = TRUE]
    /\ UNCHANGED <<held, ready_waiters, question>>

\* The reason is kept and the waiters are answered.
OnFailed(k) ==
    /\ Receives(k, "Failed", NoCaller)
    /\ connecting' = [connecting EXCEPT ![k] = FALSE]
    /\ last_error' = [last_error EXCEPT ![k] = TRUE]
    /\ Answered(ready_waiters[k], "Unhealthy")
    /\ ready_waiters' = [ready_waiters EXCEPT ![k] = {}]
    /\ UNCHANGED held

\* A caller is parked while the first attempt is in flight.
OnWaitForPoolReady(k, c) ==
    /\ Receives(k, "WaitForPoolReady", c)
    /\ IF connecting[k]
       THEN ready_waiters' = [ready_waiters EXCEPT ![k] = @ \cup {c}] /\ UNCHANGED question
       ELSE Answered({c}, pool_health(k)) /\ UNCHANGED ready_waiters

OnGetPoolHealth(k, c) ==
    /\ Receives(k, "GetPoolHealth", c)
    /\ Answered({c}, pool_health(k))

Handle(k) ==
    \/ /\ OnConnected(k)
       /\ UNCHANGED <<phase, stop, task, attempt, cancelled, link, world, probe>>
    \/ /\ OnFailed(k)
       /\ UNCHANGED <<phase, stop, task, attempt, cancelled, handler, releasing, shared, link, world, probe>>
    \/ /\ \E c \in Callers : OnWaitForPoolReady(k, c)
       /\ UNCHANGED <<phase, stop, task, attempt, connecting, held, last_error, cancelled,
                      handler, releasing, shared, link, world, probe>>
    \/ /\ \E c \in Callers : OnGetPoolHealth(k, c)
       /\ UNCHANGED <<phase, stop, task, attempt, model, handler, releasing, shared, link, world, probe>>

\* before_stop: the token is cancelled; the database agent then closes the
\* pool it holds and waits for that.
before_stop(k) ==
    \/ /\ phase[k] = "running" /\ stop[k] /\ handler[k] = "idle"
       /\ cancelled' = [cancelled EXCEPT ![k] = AgentOf[k].raced]
       /\ phase' = [phase EXCEPT ![k] = IF AgentOf[k].closes /\ held[k] THEN "stopping" ELSE "stopped"]
       /\ UNCHANGED link
    \/ /\ phase[k] = "stopping"
       /\ link' = [link EXCEPT ![k] = "closed"]
       /\ phase' = [phase EXCEPT ![k] = "stopped"]
       /\ UNCHANGED cancelled

Stopping(k) ==
    /\ before_stop(k)
    /\ UNCHANGED <<stop, mailbox, task, attempt, connecting, held, last_error, ready_waiters,
                   handler, releasing, shared, world, question, probe>>

-----------------------------------------------------------------------------
(* Callers, the backend and the readiness probe.                           *)

Ask(c, k) ==
    /\ c \in pools.asking /\ question[c].of = NoKind /\ phase[k] \notin {"absent", "stopped"}
    /\ \E ask \in {"GetPoolHealth", "WaitForPoolReady"} :
         /\ question' = [question EXCEPT ![c] = [of |-> k, ask |-> ask, answer |-> "none"]]
         /\ mailbox' = Delivered(k, <<ask, c>>)
    /\ UNCHANGED <<phase, stop, task, attempt, model, handler, releasing, shared, link, world, probe>>

Outage(k) ==
    /\ outages < pools.outages /\ k \in pools.configured
    /\ outages' = outages + 1
    /\ up' = [up EXCEPT ![k] = ~@]
    /\ UNCHANGED <<agents, shared, link, pools, own, supplied, question, probe>>

\* What the readiness handler asks of each pool it finds in AppState.
probe_database == (pools.supply = "none" => link["database"] = "open") /\ up["database"]
probe_redis == up["redis"]
probe_nats == up["nats"]
probe_turso == pools.turso_mode = "local" \/ up["turso"]
probe_surrealdb == up["surrealdb"]
probe_clickhouse == up["clickhouse"]

Probed(k) ==
    \/ k = "database" /\ probe_database
    \/ k = "redis" /\ probe_redis
    \/ k = "nats" /\ probe_nats
    \/ k = "turso" /\ probe_turso
    \/ k = "surrealdb" /\ probe_surrealdb
    \/ k = "clickhouse" /\ probe_clickhouse

\* The state the handlers see holds the pool.
InState(k) == IF pools.supply = "none" THEN shared[k] ELSE k \in own

\* Mutant of ProbeVerdict: a pool that is not there yet does not count.
ProbeVerdict_SkipsMissing(k) == k \in pools.required /\ InState(k) => Probed(k)

\* A missing pool or a failed probe flips readiness unless it is optional.
ProbeVerdict(k) == k \in pools.required => InState(k) /\ Probed(k)

\* The first thing /ready does; one step per configured dependency follows.
readiness(configured) ==
    /\ probe.status = "idle" /\ pools.probes > 0
    /\ probe' = [via |-> "http", status |-> "probing", left |-> configured, ready |-> TRUE]
    /\ UNCHANGED <<agents, shared, link, world, question>>

\* HealthService asks four of the six.
check_dependencies == {"database", "redis", "nats", "surrealdb"}

\* HealthService::check and watch, whose stream ends after one status.  The
\* application made the service, with the AppState it had.
HealthService_check(configured) ==
    /\ probe.status = "idle" /\ pools.probes > 0 /\ pools.supply # "none"
    /\ probe' = [via |-> "grpc", status |-> "probing", left |-> configured \cap check_dependencies, ready |-> TRUE]
    /\ UNCHANGED <<agents, shared, link, world, question>>

\* AppState::pool_health, for the application: a pool that is not there counts
\* as healthy, one of the database is healthy below its maximum size, one of
\* Redis while it has a connection, NATS while it is connected; the others
\* always.
PoolHealthSummary(k) ==
    IF ~InState(k) THEN {TRUE}
    ELSE CASE k \in {"database", "redis"} -> BOOLEAN [] k = "nats" -> {up["nats"]} [] OTHER -> {TRUE}

AppState_pool_health(configured) ==
    /\ probe.status = "idle" /\ pools.probes > 0
    /\ probe' = [via |-> "summary", status |-> "probing", left |-> configured, ready |-> TRUE]
    /\ UNCHANGED <<agents, shared, link, world, question>>

ServingStatus ==
    /\ probe.via \in {"grpc", "summary"} /\ probe.status = "probing" /\ probe.left = {}
    /\ probe' = [probe EXCEPT !.status = IF probe.ready THEN "200" ELSE "503"]
    /\ UNCHANGED <<agents, shared, link, world, question>>

ProbeNext(k) ==
    /\ probe.status = "probing" /\ k \in probe.left
    /\ \E healthy \in (IF probe.via = "summary" THEN PoolHealthSummary(k) ELSE {ProbeVerdict(k)}) :
         probe' = [probe EXCEPT !.left = @ \ {k}, !.ready = @ /\ healthy]
    /\ UNCHANGED <<agents, shared, link, world, question>>

\* What an app-defined check may come to.
CheckOutcome == {"Ready", "ReadyWithMessage", "Degraded", "Unready"}

\* All checks race one deadline; a check that misses it is Unready.
run_concurrent(missed) == IF missed THEN {"Unready"} ELSE CheckOutcome

\* The checks run last, and only Unready flips readiness.
readiness_outcomes ==
    /\ probe.via = "http" /\ probe.status = "probing" /\ probe.left = {}
    /\ \E missed \in BOOLEAN : \E outcome \in run_concurrent(missed) :
         probe' = [probe EXCEPT !.status = IF probe.ready /\ outcome # "Unready" THEN "200" ELSE "503"]
    /\ UNCHANGED <<agents, shared, link, world, question>>

PoolStep(k) == Attempt(k) \/ Cancelled(k) \/ Handle(k) \/ Stopping(k)

PoolNext ==
    \/ \E k \in Kinds : \/ PoolStep(k) \/ Outage(k) \/ ProbeNext(k) \/ AppStateBuilder_build(k)
                      \/ \E c \in Callers : Ask(c, k)
    \/ readiness_outcomes \/ ServingStatus

\* A task is polled until it returns, and a running agent takes its messages.
PoolFairness == \A k \in Kinds : WF_poolVars(PoolStep(k))

-----------------------------------------------------------------------------
(* Properties.                                                             *)

PoolTypeOK ==
    /\ phase \in [Kinds -> {"absent", "starting", "running", "stopping", "stopped"}]
    /\ stop \in [Kinds -> BOOLEAN] /\ mailbox \in [Kinds -> Seq(Messages)]
    /\ task \in [Kinds -> {"none", "connecting", "done"}]
    /\ attempt \in [Kinds -> 0 .. MaxRetries + 1]
    /\ connecting \in [Kinds -> BOOLEAN] /\ held \in [Kinds -> BOOLEAN]
    /\ last_error \in [Kinds -> BOOLEAN] /\ cancelled \in [Kinds -> BOOLEAN]
    /\ ready_waiters \in [Kinds -> SUBSET Callers] /\ releasing \in [Kinds -> SUBSET Callers]
    /\ handler \in [Kinds -> {"idle", "publish", "release"}]
    /\ shared \in [Kinds -> BOOLEAN] /\ link \in [Kinds -> {"none", "open", "closed"}]
    /\ pools \in PoolSettings /\ own \subseteq supplied /\ supplied \subseteq Suppliable
    /\ up \in [Kinds -> BOOLEAN] /\ outages \in 0 .. pools.outages
    /\ question \in [Callers -> [of : Kinds \cup {NoKind}, answer : HealthStatus,
                                ask : {"none", "GetPoolHealth", "WaitForPoolReady"}]]
    /\ probe \in [via : {"http", "grpc", "summary"}, status : {"idle", "probing", "200", "503"}, left : SUBSET Kinds, ready : BOOLEAN]

=============================================================================
