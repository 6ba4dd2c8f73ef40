---------------------------- MODULE KeyRotation ----------------------------
(***************************************************************************)
(* Rotation of the token signing keys: KeyManager and its cache            *)
(* (auth/key_rotation/manager.rs), the rotation agent (agent.rs), the      *)
(* signing_keys table (storage), start-up in service_builder.rs and the    *)
(* generators and validators that use the keys.                            *)
(*                                                                         *)
(* Every instance has two threads: the agent, whose mutate_on handlers run *)
(* one at a time, and a request thread that signs and validates tokens.    *)
(* Both refresh the one cache of their instance; every storage call is a   *)
(* step of its own.  Time is abstracted: a cache may become stale, a key   *)
(* old enough to rotate, a drain window over, at any moment.               *)
(***************************************************************************)
EXTENDS Integers, FiniteSetsExt

CONSTANTS
    Instances,      \* service instances sharing the table
    MaxKeys,        \* bound: keys generated
    Workloads       \* bound: what may happen in a behaviour, see Budget

\* The table's backend, the instances deployed, those whose rotation checks are run and whose
\* requests sign and validate, and how many keys are generated, keys reach rotation_period_secs,
\* drain windows elapse, ForceRotation messages come, storage calls fail and
\* instances crash.
Budget == [backend : {"postgres", "turso", "surrealdb"}, deployed : SUBSET Instances, checking : SUBSET Instances,
           signing : SUBSET Instances, validating : SUBSET Instances, keys : 0 .. MaxKeys, aged : Nat,
           drained : Nat, forced : Nat, failures : Nat, crashes : Nat]

ASSUME KeyRotationAssumption ==
    /\ MaxKeys \in Nat /\ IsFiniteSet(Instances)
    /\ \A w \in Workloads : w \in Budget

Kids == 1 .. MaxKeys    \* UUID v7: kids are time-sorted
NoKey == 0              \* Option::None

Threads == Instances \X {"agent", "request"}
agent(i) == <<i, "agent">>
request(i) == <<i, "request">>

Status == {"absent", "active", "draining", "retired"}

\* CachedKeys of one instance; whole unless the verification keys were cut
\* short by a row that could not be read.
Caches == [active : Kids \cup {NoKey}, verification : SUBSET Kids, whole : BOOLEAN]
KeyCacheEmpty == [active |-> NoKey, verification |-> {}, whole |-> TRUE]

VARIABLES
    status,         \* signing_keys.status
    aged,           \* keys whose activation is rotation_period_secs ago
    windowOver,     \* keys whose drain window has passed
    replaced,       \* new key -> the key its rotation drained
    pool,           \* the database pool of the instance is connected
    mode,           \* "boot", "on", "off" (running without rotation), "down"
    cache,          \* KeyCache of each instance
    stale,          \* check_interval_secs since the cache's last refresh
    pc,             \* next step of each thread
    next,           \* where a refresh_cache returns to
    read,           \* what a running refresh_cache has read
    subject,        \* key a thread works on: the old key, the token's key
    forced,         \* the running check is a ForceRotation
    tokens,         \* keys of issued tokens
    rejected,       \* issued tokens refused: [kid, how]
    budget          \* what may still happen

table == <<status, aged, windowOver, replaced>>
process == <<pool, mode, forced>>
threads == <<pc, next, read, subject>>
outputs == <<tokens, rejected>>
vars == <<table, process, cache, stale, threads, outputs, budget>>

Init ==
    /\ status = [k \in Kids |-> "absent"]
    /\ aged = {} /\ windowOver = {}
    /\ replaced = [k \in Kids |-> NoKey]
    /\ pool = [i \in Instances |-> FALSE]
    /\ budget \in Workloads
    /\ mode = [i \in Instances |-> IF i \in budget.deployed THEN "boot" ELSE "down"]
    /\ cache = [i \in Instances |-> KeyCacheEmpty]
    /\ stale = [i \in Instances |-> FALSE]
    /\ pc = [t \in Threads |-> "idle"] /\ next = [t \in Threads |-> "idle"]
    /\ read = [t \in Threads |-> KeyCacheEmpty]
    /\ subject = [t \in Threads |-> NoKey]
    /\ forced = [i \in Instances |-> FALSE]
    /\ tokens = {} /\ rejected = {}

Spend(what) == budget[what] > 0 /\ budget' = [budget EXCEPT ![what] = @ - 1]

KeysWith(S) == {k \in Kids : status[k] \in S}

-----------------------------------------------------------------------------
(* Time, the pool and crashes.                                             *)

PoolConnects(i) ==
    /\ ~pool[i] /\ mode[i] # "down"
    /\ pool' = [pool EXCEPT ![i] = TRUE]
    /\ UNCHANGED <<table, mode, forced, cache, stale, threads, outputs, budget>>

Age(k) ==
    /\ status[k] = "active" /\ k \notin aged
    /\ Spend("aged")
    /\ aged' = aged \cup {k}
    /\ UNCHANGED <<status, windowOver, replaced, process, cache, stale, threads, outputs>>

DrainElapses(k) ==
    /\ status[k] = "draining" /\ k \notin windowOver
    /\ Spend("drained")
    /\ windowOver' = windowOver \cup {k}
    /\ UNCHANGED <<status, aged, replaced, process, cache, stale, threads, outputs>>

\* is_cache_stale turns true.
CacheExpires(i) ==
    /\ ~stale[i] /\ mode[i] = "on"
    /\ stale' = [stale EXCEPT ![i] = TRUE]
    /\ UNCHANGED <<table, process, cache, threads, outputs, budget>>

Crash(i) ==
    /\ mode[i] # "down"
    /\ Spend("crashes")
    /\ mode' = [mode EXCEPT ![i] = "down"]
    /\ pool' = [pool EXCEPT ![i] = FALSE]
    /\ forced' = [forced EXCEPT ![i] = FALSE]
    /\ cache' = [cache EXCEPT ![i] = KeyCacheEmpty]
    /\ stale' = [stale EXCEPT ![i] = FALSE]
    /\ pc' = [t \in Threads |-> IF t[1] = i THEN "idle" ELSE pc[t]]
    /\ next' = [t \in Threads |-> IF t[1] = i THEN "idle" ELSE next[t]]
    /\ read' = [t \in Threads |-> IF t[1] = i THEN KeyCacheEmpty ELSE read[t]]
    /\ subject' = [t \in Threads |-> IF t[1] = i THEN NoKey ELSE subject[t]]
    /\ UNCHANGED <<table, outputs>>

Restart(i) ==
    /\ mode[i] = "down" /\ i \in budget.deployed
    /\ mode' = [mode EXCEPT ![i] = "boot"]
    /\ UNCHANGED <<table, pool, forced, cache, stale, threads, outputs, budget>>

-----------------------------------------------------------------------------
(* KeyManager::refresh_cache, as a subroutine of thread t.                 *)

Call(t, step, return) ==
    /\ pc' = [pc EXCEPT ![t] = step]
    /\ next' = [next EXCEPT ![t] = return]

Goto(t, step) == Call(t, step, next[t])

\* A row of SELECT ... WHERE status = 'active' LIMIT 1.
AnActiveKey == IF KeysWith({"active"}) = {} THEN {NoKey} ELSE KeysWith({"active"})

\* Mutant of refresh_reads: the verification keys are read first.
refresh_reads_Swapped(t) ==
    \/ /\ pc[t] = "refresh"
       /\ read' = [read EXCEPT ![t].verification = KeysWith({"active", "draining"})]
       /\ Goto(t, "refreshKeys")
    \/ /\ pc[t] = "refreshKeys"
       /\ \E k \in AnActiveKey : read' = [read EXCEPT ![t].active = k]
       /\ Goto(t, "refreshWrite")

\* get_active_key, then get_verification_keys.
refresh_reads(t) ==
    \/ /\ pc[t] = "refresh"
       /\ \E k \in AnActiveKey : read' = [read EXCEPT ![t].active = k]
       /\ Goto(t, "refreshKeys")
    \/ /\ pc[t] = "refreshKeys"
       /\ read' = [read EXCEPT ![t].verification = KeysWith({"active", "draining"})]
       /\ Goto(t, "refreshWrite")

\* Turso's get_verification_keys ends quietly at the first row it cannot read;
\* the newest keys come first.
get_verification_keys_turso(t) ==
    /\ pc[t] = "refreshKeys" /\ budget.backend = "turso"
    /\ Spend("failures")
    /\ \E k \in KeysWith({"active", "draining"}) :
         read' = [read EXCEPT ![t].verification = {l \in KeysWith({"active", "draining"}) : l > k},
                              ![t].whole = FALSE]
    /\ Goto(t, "refreshWrite")
    /\ UNCHANGED <<table, process, cache, stale, subject, outputs>>

\* The cache is overwritten whatever happened since the reads.  The refresh
\* of init_key_rotation is followed by the spawn of the agent.
refresh_cache(t) ==
    \/ /\ refresh_reads(t)
       /\ UNCHANGED <<table, process, cache, stale, subject, outputs, budget>>
    \/ /\ pc[t] = "refreshWrite"
       /\ cache' = [cache EXCEPT ![t[1]] = read[t]]
       /\ stale' = [stale EXCEPT ![t[1]] = FALSE]
       /\ mode' = [mode EXCEPT ![t[1]] = "on"]
       /\ read' = [read EXCEPT ![t] = KeyCacheEmpty]
       /\ Call(t, next[t], "idle")
       /\ UNCHANGED <<table, pool, forced, subject, outputs, budget>>

\* Mutant of Fresh: a stale cache is used all the same.
Fresh_Always(i) == TRUE

\* get_signing_key and get_all_verification_keys use the cache as it is.
Fresh(i) == ~stale[i]

\* ... or refresh it first.
refresh_stale(t, step, then) ==
    /\ pc[t] = step /\ ~Fresh(t[1])
    /\ Call(t, "refresh", then)

\* Thread t, which wanted the cache at `step', has it.
HasCache(t, step, then) == pc[t] = then \/ (pc[t] = step /\ Fresh(t[1]))

-----------------------------------------------------------------------------
(* Start-up: ServiceBuilder::init_key_rotation, once per process.          *)

\* Without a connected pool the service goes on without key rotation.
init_key_rotation(i) ==
    /\ mode[i] = "boot" /\ pc[agent(i)] = "idle"
    /\ IF pool[i]
       THEN Call(agent(i), "refresh", "idle") /\ UNCHANGED mode
       ELSE mode' = [mode EXCEPT ![i] = "off"] /\ UNCHANGED <<pc, next>>
    /\ UNCHANGED <<table, pool, forced, cache, stale, read, subject, outputs, budget>>

-----------------------------------------------------------------------------
(* perform_rotation_check.                                                 *)

\* rotate() computes drain_expires_at but writes it nowhere.
DrainExpirySet == FALSE

\* WHERE status = 'draining' AND drain_expires_at <= now.
Expired == {k \in KeysWith({"draining"}) : DrainExpirySet /\ k \in windowOver}

\* An error of retire_expired is logged and the check goes on.
retire_expired(i, then) ==
    \/ /\ status' = [k \in Kids |-> IF k \in Expired THEN "retired" ELSE status[k]]
       /\ IF Expired = {} THEN Goto(agent(i), then) ELSE Call(agent(i), "refresh", then)
    \/ /\ Goto(agent(i), then)
       /\ UNCHANGED status

\* From the ticker or by hand.
CheckRotation(i) ==
    /\ mode[i] = "on" /\ pc[agent(i)] = "idle" /\ i \in budget.checking
    /\ forced' = [forced EXCEPT ![i] = FALSE]
    /\ retire_expired(i, "check")
    /\ UNCHANGED <<aged, windowOver, replaced, pool, mode, cache, stale, read, subject, outputs, budget>>

ForceRotation(i) ==
    /\ mode[i] = "on" /\ pc[agent(i)] = "idle" /\ i \in budget.checking
    /\ Spend("forced")
    /\ forced' = [forced EXCEPT ![i] = TRUE]
    /\ retire_expired(i, "capture")
    /\ UNCHANGED <<aged, windowOver, replaced, pool, mode, cache, stale, read, subject, outputs>>

\* The age check, and the second look at the cache for the audit record.
prepare(i) ==
    /\ \/ refresh_stale(agent(i), "check", "decide")
       \/ refresh_stale(agent(i), "capture", "rotate")
    /\ UNCHANGED <<table, process, cache, stale, read, subject, outputs, budget>>

\* A missing key is bootstrapped; a cached one is looked up for its age.
decide(i) ==
    LET active == cache[i].active IN
    /\ HasCache(agent(i), "check", "decide")
    /\ Goto(agent(i), IF active = NoKey \/ active \in aged THEN "capture" ELSE "idle")
    /\ UNCHANGED <<table, process, cache, stale, read, subject, outputs, budget>>

\* KeyManager::rotate: the active key of the table, not of the cache.
rotate(i) ==
    /\ HasCache(agent(i), "capture", "rotate")
    /\ budget.keys > 0
    /\ \E old \in AnActiveKey :
         /\ subject' = [subject EXCEPT ![agent(i)] = old]
         /\ Goto(agent(i), IF old = NoKey THEN "store" ELSE "drain")
    /\ UNCHANGED <<table, process, cache, stale, read, outputs, budget>>

\* The old key gets status s and the rotation goes on.
Drain(i, s) ==
    /\ status' = [status EXCEPT ![subject[agent(i)]] = s]
    /\ Goto(agent(i), "store")
    /\ UNCHANGED subject

drainUnchanged ==
    <<aged, windowOver, replaced, process, cache, stale, read, outputs, budget>>

\* Mutant of drain_old: UPDATE without AND status = 'active'.
drain_old_Unconditional(i) ==
    pc[agent(i)] = "drain" /\ Drain(i, "draining") /\ UNCHANGED drainUnchanged

\* Mutant of drain_old: the old key stays active.
drain_old_Forgotten(i) ==
    pc[agent(i)] = "drain" /\ Drain(i, "active") /\ UNCHANGED drainUnchanged

\* UPDATE ... WHERE status = 'active'; no row is a Conflict that ends rotate.
drain_old(i) ==
    LET old == subject[agent(i)] IN
    /\ pc[agent(i)] = "drain"
    /\ \/ /\ status[old] = "active"
          /\ Drain(i, "draining")
       \/ /\ status[old] # "active"
          /\ Goto(agent(i), "idle")
          /\ subject' = [subject EXCEPT ![agent(i)] = NoKey]
          /\ UNCHANGED status
    /\ UNCHANGED drainUnchanged

\* The new key, with a fresh kid; then the refresh that ends rotate.
store_key(i) ==
    /\ pc[agent(i)] = "store" /\ Spend("keys")
    /\ LET k == Min(KeysWith({"absent"})) IN
         /\ status' = [status EXCEPT ![k] = "active"]
         /\ replaced' = [replaced EXCEPT ![k] = subject[agent(i)]]
    /\ subject' = [subject EXCEPT ![agent(i)] = NoKey]
    /\ Call(agent(i), "refresh", "idle")
    /\ UNCHANGED <<aged, windowOver, process, cache, stale, read, outputs>>

\* SurrealDB's store_key does not look whether its CREATE statement failed.
store_key_surrealdb(i) ==
    /\ pc[agent(i)] = "store" /\ budget.backend = "surrealdb"
    /\ Spend("failures")
    /\ subject' = [subject EXCEPT ![agent(i)] = NoKey]
    /\ Call(agent(i), "refresh", "idle")
    /\ UNCHANGED <<table, process, cache, stale, read, outputs>>

\* Its update_key_status takes a statement that failed for a Conflict.
update_key_status_surrealdb(i) ==
    /\ pc[agent(i)] = "drain" /\ budget.backend = "surrealdb"
    /\ Spend("failures")
    /\ Goto(agent(i), "idle")
    /\ subject' = [subject EXCEPT ![agent(i)] = NoKey]
    /\ UNCHANGED <<table, process, cache, stale, read, outputs>>

\* Where a failing storage call leaves the check: the look-up for the audit
\* record is optional, any other error ends it; at start-up it ends rotation.
StorageFails(i) ==
    /\ \/ pc[agent(i)] \in {"refresh", "refreshKeys", "drain", "store"}
       \/ HasCache(agent(i), "check", "decide") /\ cache[i].active # NoKey
       \/ HasCache(agent(i), "capture", "rotate")
    /\ Spend("failures")
    /\ Call(agent(i), IF next[agent(i)] = "rotate" THEN "rotate" ELSE "idle", "idle")
    /\ mode' = [mode EXCEPT ![i] = IF @ = "boot" THEN "off" ELSE @]
    /\ read' = [read EXCEPT ![agent(i)] = KeyCacheEmpty]
    /\ subject' = [subject EXCEPT ![agent(i)] = NoKey]
    /\ UNCHANGED <<table, pool, forced, cache, stale, outputs>>

-----------------------------------------------------------------------------
(* Requests: generators and validators.                                    *)

Idle(i) == mode[i] = "on" /\ pc[request(i)] = "idle"
IdleSigning(i) == Idle(i) /\ i \in budget.signing
IdleValidating(i) == Idle(i) /\ i \in budget.validating

\* The request ends.
Done(i) ==
    /\ Call(request(i), "idle", "idle")
    /\ subject' = [subject EXCEPT ![request(i)] = NoKey]

\* A request to sign, or to validate a PASETO token, finds the cache stale.
lookup(i) ==
    /\ \/ /\ IdleSigning(i)
          /\ refresh_stale(request(i), "idle", "sign")
          /\ UNCHANGED subject
       \/ /\ IdleValidating(i)
          /\ refresh_stale(request(i), "idle", "tryAll")
          /\ \E k \in tokens : subject' = [subject EXCEPT ![request(i)] = k]
    /\ UNCHANGED <<table, process, cache, stale, read, outputs, budget>>

\* generate_token with the cached active key; without one the static key of
\* the configuration signs, which no rotation concerns.
sign(i) ==
    /\ (IdleSigning(i) /\ Fresh(i)) \/ pc[request(i)] = "sign"
    /\ tokens' = tokens \cup ({cache[i].active} \ {NoKey})
    /\ Done(i)
    /\ UNCHANGED <<table, process, cache, stale, read, rejected, budget>>

Refuse(k, how) == rejected' = rejected \cup {[kid |-> k, how |-> how]}

\* Mutant of get_verification_key: no fallback to storage.
get_verification_key_CacheOnly(i, k) ==
    /\ k \notin cache[i].verification
    /\ Refuse(k, "jwt") /\ UNCHANGED <<pc, next, subject>>

\* A kid the cache does not hold is looked up in storage.  (One it holds is
\* accepted, which changes nothing.)
get_verification_key(i, k) ==
    /\ k \notin cache[i].verification
    /\ \/ /\ status[k] \in {"active", "draining"}
          /\ Goto(request(i), "insert")
          /\ subject' = [subject EXCEPT ![request(i)] = k]
          /\ UNCHANGED rejected
       \/ /\ status[k] \notin {"active", "draining"}
          /\ Refuse(k, "jwt") /\ UNCHANGED <<pc, next, subject>>

validate_jwt(i) ==
    \/ /\ IdleValidating(i)
       /\ \E k \in tokens : get_verification_key(i, k)
       /\ UNCHANGED <<table, process, cache, stale, read, tokens, budget>>
    \/ /\ pc[request(i)] = "insert"
       /\ cache' = [cache EXCEPT ![i].verification = @ \cup {subject[request(i)]}]
       /\ Done(i)
       /\ UNCHANGED <<table, process, stale, read, outputs, budget>>

\* PASETO: every cached verification key is tried, and no other.
validate_paseto(i) ==
    /\ \E k \in tokens :
         /\ \/ IdleValidating(i) /\ Fresh(i)
            \/ pc[request(i)] = "tryAll" /\ k = subject[request(i)]
         /\ IF k \in cache[i].verification THEN UNCHANGED rejected ELSE Refuse(k, "paseto")
    /\ Done(i)
    /\ UNCHANGED <<table, process, cache, stale, read, tokens, budget>>

\* A failing storage call fails the request.
RequestFails(i) ==
    /\ pc[request(i)] \in {"refresh", "refreshKeys"}
    /\ Spend("failures")
    /\ Done(i)
    /\ read' = [read EXCEPT ![request(i)] = KeyCacheEmpty]
    /\ UNCHANGED <<table, process, cache, stale, outputs>>

-----------------------------------------------------------------------------

AgentStep(i) ==
    \/ init_key_rotation(i) \/ CheckRotation(i)
    \/ prepare(i) \/ decide(i) \/ rotate(i) \/ drain_old(i) \/ store_key(i)
    \/ refresh_cache(agent(i))

RequestStep(i) ==
    lookup(i) \/ sign(i) \/ validate_jwt(i) \/ validate_paseto(i) \/ refresh_cache(request(i))

Next ==
    \/ \E k \in Kids : Age(k) \/ DrainElapses(k)
    \/ \E i \in Instances :
         \/ PoolConnects(i) \/ CacheExpires(i) \/ Crash(i) \/ Restart(i)
         \/ AgentStep(i) \/ ForceRotation(i) \/ StorageFails(i)
         \/ store_key_surrealdb(i) \/ update_key_status_surrealdb(i)
         \/ RequestStep(i) \/ RequestFails(i)
    \/ \E t \in Threads : get_verification_keys_turso(t)

\* The ticker keeps ticking, the agent's handler runs to its end, the cache's
\* age grows, the pool agent keeps connecting, a crashed process is restarted.
Fairness ==
    \A i \in Instances :
        /\ WF_vars(AgentStep(i)) /\ WF_vars(CacheExpires(i))
        /\ WF_vars(PoolConnects(i)) /\ WF_vars(Restart(i))

Spec == Init /\ [][Next]_vars /\ Fairness

-----------------------------------------------------------------------------
(* Properties.                                                             *)

Steps == {"idle", "check", "decide", "capture", "rotate", "drain", "store",
          "refresh", "refreshKeys", "refreshWrite", "sign", "insert", "tryAll"}

IsSingle == Cardinality(budget.deployed) = 1

\* The table, the caches and the threads keep their types; statuses are those
\* the column's CHECK allows.
TypeOK ==
    /\ status \in [Kids -> Status]
    /\ aged \subseteq Kids /\ windowOver \subseteq Kids
    /\ replaced \in [Kids -> Kids \cup {NoKey}]
    /\ pool \in [Instances -> BOOLEAN]
    /\ mode \in [Instances -> {"boot", "on", "off", "down"}]
    /\ forced \in [Instances -> BOOLEAN] /\ stale \in [Instances -> BOOLEAN]
    /\ cache \in [Instances -> Caches] /\ read \in [Threads -> Caches]
    /\ pc \in [Threads -> Steps] /\ next \in [Threads -> Steps]
    /\ subject \in [Threads -> Kids \cup {NoKey}]
    /\ tokens \subseteq Kids
    /\ rejected \subseteq [kid : Kids, how : {"jwt", "paseto"}]
    /\ budget \in Budget

\* Where one instance runs, at most one key is active in the table, whatever
\* call fails and whenever it crashes.  (Replicas can bootstrap one each.)
AtMostOneActive ==
    IsSingle => \A k, l \in KeysWith({"active"}) : k = l

\* No key is replaced by two rotations, however many instances find it old
\* at once (update_key_status is conditional on status = 'active').
ReplacedOnce ==
    \A k, l \in Kids : replaced[k] = replaced[l] /\ replaced[k] # NoKey => k = l

\* Whatever key an instance's cache signs with, the same cache can verify,
\* though the two are read from storage at different moments; only a read that
\* Turso cut short may miss it.
SigningKeyVerifiable ==
    \A i \in Instances : cache[i].active # NoKey /\ cache[i].whole =>
        cache[i].active \in cache[i].verification

\* A JWT issued by any instance is accepted by every instance, through
\* rotations, stale caches, failing storage calls and crashes.
JwtAccepted == \A r \in rejected : r.how # "jwt"

\* The same of PASETO tokens.
PasetoAccepted == \A r \in rejected : r.how # "paseto"

\* A rotation that a crash or a failing call cut short is made up for: the
\* service does not stay without an active key.
SigningResumes ==
    \A i \in Instances :
        pc[agent(i)] = "store" ~> (KeysWith({"active"}) # {} \/ mode[i] = "off")

\* A draining key whose window is over is retired: it does not stay in use.
DrainedKeysRetire ==
    \A k \in Kids : k \in windowOver ~> status[k] = "retired"

\* Once the pool is connected, key rotation starts.
RotationStarts ==
    \A i \in Instances : pool[i] ~> (mode[i] = "on" \/ ~pool[i])

-----------------------------------------------------------------------------
(* The workloads TLC checks, on the instances "a" and "b".                 *)

\* Nothing but the start-up and the checks of the instances in S.
Quiet(S) == [backend |-> "postgres", deployed |-> S, checking |-> S, signing |-> {}, validating |-> {},
             keys |-> 3, aged |-> 0, drained |-> 0, forced |-> 0, failures |-> 0, crashes |-> 0]

\* One instance whose storage calls fail and that crashes; two replicas that
\* find the same key old at once; tokens of one replica checked by another.
CheckedWorkloads ==
    LET alone == Quiet({"a"})
        signs == [alone EXCEPT !.keys = 2, !.signing = {"a"}, !.forced = 1, !.failures = 1]
        replicas == [Quiet({"a", "b"}) EXCEPT !.aged = 1]
    IN  {[alone EXCEPT !.forced = 1, !.failures = 1, !.crashes = 1],
         [signs EXCEPT !.backend = "turso"],
         [alone EXCEPT !.keys = 2, !.forced = 1, !.failures = 2, !.backend = "surrealdb"],
         [signs EXCEPT !.drained = 1],
         replicas,
         [replicas EXCEPT !.keys = 2, !.checking = {"a"}, !.signing = {"a"}, !.validating = {"b"}]}

=============================================================================
