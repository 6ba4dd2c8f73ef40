----------------------- MODULE ServiceBuilderProofs ------------------------
(***************************************************************************)
(* Proofs about ServiceBuilder and PoolAgents for any configuration, any   *)
(* number of retries, callers and requests: the types, what a pool agent   *)
(* and the readiness probe may claim, the order of shutdown, and the       *)
(* posture of every listener that accepts.                                 *)
(***************************************************************************)
EXTENDS ServiceBuilder, SequenceTheorems, TLAPS

-----------------------------------------------------------------------------
(* The invariants.                                                         *)

\* A task that still connects has a retry left, and one that has not begun
\* has used none; an agent that is not there has not begun.
AttemptsLeft ==
    \A k \in Kinds : /\ task[k] = "connecting" => attempt[k] <= MaxRetries
                     /\ task[k] = "none" => attempt[k] = 0
                     /\ phase[k] = "absent" => task[k] = "none"

PoolInv == PoolTypeOK /\ AttemptsLeft

\* The types of what build and serve keep, but for what is put together.
ServeTypeOK ==
    /\ cfg \in ConfigFields
    /\ listener \in [Listeners -> {"closed", "open", "draining", "done"}]
    /\ inflight \in [Listeners -> 0 .. cfg.requests] /\ signal \in BOOLEAN
    /\ result \in {"none", "refused", "error", "ok"}

TypeInv == PoolInv /\ ServeTypeOK

\* A pool the agent holds is in the shared lock, unless the handler that
\* stored it is still on its way there.
HeldIsShared ==
    \A k \in Kinds : /\ held[k] => shared[k] \/ handler[k] = "publish"
                     /\ handler[k] = "release" => shared[k]

\* Who is parked or about to be released by an agent has asked that agent.
ParkedAsked ==
    \A k \in Kinds : \A c \in ready_waiters[k] \cup releasing[k] : question[c].of = k

\* So has every caller with a message in its mailbox.
QueuedAsked ==
    \A k \in Kinds : \A i \in 1 .. Len(mailbox[k]) :
        mailbox[k][i][1] \in {"GetPoolHealth", "WaitForPoolReady"} => question[mailbox[k][i][2]].of = k

\* No one is told of a pool that is not in the shared lock.
HealthyIsShared ==
    \A c \in Callers : question[c].answer = "Healthy" => question[c].of \in Kinds /\ shared[question[c].of]

PublishInv == HeldIsShared /\ ParkedAsked /\ QueuedAsked /\ HealthyIsShared

\* The dependencies a request of this kind asks.
Asked(via) == IF via = "grpc" THEN check_dependencies ELSE Kinds

\* While no verdict was bad, a required pool has still to be asked or is in
\* the state.
ProbeInv ==
    /\ probe.status = "probing" /\ probe.ready /\ probe.via # "summary" =>
         \A k \in pools.required \cap Asked(probe.via) : k \in probe.left \/ InState(k)
    /\ ReadyIsTrue

\* A public listener accepts or drains only while the service is serving.
OpenWhileServing ==
    \A l \in {"http", "grpc"} : listener[l] \in {"open", "draining"} => stage = "serving" /\ l \in Bound

\* A request in flight is on a listener that has not let go of it.
InFlightIsHeld ==
    \A l \in Listeners : inflight[l] > 0 => l \in Bound /\ listener[l] \in {"open", "draining"}

\* Agents are asked to stop when serving is over, and close nothing unasked.
StopAfterServing ==
    \A k \in Kinds : /\ stop[k] => stage \in {"agents", "ended"}
                     /\ phase[k] = "stopping" \/ link[k] = "closed" => stop[k]

ShutdownInv == OpenWhileServing /\ InFlightIsHeld /\ StopAfterServing

-----------------------------------------------------------------------------
(* What build puts together.                                               *)

LayerNames ==
    Switches \cup {"cors", "security_headers", "timeout", "body_limit", "trace", "request_context", "session",
                   "cedar", "audit", "governor", "token", "caller_auth", "audit_extension"}

StartupErrors ==
    {"none", "pools", "audit", "rotation", "worker", "extensions", "cedar", "session", "token", "caller",
     "tls", "grpc_tls", "client_ca", "interval", "timeout", "registration", "exporter"}

Services ==
    [startup_error : StartupErrors, runtime : BOOLEAN, audit : BOOLEAN, fingerprint : BOOLEAN,
     keys : BOOLEAN, worker : BOOLEAN, extensions : BOOLEAN,
     wired : SUBSET (Kinds \cup {"audit", "fingerprint", "keys", "worker", "extensions"}),
     routes : SUBSET {"health", "ready", "metrics", "drift", "versioned", "graphql"},
     cedar : BOOLEAN, policy : {"off", "bearer", "mtls", "mtls-or-bearer"},
     http : Seq(LayerNames), grpc : Seq(LayerNames),
     tls : {"none", "injected", "loaded"}, grpc_tls : {"none", "injected", "loaded"},
     exporter : BOOLEAN]

\* The guards the configuration asks for are on the stack.
GuardedBy(stack) ==
    /\ cfg.token # "off" => "token" \in Range(stack)
    /\ cfg.cedar # "off" => "cedar" \in Range(stack)
    /\ cfg.caller \notin {"off", "bearer"} => "caller_auth" \in Range(stack)

\* What serve may rely on once build has reported no error.
Assured(b) ==
    /\ GuardedBy(b.http)
    /\ cfg.services => GuardedBy(b.grpc) /\ cfg.grpc \in {"shared", "separate"}
    /\ (cfg.tls_override \/ Enabled(cfg.tls)) <=> b.tls # "none"
    /\ b.grpc_tls # "none" <=> \/ cfg.grpc_override \/ Enabled(cfg.grpc_tls)
                               \/ cfg.grpc_tls = "absent" /\ b.tls # "none"
    /\ cfg.caller \in {"mtls", "mtls-or-bearer"} =>
         /\ http_client_ca \in {"Verified", "Unknown"}
         /\ SeparateGrpc => grpc_client_ca \in {"Verified", "Unknown"}

PostureInv ==
    /\ service \in Services
    /\ stage \in {"pools", "rotation", "layers", "built", "bind", "serving", "agents", "ended"}
    /\ stage = "built" /\ service.startup_error = "none" => Assured(service)
    /\ stage \in {"bind", "serving"} => Assured(service)

\* No file was unreadable: the service works with what was written.
AsWritten == cfg = written

-----------------------------------------------------------------------------
(* Types of the pool agents.                                               *)

LEMMA TypeOKParts == TypeOK <=> PoolTypeOK /\ ServeTypeOK
  BY DEF TypeOK, ServeTypeOK

LEMMA PoolInitType ==
    ASSUME NEW settings \in PoolSettings, PoolInit(settings)
    PROVE  PoolInv
<1>1. PoolTypeOK
  BY PoolAssumption DEF PoolInit, PoolTypeOK, NoKind, HealthStatus, PoolSettings
<1>2. AttemptsLeft
  BY PoolAssumption DEF PoolInit, AttemptsLeft
<1> QED  BY <1>1, <1>2 DEF PoolInv

\* A message for an agent is queued or dropped.
LEMMA DeliveredType ==
    ASSUME PoolTypeOK, NEW k \in Kinds, NEW m \in Messages, mailbox' = Delivered(k, m)
    PROVE  mailbox' \in [Kinds -> Seq(Messages)]
  BY DEF PoolTypeOK, Delivered

LEMMA ReportType ==
    ASSUME PoolTypeOK, NEW k \in Kinds, NEW m \in {"Connected", "Failed"}, Report(k, m)
    PROVE  /\ mailbox' \in [Kinds -> Seq(Messages)]
           /\ task' \in [Kinds -> {"none", "connecting", "done"}]
           /\ task' = [task EXCEPT ![k] = "done"]
           /\ phase' \in [Kinds -> {"absent", "starting", "running", "stopping", "stopped"}]
           /\ \A j \in Kinds : phase'[j] = "absent" => phase[j] = "absent"
<1>1. <<m, NoCaller>> \in Messages  BY DEF Messages
<1>2. mailbox' \in [Kinds -> Seq(Messages)]  BY <1>1, DeliveredType DEF Report
<1>3. /\ task' = [task EXCEPT ![k] = "done"]
      /\ phase' = [phase EXCEPT ![k] = IF @ = "starting" THEN "running" ELSE @]
  BY DEF Report
<1> QED  BY <1>2, <1>3 DEF PoolTypeOK

LEMMA ReportAttempts ==
    ASSUME PoolInv, NEW k \in Kinds, NEW m \in {"Connected", "Failed"}, Report(k, m),
           task[k] = "connecting", \A j \in Kinds \ {k} : attempt'[j] = attempt[j]
    PROVE  AttemptsLeft'
<1> SUFFICES ASSUME NEW j \in Kinds
             PROVE  /\ task'[j] = "connecting" => attempt'[j] <= MaxRetries
                    /\ task'[j] = "none" => attempt'[j] = 0
                    /\ phase'[j] = "absent" => task'[j] = "none"
  BY DEF AttemptsLeft
<1>1. PoolTypeOK /\ AttemptsLeft  BY DEF PoolInv
<1>2. /\ task' = [task EXCEPT ![k] = "done"]
      /\ phase'[j] = "absent" => phase[j] = "absent"
  BY <1>1, ReportType
<1>3. CASE j = k
  <2>1. task'[j] = "done"  BY <1>1, <1>2, <1>3 DEF PoolTypeOK
  <2>2. phase[j] # "absent"  BY <1>1, <1>3 DEF AttemptsLeft
  <2> QED  BY <2>1, <2>2, <1>2
<1>4. CASE j # k
  <2>1. task'[j] = task[j] /\ attempt'[j] = attempt[j]  BY <1>1, <1>2, <1>4 DEF PoolTypeOK
  <2> QED  BY <2>1, <1>1, <1>2 DEF AttemptsLeft
<1> QED  BY <1>3, <1>4

LEMMA SpawnType ==
    ASSUME PoolInv, NEW S \in SUBSET Kinds, spawn(S)
    PROVE  PoolInv'
<1>1. PoolTypeOK /\ AttemptsLeft  BY DEF PoolInv
<1>2. /\ phase' \in [Kinds -> {"absent", "starting", "running", "stopping", "stopped"}]
      /\ connecting' \in [Kinds -> BOOLEAN]
      /\ task' \in [Kinds -> {"none", "connecting", "done"}]
  BY <1>1 DEF spawn, PoolTypeOK
<1>3. UNCHANGED <<stop, mailbox, attempt, held, last_error, ready_waiters, cancelled,
                  handler, releasing, shared, link, pools, own, supplied, up, outages, question, probe>>
  BY DEF spawn, world
<1>4. PoolTypeOK'  BY <1>1, <1>2, <1>3 DEF PoolTypeOK
<1>5. AttemptsLeft'
  <2> SUFFICES ASSUME NEW k \in Kinds
               PROVE  /\ task'[k] = "connecting" => attempt'[k] <= MaxRetries
                      /\ task'[k] = "none" => attempt'[k] = 0
                      /\ phase'[k] = "absent" => task'[k] = "none"
    BY DEF AttemptsLeft
  <2>1. CASE k \in S
    <3>1. phase[k] = "absent"  BY <2>1 DEF spawn
    <3>2. attempt'[k] = 0  BY <1>1, <1>3, <3>1 DEF AttemptsLeft
    <3>3. task'[k] = "connecting" /\ phase'[k] # "absent"  BY <2>1 DEF spawn
    <3> QED  BY <3>2, <3>3, PoolAssumption
  <2>2. CASE k \notin S
    <3>1. task'[k] = task[k] /\ phase'[k] = phase[k] /\ attempt'[k] = attempt[k]
      BY <2>2, <1>3 DEF spawn
    <3> QED  BY <3>1, <1>1 DEF AttemptsLeft
  <2> QED  BY <2>1, <2>2
<1> QED  BY <1>4, <1>5 DEF PoolInv

LEMMA AttemptType ==
    ASSUME PoolInv, NEW k \in Kinds, Attempt(k)
    PROVE  PoolInv'
<1>1. PoolTypeOK /\ AttemptsLeft  BY DEF PoolInv
<1>2. UNCHANGED <<stop, connecting, held, last_error, ready_waiters, cancelled, handler, releasing, shared,
                  pools, own, supplied, up, outages, question, probe>>
  BY DEF Attempt, world, model
<1>3. task[k] = "connecting"  BY DEF Attempt
<1>4. attempt[k] \in Nat /\ attempt[k] <= MaxRetries
  BY <1>1, <1>3, PoolAssumption DEF AttemptsLeft, PoolTypeOK
<1>5. CASE /\ link' = [link EXCEPT ![k] = "open"] /\ Report(k, "Connected") /\ UNCHANGED attempt
  <2>1. PoolTypeOK'
    BY <1>1, <1>2, <1>5, ReportType DEF PoolTypeOK
  <2>2. AttemptsLeft'
    BY <1>3, <1>5, ReportAttempts
  <2> QED  BY <2>1, <2>2 DEF PoolInv
<1>6. CASE /\ attempt' = [attempt EXCEPT ![k] = @ + 1] /\ UNCHANGED link
           /\ IF GivesUp(attempt'[k], MaxRetries) THEN Report(k, "Failed")
                                                  ELSE UNCHANGED <<task, mailbox, phase>>
  <2>1. attempt'[k] = attempt[k] + 1  BY <1>1, <1>6 DEF PoolTypeOK
  <2>2. attempt' \in [Kinds -> 0 .. MaxRetries + 1]
    BY <1>1, <1>4, <1>6, PoolAssumption DEF PoolTypeOK
  <2>3. CASE GivesUp(attempt'[k], MaxRetries)
    <3>1. Report(k, "Failed")  BY <1>6, <2>3
    <3>2. PoolTypeOK'
      BY <1>1, <1>2, <1>6, <2>2, <3>1, ReportType DEF PoolTypeOK
    <3>3. AttemptsLeft'
      <4>1. \A j \in Kinds \ {k} : attempt'[j] = attempt[j]  BY <1>1, <1>6 DEF PoolTypeOK
      <4> QED  BY <1>3, <3>1, <4>1, ReportAttempts
    <3> QED  BY <3>2, <3>3 DEF PoolInv
  <2>4. CASE ~GivesUp(attempt'[k], MaxRetries)
    <3>1. UNCHANGED <<task, mailbox, phase>>  BY <1>6, <2>4
    <3>2. PoolTypeOK'
      BY <1>1, <1>2, <1>6, <2>2, <3>1 DEF PoolTypeOK
    <3>3. attempt'[k] <= MaxRetries
      BY <1>4, <2>1, <2>4, PoolAssumption DEF GivesUp
    <3>4. phase[k] # "absent"  BY <1>1, <1>3 DEF AttemptsLeft
    <3>5. AttemptsLeft'
      BY <1>1, <1>3, <1>6, <3>1, <3>3, <3>4 DEF PoolTypeOK, AttemptsLeft
    <3> QED  BY <3>2, <3>5 DEF PoolInv
  <2> QED  BY <2>3, <2>4
<1> QED  BY <1>5, <1>6 DEF Attempt

LEMMA CancelledType ==
    ASSUME PoolInv, NEW k \in Kinds, Cancelled(k)
    PROVE  PoolInv'
<1>1. PoolTypeOK /\ AttemptsLeft  BY DEF PoolInv
<1>2. UNCHANGED <<stop, attempt, connecting, held, last_error, ready_waiters, cancelled, handler, releasing,
                  shared, link, pools, own, supplied, up, outages, question, probe>>
  BY DEF Cancelled, world, model
<1>3. Report(k, "Failed")  BY DEF Cancelled
<1>4. PoolTypeOK'  BY <1>1, <1>2, <1>3, ReportType DEF PoolTypeOK
<1>5. AttemptsLeft'
  <2>1. task[k] = "connecting"  BY DEF Cancelled
  <2> QED  BY <1>2, <1>3, <2>1, ReportAttempts
<1> QED  BY <1>4, <1>5 DEF PoolInv

\* The rest of the steps of an agent touch no attempt.
LEMMA AttemptsKept ==
    ASSUME PoolInv, task' = task, attempt' = attempt,
           \A k \in Kinds : phase'[k] = "absent" => phase[k] = "absent"
    PROVE  AttemptsLeft'
  BY DEF PoolInv, AttemptsLeft

LEMMA ReceivesType ==
    ASSUME PoolTypeOK, NEW k \in Kinds, NEW m, NEW c, Receives(k, m, c)
    PROVE  /\ mailbox' \in [Kinds -> Seq(Messages)]
           /\ mailbox[k] \in Seq(Messages) /\ mailbox[k] # << >> /\ Head(mailbox[k]) = <<m, c>>
           /\ mailbox' = [mailbox EXCEPT ![k] = Tail(@)]
<1>1. /\ mailbox \in [Kinds -> Seq(Messages)] /\ mailbox[k] # << >> /\ Head(mailbox[k]) = <<m, c>>
      /\ mailbox' = [mailbox EXCEPT ![k] = Tail(@)]
  BY DEF Receives, PoolTypeOK
<1>2. mailbox[k] \in Seq(Messages)  BY <1>1
<1>3. Tail(mailbox[k]) \in Seq(Messages)  BY <1>1, <1>2
<1> QED  BY <1>1, <1>2, <1>3

Questions == [of : Kinds \cup {NoKind}, answer : HealthStatus,
              ask : {"none", "GetPoolHealth", "WaitForPoolReady"}]

\* An answer changes nothing else about the questions asked.
LEMMA AnsweredType ==
    ASSUME PoolTypeOK, NEW S \in SUBSET Callers, NEW status \in HealthStatus, Answered(S, status)
    PROVE  /\ question' \in [Callers -> Questions]
           /\ \A c \in Callers : /\ question'[c].of = question[c].of
                                 /\ question'[c].ask = question[c].ask
                                 /\ c \in S => question'[c].answer = status
                                 /\ c \notin S => question'[c] = question[c]
<1>1. question \in [Callers -> Questions]  BY DEF PoolTypeOK, Questions
<1>2. \A c \in Callers : c \in S => question'[c] = [question[c] EXCEPT !.answer = status]
  BY DEF Answered
<1>3. \A c \in Callers : c \notin S => question'[c] = question[c]
  BY DEF Answered
<1>4. question' = [c \in Callers |-> IF c \in S THEN [question[c] EXCEPT !.answer = status] ELSE question[c]]
  BY DEF Answered
<1>5. \A c \in Callers : [question[c] EXCEPT !.answer = status] \in Questions
  BY <1>1 DEF Questions
<1>6. question' \in [Callers -> Questions]  BY <1>1, <1>4, <1>5
<1>7. \A c \in Callers : c \in S => /\ question'[c].of = question[c].of
                                    /\ question'[c].ask = question[c].ask
                                    /\ question'[c].answer = status
  BY <1>1, <1>2 DEF Questions
<1> QED  BY <1>3, <1>6, <1>7

LEMMA PoolHealthType ==
    ASSUME NEW k
    PROVE  pool_health(k) \in HealthStatus
  BY DEF pool_health, HealthStatus

LEMMA QuestionsType == PoolTypeOK => question \in [Callers -> Questions]
  BY DEF PoolTypeOK, Questions

LEMMA OnConnectedType ==
    ASSUME PoolInv, NEW k \in Kinds, OnConnected(k),
           UNCHANGED <<phase, stop, task, attempt, cancelled, link, world, probe>>
    PROVE  PoolInv'
<1>1. PoolTypeOK  BY DEF PoolInv
<1>2. AttemptsLeft'  BY AttemptsKept
<1>3. UNCHANGED <<phase, stop, task, attempt, cancelled, link, pools, own, supplied, up, outages, probe>>
  BY DEF world
<1>4. CASE /\ Receives(k, "Connected", NoCaller)
           /\ held' = [held EXCEPT ![k] = TRUE]
           /\ connecting' = [connecting EXCEPT ![k] = FALSE]
           /\ last_error' = [last_error EXCEPT ![k] = FALSE]
           /\ releasing' = [releasing EXCEPT ![k] = ready_waiters[k]]
           /\ ready_waiters' = [ready_waiters EXCEPT ![k] = {}]
           /\ handler' = [handler EXCEPT ![k] = "publish"]
           /\ UNCHANGED <<shared, question>>
  <2>1. mailbox' \in [Kinds -> Seq(Messages)]  BY <1>1, <1>4, ReceivesType
  <2>2. /\ held' \in [Kinds -> BOOLEAN] /\ connecting' \in [Kinds -> BOOLEAN] /\ last_error' \in [Kinds -> BOOLEAN]
        /\ ready_waiters' \in [Kinds -> SUBSET Callers] /\ releasing' \in [Kinds -> SUBSET Callers]
        /\ handler' \in [Kinds -> {"idle", "publish", "release"}]
    BY <1>1, <1>4 DEF PoolTypeOK
  <2> QED  BY <1>1, <1>2, <1>3, <1>4, <2>1, <2>2 DEF PoolInv, PoolTypeOK
<1>5. CASE /\ shared' = [shared EXCEPT ![k] = TRUE]
           /\ handler' = [handler EXCEPT ![k] = "release"]
           /\ UNCHANGED <<mailbox, held, connecting, last_error, ready_waiters, releasing, question>>
  <2>1. shared' \in [Kinds -> BOOLEAN] /\ handler' \in [Kinds -> {"idle", "publish", "release"}]
    BY <1>1, <1>5 DEF PoolTypeOK
  <2> QED  BY <1>1, <1>2, <1>3, <1>5, <2>1 DEF PoolInv, PoolTypeOK
<1>6. CASE /\ Answered(releasing[k], "Healthy")
           /\ releasing' = [releasing EXCEPT ![k] = {}]
           /\ handler' = [handler EXCEPT ![k] = "idle"]
           /\ UNCHANGED <<mailbox, held, connecting, last_error, ready_waiters, shared>>
  <2>1. releasing' \in [Kinds -> SUBSET Callers] /\ handler' \in [Kinds -> {"idle", "publish", "release"}]
    BY <1>1, <1>6 DEF PoolTypeOK
  <2>2. releasing[k] \in SUBSET Callers /\ "Healthy" \in HealthStatus  BY <1>1 DEF PoolTypeOK, HealthStatus
  <2>3. question' \in [Callers -> Questions]  BY <1>1, <1>6, <2>2, AnsweredType
  <2> QED  BY <1>1, <1>2, <1>3, <1>6, <2>1, <2>3 DEF PoolInv, PoolTypeOK, Questions
<1> QED  BY <1>4, <1>5, <1>6 DEF OnConnected

LEMMA OnFailedType ==
    ASSUME PoolInv, NEW k \in Kinds, OnFailed(k),
           UNCHANGED <<phase, stop, task, attempt, cancelled, handler, releasing, shared, link, world, probe>>
    PROVE  PoolInv'
<1>1. PoolTypeOK  BY DEF PoolInv
<1>2. AttemptsLeft'  BY AttemptsKept
<1>3. UNCHANGED <<phase, stop, task, attempt, cancelled, handler, releasing, shared, link,
                  pools, own, supplied, up, outages, probe>>
  BY DEF world
<1>4. /\ Receives(k, "Failed", NoCaller)
      /\ connecting' = [connecting EXCEPT ![k] = FALSE]
      /\ last_error' = [last_error EXCEPT ![k] = TRUE]
      /\ Answered(ready_waiters[k], "Unhealthy")
      /\ ready_waiters' = [ready_waiters EXCEPT ![k] = {}]
      /\ UNCHANGED held
  BY DEF OnFailed
<1>5. mailbox' \in [Kinds -> Seq(Messages)]  BY <1>1, <1>4, ReceivesType
<1>6. /\ connecting' \in [Kinds -> BOOLEAN] /\ last_error' \in [Kinds -> BOOLEAN]
      /\ ready_waiters' \in [Kinds -> SUBSET Callers]
  BY <1>1, <1>4 DEF PoolTypeOK
<1>7. ready_waiters[k] \in SUBSET Callers /\ "Unhealthy" \in HealthStatus  BY <1>1 DEF PoolTypeOK, HealthStatus
<1>8. question' \in [Callers -> Questions]  BY <1>1, <1>4, <1>7, AnsweredType
<1> QED  BY <1>1, <1>2, <1>3, <1>4, <1>5, <1>6, <1>8 DEF PoolInv, PoolTypeOK, Questions

LEMMA OnWaitType ==
    ASSUME PoolInv, NEW k \in Kinds, NEW c \in Callers, OnWaitForPoolReady(k, c),
           UNCHANGED <<phase, stop, task, attempt, connecting, held, last_error, cancelled,
                       handler, releasing, shared, link, world, probe>>
    PROVE  PoolInv'
<1>1. PoolTypeOK  BY DEF PoolInv
<1>2. AttemptsLeft'  BY AttemptsKept
<1>3. UNCHANGED <<phase, stop, task, attempt, connecting, held, last_error, cancelled, handler, releasing,
                  shared, link, pools, own, supplied, up, outages, probe>>
  BY DEF world
<1>4. mailbox' \in [Kinds -> Seq(Messages)]  BY <1>1, ReceivesType DEF OnWaitForPoolReady
<1>5. CASE connecting[k]
  <2>1. ready_waiters' = [ready_waiters EXCEPT ![k] = @ \cup {c}] /\ UNCHANGED question
    BY <1>5 DEF OnWaitForPoolReady
  <2>2. ready_waiters' \in [Kinds -> SUBSET Callers]  BY <1>1, <2>1 DEF PoolTypeOK
  <2> QED  BY <1>1, <1>2, <1>3, <1>4, <2>1, <2>2 DEF PoolInv, PoolTypeOK
<1>6. CASE ~connecting[k]
  <2>1. Answered({c}, pool_health(k)) /\ UNCHANGED ready_waiters
    BY <1>6 DEF OnWaitForPoolReady
  <2>2. question' \in [Callers -> Questions]  BY <1>1, <2>1, AnsweredType, PoolHealthType
  <2> QED  BY <1>1, <1>2, <1>3, <1>4, <2>1, <2>2 DEF PoolInv, PoolTypeOK, Questions
<1> QED  BY <1>5, <1>6

LEMMA OnHealthType ==
    ASSUME PoolInv, NEW k \in Kinds, NEW c \in Callers, OnGetPoolHealth(k, c),
           UNCHANGED <<phase, stop, task, attempt, model, handler, releasing, shared, link, world, probe>>
    PROVE  PoolInv'
<1>1. PoolTypeOK  BY DEF PoolInv
<1>2. AttemptsLeft'  BY AttemptsKept
<1>3. UNCHANGED <<phase, stop, task, attempt, connecting, held, last_error, ready_waiters, cancelled, handler,
                  releasing, shared, link, pools, own, supplied, up, outages, probe>>
  BY DEF world, model
<1>4. Receives(k, "GetPoolHealth", c) /\ Answered({c}, pool_health(k))  BY DEF OnGetPoolHealth
<1>5. mailbox' \in [Kinds -> Seq(Messages)]  BY <1>1, <1>4, ReceivesType
<1>6. question' \in [Callers -> Questions]  BY <1>1, <1>4, AnsweredType, PoolHealthType
<1> QED  BY <1>1, <1>2, <1>3, <1>5, <1>6 DEF PoolInv, PoolTypeOK, Questions

LEMMA HandleType ==
    ASSUME PoolInv, NEW k \in Kinds, Handle(k)
    PROVE  PoolInv'
  BY OnConnectedType, OnFailedType, OnWaitType, OnHealthType DEF Handle

LEMMA StoppingType ==
    ASSUME PoolInv, NEW k \in Kinds, Stopping(k)
    PROVE  PoolInv'
<1>1. PoolTypeOK  BY DEF PoolInv
<1>2. UNCHANGED <<stop, mailbox, task, attempt, connecting, held, last_error, ready_waiters,
                  handler, releasing, shared, pools, own, supplied, up, outages, question, probe>>
  BY DEF Stopping, world
<1>3. /\ cancelled' \in [Kinds -> BOOLEAN] /\ link' \in [Kinds -> {"none", "open", "closed"}]
      /\ phase' \in [Kinds -> {"absent", "starting", "running", "stopping", "stopped"}]
      /\ \A j \in Kinds : phase'[j] = "absent" => phase[j] = "absent"
  <2>1. AgentOf[k].raced \in BOOLEAN
    <3> USE DEF AgentOf
    <3>1. CASE k = "database"  BY <3>1 DEF DatabasePoolAgent
    <3>2. CASE k = "redis"  BY <3>2 DEF RedisPoolAgent
    <3>3. CASE k = "nats"  BY <3>3 DEF NatsPoolAgent
    <3>4. CASE k = "turso"  BY <3>4 DEF TursoDbAgent
    <3>5. CASE k = "surrealdb"  BY <3>5 DEF SurrealDbAgent
    <3>6. CASE k = "clickhouse"  BY <3>6 DEF ClickHousePoolAgent
    <3> QED  BY <3>1, <3>2, <3>3, <3>4, <3>5, <3>6 DEF Kinds
  <2>2. before_stop(k)  BY DEF Stopping
  <2>3. CASE /\ cancelled' = [cancelled EXCEPT ![k] = AgentOf[k].raced]
             /\ phase' = [phase EXCEPT ![k] = IF AgentOf[k].closes /\ held[k] THEN "stopping" ELSE "stopped"]
             /\ UNCHANGED link
    BY <1>1, <2>1, <2>3 DEF PoolTypeOK
  <2>4. CASE /\ link' = [link EXCEPT ![k] = "closed"]
             /\ phase' = [phase EXCEPT ![k] = "stopped"]
             /\ UNCHANGED cancelled
    BY <1>1, <2>4 DEF PoolTypeOK
  <2> QED  BY <2>2, <2>3, <2>4 DEF before_stop
<1>4. AttemptsLeft'  BY <1>2, <1>3, AttemptsKept
<1> QED  BY <1>1, <1>2, <1>3, <1>4 DEF PoolInv, PoolTypeOK

LEMMA AskType ==
    ASSUME PoolInv, NEW k \in Kinds, NEW c \in Callers, Ask(c, k)
    PROVE  PoolInv'
<1>1. PoolTypeOK  BY DEF PoolInv
<1>2. UNCHANGED <<phase, stop, task, attempt, connecting, held, last_error, ready_waiters, cancelled, handler,
                  releasing, shared, link, pools, own, supplied, up, outages, probe>>
  BY DEF Ask, world, model
<1>3. PICK ask \in {"GetPoolHealth", "WaitForPoolReady"} :
         /\ question' = [question EXCEPT ![c] = [of |-> k, ask |-> ask, answer |-> "none"]]
         /\ mailbox' = Delivered(k, <<ask, c>>)
  BY DEF Ask
<1>4. <<ask, c>> \in Messages  BY DEF Messages
<1>5. mailbox' \in [Kinds -> Seq(Messages)]  BY <1>1, <1>3, <1>4, DeliveredType
<1>6. [of |-> k, ask |-> ask, answer |-> "none"] \in Questions  BY DEF Questions, HealthStatus
<1>7. question' \in [Callers -> Questions]  BY <1>1, <1>3, <1>6, QuestionsType
<1>8. AttemptsLeft'  BY <1>2, AttemptsKept
<1> QED  BY <1>1, <1>2, <1>5, <1>7, <1>8 DEF PoolInv, PoolTypeOK, Questions

\* What is left of the pools' steps touches neither agents nor callers.
LEMMA OthersType ==
    ASSUME PoolInv, UNCHANGED <<agents, shared, link, question>>,
           pools' \in PoolSettings, own' \subseteq supplied', supplied' \subseteq Suppliable,
           up' \in [Kinds -> BOOLEAN], outages' \in 0 .. pools'.outages,
           probe' \in [via : {"http", "grpc", "summary"}, status : {"idle", "probing", "200", "503"},
                       left : SUBSET Kinds, ready : BOOLEAN]
    PROVE  PoolInv'
<1>1. PoolTypeOK  BY DEF PoolInv
<1>2. UNCHANGED <<phase, stop, mailbox, task, attempt, connecting, held, last_error, ready_waiters, cancelled,
                  handler, releasing, shared, link, question>>
  BY DEF agents, model
<1>3. AttemptsLeft'  BY <1>2, AttemptsKept
<1>4. PoolTypeOK'  BY <1>1, <1>2 DEF PoolTypeOK
<1> QED  BY <1>3, <1>4 DEF PoolInv

Probes == [via : {"http", "grpc", "summary"}, status : {"idle", "probing", "200", "503"},
           left : SUBSET Kinds, ready : BOOLEAN]

LEMMA WorldType ==
    PoolInv => /\ pools \in PoolSettings /\ own \subseteq supplied /\ supplied \subseteq Suppliable
               /\ up \in [Kinds -> BOOLEAN] /\ outages \in 0 .. pools.outages /\ outages \in Nat
               /\ pools.outages \in Nat /\ pools.configured \in SUBSET Kinds /\ pools.required \in SUBSET Kinds
               /\ pools.required \subseteq pools.configured
               /\ probe \in Probes
  BY DEF PoolInv, PoolTypeOK, Probes, PoolSettings

LEMMA OutageType ==
    ASSUME PoolInv, NEW k \in Kinds, Outage(k)
    PROVE  PoolInv'
<1>1. /\ UNCHANGED <<agents, shared, link, question>> /\ UNCHANGED <<pools, own, supplied, probe>>
      /\ outages < pools.outages /\ outages' = outages + 1 /\ up' = [up EXCEPT ![k] = ~@]
  BY DEF Outage
<1>2. up' \in [Kinds -> BOOLEAN]  BY <1>1, WorldType
<1>3. outages' \in 0 .. pools'.outages  BY <1>1, WorldType
<1> QED  BY <1>1, <1>2, <1>3, WorldType, OthersType DEF Probes

LEMMA BuildStateType ==
    ASSUME PoolInv, NEW k \in Kinds, AppStateBuilder_build(k)
    PROVE  PoolInv'
<1>1. /\ UNCHANGED <<agents, shared, link, question>> /\ UNCHANGED <<pools, up, outages, probe>>
      /\ supplied' = supplied \cup {k} /\ k \in Suppliable
      /\ own' \in {own \cup {k}, own}
  BY DEF AppStateBuilder_build
<1>2. own' \subseteq supplied' /\ supplied' \subseteq Suppliable  BY <1>1, WorldType
<1> QED  BY <1>1, <1>2, WorldType, OthersType DEF Probes

\* The steps of a probe.
ProbeStep ==
    \/ readiness(pools.configured) \/ HealthService_check(pools.configured)
    \/ AppState_pool_health(pools.configured) \/ readiness_outcomes \/ ServingStatus
    \/ \E k \in Kinds : ProbeNext(k)

LEMMA ProbeStepType ==
    ASSUME PoolInv, ProbeStep
    PROVE  /\ UNCHANGED <<agents, shared, link, question>> /\ UNCHANGED <<pools, own, supplied, up, outages>>
           /\ probe' \in Probes
           /\ PoolInv'
<1>1. UNCHANGED <<agents, shared, link, question>> /\ UNCHANGED <<pools, own, supplied, up, outages>>
  BY DEF ProbeStep, readiness, HealthService_check, AppState_pool_health, readiness_outcomes, ServingStatus,
         ProbeNext, world
<1>2. probe' \in Probes
  <2>1. CASE readiness(pools.configured)
    BY <2>1, WorldType DEF readiness, Probes
  <2>2. CASE HealthService_check(pools.configured)
    BY <2>2, WorldType DEF HealthService_check, Probes
  <2>3. CASE AppState_pool_health(pools.configured)
    BY <2>3, WorldType DEF AppState_pool_health, Probes
  <2>4. CASE readiness_outcomes
    BY <2>4, WorldType DEF readiness_outcomes, Probes
  <2>5. CASE ServingStatus
    BY <2>5, WorldType DEF ServingStatus, Probes
  <2>6. CASE \E k \in Kinds : ProbeNext(k)
    <3>1. PICK k \in Kinds : ProbeNext(k)  BY <2>6
    <3>2. PICK healthy \in (IF probe.via = "summary" THEN PoolHealthSummary(k) ELSE {ProbeVerdict(k)}) :
             probe' = [probe EXCEPT !.left = @ \ {k}, !.ready = @ /\ healthy]
      BY <3>1 DEF ProbeNext
    <3>3. (probe.ready /\ healthy) \in BOOLEAN  OBVIOUS
    <3>4. probe.left \ {k} \in SUBSET Kinds  BY WorldType DEF Probes
    <3> QED  BY <3>2, <3>3, <3>4, WorldType DEF Probes
  <2> QED  BY <2>1, <2>2, <2>3, <2>4, <2>5, <2>6 DEF ProbeStep
<1> QED  BY <1>1, <1>2, WorldType, OthersType DEF Probes

LEMMA UnchangedPools ==
    ASSUME PoolInv, UNCHANGED poolVars
    PROVE  PoolInv'
<1>1. UNCHANGED <<agents, shared, link, question>> /\ UNCHANGED <<pools, own, supplied, up, outages, probe>>
  BY DEF poolVars, world
<1> QED  BY <1>1, WorldType, OthersType DEF Probes

-----------------------------------------------------------------------------
(* Types of build and serve.                                               *)

LEMMA FieldTypes ==
    ASSUME ServeTypeOK
    PROVE  /\ cfg.requests \in Nat
           /\ \A l \in Listeners : inflight[l] \in Nat /\ inflight[l] <= cfg.requests
  BY DEF ServeTypeOK, ConfigFields

\* A step of serve that only moves listeners.
LEMMA ServingType ==
    ASSUME TypeInv, NEW next, NEW l \in [Listeners -> {"closed", "open", "draining", "done"}],
           NEW r \in {"none", "refused", "error", "ok"}, Serving(next, l, r)
    PROVE  TypeInv'
<1>1. UNCHANGED <<written, cfg, service, inflight, signal, poolVars>> /\ listener' = l /\ result' = r
  BY DEF Serving
<1>2. ServeTypeOK'  BY <1>1 DEF TypeInv, ServeTypeOK
<1>3. PoolInv'  BY <1>1, UnchangedPools DEF TypeInv
<1> QED  BY <1>2, <1>3 DEF TypeInv

LEMMA UnchangedBuilder ==
    ASSUME ServeTypeOK, UNCHANGED builder
    PROVE  ServeTypeOK'
  BY DEF ServeTypeOK, builder

LEMMA BuildType ==
    ASSUME TypeInv, build
    PROVE  TypeInv'
<1>1. UNCHANGED <<written, cfg, listener, inflight, signal, result>>  BY DEF build, Step
<1>2. ServeTypeOK'  BY <1>1 DEF TypeInv, ServeTypeOK
<1>3. spawn(PoolsToSpawn) \/ UNCHANGED poolVars  BY DEF build
<1>4. PoolInv  BY DEF TypeInv
<1>5. PoolsToSpawn \in SUBSET Kinds  BY <1>4, WorldType DEF PoolsToSpawn
<1>6. PoolInv'  BY <1>3, <1>4, <1>5, SpawnType, UnchangedPools
<1> QED  BY <1>2, <1>6 DEF TypeInv

LEMMA ServeType ==
    ASSUME TypeInv, serve
    PROVE  TypeInv'
<1>0. /\ listener \in [Listeners -> {"closed", "open", "draining", "done"}]
      /\ result \in {"none", "refused", "error", "ok"}
  BY DEF TypeInv, ServeTypeOK
<1>1. CASE RefuseStartup
  BY <1>0, <1>1, ServingType DEF RefuseStartup
<1>2. CASE StartExporter
  <2>1. [listener EXCEPT !["exporter"] = "open"] \in [Listeners -> {"closed", "open", "draining", "done"}]
    BY <1>0 DEF Listeners
  <2> QED  BY <1>0, <1>2, <2>1, ServingType DEF StartExporter
<1>3. CASE BindListeners
  <2>1. [l \in Listeners |-> IF l \in Bound THEN "open" ELSE listener[l]]
          \in [Listeners -> {"closed", "open", "draining", "done"}]
    BY <1>0
  <2>2. [l \in Listeners |-> IF listener[l] = "open" THEN "done" ELSE listener[l]]
          \in [Listeners -> {"closed", "open", "draining", "done"}]
    BY <1>0
  <2> QED  BY <1>0, <1>3, <2>1, <2>2, ServingType DEF BindListeners
<1>4. CASE ShutdownAgents
  <2>1. UNCHANGED <<written, cfg, service, listener, inflight, signal, result,
                    phase, mailbox, task, attempt, connecting, held, last_error, ready_waiters, cancelled,
                    handler, releasing, shared, link, pools, own, supplied, up, outages, question, probe>>
    BY <1>4 DEF ShutdownAgents, model, world
  <2>2. stop' \in [Kinds -> BOOLEAN]  BY <1>4 DEF ShutdownAgents
  <2>3. ServeTypeOK'  BY <2>1 DEF TypeInv, ServeTypeOK
  <2>4. PoolTypeOK'  BY <2>1, <2>2 DEF TypeInv, PoolInv, PoolTypeOK
  <2>5. AttemptsLeft'  BY <2>1, AttemptsKept DEF TypeInv
  <2> QED  BY <2>3, <2>4, <2>5 DEF TypeInv, PoolInv
<1>5. CASE ShutdownExporter
  <2>1. [listener EXCEPT !["exporter"] = IF @ = "open" THEN "done" ELSE @]
          \in [Listeners -> {"closed", "open", "draining", "done"}]
    BY <1>0 DEF Listeners
  <2> QED  BY <1>5, <2>1, ServingType DEF ShutdownExporter
<1>6. CASE \E l \in Listeners : Drain(l)
  <2>1. PICK l \in Listeners : Drain(l)  BY <1>6
  <2>2. /\ [listener EXCEPT ![l] = "draining"] \in [Listeners -> {"closed", "open", "draining", "done"}]
        /\ [listener EXCEPT ![l] = "done"] \in [Listeners -> {"closed", "open", "draining", "done"}]
    BY <1>0
  <2> QED  BY <1>0, <2>1, <2>2, ServingType DEF Drain
<1> QED  BY <1>1, <1>2, <1>3, <1>4, <1>5, <1>6 DEF serve

LEMMA RequestType ==
    ASSUME TypeInv, NEW l \in Listeners, Request(l) \/ Respond(l)
    PROVE  TypeInv'
<1>1. ServeTypeOK /\ PoolInv  BY DEF TypeInv
<1>2. UNCHANGED <<written, cfg, stage, service, listener, signal, result>> /\ UNCHANGED poolVars
  BY DEF Request, Respond
<1>3. inflight' \in [Listeners -> 0 .. cfg.requests]
  <2>1. inflight \in [Listeners -> 0 .. cfg.requests]  BY <1>1 DEF ServeTypeOK
  <2>2. CASE Request(l)
    <3>1. inflight[l] + 1 \in 0 .. cfg.requests  BY <1>1, <2>2, FieldTypes DEF Request
    <3> QED  BY <2>1, <2>2, <3>1 DEF Request
  <2>3. CASE Respond(l)
    <3>1. inflight[l] - 1 \in 0 .. cfg.requests  BY <1>1, <2>3, FieldTypes DEF Respond
    <3> QED  BY <2>1, <2>3, <3>1 DEF Respond
  <2> QED  BY <2>2, <2>3
<1>4. ServeTypeOK'  BY <1>1, <1>2, <1>3 DEF ServeTypeOK
<1>5. PoolInv'  BY <1>1, <1>2, UnchangedPools
<1> QED  BY <1>4, <1>5 DEF TypeInv

\* A step of the pools, as a case of one of its kinds.
LEMMA PoolNextCases ==
    ASSUME PoolNext
    PROVE  \/ \E k \in Kinds : Attempt(k) \/ Cancelled(k) \/ Handle(k) \/ Stopping(k)
           \/ \E k \in Kinds : Outage(k) \/ AppStateBuilder_build(k)
           \/ \E k \in Kinds, c \in Callers : Ask(c, k)
           \/ ProbeStep
  BY DEF PoolNext, PoolStep, ProbeStep

LEMMA PoolNextType ==
    ASSUME PoolInv, PoolNext
    PROVE  PoolInv'
  BY PoolNextCases, AttemptType, CancelledType, HandleType, StoppingType, OutageType, BuildStateType, AskType,
     ProbeStepType

\* Every step of the service, as a case of one of its parts.
LEMMA NextCases ==
    ASSUME [Next]_vars
    PROVE  \/ build
           \/ serve
           \/ shutdown_signal
           \/ \E l \in Listeners : Request(l) \/ Respond(l)
           \/ PoolNext /\ UNCHANGED builder
           \/ ProbeStep /\ UNCHANGED builder
           \/ UNCHANGED poolVars /\ UNCHANGED builder
  BY DEF Next, vars, Ready, Health, Summary, ProbeStep

LEMMA StepType ==
    ASSUME TypeInv, [Next]_vars
    PROVE  TypeInv'
<1>1. PoolInv /\ ServeTypeOK  BY DEF TypeInv
<1>2. CASE build  BY <1>2, BuildType
<1>3. CASE serve  BY <1>3, ServeType
<1>4. CASE shutdown_signal
  <2>1. UNCHANGED <<written, cfg, stage, service, listener, inflight, result>> /\ UNCHANGED poolVars
        /\ signal' = TRUE
    BY <1>4 DEF shutdown_signal
  <2>2. ServeTypeOK'  BY <1>1, <2>1 DEF ServeTypeOK
  <2>3. PoolInv'  BY <1>1, <2>1, UnchangedPools
  <2> QED  BY <2>2, <2>3 DEF TypeInv
<1>5. CASE \E l \in Listeners : Request(l) \/ Respond(l)  BY <1>5, RequestType
<1>6. CASE PoolNext /\ UNCHANGED builder  BY <1>1, <1>6, PoolNextType, UnchangedBuilder DEF TypeInv
<1>7. CASE ProbeStep /\ UNCHANGED builder  BY <1>1, <1>7, ProbeStepType, UnchangedBuilder DEF TypeInv
<1>8. CASE UNCHANGED poolVars /\ UNCHANGED builder  BY <1>1, <1>8, UnchangedPools, UnchangedBuilder DEF TypeInv
<1> QED  BY <1>2, <1>3, <1>4, <1>5, <1>6, <1>7, <1>8, NextCases

LEMMA InitType ==
    ASSUME Init
    PROVE  TypeInv
<1>1. PICK c \in Configs : cfg = Load(c) /\ PoolInit(c.pools)
  BY DEF Init
<1>2. cfg \in ConfigFields /\ c.pools \in PoolSettings  BY <1>1, BuilderAssumption
<1>3. PoolInv  BY <1>1, <1>2, PoolInitType
<1>4. cfg.requests \in Nat  BY <1>2 DEF ConfigFields
<1>5. /\ listener = [l \in Listeners |-> "closed"] /\ inflight = [l \in Listeners |-> 0]
      /\ signal = FALSE /\ result = "none"
  BY DEF Init
<1>6. ServeTypeOK
  <2>1. 0 \in 0 .. cfg.requests  BY <1>4
  <2>2. inflight \in [Listeners -> 0 .. cfg.requests]  BY <1>5, <2>1
  <2>3. listener \in [Listeners -> {"closed", "open", "draining", "done"}]  BY <1>5
  <2> QED  BY <1>2, <1>5, <2>2, <2>3 DEF ServeTypeOK
<1> QED  BY <1>3, <1>6 DEF TypeInv

\* Type correctness of the service and its pool agents: in particular no
\* connection loop runs past max_retries and no backend changes more than the
\* behaviour allows.
THEOREM TypeCorrect == Spec => []TypeOK
<1>1. Init => TypeInv  BY InitType
<1>2. TypeInv /\ [Next]_vars => TypeInv'  BY StepType
<1>3. TypeInv => TypeOK  BY TypeOKParts DEF TypeInv, PoolInv
<1> QED  BY <1>1, <1>2, <1>3, PTL DEF Spec

-----------------------------------------------------------------------------
(* Told of a pool means finding it.                                        *)

\* Every step that neither an agent nor a caller takes.
LEMMA PublishKept ==
    ASSUME PublishInv, UNCHANGED <<held, shared, handler, ready_waiters, releasing, mailbox, question>>
    PROVE  PublishInv'
<1>1. HeldIsShared'  BY DEF PublishInv, HeldIsShared
<1>2. ParkedAsked'  BY DEF PublishInv, ParkedAsked
<1>3. QueuedAsked'  BY DEF PublishInv, QueuedAsked
<1>4. HealthyIsShared'  BY DEF PublishInv, HealthyIsShared
<1> QED  BY <1>1, <1>2, <1>3, <1>4 DEF PublishInv

\* A mailbox that only lost its head, or got a message nobody waits for, or
\* one of a caller that asked this agent.
LEMMA TakenAsked ==
    ASSUME PoolTypeOK, QueuedAsked, NEW k \in Kinds, NEW m, NEW c, Receives(k, m, c),
           \A d \in Callers : question'[d].of = question[d].of
    PROVE  /\ QueuedAsked'
           /\ m \in {"GetPoolHealth", "WaitForPoolReady"} => question[c].of = k
<1>1. /\ mailbox \in [Kinds -> Seq(Messages)] /\ mailbox' \in [Kinds -> Seq(Messages)]
      /\ mailbox[k] \in Seq(Messages) /\ mailbox[k] # << >> /\ Head(mailbox[k]) = <<m, c>>
      /\ mailbox' = [mailbox EXCEPT ![k] = Tail(@)]
  BY ReceivesType DEF PoolTypeOK
<1>2. Len(mailbox[k]) \in Nat /\ Len(mailbox[k]) > 0 /\ mailbox[k][1] = <<m, c>>
  BY <1>1
<1>3. ASSUME NEW j \in Kinds, NEW i \in 1 .. Len(mailbox'[j]),
             mailbox'[j][i][1] \in {"GetPoolHealth", "WaitForPoolReady"}
      PROVE  question'[mailbox'[j][i][2]].of = j
  <2>1. PICK n \in 1 .. Len(mailbox[j]) : mailbox'[j][i] = mailbox[j][n]
    <3>1. CASE j = k
      <4>1. mailbox'[j] = Tail(mailbox[k])  BY <1>1, <3>1
      <4>2. Len(mailbox'[j]) = Len(mailbox[k]) - 1  BY <1>1, <1>2, <4>1
      <4>3. i + 1 \in 1 .. Len(mailbox[j])  BY <1>2, <3>1, <4>2
      <4>4. mailbox'[j][i] = mailbox[j][i + 1]  BY <1>1, <1>2, <3>1, <4>1, <4>2
      <4> QED  BY <4>3, <4>4
    <3>2. CASE j # k
      <4>1. mailbox'[j] = mailbox[j]  BY <1>1, <3>2
      <4> QED  BY <4>1
    <3> QED  BY <3>1, <3>2
  <2>2. mailbox[j][n][1] \in {"GetPoolHealth", "WaitForPoolReady"}  BY <1>3, <2>1
  <2>3. question[mailbox[j][n][2]].of = j  BY <2>2 DEF QueuedAsked
  <2>4. mailbox[j][n] \in Messages  BY <1>1
  <2>5. mailbox[j][n][2] \in Callers  BY <2>2, <2>4 DEF Messages
  <2> QED  BY <2>1, <2>3, <2>5
<1>4. m \in {"GetPoolHealth", "WaitForPoolReady"} => question[c].of = k
  <2> SUFFICES ASSUME m \in {"GetPoolHealth", "WaitForPoolReady"} PROVE question[c].of = k  OBVIOUS
  <2>1. 1 \in 1 .. Len(mailbox[k])  BY <1>2
  <2>2. mailbox[k][1][1] = m /\ mailbox[k][1][2] = c  BY <1>2
  <2> QED  BY <2>1, <2>2 DEF QueuedAsked
<1> QED  BY <1>3, <1>4 DEF QueuedAsked

LEMMA AddedAsked ==
    ASSUME PoolTypeOK, QueuedAsked, NEW k \in Kinds, NEW m \in Messages, mailbox' = Delivered(k, m),
           \A j \in Kinds : \A d \in Callers : question[d].of = j => question'[d].of = j,
           m[1] \in {"GetPoolHealth", "WaitForPoolReady"} => question'[m[2]].of = k
    PROVE  QueuedAsked'
<1>1. mailbox \in [Kinds -> Seq(Messages)]  BY DEF PoolTypeOK
<1> SUFFICES ASSUME NEW j \in Kinds, NEW i \in 1 .. Len(mailbox'[j]),
                    mailbox'[j][i][1] \in {"GetPoolHealth", "WaitForPoolReady"}
             PROVE  question'[mailbox'[j][i][2]].of = j
  BY DEF QueuedAsked
<1>2. (j = k /\ mailbox'[j][i] = m) \/ (i \in 1 .. Len(mailbox[j]) /\ mailbox'[j][i] = mailbox[j][i])
  <2>1. CASE phase[k] # "stopped" /\ j = k
    <3>1. mailbox'[j] = Append(mailbox[j], m)  BY <1>1, <2>1 DEF Delivered
    <3>2. mailbox[j] \in Seq(Messages)  BY <1>1
    <3>3. i \in 1 .. Len(mailbox[j]) + 1  BY <3>1, <3>2
    <3> QED  BY <2>1, <3>1, <3>2, <3>3
  <2>2. CASE phase[k] = "stopped" \/ j # k
    <3>1. mailbox'[j] = mailbox[j]  BY <1>1, <2>2 DEF Delivered
    <3> QED  BY <3>1
  <2> QED  BY <2>1, <2>2
<1>3. CASE j = k /\ mailbox'[j][i] = m  BY <1>3
<1>4. CASE i \in 1 .. Len(mailbox[j]) /\ mailbox'[j][i] = mailbox[j][i]
  <2>1. mailbox[j][i][1] \in {"GetPoolHealth", "WaitForPoolReady"}  BY <1>4
  <2>2. question[mailbox[j][i][2]].of = j  BY <1>4, <2>1 DEF QueuedAsked
  <2>3. mailbox[j][i] \in Messages  BY <1>1, <1>4
  <2>4. mailbox[j][i][2] \in Callers  BY <2>1, <2>3 DEF Messages
  <2> QED  BY <1>4, <2>2, <2>4
<1> QED  BY <1>2, <1>3, <1>4

\* Answers that are true of the pool they speak of.
LEMMA AnswersPublish ==
    ASSUME PoolTypeOK, HealthyIsShared, NEW k \in Kinds, NEW S \in SUBSET Callers,
           NEW status \in HealthStatus, Answered(S, status),
           \A c \in S : question[c].of = k, status = "Healthy" => shared[k],
           \A j \in Kinds : shared[j] => shared'[j]
    PROVE  HealthyIsShared'
<1>1. \A c \in Callers : /\ question'[c].of = question[c].of
                         /\ c \in S => question'[c].answer = status
                         /\ c \notin S => question'[c] = question[c]
  BY AnsweredType
<1> SUFFICES ASSUME NEW c \in Callers, question'[c].answer = "Healthy"
             PROVE  question'[c].of \in Kinds /\ shared'[question'[c].of]
  BY DEF HealthyIsShared
<1>2. CASE c \in S
  <2>1. status = "Healthy" /\ question'[c].of = k  BY <1>1, <1>2
  <2> QED  BY <2>1
<1>3. CASE c \notin S
  <2>1. question[c].answer = "Healthy" /\ question'[c].of = question[c].of  BY <1>1, <1>3
  <2>2. question[c].of \in Kinds /\ shared[question[c].of]  BY <2>1 DEF HealthyIsShared
  <2> QED  BY <2>1, <2>2
<1> QED  BY <1>2, <1>3

\* Answers leave every caller with the agent it asked.
LEMMA ParkedKept ==
    ASSUME PoolTypeOK, ParkedAsked, \A c \in Callers : question'[c].of = question[c].of,
           \A k \in Kinds : \A c \in ready_waiters'[k] \cup releasing'[k] :
               c \in Callers /\ question[c].of = k
    PROVE  ParkedAsked'
  BY DEF ParkedAsked

LEMMA ReportPublish ==
    ASSUME PoolInv, PublishInv, NEW k \in Kinds, NEW m \in {"Connected", "Failed"}, Report(k, m),
           UNCHANGED <<held, shared, handler, ready_waiters, releasing, question>>
    PROVE  PublishInv'
<1>1. PoolTypeOK /\ QueuedAsked  BY DEF PoolInv, PublishInv
<1>2. <<m, NoCaller>> \in Messages /\ <<m, NoCaller>>[1] \notin {"GetPoolHealth", "WaitForPoolReady"}
  BY DEF Messages
<1>3. mailbox' = Delivered(k, <<m, NoCaller>>)  BY DEF Report
<1>4. QueuedAsked'  BY <1>1, <1>2, <1>3, AddedAsked
<1>5. HeldIsShared'  BY DEF PublishInv, HeldIsShared
<1>6. ParkedAsked'  BY DEF PublishInv, ParkedAsked
<1>7. HealthyIsShared'  BY DEF PublishInv, HealthyIsShared
<1> QED  BY <1>4, <1>5, <1>6, <1>7 DEF PublishInv

LEMMA AttemptPublish ==
    ASSUME PoolInv, PublishInv, NEW k \in Kinds, Attempt(k) \/ Cancelled(k)
    PROVE  PublishInv'
<1>1. UNCHANGED <<held, shared, handler, ready_waiters, releasing, question>>
  BY DEF Attempt, Cancelled, model
<1>2. \/ \E m \in {"Connected", "Failed"} : Report(k, m)
      \/ UNCHANGED mailbox
  BY DEF Attempt, Cancelled
<1> QED  BY <1>1, <1>2, ReportPublish, PublishKept

LEMMA OnConnectedPublish ==
    ASSUME PoolInv, PublishInv, NEW k \in Kinds, OnConnected(k)
    PROVE  PublishInv'
<1>1. PoolTypeOK /\ HeldIsShared /\ ParkedAsked /\ QueuedAsked /\ HealthyIsShared  BY DEF PoolInv, PublishInv
<1>2. CASE /\ Receives(k, "Connected", NoCaller)
           /\ held' = [held EXCEPT ![k] = TRUE]
           /\ releasing' = [releasing EXCEPT ![k] = ready_waiters[k]]
           /\ ready_waiters' = [ready_waiters EXCEPT ![k] = {}]
           /\ handler' = [handler EXCEPT ![k] = "publish"]
           /\ UNCHANGED <<shared, question>>
  <2>1. HeldIsShared'  BY <1>1, <1>2 DEF HeldIsShared, PoolTypeOK
  <2>2. ParkedAsked'  BY <1>1, <1>2 DEF ParkedAsked, PoolTypeOK
  <2>3. QueuedAsked'  BY <1>1, <1>2, TakenAsked
  <2>4. HealthyIsShared'  BY <1>1, <1>2 DEF HealthyIsShared
  <2> QED  BY <2>1, <2>2, <2>3, <2>4 DEF PublishInv
<1>3. CASE /\ shared' = [shared EXCEPT ![k] = TRUE]
           /\ handler' = [handler EXCEPT ![k] = "release"]
           /\ UNCHANGED <<mailbox, held, connecting, last_error, ready_waiters, releasing, question>>
  <2>1. HeldIsShared'  BY <1>1, <1>3 DEF HeldIsShared, PoolTypeOK
  <2>2. ParkedAsked'  BY <1>1, <1>3 DEF ParkedAsked
  <2>3. QueuedAsked'  BY <1>1, <1>3 DEF QueuedAsked
  <2>4. HealthyIsShared'  BY <1>1, <1>3 DEF HealthyIsShared, PoolTypeOK
  <2> QED  BY <2>1, <2>2, <2>3, <2>4 DEF PublishInv
<1>4. CASE /\ handler[k] = "release"
           /\ Answered(releasing[k], "Healthy")
           /\ releasing' = [releasing EXCEPT ![k] = {}]
           /\ handler' = [handler EXCEPT ![k] = "idle"]
           /\ UNCHANGED <<mailbox, held, connecting, last_error, ready_waiters, shared>>
  <2>0. /\ releasing[k] \in SUBSET Callers /\ "Healthy" \in HealthStatus
        /\ shared[k] /\ \A c \in releasing[k] : question[c].of = k
    BY <1>1, <1>4 DEF PoolTypeOK, HealthStatus, HeldIsShared, ParkedAsked
  <2>1. HeldIsShared'  BY <1>1, <1>4 DEF HeldIsShared, PoolTypeOK
  <2>2. \A c \in Callers : question'[c].of = question[c].of  BY <1>1, <1>4, <2>0, AnsweredType
  <2>3. ParkedAsked'
    <3>1. \A j \in Kinds : \A c \in ready_waiters'[j] \cup releasing'[j] :
               c \in Callers /\ question[c].of = j
      BY <1>1, <1>4 DEF PoolTypeOK, ParkedAsked
    <3> QED  BY <1>1, <2>2, <3>1, ParkedKept
  <2>4. QueuedAsked'
    <3> SUFFICES ASSUME NEW j \in Kinds, NEW i \in 1 .. Len(mailbox[j]),
                        mailbox[j][i][1] \in {"GetPoolHealth", "WaitForPoolReady"}
                 PROVE  question'[mailbox[j][i][2]].of = j
      BY <1>4 DEF QueuedAsked
    <3>1. question[mailbox[j][i][2]].of = j  BY <1>1 DEF QueuedAsked
    <3>2. mailbox[j][i] \in Messages  BY <1>1 DEF PoolTypeOK
    <3>3. mailbox[j][i][2] \in Callers  BY <3>2 DEF Messages
    <3> QED  BY <2>2, <3>1, <3>3
  <2>5. HealthyIsShared'  BY <1>1, <1>4, <2>0, AnswersPublish
  <2> QED  BY <2>1, <2>3, <2>4, <2>5 DEF PublishInv
<1> QED  BY <1>2, <1>3, <1>4 DEF OnConnected

LEMMA OnFailedPublish ==
    ASSUME PoolInv, PublishInv, NEW k \in Kinds, OnFailed(k), UNCHANGED <<handler, releasing, shared>>
    PROVE  PublishInv'
<1>1. PoolTypeOK /\ HeldIsShared /\ ParkedAsked /\ QueuedAsked /\ HealthyIsShared  BY DEF PoolInv, PublishInv
<1>2. /\ Receives(k, "Failed", NoCaller) /\ Answered(ready_waiters[k], "Unhealthy")
      /\ ready_waiters' = [ready_waiters EXCEPT ![k] = {}] /\ UNCHANGED held
  BY DEF OnFailed
<1>3. /\ ready_waiters[k] \in SUBSET Callers /\ "Unhealthy" \in HealthStatus
      /\ \A c \in ready_waiters[k] : question[c].of = k
  BY <1>1 DEF PoolTypeOK, HealthStatus, ParkedAsked
<1>4. \A c \in Callers : question'[c].of = question[c].of  BY <1>1, <1>2, <1>3, AnsweredType
<1>5. HeldIsShared'  BY <1>1, <1>2 DEF HeldIsShared
<1>6. ParkedAsked'
  <2>1. \A j \in Kinds : \A c \in ready_waiters'[j] \cup releasing'[j] : c \in Callers /\ question[c].of = j
    BY <1>1, <1>2 DEF PoolTypeOK, ParkedAsked
  <2> QED  BY <1>1, <1>4, <2>1, ParkedKept
<1>7. QueuedAsked'  BY <1>1, <1>2, <1>4, TakenAsked
<1>8. HealthyIsShared'  BY <1>1, <1>2, <1>3, AnswersPublish
<1> QED  BY <1>5, <1>6, <1>7, <1>8 DEF PublishInv

\* A caller that is answered at once, when the handler is idle: what the agent
\* holds is there.
LEMMA AnswerNowPublish ==
    ASSUME PoolInv, PublishInv, NEW k \in Kinds, NEW c \in Callers,
           NEW m \in {"GetPoolHealth", "WaitForPoolReady"}, Receives(k, m, c),
           Answered({c}, pool_health(k)), UNCHANGED <<held, shared, handler, ready_waiters, releasing>>
    PROVE  PublishInv'
<1>1. PoolTypeOK /\ HeldIsShared /\ ParkedAsked /\ QueuedAsked /\ HealthyIsShared  BY DEF PoolInv, PublishInv
<1>2. {c} \in SUBSET Callers /\ pool_health(k) \in HealthStatus  BY PoolHealthType
<1>3. \A d \in Callers : question'[d].of = question[d].of  BY <1>1, <1>2, AnsweredType
<1>4. QueuedAsked' /\ question[c].of = k  BY <1>1, <1>3, TakenAsked
<1>5. pool_health(k) = "Healthy" => shared[k]
  <2>1. handler[k] = "idle"  BY DEF Receives
  <2>2. pool_health(k) = "Healthy" => held[k]  BY DEF pool_health
  <2> QED  BY <1>1, <2>1, <2>2 DEF HeldIsShared
<1>6. HealthyIsShared'  BY <1>1, <1>2, <1>4, <1>5, AnswersPublish
<1>7. HeldIsShared'  BY <1>1 DEF HeldIsShared
<1>8. ParkedAsked'
  <2>1. \A j \in Kinds : \A d \in ready_waiters'[j] \cup releasing'[j] : d \in Callers /\ question[d].of = j
    BY <1>1 DEF PoolTypeOK, ParkedAsked
  <2> QED  BY <1>1, <1>3, <2>1, ParkedKept
<1> QED  BY <1>4, <1>6, <1>7, <1>8 DEF PublishInv

LEMMA OnWaitPublish ==
    ASSUME PoolInv, PublishInv, NEW k \in Kinds, NEW c \in Callers, OnWaitForPoolReady(k, c),
           UNCHANGED <<held, handler, releasing, shared>>
    PROVE  PublishInv'
<1>1. PoolTypeOK /\ HeldIsShared /\ ParkedAsked /\ QueuedAsked /\ HealthyIsShared  BY DEF PoolInv, PublishInv
<1>2. Receives(k, "WaitForPoolReady", c)  BY DEF OnWaitForPoolReady
<1>3. CASE connecting[k]
  <2>1. ready_waiters' = [ready_waiters EXCEPT ![k] = @ \cup {c}] /\ UNCHANGED question
    BY <1>3 DEF OnWaitForPoolReady
  <2>2. QueuedAsked' /\ question[c].of = k  BY <1>1, <1>2, <2>1, TakenAsked
  <2>3. ParkedAsked'
    <3>1. \A j \in Kinds : \A d \in ready_waiters'[j] \cup releasing'[j] : d \in Callers /\ question[d].of = j
      BY <1>1, <2>1, <2>2 DEF PoolTypeOK, ParkedAsked
    <3> QED  BY <1>1, <2>1, <3>1, ParkedKept
  <2>4. HeldIsShared'  BY <1>1 DEF HeldIsShared
  <2>5. HealthyIsShared'  BY <1>1, <2>1 DEF HealthyIsShared
  <2> QED  BY <2>2, <2>3, <2>4, <2>5 DEF PublishInv
<1>4. CASE ~connecting[k]
  <2>1. Answered({c}, pool_health(k)) /\ UNCHANGED ready_waiters  BY <1>4 DEF OnWaitForPoolReady
  <2> QED  BY <1>2, <2>1, AnswerNowPublish
<1> QED  BY <1>3, <1>4

LEMMA HandlePublish ==
    ASSUME PoolInv, PublishInv, NEW k \in Kinds, Handle(k)
    PROVE  PublishInv'
<1>1. CASE OnConnected(k)  BY <1>1, OnConnectedPublish
<1>2. CASE OnFailed(k) /\ UNCHANGED <<handler, releasing, shared>>  BY <1>2, OnFailedPublish
<1>3. CASE \E c \in Callers : OnWaitForPoolReady(k, c) /\ UNCHANGED <<held, handler, releasing, shared>>
  BY <1>3, OnWaitPublish
<1>4. CASE \E c \in Callers : OnGetPoolHealth(k, c) /\ UNCHANGED <<model, handler, releasing, shared>>
  <2>1. PICK c \in Callers : OnGetPoolHealth(k, c) /\ UNCHANGED <<model, handler, releasing, shared>>  BY <1>4
  <2>2. UNCHANGED <<held, ready_waiters, handler, releasing, shared>>  BY <2>1 DEF model
  <2> QED  BY <2>1, <2>2, AnswerNowPublish DEF OnGetPoolHealth
<1> QED  BY <1>1, <1>2, <1>3, <1>4 DEF Handle

LEMMA AskPublish ==
    ASSUME PoolInv, PublishInv, NEW k \in Kinds, NEW c \in Callers, Ask(c, k)
    PROVE  PublishInv'
<1>1. PoolTypeOK /\ HeldIsShared /\ ParkedAsked /\ QueuedAsked /\ HealthyIsShared  BY DEF PoolInv, PublishInv
<1>2. UNCHANGED <<held, ready_waiters, handler, releasing, shared>>  BY DEF Ask, model
<1>3. PICK ask \in {"GetPoolHealth", "WaitForPoolReady"} :
         /\ question' = [question EXCEPT ![c] = [of |-> k, ask |-> ask, answer |-> "none"]]
         /\ mailbox' = Delivered(k, <<ask, c>>)
  BY DEF Ask
<1>4. question \in [Callers -> Questions] /\ question[c].of = NoKind  BY <1>1, QuestionsType DEF Ask
<1>5. /\ question'[c].of = k /\ question'[c].answer = "none"
      /\ \A d \in Callers \ {c} : question'[d] = question[d]
  BY <1>3, <1>4
<1>6. NoKind \notin Kinds  BY DEF NoKind, Kinds
<1>7. \A j \in Kinds : \A d \in Callers : question[d].of = j => question'[d].of = j
  BY <1>4, <1>5, <1>6
<1>8. QueuedAsked'
  <2>1. <<ask, c>> \in Messages /\ question'[<<ask, c>>[2]].of = k  BY <1>5 DEF Messages
  <2> QED  BY <1>1, <1>3, <1>7, <2>1, AddedAsked
<1>9. ParkedAsked'  BY <1>1, <1>2, <1>7 DEF ParkedAsked, PoolTypeOK
<1>10. HealthyIsShared'
  <2> SUFFICES ASSUME NEW d \in Callers, question'[d].answer = "Healthy"
               PROVE  question'[d].of \in Kinds /\ shared'[question'[d].of]
    BY DEF HealthyIsShared
  <2>1. question'[d] = question[d]  BY <1>5
  <2> QED  BY <1>1, <1>2, <2>1 DEF HealthyIsShared
<1>11. HeldIsShared'  BY <1>1, <1>2 DEF HeldIsShared
<1> QED  BY <1>8, <1>9, <1>10, <1>11 DEF PublishInv

LEMMA StepPublish ==
    ASSUME TypeInv, PublishInv, [Next]_vars
    PROVE  PublishInv'
<1>0. PoolInv  BY DEF TypeInv
<1>1. ASSUME PoolNext \/ ProbeStep  PROVE PublishInv'
  <2>1. CASE \E k \in Kinds : Attempt(k) \/ Cancelled(k)  BY <1>0, <2>1, AttemptPublish
  <2>2. CASE \E k \in Kinds : Handle(k)  BY <1>0, <2>2, HandlePublish
  <2>3. CASE \E k \in Kinds : Stopping(k)
    BY <2>3, PublishKept DEF Stopping
  <2>4. CASE \E k \in Kinds : Outage(k) \/ AppStateBuilder_build(k)
    <3>1. UNCHANGED <<agents, shared, question>>  BY <2>4 DEF Outage, AppStateBuilder_build
    <3> QED  BY <3>1, PublishKept DEF agents, model
  <2>5. CASE \E k \in Kinds, c \in Callers : Ask(c, k)  BY <1>0, <2>5, AskPublish
  <2>6. CASE ProbeStep
    <3>1. UNCHANGED <<agents, shared, question>>  BY <1>0, <2>6, ProbeStepType
    <3> QED  BY <3>1, PublishKept DEF agents, model
  <2> QED  BY <1>1, <2>1, <2>2, <2>3, <2>4, <2>5, <2>6, PoolNextCases
<1>2. CASE UNCHANGED poolVars
  BY <1>2, PublishKept DEF poolVars, agents, model
<1>3. CASE build
  <2>1. spawn(PoolsToSpawn) \/ UNCHANGED poolVars  BY <1>3 DEF build
  <2> QED  BY <1>2, <2>1, PublishKept DEF spawn
<1>4. CASE serve
  <2>1. CASE ShutdownAgents  BY <2>1, PublishKept DEF ShutdownAgents, model
  <2>2. CASE UNCHANGED poolVars  BY <1>2, <2>2
  <2> QED  BY <1>4, <2>1, <2>2 DEF serve, RefuseStartup, StartExporter, BindListeners, ShutdownExporter, Drain, Serving
<1>5. CASE shutdown_signal  BY <1>2, <1>5 DEF shutdown_signal
<1>6. CASE \E l \in Listeners : Request(l) \/ Respond(l)  BY <1>2, <1>6 DEF Request, Respond
<1> QED  BY <1>1, <1>2, <1>3, <1>4, <1>5, <1>6, NextCases

LEMMA InitPublish ==
    ASSUME Init
    PROVE  PublishInv
<1>1. PICK c \in Configs : PoolInit(c.pools)  BY DEF Init
<1>2. /\ held = [k \in Kinds |-> FALSE] /\ handler = [k \in Kinds |-> "idle"]
      /\ ready_waiters = [k \in Kinds |-> {}] /\ releasing = [k \in Kinds |-> {}]
      /\ mailbox = [k \in Kinds |-> << >>]
      /\ question = [d \in Callers |-> [of |-> NoKind, ask |-> "none", answer |-> "none"]]
  BY <1>1 DEF PoolInit
<1>3. HeldIsShared  BY <1>2 DEF HeldIsShared
<1>4. ParkedAsked  BY <1>2 DEF ParkedAsked
<1>5. QueuedAsked  BY <1>2 DEF QueuedAsked
<1>6. HealthyIsShared  BY <1>2 DEF HealthyIsShared
<1> QED  BY <1>3, <1>4, <1>5, <1>6 DEF PublishInv

\* A caller that WaitForPoolReady told of a pool finds it in AppState, however
\* the handler that connected it, other callers and the shutdown interleave.
THEOREM PublishedBeforeReady == Spec => []ReadyMeansPublished
<1>1. Init => TypeInv /\ PublishInv  BY InitType, InitPublish
<1>2. TypeInv /\ PublishInv /\ [Next]_vars => TypeInv' /\ PublishInv'  BY StepType, StepPublish
<1>3. PublishInv => ReadyMeansPublished  BY DEF PublishInv, HealthyIsShared, ReadyMeansPublished
<1> QED  BY <1>1, <1>2, <1>3, PTL DEF Spec

-----------------------------------------------------------------------------
(* Ready means that the required pools are there.                          *)

\* Every step keeps the settings, and a pool once in the state stays there.
LEMMA StateGrows ==
    ASSUME TypeInv, [Next]_vars
    PROVE  /\ pools' = pools
           /\ \A k \in Kinds : InState(k) => InState(k)'
           /\ probe' = probe \/ ProbeStep
<1>0. PoolInv /\ PoolTypeOK  BY DEF TypeInv, PoolInv
<1>1. ASSUME pools' = pools, own \subseteq own', \A k \in Kinds : shared[k] => shared'[k]
      PROVE  \A k \in Kinds : InState(k) => InState(k)'
  BY <1>1 DEF InState
<1>2. CASE UNCHANGED <<pools, own, shared, probe>>  BY <1>1, <1>2
<1>3. CASE ProbeStep
  <2>1. UNCHANGED <<pools, own, shared>>  BY <1>0, <1>3, ProbeStepType
  <2> QED  BY <1>1, <1>3, <2>1
<1>4. CASE PoolNext
  <2>1. CASE \E k \in Kinds : Attempt(k) \/ Cancelled(k) \/ Stopping(k)
    BY <1>2, <2>1 DEF Attempt, Cancelled, Stopping, world
  <2>2. CASE \E k \in Kinds : Handle(k)
    <3>1. PICK k \in Kinds : Handle(k)  BY <2>2
    <3>2. UNCHANGED <<pools, own, probe>>  BY <3>1 DEF Handle, world
    <3>3. shared' = shared \/ shared' = [shared EXCEPT ![k] = TRUE]  BY <3>1 DEF Handle, OnConnected
    <3>4. \A j \in Kinds : shared[j] => shared'[j]  BY <1>0, <3>3 DEF PoolTypeOK
    <3> QED  BY <1>1, <3>2, <3>4
  <2>3. CASE \E k \in Kinds : Outage(k)  BY <1>2, <2>3 DEF Outage
  <2>4. CASE \E k \in Kinds : AppStateBuilder_build(k)
    BY <1>1, <2>4 DEF AppStateBuilder_build
  <2>5. CASE \E k \in Kinds, c \in Callers : Ask(c, k)  BY <1>2, <2>5 DEF Ask, world
  <2> QED  BY <1>3, <1>4, <2>1, <2>2, <2>3, <2>4, <2>5, PoolNextCases
<1>5. CASE UNCHANGED poolVars  BY <1>2, <1>5 DEF poolVars, world
<1>6. CASE build
  <2>1. spawn(PoolsToSpawn) \/ UNCHANGED poolVars  BY <1>6 DEF build
  <2> QED  BY <1>2, <1>5, <2>1 DEF spawn, world
<1>7. CASE serve
  <2>1. CASE ShutdownAgents  BY <1>2, <2>1 DEF ShutdownAgents, world
  <2>2. CASE UNCHANGED poolVars  BY <1>5, <2>2
  <2> QED  BY <1>7, <2>1, <2>2 DEF serve, RefuseStartup, StartExporter, BindListeners, ShutdownExporter, Drain, Serving
<1>8. CASE shutdown_signal  BY <1>5, <1>8 DEF shutdown_signal
<1>9. CASE \E l \in Listeners : Request(l) \/ Respond(l)  BY <1>5, <1>9 DEF Request, Respond
<1> QED  BY <1>3, <1>4, <1>5, <1>6, <1>7, <1>8, <1>9, NextCases

\* A verdict is only good of a required pool that is there.
LEMMA VerdictIsTrue ==
    ASSUME NEW k \in pools.required, ProbeVerdict(k)
    PROVE  InState(k)
  BY DEF ProbeVerdict

LEMMA StepProbe ==
    ASSUME TypeInv, ProbeInv, [Next]_vars
    PROVE  ProbeInv'
<1>0. PoolInv  BY DEF TypeInv
<1>1. pools' = pools /\ \A k \in Kinds : InState(k) => InState(k)'  BY StateGrows
<1>2. /\ pools.required \subseteq Kinds /\ pools.required \subseteq pools.configured /\ probe \in Probes
  BY <1>0, WorldType
<1>3. CASE probe' = probe
  <2>1. \A S : pools'.required \cap S = pools.required \cap S  BY <1>1
  <2>2. ReadyIsTrue'  BY <1>1, <1>2, <1>3 DEF ProbeInv, ReadyIsTrue
  <2>3. ASSUME probe'.status = "probing", probe'.ready, probe'.via # "summary",
               NEW k \in pools'.required \cap Asked(probe'.via)
        PROVE  k \in probe'.left \/ InState(k)'
    BY <1>1, <1>2, <1>3, <2>3 DEF ProbeInv
  <2> QED  BY <2>2, <2>3 DEF ProbeInv
<1>4. CASE ProbeStep
  <2>0. check_dependencies \subseteq Kinds  BY DEF check_dependencies, Kinds
  <2>1. CASE \/ readiness(pools.configured) \/ HealthService_check(pools.configured)
             \/ AppState_pool_health(pools.configured)
    <3>1. probe'.status = "probing" /\ probe'.via \in {"http", "grpc", "summary"}
          /\ (probe'.via = "http" => probe'.left = pools.configured)
          /\ (probe'.via = "grpc" => probe'.left = pools.configured \cap check_dependencies)
      BY <2>1 DEF readiness, HealthService_check, AppState_pool_health
    <3>2. ReadyIsTrue'  BY <3>1 DEF ReadyIsTrue
    <3>3. ASSUME probe'.via # "summary", NEW k \in pools'.required \cap Asked(probe'.via)
          PROVE  k \in probe'.left
      BY <1>1, <1>2, <2>0, <3>1, <3>3 DEF Asked
    <3> QED  BY <3>2, <3>3 DEF ProbeInv
  <2>2. CASE readiness_outcomes \/ ServingStatus
    <3>1. /\ probe.status = "probing" /\ probe.left = {}
          /\ probe' \in {[probe EXCEPT !.status = "200"], [probe EXCEPT !.status = "503"]}
          /\ probe' = [probe EXCEPT !.status = "200"] => probe.ready
      BY <2>2, <1>2 DEF readiness_outcomes, ServingStatus, Probes
    <3>2. /\ probe'.status \in {"200", "503"} /\ probe'.via = probe.via
          /\ probe'.status = "200" => probe.ready
      BY <1>2, <3>1 DEF Probes
    <3>3. ReadyIsTrue'
      <4> SUFFICES ASSUME probe'.status = "200", probe'.via # "summary",
                          NEW k \in pools'.required \cap Asked(probe'.via)
                   PROVE  InState(k)'
        BY DEF ReadyIsTrue, Asked
      <4>1. k \in pools.required \cap Asked(probe.via) /\ probe.via # "summary" /\ probe.ready
        BY <1>1, <3>2
      <4>2. InState(k)  BY <3>1, <4>1 DEF ProbeInv
      <4> QED  BY <1>1, <1>2, <4>1, <4>2
    <3> QED  BY <3>2, <3>3 DEF ProbeInv
  <2>3. CASE \E k \in Kinds : ProbeNext(k)
    <3>1. PICK k \in Kinds : ProbeNext(k)  BY <2>3
    <3>2. PICK healthy \in (IF probe.via = "summary" THEN PoolHealthSummary(k) ELSE {ProbeVerdict(k)}) :
             probe' = [probe EXCEPT !.left = @ \ {k}, !.ready = @ /\ healthy]
      BY <3>1 DEF ProbeNext
    <3>3. /\ probe.status = "probing" /\ probe'.status = "probing" /\ probe'.via = probe.via
          /\ probe'.left = probe.left \ {k} /\ probe'.ready = (probe.ready /\ healthy)
      BY <1>2, <3>1, <3>2 DEF Probes, ProbeNext
    <3>4. ReadyIsTrue'  BY <3>3 DEF ReadyIsTrue
    <3>5. ASSUME probe'.ready, probe'.via # "summary", NEW j \in pools'.required \cap Asked(probe'.via)
          PROVE  j \in probe'.left \/ InState(j)'
      <4>1. /\ probe.via # "summary" /\ j \in pools.required \cap Asked(probe.via)
            /\ probe.ready /\ healthy
        BY <1>1, <3>3, <3>5
      <4>2. j \in probe.left \/ InState(j)  BY <3>3, <4>1 DEF ProbeInv
      <4>3. CASE InState(j)  BY <1>1, <1>2, <4>1, <4>3
      <4>4. CASE j \in probe.left /\ j # k  BY <3>3, <4>4
      <4>5. CASE j = k
        <5>1. ProbeVerdict(k)  BY <3>2, <4>1
        <5>2. InState(k)  BY <4>1, <4>5, <5>1, VerdictIsTrue
        <5> QED  BY <1>1, <4>5, <5>2
      <4> QED  BY <4>2, <4>3, <4>4, <4>5
    <3> QED  BY <3>4, <3>5 DEF ProbeInv
  <2> QED  BY <1>4, <2>1, <2>2, <2>3 DEF ProbeStep
<1> QED  BY <1>3, <1>4, StateGrows

LEMMA InitProbe ==
    ASSUME Init
    PROVE  ProbeInv
<1>1. PICK c \in Configs : PoolInit(c.pools)  BY DEF Init
<1>2. probe.status = "idle"  BY <1>1 DEF PoolInit
<1> QED  BY <1>2 DEF ProbeInv, ReadyIsTrue

\* /ready and the gRPC health service, whose probes ask one pool after the
\* other while the pools come and go, never report ready without a required
\* pool they ask about.
THEOREM ReadyIsTruthful == Spec => []ReadyIsTrue
<1>1. Init => TypeInv /\ ProbeInv  BY InitType, InitProbe
<1>2. TypeInv /\ ProbeInv /\ [Next]_vars => TypeInv' /\ ProbeInv'  BY StepType, StepProbe
<1>3. ProbeInv => ReadyIsTrue  BY DEF ProbeInv
<1> QED  BY <1>1, <1>2, <1>3, PTL DEF Spec

-----------------------------------------------------------------------------
(* Requests in flight keep their pools.                                    *)

\* What a step of the pools may do about stopping.
LEMMA PoolNextStops ==
    ASSUME TypeInv, PoolNext \/ ProbeStep
    PROVE  /\ stop' = stop
           /\ \A k \in Kinds : phase'[k] = "stopping" \/ link'[k] = "closed" =>
                  phase[k] = "stopping" \/ link[k] = "closed" \/ stop[k]
<1>0. PoolInv /\ PoolTypeOK  BY DEF TypeInv, PoolInv
<1>1. CASE UNCHANGED <<stop, phase, link>>  BY <1>1
<1>2. CASE \E k \in Kinds : Attempt(k) \/ Cancelled(k)
  <2>1. PICK k \in Kinds : Attempt(k) \/ Cancelled(k)  BY <1>2
  <2>2. /\ stop' = stop /\ link' \in {link, [link EXCEPT ![k] = "open"]}
        /\ phase' \in {phase, [phase EXCEPT ![k] = IF @ = "starting" THEN "running" ELSE @]}
    BY <2>1 DEF Attempt, Cancelled, Report
  <2> QED  BY <1>0, <2>2 DEF PoolTypeOK
<1>3. CASE \E k \in Kinds : Handle(k)  BY <1>1, <1>3 DEF Handle
<1>4. CASE \E k \in Kinds : Stopping(k)
  <2>1. PICK k \in Kinds : Stopping(k)  BY <1>4
  <2>2. stop' = stop /\ before_stop(k)  BY <2>1 DEF Stopping
  <2>3. CASE /\ stop[k] /\ UNCHANGED link
             /\ phase' = [phase EXCEPT ![k] = IF AgentOf[k].closes /\ held[k] THEN "stopping" ELSE "stopped"]
    BY <1>0, <2>2, <2>3 DEF PoolTypeOK
  <2>4. CASE /\ phase[k] = "stopping" /\ link' = [link EXCEPT ![k] = "closed"]
             /\ phase' = [phase EXCEPT ![k] = "stopped"]
    BY <1>0, <2>2, <2>4 DEF PoolTypeOK
  <2> QED  BY <2>2, <2>3, <2>4 DEF before_stop
<1>5. CASE \E k \in Kinds : Outage(k) \/ AppStateBuilder_build(k)
  <2>1. UNCHANGED <<agents, link>>  BY <1>5 DEF Outage, AppStateBuilder_build
  <2> QED  BY <1>1, <2>1 DEF agents
<1>6. CASE \E k \in Kinds, c \in Callers : Ask(c, k)  BY <1>1, <1>6 DEF Ask
<1>7. CASE ProbeStep
  <2>1. UNCHANGED <<agents, link>>  BY <1>0, <1>7, ProbeStepType
  <2> QED  BY <1>1, <2>1 DEF agents
<1> QED  BY <1>2, <1>3, <1>4, <1>5, <1>6, <1>7, PoolNextCases

LEMMA StopKept ==
    ASSUME StopAfterServing, stop' = stop, stage \in {"agents", "ended"} => stage' \in {"agents", "ended"},
           \A k \in Kinds : phase'[k] = "stopping" \/ link'[k] = "closed" =>
                  phase[k] = "stopping" \/ link[k] = "closed" \/ stop[k]
    PROVE  StopAfterServing'
  BY DEF StopAfterServing

\* The listeners the service binds.
LEMMA BoundFacts ==
    /\ Bound \subseteq {"http", "grpc"} /\ {"http", "grpc"} \subseteq Listeners /\ "exporter" \notin Bound
    /\ "exporter" \in Listeners
    /\ cfg' = cfg => Bound' = Bound
  BY DEF Bound, Listeners, SeparateGrpc

LEMMA StepShutdown ==
    ASSUME TypeInv, ShutdownInv, [Next]_vars
    PROVE  ShutdownInv'
<1>0. /\ OpenWhileServing /\ InFlightIsHeld /\ StopAfterServing
      /\ listener \in [Listeners -> {"closed", "open", "draining", "done"}]
      /\ ServeTypeOK
  BY DEF ShutdownInv, TypeInv, ServeTypeOK
<1>1. CASE UNCHANGED builder /\ (PoolNext \/ ProbeStep \/ UNCHANGED poolVars)
  <2>1. UNCHANGED <<cfg, stage, listener, inflight>>  BY <1>1 DEF builder
  <2>2. OpenWhileServing'  BY <1>0, <2>1, BoundFacts DEF OpenWhileServing
  <2>3. InFlightIsHeld'  BY <1>0, <2>1, BoundFacts DEF InFlightIsHeld
  <2>4. StopAfterServing'
    <3>1. CASE PoolNext \/ ProbeStep  BY <1>0, <2>1, <3>1, PoolNextStops, StopKept
    <3>2. CASE UNCHANGED poolVars
      BY <1>0, <2>1, <3>2, StopKept DEF poolVars, agents
    <3> QED  BY <1>1, <3>1, <3>2
  <2> QED  BY <2>2, <2>3, <2>4 DEF ShutdownInv
<1>2. CASE build
  <2>1. UNCHANGED <<cfg, listener, inflight>> /\ stage # "serving" /\ stage \notin {"agents", "ended"}
    BY <1>2 DEF build, Step
  <2>2. OpenWhileServing'  BY <1>0, <2>1, BoundFacts DEF OpenWhileServing
  <2>3. InFlightIsHeld'  BY <1>0, <2>1, BoundFacts DEF InFlightIsHeld
  <2>4. stop' = stop /\ link' = link /\ \A k \in Kinds : phase'[k] = "stopping" => phase[k] = "stopping"
    <3>1. CASE spawn(PoolsToSpawn)  BY <3>1 DEF spawn
    <3>2. CASE UNCHANGED poolVars  BY <3>2 DEF poolVars, agents
    <3> QED  BY <1>2, <3>1, <3>2 DEF build
  <2>5. StopAfterServing'  BY <1>0, <2>1, <2>4, StopKept
  <2> QED  BY <2>2, <2>3, <2>5 DEF ShutdownInv
<1>3. ASSUME NEW next, NEW l, NEW r, Serving(next, l, r),
             stage \in {"agents", "ended"} => next \in {"agents", "ended"},
             \A i \in {"http", "grpc"} : l[i] \in {"open", "draining"} => next = "serving" /\ i \in Bound,
             \A i \in Listeners : inflight[i] > 0 => i \in Bound /\ l[i] \in {"open", "draining"}
      PROVE  ShutdownInv'
  <2>1. UNCHANGED <<cfg, inflight, poolVars>> /\ stage' = next /\ listener' = l  BY <1>3 DEF Serving
  <2>2. OpenWhileServing'  BY <1>3, <2>1, BoundFacts DEF OpenWhileServing
  <2>3. InFlightIsHeld'  BY <1>3, <2>1, BoundFacts DEF InFlightIsHeld
  <2>4. StopAfterServing'  BY <1>0, <1>3, <2>1, StopKept DEF poolVars, agents
  <2> QED  BY <2>2, <2>3, <2>4 DEF ShutdownInv
<1>4. CASE RefuseStartup
  <2>1. stage = "built" /\ Serving("ended", listener, "refused")  BY <1>4 DEF RefuseStartup
  <2> QED  BY <1>0, <1>3, <2>1 DEF OpenWhileServing, InFlightIsHeld
<1>5. CASE StartExporter
  <2>0. stage = "built"  BY <1>5 DEF StartExporter
  <2>1. CASE \E r : Serving("bind", listener, r) \/ Serving("ended", listener, r)
    BY <1>0, <1>3, <2>0, <2>1 DEF OpenWhileServing, InFlightIsHeld
  <2>2. CASE Serving("bind", [listener EXCEPT !["exporter"] = "open"], result)
    <3>1. DEFINE l == [listener EXCEPT !["exporter"] = "open"]
    <3>2. \A i \in {"http", "grpc"} : l[i] = listener[i]  BY <1>0, BoundFacts
    <3>3. \A i \in {"http", "grpc"} : l[i] \in {"open", "draining"} => "bind" = "serving" /\ i \in Bound
      BY <1>0, <2>0, <3>2 DEF OpenWhileServing
    <3>4. \A i \in Listeners : inflight[i] > 0 => i \in Bound /\ l[i] \in {"open", "draining"}
      BY <1>0, <3>2, BoundFacts DEF InFlightIsHeld
    <3> HIDE DEF l
    <3>5. Serving("bind", l, result)  BY <2>2 DEF l
    <3> QED  BY <1>3, <2>0, <3>3, <3>4, <3>5
  <2> QED  BY <1>5, <2>1, <2>2 DEF StartExporter
<1>6. CASE BindListeners
  <2>0. stage = "bind"  BY <1>6 DEF BindListeners
  <2>1. \A i \in Listeners : ~(inflight[i] > 0)
    BY <1>0, <2>0, BoundFacts DEF OpenWhileServing, InFlightIsHeld
  <2>2. CASE Serving("serving", [l \in Listeners |-> IF l \in Bound THEN "open" ELSE listener[l]], result)
    <3>1. DEFINE m == [l \in Listeners |-> IF l \in Bound THEN "open" ELSE listener[l]]
    <3>2. \A i \in {"http", "grpc"} : m[i] \in {"open", "draining"} => i \in Bound
      BY <1>0, <2>0, BoundFacts DEF OpenWhileServing
    <3> HIDE DEF m
    <3>3. Serving("serving", m, result)  BY <2>2 DEF m
    <3> QED  BY <1>3, <2>0, <2>1, <3>2, <3>3
  <2>3. CASE Serving("ended", [l \in Listeners |-> IF listener[l] = "open" THEN "done" ELSE listener[l]], "error")
    <3>1. DEFINE m == [l \in Listeners |-> IF listener[l] = "open" THEN "done" ELSE listener[l]]
    <3>2. \A i \in {"http", "grpc"} : m[i] \notin {"open", "draining"}
      BY <1>0, <2>0, BoundFacts DEF OpenWhileServing
    <3> HIDE DEF m
    <3>3. Serving("ended", m, "error")  BY <2>3 DEF m
    <3> QED  BY <1>3, <2>0, <2>1, <3>2, <3>3
  <2> QED  BY <1>6, <2>2, <2>3 DEF BindListeners
<1>7. CASE ShutdownAgents
  <2>1. /\ \A l \in Bound : listener[l] = "done"
        /\ stage' = "agents"
        /\ UNCHANGED <<cfg, listener, inflight, phase, link>>
        /\ stop' = [k \in Kinds |-> phase[k] # "absent"]
    BY <1>7 DEF ShutdownAgents, Served
  <2>2. OpenWhileServing'  BY <1>0, <2>1, BoundFacts DEF OpenWhileServing
  <2>3. InFlightIsHeld'  BY <1>0, <2>1, BoundFacts DEF InFlightIsHeld
  <2>4. \A k \in Kinds : ~stop[k]  BY <1>0, <1>7 DEF StopAfterServing, ShutdownAgents
  <2>5. StopAfterServing'  BY <1>0, <2>1, <2>4 DEF StopAfterServing
  <2> QED  BY <2>2, <2>3, <2>5 DEF ShutdownInv
<1>8. CASE ShutdownExporter
  <2>0. stage = "agents"  BY <1>8 DEF ShutdownExporter
  <2>1. DEFINE m == [listener EXCEPT !["exporter"] = IF @ = "open" THEN "done" ELSE @]
  <2>2. \A i \in {"http", "grpc"} : m[i] = listener[i]  BY <1>0, BoundFacts
  <2>3. \A i \in {"http", "grpc"} : m[i] \in {"open", "draining"} => "ended" = "serving" /\ i \in Bound
    BY <1>0, <2>0, <2>2 DEF OpenWhileServing
  <2>4. \A i \in Listeners : inflight[i] > 0 => i \in Bound /\ m[i] \in {"open", "draining"}
    BY <1>0, <2>2, BoundFacts DEF InFlightIsHeld
  <2> HIDE DEF m
  <2>5. Serving("ended", m, "ok")  BY <1>8 DEF ShutdownExporter, m
  <2> QED  BY <1>3, <2>3, <2>4, <2>5
<1>9. CASE \E l \in Listeners : Drain(l)
  <2>1. PICK l \in Listeners : Drain(l)  BY <1>9
  <2>2. l \in Bound /\ l \in {"http", "grpc"}  BY <2>1, BoundFacts DEF Drain
  <2>3. listener[l] \in {"open", "draining"} /\ stage = "serving"
    BY <1>0, <2>1, <2>2 DEF Drain, OpenWhileServing
  <2>4. CASE Serving(stage, [listener EXCEPT ![l] = "draining"], result)
    <3>1. DEFINE m == [listener EXCEPT ![l] = "draining"]
    <3>2. \A i \in {"http", "grpc"} : m[i] \in {"open", "draining"} => stage = "serving" /\ i \in Bound
      BY <1>0, <2>2, <2>3, BoundFacts DEF OpenWhileServing
    <3>3. \A i \in Listeners : inflight[i] > 0 => i \in Bound /\ m[i] \in {"open", "draining"}
      BY <1>0, <2>2 DEF InFlightIsHeld
    <3> HIDE DEF m
    <3>4. Serving(stage, m, result)  BY <2>4 DEF m
    <3> QED  BY <1>3, <2>3, <3>2, <3>3, <3>4
  <2>5. CASE inflight[l] = 0 /\ Serving(stage, [listener EXCEPT ![l] = "done"], result)
    <3>1. DEFINE m == [listener EXCEPT ![l] = "done"]
    <3>2. \A i \in {"http", "grpc"} : m[i] \in {"open", "draining"} => stage = "serving" /\ i \in Bound
      BY <1>0, <2>2, <2>3, BoundFacts DEF OpenWhileServing
    <3>3. \A i \in Listeners : inflight[i] > 0 => i \in Bound /\ m[i] \in {"open", "draining"}
      BY <1>0, <2>2, <2>5 DEF InFlightIsHeld
    <3> HIDE DEF m
    <3>4. Serving(stage, m, result)  BY <2>5 DEF m
    <3> QED  BY <1>3, <2>3, <3>2, <3>3, <3>4
  <2> QED  BY <2>1, <2>4, <2>5 DEF Drain
<1>10. CASE serve
  BY <1>4, <1>5, <1>6, <1>7, <1>8, <1>9, <1>10 DEF serve
<1>11. CASE shutdown_signal
  <2>1. UNCHANGED <<cfg, stage, listener, inflight>> /\ UNCHANGED poolVars  BY <1>11 DEF shutdown_signal
  <2>2. OpenWhileServing'  BY <1>0, <2>1, BoundFacts DEF OpenWhileServing
  <2>3. InFlightIsHeld'  BY <1>0, <2>1, BoundFacts DEF InFlightIsHeld
  <2>4. StopAfterServing'  BY <1>0, <2>1, StopKept DEF poolVars, agents
  <2> QED  BY <2>2, <2>3, <2>4 DEF ShutdownInv
<1>12. CASE \E l \in Listeners : Request(l) \/ Respond(l)
  <2>1. PICK l \in Listeners : Request(l) \/ Respond(l)  BY <1>12
  <2>2. UNCHANGED <<cfg, stage, listener>> /\ UNCHANGED poolVars  BY <2>1 DEF Request, Respond
  <2>3. OpenWhileServing'  BY <1>0, <2>2, BoundFacts DEF OpenWhileServing
  <2>4. StopAfterServing'  BY <1>0, <2>2, StopKept DEF poolVars, agents
  <2>5. inflight \in [Listeners -> 0 .. cfg.requests]  BY <1>0 DEF ServeTypeOK
  <2>6. /\ \A i \in Listeners \ {l} : inflight'[i] = inflight[i]
        /\ l \in Bound /\ listener[l] \in {"open", "draining"}
    <3>1. CASE Request(l)  BY <2>5, <3>1 DEF Request
    <3>2. CASE Respond(l)  BY <1>0, <2>5, <3>2 DEF Respond, InFlightIsHeld
    <3> QED  BY <2>1, <3>1, <3>2
  <2>7. InFlightIsHeld'  BY <1>0, <2>2, <2>6, BoundFacts DEF InFlightIsHeld
  <2> QED  BY <2>3, <2>4, <2>7 DEF ShutdownInv
<1> QED  BY <1>1, <1>2, <1>10, <1>11, <1>12, NextCases

LEMMA InitShutdown ==
    ASSUME Init
    PROVE  ShutdownInv
<1>1. PICK c \in Configs : PoolInit(c.pools)  BY DEF Init
<1>2. /\ stop = [k \in Kinds |-> FALSE] /\ phase = [k \in Kinds |-> "absent"] /\ link = [k \in Kinds |-> "none"]
  BY <1>1 DEF PoolInit
<1>3. listener = [l \in Listeners |-> "closed"] /\ inflight = [l \in Listeners |-> 0]  BY DEF Init
<1>4. OpenWhileServing  BY <1>3, BoundFacts DEF OpenWhileServing
<1>5. InFlightIsHeld  BY <1>3 DEF InFlightIsHeld
<1>6. StopAfterServing  BY <1>2 DEF StopAfterServing
<1> QED  BY <1>4, <1>5, <1>6 DEF ShutdownInv

\* No pool is closed under a request: every listener drains before the agents
\* are asked to stop, and only an agent that was asked closes its pool.
THEOREM RequestsKeepTheirPools == Spec => []InFlightSeesOpenPool
<1>1. Init => TypeInv /\ ShutdownInv  BY InitType, InitShutdown
<1>2. TypeInv /\ ShutdownInv /\ [Next]_vars => TypeInv' /\ ShutdownInv'  BY StepType, StepShutdown
<1>3. ASSUME ShutdownInv PROVE InFlightSeesOpenPool
  <2> SUFFICES ASSUME NEW l \in Bound, inflight[l] > 0, NEW k \in Kinds, link[k] = "closed" PROVE FALSE
    BY DEF InFlightSeesOpenPool
  <2>1. l \in {"http", "grpc"} /\ l \in Listeners  BY BoundFacts
  <2>2. stage = "serving"  BY <1>3, <2>1 DEF ShutdownInv, InFlightIsHeld, OpenWhileServing
  <2>3. stage \in {"agents", "ended"}  BY <1>3 DEF ShutdownInv, StopAfterServing
  <2> QED  BY <2>2, <2>3
<1> QED  BY <1>1, <1>2, <1>3, PTL DEF Spec

-----------------------------------------------------------------------------
(* Layers and startup errors.                                              *)

\* A layer that is asked for is on the stack, and none is taken off.
LEMMA AddedLayer ==
    ASSUME NEW stack \in Seq(LayerNames), NEW wanted \in BOOLEAN, NEW l \in LayerNames
    PROVE  /\ Added(stack, wanted, l) \in Seq(LayerNames)
           /\ Range(stack) \subseteq Range(Added(stack, wanted, l))
           /\ wanted => l \in Range(Added(stack, wanted, l))
<1>1. CASE wanted
  <2>1. Added(stack, wanted, l) = Append(stack, l)  BY <1>1 DEF Added
  <2>2. Append(stack, l) \in Seq(LayerNames)  OBVIOUS
  <2>3. /\ Len(stack) \in Nat /\ DOMAIN stack = 1 .. Len(stack)
        /\ DOMAIN Append(stack, l) = 1 .. Len(stack) + 1
        /\ Append(stack, l)[Len(stack) + 1] = l
        /\ \A i \in 1 .. Len(stack) : Append(stack, l)[i] = stack[i]
    OBVIOUS
  <2>4. Range(stack) \subseteq Range(Append(stack, l))  BY <2>3 DEF Range
  <2>5. l \in Range(Append(stack, l))  BY <2>3 DEF Range
  <2> QED  BY <2>1, <2>2, <2>4, <2>5
<1>2. CASE ~wanted
  BY <1>2 DEF Added
<1> QED  BY <1>1, <1>2

LEMMA GeneralStack ==
    ASSUME NEW on
    PROVE  apply_middleware(on) \in Seq(LayerNames)
<1> DEFINE first == Added(<<"cors", "security_headers">>, "compression" \in on, "compression")
           limits == first \o <<"timeout", "body_limit", "trace">>
           measured == Added(limits, "metrics" \in on, "metrics")
           context == Append(measured, "request_context")
           sensitive == Added(context, "sensitive_headers" \in on, "sensitive_headers")
           propagated == Added(sensitive, "propagation" \in on, "propagation")
           tracked == Added(propagated, "request_id" \in on, "request_id")
           caught == Added(tracked, "catch_panic" \in on, "catch_panic")
<1>0. apply_middleware(on) = caught  BY DEF apply_middleware
<1>1. /\ <<"cors", "security_headers">> \in Seq(LayerNames)
      /\ <<"timeout", "body_limit", "trace">> \in Seq(LayerNames)
      /\ {"compression", "metrics", "sensitive_headers", "propagation", "request_id", "catch_panic",
          "request_context"} \subseteq LayerNames
  BY DEF LayerNames, Switches
<1> HIDE DEF first, limits, measured, context, sensitive, propagated, tracked, caught
<1>2. first \in Seq(LayerNames)  BY <1>1 DEF first, Added
<1>3. limits \in Seq(LayerNames)  BY <1>1, <1>2 DEF limits
<1>4. measured \in Seq(LayerNames)  BY <1>1, <1>3 DEF measured, Added
<1>5. context \in Seq(LayerNames)  BY <1>1, <1>4 DEF context
<1>6. sensitive \in Seq(LayerNames)  BY <1>1, <1>5 DEF sensitive, Added
<1>7. propagated \in Seq(LayerNames)  BY <1>1, <1>6 DEF propagated, Added
<1>8. tracked \in Seq(LayerNames)  BY <1>1, <1>7 DEF tracked, Added
<1>9. caught \in Seq(LayerNames)  BY <1>1, <1>8 DEF caught, Added
<1> QED  BY <1>0, <1>9

\* The stacks that are put around one that is there.
LEMMA AuthorizationStack ==
    ASSUME NEW stack \in Seq(LayerNames), NEW cedar \in BOOLEAN, NEW audit \in BOOLEAN, NEW governor \in BOOLEAN
    PROVE  /\ authorization_layers(stack, cedar, audit, governor) \in Seq(LayerNames)
           /\ Range(stack) \subseteq Range(authorization_layers(stack, cedar, audit, governor))
           /\ cedar => "cedar" \in Range(authorization_layers(stack, cedar, audit, governor))
<1> DEFINE one == Added(stack, cedar, "cedar")
           two == Added(one, audit, "audit")
<1>0. {"cedar", "audit", "governor"} \subseteq LayerNames  BY DEF LayerNames
<1>1. one \in Seq(LayerNames) /\ Range(stack) \subseteq Range(one) /\ (cedar => "cedar" \in Range(one))
  BY <1>0, AddedLayer
<1>2. two \in Seq(LayerNames) /\ Range(one) \subseteq Range(two)
  BY <1>0, <1>1, AddedLayer
<1>3. Added(two, governor, "governor") \in Seq(LayerNames) /\ Range(two) \subseteq Range(Added(two, governor, "governor"))
  BY <1>0, <1>2, AddedLayer
<1>4. authorization_layers(stack, cedar, audit, governor) = Added(two, governor, "governor")
  BY DEF authorization_layers
<1> HIDE DEF one, two
<1> QED  BY <1>1, <1>2, <1>3, <1>4

LEMMA CallerStack ==
    ASSUME NEW stack \in Seq(LayerNames), NEW certificates \in BOOLEAN, NEW audit \in BOOLEAN
    PROVE  /\ caller_layers(stack, certificates, audit) \in Seq(LayerNames)
           /\ Range(stack) \subseteq Range(caller_layers(stack, certificates, audit))
           /\ certificates => "caller_auth" \in Range(caller_layers(stack, certificates, audit))
<1> DEFINE one == Added(stack, certificates, "caller_auth")
<1>0. {"caller_auth", "audit_extension"} \subseteq LayerNames  BY DEF LayerNames
<1>1. one \in Seq(LayerNames) /\ Range(stack) \subseteq Range(one) /\ (certificates => "caller_auth" \in Range(one))
  BY <1>0, AddedLayer
<1>2. Added(one, audit, "audit_extension") \in Seq(LayerNames) /\ Range(one) \subseteq Range(Added(one, audit, "audit_extension"))
  BY <1>0, <1>1, AddedLayer
<1>3. caller_layers(stack, certificates, audit) = Added(one, audit, "audit_extension")
  BY DEF caller_layers
<1> HIDE DEF one
<1> QED  BY <1>1, <1>2, <1>3

LEMMA GrpcStack ==
    ASSUME NEW cedar \in BOOLEAN, NEW token \in BOOLEAN, NEW certificates \in BOOLEAN, NEW audit \in BOOLEAN
    PROVE  /\ grpc_stack(cedar, token, certificates, audit) \in Seq(LayerNames)
           /\ cedar => "cedar" \in Range(grpc_stack(cedar, token, certificates, audit))
           /\ token => "token" \in Range(grpc_stack(cedar, token, certificates, audit))
           /\ certificates => "caller_auth" \in Range(grpc_stack(cedar, token, certificates, audit))
<1> DEFINE one == Added(<< >>, cedar, "cedar")
           two == Added(one, token, "token")
<1>0. {"cedar", "token"} \subseteq LayerNames /\ << >> \in Seq(LayerNames)  BY DEF LayerNames
<1>1. one \in Seq(LayerNames) /\ (cedar => "cedar" \in Range(one))
  BY <1>0, AddedLayer
<1>2. two \in Seq(LayerNames) /\ Range(one) \subseteq Range(two) /\ (token => "token" \in Range(two))
  BY <1>0, <1>1, AddedLayer
<1>3. grpc_stack(cedar, token, certificates, audit) = caller_layers(two, certificates, audit)
  BY DEF grpc_stack
<1> HIDE DEF one, two
<1> QED  BY <1>1, <1>2, <1>3, CallerStack

\* What a service has beyond its error is the same.
SameParts(b, r) ==
    /\ r.cedar = b.cedar /\ r.policy = b.policy /\ r.http = b.http /\ r.grpc = b.grpc
    /\ r.tls = b.tls /\ r.grpc_tls = b.grpc_tls /\ r.audit = b.audit

\* An error that is recorded stays, and none is recorded without a cause.
LEMMA RecordedError ==
    ASSUME NEW b \in Services, NEW fatal \in BOOLEAN, NEW what \in StartupErrors \ {"none"}
    PROVE  /\ record_startup_error(b, fatal, what) \in Services
           /\ SameParts(b, record_startup_error(b, fatal, what))
           /\ record_startup_error(b, fatal, what).startup_error = "none" => b.startup_error = "none" /\ ~fatal
<1> DEFINE r == record_startup_error(b, fatal, what)
<1>1. CASE fatal /\ b.startup_error = "none"
  <2>1. r = [b EXCEPT !.startup_error = what]  BY <1>1 DEF record_startup_error
  <2>2. r \in Services  BY <2>1 DEF Services
  <2>3. SameParts(b, r)  BY <2>1 DEF Services, SameParts
  <2>4. r.startup_error = what  BY <2>1 DEF Services
  <2> QED  BY <2>2, <2>3, <2>4
<1>2. CASE ~(fatal /\ b.startup_error = "none")
  <2>1. r = b  BY <1>2 DEF record_startup_error
  <2> QED  BY <1>2, <2>1 DEF SameParts
<1> QED  BY <1>1, <1>2

-----------------------------------------------------------------------------
(* The stages of build.                                                    *)

Good(b) == b.startup_error = "none"

\* A stage that may record an error and changes nothing of the posture.
Checks(b, r) == r \in Services /\ SameParts(b, r) /\ (Good(r) => Good(b))

LEMMA ChecksTwice ==
    ASSUME NEW a, NEW b, NEW c, Checks(a, b), Checks(b, c)
    PROVE  Checks(a, c)
  BY DEF Checks, SameParts

LEMMA ChecksRecord ==
    ASSUME NEW b \in Services, NEW fatal \in BOOLEAN, NEW what \in StartupErrors \ {"none"}
    PROVE  /\ Checks(b, record_startup_error(b, fatal, what))
           /\ Good(record_startup_error(b, fatal, what)) => ~fatal
  BY RecordedError DEF Checks, Good

LEMMA ChecksRuntime ==
    ASSUME NEW b \in Services, NEW wanted \in BOOLEAN, NEW what \in StartupErrors \ {"none"}
    PROVE  Checks(b, RefusedRuntime(b, wanted, what))
<1>1. (wanted /\ cfg.flavor = "single") \in BOOLEAN  OBVIOUS
<1> QED  BY <1>1, ChecksRecord DEF RefusedRuntime

LEMMA SpawnStages ==
    ASSUME PoolInv, NEW b \in Services, cfg \in ConfigFields
    PROVE  /\ spawn_pools(b) \in Services /\ spawn_audit(b) \in Services /\ fingerprint_config(b) \in Services
           /\ start_rotation(b) \in Services /\ spawn_worker(b) \in Services /\ spawn_extensions(b) \in Services
<1>0. /\ {"pools", "audit", "rotation", "worker", "extensions"} \subseteq StartupErrors \ {"none"}
      /\ cfg.audit \in BOOLEAN /\ cfg.rotation \in BOOLEAN /\ cfg.worker \in BOOLEAN /\ cfg.extensions \in BOOLEAN
  BY DEF StartupErrors, ConfigFields
<1>1. spawn_pools(b) \in Services
  <2>1. [b EXCEPT !.runtime = PoolsToSpawn # {}] \in Services  BY DEF Services
  <2>2. (pools.configured # {}) \in BOOLEAN  OBVIOUS
  <2> QED  BY <1>0, <2>1, <2>2, ChecksRuntime DEF spawn_pools, Checks
<1>2. spawn_audit(b) \in Services
  <2>1. PICK starts \in BOOLEAN : starts = Spawns(cfg.audit)  BY DEF Spawns
  <2>2. [b EXCEPT !.audit = starts, !.runtime = @ \/ starts] \in Services  BY <2>1 DEF Services
  <2> QED  BY <1>0, <2>1, <2>2, ChecksRuntime DEF spawn_audit, Checks
<1>3. fingerprint_config(b) \in Services
  BY DEF fingerprint_config, Services
<1>4. start_rotation(b) \in Services
  <2>1. PICK starts \in BOOLEAN :
           starts = (Spawns(cfg.rotation) /\ \E k \in {"database", "turso", "surrealdb"} : shared[k])
    OBVIOUS
  <2>2. [b EXCEPT !.keys = starts, !.runtime = @ \/ starts] \in Services  BY <2>1 DEF Services
  <2> QED  BY <1>0, <2>1, <2>2, ChecksRuntime DEF start_rotation, Checks
<1>5. spawn_worker(b) \in Services
  <2>1. PICK starts \in BOOLEAN : starts = Spawns(cfg.worker)  BY DEF Spawns
  <2>2. [b EXCEPT !.worker = starts, !.runtime = @ \/ starts] \in Services  BY <2>1 DEF Services
  <2> QED  BY <1>0, <2>1, <2>2, ChecksRuntime DEF spawn_worker, Checks
<1>6. spawn_extensions(b) \in Services
  <2>1. PICK starts \in BOOLEAN : starts = Spawns(cfg.extensions)  BY DEF Spawns
  <2>2. [b EXCEPT !.extensions = starts, !.runtime = @ \/ starts] \in Services  BY <2>1 DEF Services
  <2> QED  BY <1>0, <2>1, <2>2, ChecksRuntime DEF spawn_extensions, Checks
<1> QED  BY <1>1, <1>2, <1>3, <1>4, <1>5, <1>6

\* State, routes and Cedar: a service that starts has Cedar where it is on.
CedarUp(b) == b \in Services /\ (Good(b) => (cfg.cedar # "off" => b.cedar))

LEMMA RoutedStages ==
    ASSUME PoolInv, cfg \in ConfigFields, NEW b \in Services
    PROVE  CedarUp(mount_graphql(resolve_cedar(mount_routes(wire_state(b)))))
<1> DEFINE w == wire_state(b)
           r == mount_routes(w)
           c == resolve_cedar(r)
<1>1. w \in Services
  <2>1. pools.configured \subseteq Kinds  BY WorldType
  <2> QED  BY <2>1 DEF wire_state, Services
<1> HIDE DEF w
<1>2. r \in Services  BY <1>1 DEF mount_routes, Services
<1> HIDE DEF r
<1>3. CedarUp(c)
  <2>1. PICK up_ \in BOOLEAN :
           up_ = (cfg.cedar = "injected" \/ (cfg.cedar = "valid" /\ runtime_supports_block_in_place))
    OBVIOUS
  <2>2. PICK fatal \in BOOLEAN : fatal = (cfg.cedar # "off" /\ ~up_)  OBVIOUS
  <2> DEFINE d == [r EXCEPT !.cedar = up_]
  <2>3. c = record_startup_error(d, fatal, "cedar")  BY <2>1, <2>2 DEF resolve_cedar, c
  <2>4. d \in Services /\ d.cedar = up_  BY <1>2 DEF Services
  <2> HIDE DEF c, d
  <2>5. "cedar" \in StartupErrors \ {"none"}  BY DEF StartupErrors
  <2>6. c \in Services /\ c.cedar = up_ /\ (Good(c) => ~fatal)
    BY <2>3, <2>4, <2>5, ChecksRecord DEF Checks, SameParts
  <2> QED  BY <2>2, <2>6 DEF CedarUp
<1> HIDE DEF c
<1>4. CedarUp(mount_graphql(c))
  BY <1>3 DEF CedarUp, mount_graphql, Services, Good
<1> QED  BY <1>4 DEF c, r, w

\* The stack of the HTTP router: every guard the configuration asks for.
CedarOn(b) == CedarUp(b) /\ (b.cedar => "cedar" \in Range(b.http))
TokenOn(b) == Good(b) => cfg.token # "invalid" /\ (cfg.token # "off" => "token" \in Range(b.http))
PolicyUp(b) == Good(b) => cfg.caller # "invalid" /\ b.policy = cfg.caller
CallerOn(b) == requires_client_ca(b) => "caller_auth" \in Range(b.http)
HttpGuarded(b) == CedarOn(b) /\ TokenOn(b) /\ PolicyUp(b) /\ CallerOn(b)

LEMMA SessionStage ==
    ASSUME NEW b, CedarUp(b), cfg \in ConfigFields
    PROVE  CedarUp(apply_session(general_middleware(b)))
<1> DEFINE g == general_middleware(b)
<1>1. CedarUp(g)
  <2>1. apply_middleware(cfg.switches) \in Seq(LayerNames)  BY GeneralStack
  <2> QED  BY <2>1 DEF CedarUp, general_middleware, Services, Good
<1> HIDE DEF g
<1>2. PICK layered \in BOOLEAN :
        layered = (cfg.session = "memory" \/ (cfg.session = "redis" /\ runtime_supports_block_in_place))
  OBVIOUS
<1>3. PICK wanted \in BOOLEAN : wanted <=> cfg.session \in {"redis", "redis_down"}  OBVIOUS
<1> DEFINE d == [g EXCEPT !.http = Added(@, layered, "session")]
<1>4. apply_session(g) = RefusedRuntime(d, wanted, "session")  BY <1>2, <1>3 DEF apply_session
<1>5. "session" \in LayerNames /\ "session" \in StartupErrors \ {"none"}  BY DEF LayerNames, StartupErrors
<1>6. g \in Services /\ g.http \in Seq(LayerNames)  BY <1>1 DEF CedarUp, Services
<1>7. PICK h \in Seq(LayerNames) : h = Added(g.http, layered, "session")  BY <1>5, <1>6, AddedLayer
<1>8. d = [g EXCEPT !.http = h]  BY <1>7
<1> HIDE DEF d
<1>9. d \in Services /\ d.cedar = g.cedar /\ d.startup_error = g.startup_error  BY <1>6, <1>8 DEF Services
<1>10. Checks(d, apply_session(g))  BY <1>4, <1>5, <1>9, ChecksRuntime
<1>11. CedarUp(apply_session(g))  BY <1>1, <1>9, <1>10 DEF CedarUp, Checks, SameParts, Good
<1> QED  BY <1>11 DEF g

LEMMA AuthorizationStage ==
    ASSUME NEW b, CedarUp(b), cfg \in ConfigFields
    PROVE  CedarOn(apply_authorization(b))
<1>1. b \in Services /\ b.http \in Seq(LayerNames) /\ b.cedar \in BOOLEAN /\ b.audit \in BOOLEAN /\ cfg.governor \in BOOLEAN
  BY DEF CedarUp, Services, ConfigFields
<1>2. PICK h \in Seq(LayerNames) : /\ h = authorization_layers(b.http, b.cedar, b.audit, cfg.governor)
                                   /\ b.cedar => "cedar" \in Range(h)
  BY <1>1, AuthorizationStack
<1>3. apply_authorization(b) = [b EXCEPT !.http = h]  BY <1>2 DEF apply_authorization
<1> DEFINE d == [b EXCEPT !.http = h]
<1>4. d \in Services /\ d.http = h /\ d.cedar = b.cedar /\ d.startup_error = b.startup_error
  BY <1>1, <1>2 DEF Services
<1> HIDE DEF d
<1>5. CedarOn(d)  BY <1>2, <1>4 DEF CedarOn, CedarUp, Good
<1> QED  BY <1>3, <1>5 DEF d

LEMMA TokenStage ==
    ASSUME NEW b, CedarOn(b), cfg \in ConfigFields
    PROVE  CedarOn(apply_token(b)) /\ TokenOn(apply_token(b))
<1>1. b \in Services /\ b.http \in Seq(LayerNames)  BY DEF CedarOn, CedarUp, Services
<1>2. PICK wanted \in BOOLEAN : wanted <=> cfg.token \in {"paseto", "jwt"}  OBVIOUS
<1>3. PICK fatal \in BOOLEAN : fatal = (cfg.token = "invalid")  OBVIOUS
<1>4. "token" \in LayerNames /\ "token" \in StartupErrors \ {"none"}  BY DEF LayerNames, StartupErrors
<1>5. PICK h \in Seq(LayerNames) : /\ h = Added(b.http, wanted, "token")
                                   /\ Range(b.http) \subseteq Range(h) /\ (wanted => "token" \in Range(h))
  BY <1>1, <1>4, AddedLayer
<1> DEFINE d == [b EXCEPT !.http = h]
<1>6. apply_token(b) = record_startup_error(d, fatal, "token")  BY <1>2, <1>3, <1>5 DEF apply_token
<1>7. d \in Services /\ d.http = h /\ d.cedar = b.cedar /\ d.startup_error = b.startup_error
  BY <1>1, <1>5 DEF Services
<1> HIDE DEF d
<1>8. PICK t : t = apply_token(b)  OBVIOUS
<1>9. Checks(d, t) /\ (Good(t) => ~fatal)  BY <1>4, <1>6, <1>7, <1>8, ChecksRecord
<1>10. t \in Services /\ t.http = h /\ t.cedar = b.cedar /\ (Good(t) => Good(b) /\ ~fatal)
  BY <1>7, <1>9 DEF Checks, SameParts, Good
<1>11. CedarOn(t)  BY <1>5, <1>10 DEF CedarOn, CedarUp
<1>12. TokenOn(t)
  <2> SUFFICES ASSUME Good(t)
               PROVE  cfg.token # "invalid" /\ (cfg.token # "off" => "token" \in Range(t.http))
    BY DEF TokenOn
  <2>1. cfg.token # "invalid"  BY <1>3, <1>10
  <2>2. CASE wanted  BY <1>5, <1>10, <2>1, <2>2
  <2>3. CASE ~wanted
    <3>1. cfg.token \in {"off", "paseto", "jwt", "invalid"}  BY DEF ConfigFields
    <3> QED  BY <1>2, <2>1, <2>3, <3>1
  <2> QED  BY <2>2, <2>3
<1> QED  BY <1>8, <1>11, <1>12

LEMMA CallerStage ==
    ASSUME NEW b, CedarOn(b), TokenOn(b), cfg \in ConfigFields
    PROVE  HttpGuarded(apply_caller_auth(b))
<1>1. b \in Services /\ b.http \in Seq(LayerNames) /\ b.audit \in BOOLEAN  BY DEF CedarOn, CedarUp, Services
<1>2. cfg.caller \in {"off", "invalid", "bearer", "mtls", "mtls-or-bearer"}  BY DEF ConfigFields
<1> DEFINE q == IF cfg.caller = "invalid" THEN "off" ELSE cfg.caller
           p == [b EXCEPT !.policy = q]
<1>3. q \in {"off", "bearer", "mtls", "mtls-or-bearer"}  BY <1>2
<1> HIDE DEF q
<1>4. /\ p \in Services /\ p.policy = q /\ p.http = b.http /\ p.cedar = b.cedar
      /\ p.startup_error = b.startup_error
  BY <1>1, <1>3 DEF Services
<1>5. PICK asks \in BOOLEAN : asks <=> requires_client_ca(p)  OBVIOUS
<1>6. PICK fatal \in BOOLEAN : fatal = (cfg.caller = "invalid")  OBVIOUS
<1>7. "caller" \in StartupErrors \ {"none"}  BY DEF StartupErrors
<1>8. PICK h \in Seq(LayerNames) : /\ h = caller_layers(b.http, asks, b.audit)
                                   /\ Range(b.http) \subseteq Range(h) /\ (asks => "caller_auth" \in Range(h))
  BY <1>1, <1>5, CallerStack
<1> DEFINE d == [p EXCEPT !.http = h]
<1>9. apply_caller_auth(b) = record_startup_error(d, fatal, "caller")
  <2>1. apply_caller_auth(b) = record_startup_error(
            [p EXCEPT !.http = caller_layers(@, requires_client_ca(p), b.audit)], cfg.caller = "invalid", "caller")
    BY DEF apply_caller_auth, q
  <2> HIDE DEF p
  <2>2. caller_layers(p.http, requires_client_ca(p), b.audit) = h
    BY <1>4, <1>5, <1>8 DEF caller_layers, Added
  <2>3. [p EXCEPT !.http = caller_layers(@, requires_client_ca(p), b.audit)] = d  BY <2>2
  <2> QED  BY <1>6, <2>1, <2>3
<1>10. d \in Services /\ d.http = h /\ d.cedar = b.cedar /\ d.policy = q /\ d.startup_error = b.startup_error
  BY <1>4, <1>8 DEF Services
<1> HIDE DEF d, p
<1>11. PICK t : t = apply_caller_auth(b)  OBVIOUS
<1>12. Checks(d, t) /\ (Good(t) => ~fatal)  BY <1>7, <1>9, <1>10, <1>11, ChecksRecord
<1>13. t \in Services /\ t.http = h /\ t.cedar = b.cedar /\ t.policy = q /\ (Good(t) => Good(b) /\ ~fatal)
  BY <1>10, <1>12 DEF Checks, SameParts, Good
<1>14. CedarOn(t)  BY <1>8, <1>13 DEF CedarOn, CedarUp
<1>15. TokenOn(t)  BY <1>8, <1>13 DEF TokenOn
<1>16. PolicyUp(t)  BY <1>6, <1>13 DEF PolicyUp, q
<1>17. CallerOn(t)
  <2>1. requires_client_ca(t) => asks  BY <1>4, <1>5, <1>13 DEF requires_client_ca
  <2> QED  BY <1>8, <1>13, <2>1 DEF CallerOn
<1> QED  BY <1>11, <1>14, <1>15, <1>16, <1>17 DEF HttpGuarded

\* The credentials of the listeners.
TlsUp(b) == Good(b) => ((cfg.tls_override \/ Enabled(cfg.tls)) <=> b.tls # "none")
GrpcTlsUp(b) ==
    Good(b) => (b.grpc_tls # "none" <=> \/ cfg.grpc_override \/ Enabled(cfg.grpc_tls)
                                        \/ cfg.grpc_tls = "absent" /\ b.tls # "none")

LEMMA GuardedKept ==
    ASSUME NEW b, NEW r, HttpGuarded(b), r \in Services, r.http = b.http, r.cedar = b.cedar,
           r.policy = b.policy, Good(r) => Good(b)
    PROVE  HttpGuarded(r)
  BY DEF HttpGuarded, CedarOn, CedarUp, TokenOn, PolicyUp, CallerOn, requires_client_ca

LEMMA TlsStage ==
    ASSUME NEW b, HttpGuarded(b), cfg \in ConfigFields
    PROVE  HttpGuarded(resolve_tls(b)) /\ TlsUp(resolve_tls(b))
<1>1. b \in Services  BY DEF HttpGuarded, CedarOn, CedarUp
<1> DEFINE v == IF cfg.tls_override THEN "injected"
                ELSE IF Enabled(cfg.tls) /\ from_tls_config(cfg.tls) THEN "loaded" ELSE "none"
           d == [b EXCEPT !.tls = v]
<1>2. v \in {"none", "injected", "loaded"}  OBVIOUS
<1>3. PICK fatal \in BOOLEAN :
        fatal <=> ~cfg.tls_override /\ Enabled(cfg.tls) /\ ~from_tls_config(cfg.tls)
  OBVIOUS
<1>4. resolve_tls(b) = record_startup_error(d, fatal, "tls")
  BY <1>3 DEF resolve_tls, record_startup_error
<1>5. ~fatal => ((cfg.tls_override \/ Enabled(cfg.tls)) <=> v # "none")  BY <1>3
<1> HIDE DEF v
<1>6. /\ d \in Services /\ d.tls = v /\ d.http = b.http /\ d.cedar = b.cedar /\ d.policy = b.policy
      /\ d.startup_error = b.startup_error
  BY <1>1, <1>2 DEF Services
<1> HIDE DEF d
<1>7. "tls" \in StartupErrors \ {"none"}  BY DEF StartupErrors
<1>8. PICK t : t = resolve_tls(b)  OBVIOUS
<1>9. Checks(d, t) /\ (Good(t) => ~fatal)  BY <1>4, <1>6, <1>7, <1>8, ChecksRecord
<1>10. /\ t \in Services /\ t.tls = v /\ t.http = b.http /\ t.cedar = b.cedar /\ t.policy = b.policy
       /\ (Good(t) => Good(b) /\ ~fatal)
  BY <1>6, <1>9 DEF Checks, SameParts, Good
<1>11. HttpGuarded(t)  BY <1>10, GuardedKept
<1>12. TlsUp(t)  BY <1>5, <1>10 DEF TlsUp
<1> QED  BY <1>8, <1>11, <1>12

LEMMA GrpcTlsStage ==
    ASSUME NEW b, HttpGuarded(b), TlsUp(b), cfg \in ConfigFields
    PROVE  HttpGuarded(resolve_grpc_tls(b)) /\ TlsUp(resolve_grpc_tls(b)) /\ GrpcTlsUp(resolve_grpc_tls(b))
<1>1. b \in Services /\ b.tls \in {"none", "injected", "loaded"}  BY DEF HttpGuarded, CedarOn, CedarUp, Services
<1> DEFINE v == IF cfg.grpc_override THEN "injected"
                ELSE IF Enabled(cfg.grpc_tls) /\ from_tls_config(cfg.grpc_tls) THEN "loaded"
                ELSE IF cfg.grpc_tls = "absent" THEN b.tls ELSE "none"
           d == [b EXCEPT !.grpc_tls = v]
<1>2. v \in {"none", "injected", "loaded"}  BY <1>1
<1>3. PICK fatal \in BOOLEAN :
        fatal <=> ~cfg.grpc_override /\ Enabled(cfg.grpc_tls) /\ ~from_tls_config(cfg.grpc_tls)
  OBVIOUS
<1>4. resolve_grpc_tls(b) = record_startup_error(d, fatal, "grpc_tls")
  BY <1>3 DEF resolve_grpc_tls, record_startup_error
<1>5. ~fatal => (v # "none" <=> \/ cfg.grpc_override \/ Enabled(cfg.grpc_tls)
                                \/ cfg.grpc_tls = "absent" /\ b.tls # "none")
  BY <1>3
<1> HIDE DEF v
<1>6. /\ d \in Services /\ d.grpc_tls = v /\ d.tls = b.tls /\ d.http = b.http /\ d.cedar = b.cedar
      /\ d.policy = b.policy /\ d.startup_error = b.startup_error
  BY <1>1, <1>2 DEF Services
<1> HIDE DEF d
<1>7. "grpc_tls" \in StartupErrors \ {"none"}  BY DEF StartupErrors
<1>8. PICK t : t = resolve_grpc_tls(b)  OBVIOUS
<1>9. Checks(d, t) /\ (Good(t) => ~fatal)  BY <1>4, <1>6, <1>7, <1>8, ChecksRecord
<1>10. /\ t \in Services /\ t.grpc_tls = v /\ t.tls = b.tls /\ t.http = b.http /\ t.cedar = b.cedar
       /\ t.policy = b.policy /\ (Good(t) => Good(b) /\ ~fatal)
  BY <1>6, <1>9 DEF Checks, SameParts, Good
<1>11. HttpGuarded(t)  BY <1>10, GuardedKept
<1>12. TlsUp(t)  BY <1>10 DEF TlsUp
<1>13. GrpcTlsUp(t)  BY <1>5, <1>10 DEF GrpcTlsUp
<1> QED  BY <1>8, <1>11, <1>12, <1>13

\* What is checked once both listeners are known.
Validated(b) ==
    Good(b) => /\ validate_listener(b, http_client_ca)
               /\ SeparateGrpc => validate_listener(b, grpc_client_ca)
               /\ cfg.services => cfg.grpc \in {"shared", "separate"}

LEMMA CheckStages ==
    ASSUME NEW b \in Services, cfg \in ConfigFields
    PROVE  LET s == cross_check_caller_auth(b)
               t == validate_handshake_timeouts(validate_reload_intervals(s))
               r == resolve_exporter(grpc_registration_error(t))
           IN  Checks(b, r) /\ Validated(r)
<1> DEFINE s == cross_check_caller_auth(b)
           i == validate_reload_intervals(s)
           t == validate_handshake_timeouts(i)
           g == grpc_registration_error(t)
           r == resolve_exporter(g)
<1>0. {"client_ca", "interval", "timeout", "registration", "exporter"} \subseteq StartupErrors \ {"none"}
  BY DEF StartupErrors
<1>1. Checks(b, s) /\ (Good(s) => /\ validate_listener(b, http_client_ca)
                                  /\ SeparateGrpc => validate_listener(b, grpc_client_ca))
  <2>1. PICK fatal \in BOOLEAN : fatal <=> \/ ~validate_listener(b, http_client_ca)
                                           \/ SeparateGrpc /\ ~validate_listener(b, grpc_client_ca)
    OBVIOUS
  <2>2. s = record_startup_error(b, fatal, "client_ca")  BY <2>1 DEF cross_check_caller_auth, record_startup_error
  <2> QED  BY <1>0, <2>1, <2>2, ChecksRecord
<1> HIDE DEF s
<1>2. Checks(s, i)
  <2>1. PICK fatal \in BOOLEAN : fatal <=> \E x \in {cfg.tls, cfg.grpc_tls} : ~validate_reload_interval(x)
    OBVIOUS
  <2>2. i = record_startup_error(s, fatal, "interval")  BY <2>1 DEF validate_reload_intervals, record_startup_error
  <2> QED  BY <1>0, <1>1, <2>2, ChecksRecord DEF Checks
<1> HIDE DEF i
<1>3. Checks(i, t)
  <2>1. PICK fatal \in BOOLEAN : fatal <=> \E x \in {cfg.tls, cfg.grpc_tls} : ~validate_handshake_timeout(x)
    OBVIOUS
  <2>2. t = record_startup_error(i, fatal, "timeout")  BY <2>1 DEF validate_handshake_timeouts, record_startup_error
  <2> QED  BY <1>0, <1>2, <2>2, ChecksRecord DEF Checks
<1> HIDE DEF t
<1>4. Checks(t, g) /\ (Good(g) => (cfg.services => cfg.grpc \in {"shared", "separate"}))
  <2>1. PICK fatal \in BOOLEAN : fatal <=> cfg.services /\ cfg.grpc \in {"absent", "disabled"}
    OBVIOUS
  <2>2. g = record_startup_error(t, fatal, "registration")  BY <2>1 DEF grpc_registration_error, record_startup_error
  <2>3. cfg.grpc \in {"absent", "disabled", "shared", "separate"}  BY DEF ConfigFields
  <2>4. Checks(t, g) /\ (Good(g) => ~fatal)  BY <1>0, <1>3, <2>2, ChecksRecord DEF Checks
  <2> QED  BY <2>1, <2>3, <2>4
<1> HIDE DEF g
<1>5. Checks(g, r)
  <2>1. PICK on \in BOOLEAN : on <=> cfg.exporter # "off" /\ resolve_exporter_addr  OBVIOUS
  <2>2. PICK fatal \in BOOLEAN : fatal <=> ~resolve_exporter_addr  OBVIOUS
  <2> DEFINE d == [g EXCEPT !.exporter = on]
  <2>3. g \in Services  BY <1>4 DEF Checks
  <2>4. Checks(g, d)  BY <2>1, <2>3 DEF Services, Checks, SameParts, Good
  <2>5. r = record_startup_error(d, fatal, "exporter")
    <3>1. (cfg.exporter # "off" /\ resolve_exporter_addr) = on  BY <2>1 DEF resolve_exporter_addr
    <3> QED  BY <2>2, <3>1 DEF resolve_exporter, record_startup_error
  <2> HIDE DEF d
  <2>6. Checks(d, r)  BY <1>0, <2>4, <2>5, ChecksRecord DEF Checks
  <2> QED  BY <2>4, <2>6, ChecksTwice
<1> HIDE DEF r
<1>6. Checks(s, t) /\ Checks(t, r)  BY <1>2, <1>3, <1>4, <1>5, ChecksTwice
<1>7. Checks(b, r)  BY <1>1, <1>6, ChecksTwice
<1>8. Validated(r)
  <2>1. Good(r) => Good(g) /\ Good(s)  BY <1>5, <1>6 DEF Checks
  <2>2. r.policy = b.policy  BY <1>7 DEF Checks, SameParts
  <2> QED  BY <1>1, <1>4, <2>1, <2>2 DEF Validated, validate_listener, requires_client_ca
<1> QED  BY <1>7, <1>8 DEF s, i, t, g, r

\* The gRPC router has its own stack, from the same settings.
LEMMA GrpcStage ==
    ASSUME NEW b, HttpGuarded(b), TlsUp(b), GrpcTlsUp(b), Validated(b), cfg \in ConfigFields
    PROVE  /\ build_grpc_router(b) \in Services
           /\ Good(build_grpc_router(b)) => Assured(build_grpc_router(b))
<1>1. b \in Services /\ b.cedar \in BOOLEAN /\ b.audit \in BOOLEAN
  BY DEF HttpGuarded, CedarOn, CedarUp, Services
<1>2. PICK token \in BOOLEAN : token <=> cfg.token \in {"paseto", "jwt"}  OBVIOUS
<1>3. PICK asks \in BOOLEAN : asks <=> requires_client_ca(b)  OBVIOUS
<1>4. PICK full \in Seq(LayerNames) :
        /\ full = grpc_stack(b.cedar, token, asks, b.audit)
        /\ b.cedar => "cedar" \in Range(full)
        /\ token => "token" \in Range(full)
        /\ asks => "caller_auth" \in Range(full)
  BY <1>1, <1>2, <1>3, GrpcStack
<1>5. grpc_stack(b.cedar, cfg.token \in {"paseto", "jwt"}, requires_client_ca(b), b.audit) = full
  BY <1>2, <1>3, <1>4 DEF grpc_stack, caller_layers, Added
<1>6. PICK h \in Seq(LayerNames) : h = IF ~cfg.services THEN << >> ELSE full
  <2>1. << >> \in Seq(LayerNames)  OBVIOUS
  <2>2. (IF ~cfg.services THEN << >> ELSE full) \in Seq(LayerNames)  BY <1>4, <2>1
  <2> QED  BY <2>2
<1>7. PICK r : r = [b EXCEPT !.grpc = h]  OBVIOUS
<1>8. build_grpc_router(b) = r  BY <1>5, <1>6, <1>7 DEF build_grpc_router
<1>9. /\ r \in Services /\ r.grpc = h /\ r.http = b.http /\ r.tls = b.tls /\ r.grpc_tls = b.grpc_tls
      /\ r.startup_error = b.startup_error
  BY <1>1, <1>6, <1>7 DEF Services
<1>10. ASSUME Good(r) PROVE Assured(r)
  <2>1. Good(b)  BY <1>9, <1>10 DEF Good
  <2>2. /\ cfg.token # "off" => token /\ "token" \in Range(b.http)
        /\ cfg.token \in {"off", "paseto", "jwt", "invalid"}
    BY <1>2, <2>1 DEF HttpGuarded, TokenOn, ConfigFields
  <2>3. cfg.cedar # "off" => b.cedar /\ "cedar" \in Range(b.http)
    BY <2>1 DEF HttpGuarded, CedarOn, CedarUp
  <2>4. b.policy = cfg.caller /\ cfg.caller # "invalid"  BY <2>1 DEF HttpGuarded, PolicyUp
  <2>5. cfg.caller \in {"off", "bearer", "mtls", "mtls-or-bearer"}  BY <2>4 DEF ConfigFields
  <2>6. cfg.caller \notin {"off", "bearer"} => asks /\ "caller_auth" \in Range(b.http)
    BY <1>3, <2>4, <2>5 DEF HttpGuarded, CallerOn, requires_client_ca
  <2>7. GuardedBy(r.http)  BY <1>9, <2>2, <2>3, <2>6 DEF GuardedBy
  <2>8. cfg.services => GuardedBy(r.grpc) /\ cfg.grpc \in {"shared", "separate"}
    <3> SUFFICES ASSUME cfg.services PROVE GuardedBy(r.grpc) /\ cfg.grpc \in {"shared", "separate"}  OBVIOUS
    <3>1. r.grpc = full  BY <1>6, <1>9
    <3>2. GuardedBy(full)  BY <1>4, <2>2, <2>3, <2>6 DEF GuardedBy
    <3> QED  BY <2>1, <3>1, <3>2 DEF Validated
  <2>9. (cfg.tls_override \/ Enabled(cfg.tls)) <=> r.tls # "none"  BY <1>9, <2>1 DEF TlsUp
  <2>10. r.grpc_tls # "none" <=> \/ cfg.grpc_override \/ Enabled(cfg.grpc_tls)
                                 \/ cfg.grpc_tls = "absent" /\ r.tls # "none"
    BY <1>9, <2>1 DEF GrpcTlsUp
  <2>11. cfg.caller \in {"mtls", "mtls-or-bearer"} =>
           /\ http_client_ca \in {"Verified", "Unknown"}
           /\ SeparateGrpc => grpc_client_ca \in {"Verified", "Unknown"}
    BY <2>1, <2>4 DEF Validated, validate_listener, requires_client_ca
  <2> QED  BY <2>7, <2>8, <2>9, <2>10, <2>11 DEF Assured
<1> QED  BY <1>8, <1>9, <1>10

LEMMA LayersStage ==
    ASSUME PoolInv, cfg \in ConfigFields, NEW b \in Services
    PROVE  LET routed == mount_graphql(resolve_cedar(mount_routes(wire_state(b))))
               layered == apply_caller_auth(apply_token(apply_authorization(
                              apply_session(general_middleware(routed)))))
               secured == cross_check_caller_auth(resolve_grpc_tls(resolve_tls(layered)))
               timed == validate_handshake_timeouts(validate_reload_intervals(secured))
               r == build_grpc_router(resolve_exporter(grpc_registration_error(timed)))
           IN  r \in Services /\ (Good(r) => Assured(r))
<1> DEFINE routed == mount_graphql(resolve_cedar(mount_routes(wire_state(b))))
           authorized == apply_authorization(apply_session(general_middleware(routed)))
           layered == apply_caller_auth(apply_token(authorized))
           tls == resolve_grpc_tls(resolve_tls(layered))
           secured == cross_check_caller_auth(tls)
           timed == validate_handshake_timeouts(validate_reload_intervals(secured))
           checked == resolve_exporter(grpc_registration_error(timed))
<1>1. CedarUp(routed)  BY RoutedStages
<1> HIDE DEF routed
<1>2. CedarOn(authorized)  BY <1>1, SessionStage, AuthorizationStage
<1> HIDE DEF authorized
<1>3. HttpGuarded(layered)  BY <1>2, TokenStage, CallerStage
<1> HIDE DEF layered
<1>4. HttpGuarded(tls) /\ TlsUp(tls) /\ GrpcTlsUp(tls)  BY <1>3, TlsStage, GrpcTlsStage
<1> HIDE DEF tls
<1>5. tls \in Services  BY <1>4 DEF HttpGuarded, CedarOn, CedarUp
<1>6. Checks(tls, checked) /\ Validated(checked)  BY <1>5, CheckStages
<1> HIDE DEF checked
<1>7. HttpGuarded(checked)  BY <1>4, <1>6, GuardedKept DEF Checks, SameParts
<1>8. TlsUp(checked) /\ GrpcTlsUp(checked)  BY <1>4, <1>6 DEF Checks, SameParts, TlsUp, GrpcTlsUp
<1>9. build_grpc_router(checked) \in Services
      /\ (Good(build_grpc_router(checked)) => Assured(build_grpc_router(checked)))
  BY <1>6, <1>7, <1>8, GrpcStage
<1> QED  BY <1>9 DEF checked, timed, secured, tls, layered, authorized, routed

-----------------------------------------------------------------------------
(* The posture of the listeners.                                           *)

\* What Assured says depends on the configuration and on the service only.
LEMMA AssuredKept ==
    ASSUME cfg' = cfg, service' = service
    PROVE  Assured(service)' <=> Assured(service)
  BY DEF Assured, GuardedBy, http_client_ca, grpc_client_ca, SeparateGrpc

LEMMA ServePosture ==
    ASSUME PostureInv, serve
    PROVE  PostureInv'
<1>1. UNCHANGED <<cfg, service>>
  BY DEF serve, RefuseStartup, StartExporter, BindListeners, ShutdownAgents, ShutdownExporter, Drain, Serving
<1>2. Assured(service)' <=> Assured(service)  BY <1>1, AssuredKept
<1>3. \/ stage' \in {"agents", "ended"}
      \/ stage = "built" /\ Good(service) /\ stage' = "bind"
      \/ stage = "bind" /\ stage' = "serving"
      \/ stage' = stage
  BY DEF serve, RefuseStartup, StartExporter, BindListeners, ShutdownAgents, ShutdownExporter, Drain, Serving, Good
<1> QED  BY <1>1, <1>2, <1>3 DEF PostureInv, Good

LEMMA BuildPosture ==
    ASSUME TypeInv, PostureInv, build
    PROVE  PostureInv'
<1>0. PoolInv /\ cfg \in ConfigFields /\ service \in Services  BY DEF TypeInv, ServeTypeOK, PostureInv
<1>1. cfg' = cfg  BY DEF build, Step
<1>2. CASE Step("pools", "rotation", fingerprint_config(spawn_audit(spawn_pools(service))))
  <2>1. service' \in Services /\ stage' = "rotation"  BY <1>0, <1>2, SpawnStages DEF Step
  <2> QED  BY <2>1 DEF PostureInv
<1>3. CASE Step("rotation", "layers", spawn_extensions(spawn_worker(start_rotation(service))))
  <2>1. service' \in Services /\ stage' = "layers"  BY <1>0, <1>3, SpawnStages DEF Step
  <2> QED  BY <2>1 DEF PostureInv
<1>4. ASSUME NEW r \in Services, Good(r) => Assured(r), Step("layers", "built", r)
      PROVE  PostureInv'
  <2>1. service' = r /\ stage' = "built"  BY <1>4 DEF Step
  <2>2. Good(service') => Assured(service')  BY <1>4, <2>1
  <2>3. Assured(service') => Assured(service)'
    BY <1>1 DEF Assured, GuardedBy, http_client_ca, grpc_client_ca, SeparateGrpc
  <2> QED  BY <1>4, <2>1, <2>2, <2>3 DEF PostureInv, Good
<1> QED  BY <1>0, <1>2, <1>3, <1>4, LayersStage DEF build

LEMMA StepPosture ==
    ASSUME TypeInv, PostureInv, [Next]_vars
    PROVE  PostureInv'
<1>1. CASE UNCHANGED <<cfg, stage, service>>
  BY <1>1, AssuredKept DEF PostureInv
<1>2. CASE build  BY <1>2, BuildPosture
<1>3. CASE serve  BY <1>3, ServePosture
<1>4. CASE shutdown_signal  BY <1>1, <1>4 DEF shutdown_signal
<1>5. CASE \E l \in Listeners : Request(l) \/ Respond(l)  BY <1>1, <1>5 DEF Request, Respond
<1>6. CASE UNCHANGED builder  BY <1>1, <1>6 DEF builder
<1> QED  BY <1>2, <1>3, <1>4, <1>5, <1>6, NextCases

LEMMA StepWritten ==
    ASSUME AsWritten, [Next]_vars
    PROVE  AsWritten'
<1>1. UNCHANGED <<written, cfg>>
  <2>1. CASE build  BY <2>1 DEF build, Step
  <2>2. CASE serve
    BY <2>2 DEF serve, RefuseStartup, StartExporter, BindListeners, ShutdownAgents, ShutdownExporter, Drain, Serving
  <2>3. CASE shutdown_signal  BY <2>3 DEF shutdown_signal
  <2>4. CASE \E l \in Listeners : Request(l) \/ Respond(l)  BY <2>4 DEF Request, Respond
  <2>5. CASE UNCHANGED builder  BY <2>5 DEF builder
  <2> QED  BY <2>1, <2>2, <2>3, <2>4, <2>5, NextCases
<1> QED  BY <1>1 DEF AsWritten

LEMMA InitPosture ==
    ASSUME Init
    PROVE  PostureInv
<1>1. stage = "pools" /\ service = NothingBuilt  BY DEF Init
<1>2. NothingBuilt \in Services  BY DEF NothingBuilt, Services, StartupErrors
<1> QED  BY <1>1, <1>2 DEF PostureInv

\* No deployment has a configuration file that does not parse.
NoneMalformed == \A c \in Configs : ~c.malformed

LEMMA InitWritten ==
    ASSUME Init, NoneMalformed
    PROVE  AsWritten
<1>1. PICK c \in Configs : /\ written = FoldLeft(LAMBDA acc, layer : layer @@ acc, c.base, c.layers)
                           /\ cfg = Load(c)
  BY DEF Init
<1>2. cfg = load_for_service(c.base, c.layers)  BY <1>1 DEF Load, NoneMalformed
<1> QED  BY <1>1, <1>2 DEF load_for_service, AsWritten

LEMMA PostureFollows ==
    ASSUME PostureInv, OpenWhileServing, AsWritten
    PROVE  PostureAsConfigured
<1>0. written = cfg  BY DEF AsWritten
<1>1. ASSUME NEW l \in {"http", "grpc"}, listener[l] = "open"
      PROVE  Assured(service) /\ (l = "grpc" => SeparateGrpc /\ cfg.services)
  <2>1. stage = "serving" /\ l \in Bound  BY <1>1 DEF OpenWhileServing
  <2> QED  BY <2>1 DEF PostureInv, Bound, SeparateGrpc
<1>2. \A stack : GuardedBy(stack) <=> Guards(stack)  BY <1>0 DEF GuardedBy, Guards
<1>3. ASSUME Assured(service), cfg.caller \in {"mtls", "mtls-or-bearer"}
      PROVE  /\ cfg.tls_override \/ cfg.tls = "ca"
             /\ SeparateGrpc /\ ~cfg.grpc_override =>
                  cfg.grpc_tls = "ca" \/ (cfg.grpc_tls = "absent" /\ (cfg.tls_override \/ cfg.tls = "ca"))
  <2>1. http_client_ca \in {"Verified", "Unknown"}  BY <1>3 DEF Assured
  <2>2. cfg.tls_override \/ cfg.tls = "ca"  BY <2>1 DEF http_client_ca, listener_client_ca
  <2>3. SeparateGrpc => grpc_client_ca \in {"Verified", "Unknown"}  BY <1>3 DEF Assured
  <2> QED  BY <2>2, <2>3 DEF grpc_client_ca, listener_client_ca
<1>4. ASSUME listener["http"] = "open"
      PROVE  /\ Guards(service.http)
             /\ (written.tls_override \/ Enabled(written.tls)) = (service.tls # "none")
             /\ written.caller \in {"mtls", "mtls-or-bearer"} => written.tls_override \/ written.tls = "ca"
             /\ written.services => written.grpc \in {"shared", "separate"} /\ Guards(service.grpc)
  <2>1. Assured(service)  BY <1>1, <1>4
  <2>2. Guards(service.http)  BY <1>2, <2>1 DEF Assured
  <2>3. (written.tls_override \/ Enabled(written.tls)) <=> service.tls # "none"  BY <1>0, <2>1 DEF Assured
  <2>4. written.caller \in {"mtls", "mtls-or-bearer"} => written.tls_override \/ written.tls = "ca"
    BY <1>0, <1>3, <2>1
  <2>5. written.services => written.grpc \in {"shared", "separate"} /\ Guards(service.grpc)
    BY <1>0, <1>2, <2>1 DEF Assured
  <2> QED  BY <2>2, <2>3, <2>4, <2>5
<1>5. ASSUME listener["grpc"] = "open"
      PROVE  /\ Guards(service.grpc)
             /\ (service.grpc_tls # "none")
                  = (written.grpc_override \/ Enabled(written.grpc_tls)
                      \/ (written.grpc_tls = "absent" /\ service.tls # "none"))
             /\ written.caller \in {"mtls", "mtls-or-bearer"} /\ ~written.grpc_override =>
                  written.grpc_tls = "ca" \/ (written.grpc_tls = "absent" /\ (written.tls_override \/ written.tls = "ca"))
  <2>1. Assured(service) /\ SeparateGrpc /\ cfg.services  BY <1>1, <1>5
  <2>2. Guards(service.grpc)  BY <1>2, <2>1 DEF Assured
  <2>3. service.grpc_tls # "none" <=> (written.grpc_override \/ Enabled(written.grpc_tls)
                      \/ (written.grpc_tls = "absent" /\ service.tls # "none"))
    BY <1>0, <2>1 DEF Assured
  <2>4. written.caller \in {"mtls", "mtls-or-bearer"} /\ ~written.grpc_override =>
          written.grpc_tls = "ca" \/ (written.grpc_tls = "absent" /\ (written.tls_override \/ written.tls = "ca"))
    BY <1>0, <1>3, <2>1
  <2> QED  BY <2>2, <2>3, <2>4
<1> QED  BY <1>4, <1>5 DEF PostureAsConfigured

\* Whatever is configured, from however many files, as long as each of them
\* parses: a listener that accepts has every guard, credential and client
\* certificate requirement that was configured.  A file that does not parse is
\* the exception the code makes, and a run shows what it costs.
THEOREM PostureHolds ==
    ASSUME NoneMalformed
    PROVE  Spec => []PostureAsConfigured
<1>1. Init => TypeInv /\ ShutdownInv /\ PostureInv /\ AsWritten
  BY InitType, InitShutdown, InitPosture, InitWritten
<1>2. TypeInv /\ ShutdownInv /\ PostureInv /\ AsWritten /\ [Next]_vars
        => TypeInv' /\ ShutdownInv' /\ PostureInv' /\ AsWritten'
  BY StepType, StepShutdown, StepPosture, StepWritten
<1>3. TypeInv /\ ShutdownInv /\ PostureInv /\ AsWritten => PostureAsConfigured
  BY PostureFollows DEF ShutdownInv
<1> QED  BY <1>1, <1>2, <1>3, PTL DEF Spec

=============================================================================
