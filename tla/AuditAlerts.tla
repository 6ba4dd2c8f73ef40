---------------------------- MODULE AuditAlerts ----------------------------
(***************************************************************************)
(* Alerting on audit storage failures: FailureTracker of                   *)
(* audit/failure_tracker.rs, fed by the audit agent and its writer task,   *)
(* and the hooks it spawns (audit/alert.rs, audit/alert_webhook.rs).       *)
(*                                                                         *)
(* The tracker's state changes under one mutex; an event is handed to the  *)
(* hooks by a task spawned after the lock is dropped, so hooks run in any  *)
(* order.  `log' records the outcomes of storage operations; the           *)
(* properties compare what was sent with it.                               *)
(***************************************************************************)
EXTENDS Integers, Sequences, SequencesExt

CONSTANTS
    Threshold,          \* threshold_secs
    Cooldown,           \* cooldown_secs
    NotifyRecovery,     \* notify_recovery
    MaxTime,            \* bound: clock ticks
    MaxOutcomes         \* bound: storage operations in one behaviour

ASSUME AlertsAssumption ==
    /\ Threshold \in Nat /\ Cooldown \in Nat
    /\ NotifyRecovery \in BOOLEAN
    /\ MaxTime \in Nat \ {0} /\ MaxOutcomes \in Nat

Never == 0              \* Option::None of an Instant; the clock starts at 1

\* AuditAlertEvent: outcome names the storage operation that triggered it.
Events ==
    [kind : {"unreachable", "recovered"}, outage_start : 1 .. MaxTime,
     count : Nat, at : 1 .. MaxTime, outcome : Nat \ {0}]

VARIABLES
    now,                \* the clock
    first_failure_at,   \* TrackerState
    affected,           \* events_affected_during_outage, consecutive_failures
    last_alert_at,
    alert_active,
    log,                \* outcomes so far: [ok, at]
    sent,               \* events passed to dispatch, in lock order
    delivered           \* positions in sent of the events the hook received

alertVars == <<now, first_failure_at, affected, last_alert_at, alert_active, log, sent, delivered>>

AlertsInit ==
    /\ now = 1
    /\ first_failure_at = Never /\ affected = 0
    /\ last_alert_at = Never /\ alert_active = FALSE
    /\ log = <<>> /\ sent = <<>> /\ delivered = <<>>

-----------------------------------------------------------------------------

ClockTick ==
    /\ now < MaxTime
    /\ now' = now + 1
    /\ UNCHANGED <<first_failure_at, affected, last_alert_at, alert_active, log, sent, delivered>>

Outcome(ok) ==
    /\ Len(log) < MaxOutcomes
    /\ log' = Append(log, [ok |-> ok, at |-> now])

Event(kind, start, count) ==
    [kind |-> kind, outage_start |-> start, count |-> count, at |-> now, outcome |-> Len(log) + 1]

\* Mutant of MayAlert: the cooldown is measured from the outage.
MayAlert_OutageCooldown(start) ==
    /\ now - start >= Threshold
    /\ ~alert_active \/ now - last_alert_at >= Cooldown

\* Mutant of MayAlert: one alert in the life of the process.
MayAlert_Once(start) ==
    /\ now - start >= Threshold
    /\ last_alert_at = Never

\* Long enough into the outage, and not within the cooldown.
MayAlert(start) ==
    /\ now - start >= Threshold
    /\ last_alert_at = Never \/ now - last_alert_at >= Cooldown

record_failure ==
    LET start == IF first_failure_at = Never THEN now ELSE first_failure_at IN
    /\ Outcome(FALSE)
    /\ first_failure_at' = start
    /\ affected' = affected + 1
    /\ \/ /\ MayAlert(start)
          /\ last_alert_at' = now /\ alert_active' = TRUE
          /\ sent' = Append(sent, Event("unreachable", start, affected + 1))
       \/ /\ ~MayAlert(start)
          /\ UNCHANGED <<last_alert_at, alert_active, sent>>
    /\ UNCHANGED <<now, delivered>>

\* Mutant of ResetAfterOutage: the alert stays active.
ResetAfterOutage_KeepsAlert ==
    /\ first_failure_at' = Never /\ affected' = 0
    /\ UNCHANGED <<alert_active, last_alert_at>>

\* The fields record_success clears; last_alert_at is not among them.
ResetAfterOutage ==
    /\ first_failure_at' = Never /\ affected' = 0 /\ alert_active' = FALSE
    /\ UNCHANGED last_alert_at

RecoveryDue == alert_active /\ NotifyRecovery

record_success ==
    /\ Outcome(TRUE)
    /\ sent' = IF RecoveryDue
               THEN Append(sent, Event("recovered", first_failure_at, affected))
               ELSE sent
    /\ ResetAfterOutage
    /\ UNCHANGED <<now, delivered>>

\* dispatch spawns a task per event: any pending one may run next.
on_alert ==
    \E k \in DOMAIN sent :
        /\ k \notin ToSet(delivered)
        /\ delivered' = Append(delivered, k)
        /\ UNCHANGED <<now, first_failure_at, affected, last_alert_at, alert_active, log, sent>>

AlertsNext == ClockTick \/ record_failure \/ record_success \/ on_alert

AlertsSpec == AlertsInit /\ [][AlertsNext]_alertVars

-----------------------------------------------------------------------------
(* Properties.  An outage is a maximal run of failures in the log.         *)

\* The tracker's state keeps its types; an event always has the start of its
\* outage (record_success unwraps first_failure_wall).
AlertsTypeOK ==
    /\ now \in 1 .. MaxTime
    /\ first_failure_at \in Never .. MaxTime /\ last_alert_at \in Never .. MaxTime
    /\ affected \in Nat /\ alert_active \in BOOLEAN
    /\ log \in Seq([ok : BOOLEAN, at : 1 .. MaxTime])
    /\ sent \in Seq(Events) /\ delivered \in Seq(Nat)

\* Outcomes j .. k are failures.
Failing(j, k) == \A n \in j .. k : ~log[n].ok

\* First outcome of the outage that outcome k, a failure, belongs to.
OutageStart(k) ==
    CHOOSE j \in 1 .. k : Failing(j, k) /\ (j = 1 \/ log[j - 1].ok)

Alerts == {e \in ToSet(sent) : e.kind = "unreachable"}
Recoveries == {e \in ToSet(sent) : e.kind = "recovered"}

Alerted(j, k) == \E e \in Alerts : e.outcome \in j .. k

\* Two alerts are never closer than cooldown_secs, in one outage or across
\* outages (record_failure keeps last_alert_at through a recovery).
AlertsSpaced ==
    \A d, e \in Alerts : d.outcome < e.outcome => e.at - d.at >= Cooldown

\* A success reports a recovery exactly when the outage it ends was alerted,
\* with that outage's start and number of lost events.
RecoveriesMatchOutages ==
    \A k \in DOMAIN log : log[k].ok =>
        LET failing == k > 1 /\ ~log[k - 1].ok
            j == OutageStart(k - 1)
        IN  {e \in Recoveries : e.outcome = k} =
              IF NotifyRecovery /\ failing /\ Alerted(j, k - 1)
              THEN {[kind |-> "recovered", outage_start |-> log[j].at, count |-> k - j,
                     at |-> log[k].at, outcome |-> k]}
              ELSE {}

\* An outage still failing after both the threshold and the cooldown has
\* been alerted, whatever alert an earlier outage sent.
LongOutagesAlerted ==
    \A j, k \in DOMAIN log :
        /\ j <= k /\ Failing(j, k)
        /\ log[k].at - log[j].at >= Threshold /\ log[k].at - log[j].at >= Cooldown
        => Alerted(OutageStart(k), k)

\* Storage unreachable beyond the threshold is alerted, in every outage.
OutagesPastThresholdAlerted ==
    \A j, k \in DOMAIN log :
        j <= k /\ Failing(j, k) /\ log[k].at - log[j].at >= Threshold
        => Alerted(OutageStart(k), k)

\* A hook that is told of a recovery has been told of the outage before.
RecoveryAfterAlert ==
    \A p \in DOMAIN delivered :
        LET e == sent[delivered[p]] IN
        e.kind = "recovered" =>
            \E q \in 1 .. p - 1 :
                /\ sent[delivered[q]].kind = "unreachable"
                /\ sent[delivered[q]].outage_start = e.outage_start

=============================================================================
