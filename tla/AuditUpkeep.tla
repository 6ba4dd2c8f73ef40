---------------------------- MODULE AuditUpkeep ----------------------------
(***************************************************************************)
(* What looks after the audit trail: the retention of its table, and the   *)
(* alerts on its storage.  They share no state: a behaviour is about one.  *)
(***************************************************************************)
EXTENDS AuditRetention, AuditAlerts

VARIABLE duty       \* "retention" or "alerts"

upkeepVars == <<vars, alertVars, duty>>

\* One storage where it plays no part.
UpkeepInit ==
    /\ Init /\ AlertsInit
    /\ duty \in {"retention", "alerts"}
    /\ duty = "alerts" => backend = CHOOSE b \in Backends : TRUE

UpkeepNext ==
    \/ duty = "retention" /\ Next /\ UNCHANGED <<alertVars, duty>>
    \/ duty = "alerts" /\ AlertsNext /\ UNCHANGED <<vars, duty>>

UpkeepSpec == UpkeepInit /\ [][UpkeepNext]_upkeepVars

=============================================================================
