--------------------------- MODULE AuditRetention ---------------------------
(***************************************************************************)
(* Retention of the audit table: run_cleanup of audit/agent.rs, the JSONL  *)
(* archive (audit/archive.rs) and purge_before of the four backends        *)
(* (audit/storage), run by every replica on one shared table while events  *)
(* keep arriving.                                                          *)
(*                                                                         *)
(* A cycle fixes its cutoff, then repeats: read a batch of old rows,       *)
(* archive it, take down what forbids DELETE (a rule, a trigger, the       *)
(* table's permissions; ClickHouse has nothing), delete, put it back.  The *)
(* steps are separate statements with no transaction around them.          *)
(* mutate_on serialises the cycles of one replica, not of two.             *)
(***************************************************************************)
EXTENDS Integers, FiniteSets, FiniteSetsExt

CONSTANTS
    Instances,      \* replicas that run the cleanup ticker
    Writer,         \* the replica whose chain appends rows
    SharedDir,      \* archive_path is one directory for all replicas
    BatchSize,      \* CLEANUP_BATCH_SIZE (10 000 in the code)
    MaxRows,        \* bound: rows appended
    MaxSeconds,     \* bound: clock seconds that tell archive files apart
    MaxCrashes,     \* bound: crashes in one behaviour
    Backends        \* the audit storages looked at

ASSUME RetentionAssumption ==
    /\ Backends \subseteq {"postgres", "turso", "surrealdb", "clickhouse"}
    /\ Writer \in Instances
    /\ SharedDir \in BOOLEAN
    /\ BatchSize \in Nat \ {0}
    /\ MaxRows \in Nat /\ MaxSeconds \in Nat \ {0} /\ MaxCrashes \in Nat

\* id: position in time (the timestamp column); sequence: chain position.
Rows == [id : 1 .. MaxRows, sequence : Nat \ {0}]

Dir(i) == IF SharedDir THEN Writer ELSE i

VARIABLES
    rows,       \* the audit_events table
    backend,    \* the storage in use
    protected,  \* the rule, trigger or permission that forbids DELETE is there
    appended,   \* number of rows appended so far
    sequence,   \* AuditChain.sequence of the writing replica
    horizon,    \* rows with id <= horizon are older than retention_days
    second,     \* wall clock, as precise as the archive's file names
    archive,    \* content of each archive file
    lastRun,    \* latest second in which each replica triggered or archived
    pc,         \* where each replica's run_cleanup is
    cutoff,     \* cutoff of the running cycle
    batch,      \* events of the running batch
    purged,     \* rows deleted so far
    exposed,    \* a reinstatement failed, or never ran
    cutShort,   \* Turso returned only part of the rows a query selected
    crashes

vars == <<backend, cutShort, rows, protected, appended, sequence, horizon, second, archive, lastRun,
          pc, cutoff, batch, purged, exposed, crashes>>

Init ==
    /\ backend \in Backends
    /\ rows = {} /\ protected = (backend # "clickhouse")
    /\ appended = 0 /\ sequence = 0
    /\ horizon = 0 /\ second = 1
    /\ archive = [f \in Instances \X (1 .. MaxSeconds) |-> {}]
    /\ lastRun = [i \in Instances |-> 0]
    /\ pc = [i \in Instances |-> "idle"]
    /\ cutoff = [i \in Instances |-> 0]
    /\ batch = [i \in Instances |-> {}]
    /\ purged = {} /\ exposed = FALSE /\ cutShort = FALSE /\ crashes = 0

-----------------------------------------------------------------------------
(* The service around the cleanup.                                         *)

\* An event is sealed and stored.
AppendRow ==
    /\ appended < MaxRows /\ pc[Writer] # "down"
    /\ appended' = appended + 1
    /\ sequence' = sequence + 1
    /\ rows' = rows \cup {[id |-> appended + 1, sequence |-> sequence + 1]}
    /\ UNCHANGED <<backend, cutShort, protected, horizon, second, archive, lastRun, pc, cutoff, batch, purged, exposed, crashes>>

\* Time passes: the oldest young row crosses the retention limit.
Age ==
    /\ horizon < appended
    /\ horizon' = horizon + 1
    /\ UNCHANGED <<backend, cutShort, rows, protected, appended, sequence, second, archive, lastRun, pc, cutoff, batch,
                   purged, exposed, crashes>>

Tick ==
    /\ second < MaxSeconds
    /\ second' = second + 1
    /\ UNCHANGED <<backend, cutShort, rows, protected, appended, sequence, horizon, archive, lastRun, pc, cutoff, batch,
                   purged, exposed, crashes>>

Guarded == backend # "clickhouse"
Purging == {"count", "delete", "reinstate"}

\* A replica dies wherever its cleanup is.
Crash(i) ==
    /\ pc[i] # "down" /\ crashes < MaxCrashes
    /\ crashes' = crashes + 1
    /\ exposed' = (exposed \/ (Guarded /\ pc[i] \in Purging))
    /\ pc' = [pc EXCEPT ![i] = "down"]
    /\ batch' = [batch EXCEPT ![i] = {}]
    /\ UNCHANGED <<backend, cutShort, rows, protected, appended, sequence, horizon, second, archive, lastRun, cutoff, purged>>

\* Sequence number the chain resumes from (AuditStorage::latest).
LatestSequence == IF rows = {} THEN 0 ELSE Max({r.sequence : r \in rows})

\* CREATE RULE and CREATE TRIGGER recreate what is missing; SurrealDB's DEFINE
\* TABLE IF NOT EXISTS leaves the permissions of an existing table.
initialize ==
    \/ backend \in {"postgres", "turso"} /\ protected' = TRUE /\ exposed' = FALSE
    \/ backend \in {"surrealdb", "clickhouse"} /\ UNCHANGED <<protected, exposed>>

\* It starts again, and the writer's chain resumes from the newest stored row.
Restart(i) ==
    /\ pc[i] = "down"
    /\ pc' = [pc EXCEPT ![i] = "idle"]
    /\ initialize
    /\ sequence' = IF i = Writer THEN LatestSequence ELSE sequence
    /\ UNCHANGED <<backend, cutShort, rows, appended, horizon, second, archive, lastRun, cutoff, batch, purged, crashes>>

-----------------------------------------------------------------------------
(* run_cleanup.                                                            *)

serviceVars == <<appended, sequence, horizon, second, crashes>>

\* CleanupTrigger: the cutoff of the whole cycle.  The ticker's period is at
\* least an hour, its first tick is skipped and a cycle is taken to end within
\* its period, so no two cycles of one replica share a second.
CleanupTrigger(i) ==
    /\ pc[i] = "idle" /\ lastRun[i] < second
    /\ lastRun' = [lastRun EXCEPT ![i] = second]
    /\ pc' = [pc EXCEPT ![i] = "query"]
    /\ cutoff' = [cutoff EXCEPT ![i] = horizon]
    /\ UNCHANGED <<backend, cutShort, rows, protected, archive, batch, purged, exposed, serviceVars>>

Old(i) == {r \in rows : r.id <= cutoff[i]}

\* The first n rows of S in sequence order (ORDER BY sequence LIMIT n).
FirstBySequence(S, n) ==
    {r \in S : Cardinality({s \in S : s.sequence < r.sequence}) < n}

\* query_before; an empty batch ends the cycle.
query_before(i) ==
    /\ pc[i] = "query"
    /\ batch' = [batch EXCEPT ![i] = FirstBySequence(Old(i), BatchSize)]
    /\ pc' = [pc EXCEPT ![i] = IF Old(i) = {} THEN "idle" ELSE "archive"]
    /\ UNCHANGED <<backend, cutShort, rows, protected, archive, cutoff, purged, exposed, lastRun, serviceVars>>

\* Turso's query_before ends quietly at the first row it cannot read.
query_before_turso(i) ==
    /\ pc[i] = "query" /\ backend = "turso"
    /\ \E n \in 1 .. Cardinality(Old(i)) - 1 : batch' = [batch EXCEPT ![i] = FirstBySequence(Old(i), n)]
    /\ pc' = [pc EXCEPT ![i] = "archive"]
    /\ cutShort' = TRUE
    /\ UNCHANGED <<backend, rows, protected, archive, cutoff, purged, exposed, lastRun, serviceVars>>

\* archive_events: one file per second, written whole over an older one.
archive_events(i) ==
    /\ pc[i] = "archive"
    /\ archive' = [archive EXCEPT ![<<Dir(i), second>>] = batch[i]]
    /\ lastRun' = [lastRun EXCEPT ![i] = second]
    /\ pc' = [pc EXCEPT ![i] = IF Guarded THEN "drop" ELSE "delete"]
    /\ UNCHANGED <<backend, cutShort, rows, protected, cutoff, batch, purged, exposed, serviceVars>>

\* purge_before, first statement: DROP RULE, DROP TRIGGER or DEFINE TABLE with
\* FOR delete FULL.
drop_rule(i) ==
    /\ pc[i] = "drop"
    /\ protected' = FALSE
    /\ pc' = [pc EXCEPT ![i] = IF backend = "surrealdb" THEN "count" ELSE "delete"]
    /\ UNCHANGED <<backend, cutShort, rows, archive, cutoff, batch, purged, exposed, lastRun, serviceVars>>

\* SurrealDB counts first; a count that fails returns at once, with the table
\* open to DELETE.
count_rows(i) ==
    /\ pc[i] = "count"
    /\ \/ pc' = [pc EXCEPT ![i] = "delete"] /\ UNCHANGED exposed
       \/ pc' = [pc EXCEPT ![i] = "idle"] /\ exposed' = TRUE
    /\ UNCHANGED <<backend, cutShort, rows, protected, archive, cutoff, batch, purged, lastRun, serviceVars>>

\* Mutant of abort: a failed archive is only logged.
abort_Ignored(i) ==
    /\ pc[i] \in {"query", "archive", "drop"}
    /\ pc' = [pc EXCEPT ![i] = IF @ = "archive" THEN "drop" ELSE "idle"]
    /\ UNCHANGED <<backend, cutShort, rows, protected, archive, cutoff, batch, purged, exposed, lastRun, serviceVars>>

\* A failed query, archive or DROP RULE ends the cycle (the `?` operator).
abort(i) ==
    /\ pc[i] \in {"query", "archive", "drop"}
    /\ pc' = [pc EXCEPT ![i] = "idle"]
    /\ UNCHANGED <<backend, cutShort, rows, protected, archive, cutoff, batch, purged, exposed, lastRun, serviceVars>>

\* The DELETE took effect.
Deletes(i) == rows' = rows \ Old(i) /\ purged' = purged \cup Old(i) /\ UNCHANGED batch

\* It did nothing, and says so or not.
Discarded(i) == UNCHANGED <<rows, purged, batch>>
Refused(i) == UNCHANGED <<rows, purged>> /\ batch' = [batch EXCEPT ![i] = {}]

\* PostgreSQL: DO INSTEAD NOTHING when the rule is back.
purge_postgres(i) == backend = "postgres" /\ IF protected THEN Discarded(i) ELSE Deletes(i)

\* Turso: the trigger, when it is back, aborts a DELETE that meets a row.
purge_turso(i) == backend = "turso" /\ IF protected /\ Old(i) # {} THEN Refused(i) ELSE Deletes(i)

\* SurrealDB: permissions do not bind a root sign-in; without one they do, and
\* an error of the statement itself is not looked at.
purge_surrealdb(i) == backend = "surrealdb" /\ (Deletes(i) \/ Discarded(i))

\* ClickHouse: one lightweight DELETE.
purge_clickhouse(i) == backend = "clickhouse" /\ Deletes(i)

\* A full batch means there may be more.
AfterPurge(i) == IF Cardinality(batch[i]) < BatchSize THEN "idle" ELSE "query"

\* purge_before, second statement.
delete_rows(i) ==
    /\ pc[i] = "delete"
    /\ purge_postgres(i) \/ purge_turso(i) \/ purge_surrealdb(i) \/ purge_clickhouse(i)
    /\ pc' = [pc EXCEPT ![i] = IF Guarded THEN "reinstate" ELSE AfterPurge(i)]
    /\ UNCHANGED <<backend, cutShort, protected, archive, cutoff, exposed, lastRun, serviceVars>>

\* Mutant of delete_fails: the error returns before the rule is reinstated.
delete_fails_EarlyReturn(i) ==
    /\ pc[i] = "delete"
    /\ pc' = [pc EXCEPT ![i] = "idle"]
    /\ UNCHANGED <<backend, cutShort, rows, protected, archive, cutoff, batch, purged, exposed, lastRun, serviceVars>>

\* The DELETE fails; the rule is reinstated all the same, then the cycle ends.
delete_fails(i) ==
    /\ pc[i] = "delete"
    /\ pc' = [pc EXCEPT ![i] = IF Guarded THEN "reinstate" ELSE "idle"]
    /\ batch' = [batch EXCEPT ![i] = {}]
    /\ UNCHANGED <<backend, cutShort, rows, protected, archive, cutoff, purged, exposed, lastRun, serviceVars>>

\* purge_before, last statement, and the end of the loop body.
reinstate_rule(i) ==
    /\ pc[i] = "reinstate"
    /\ \/ protected' = TRUE /\ exposed' = FALSE
       \/ UNCHANGED protected /\ exposed' = (exposed \/ ~protected)
    /\ pc' = [pc EXCEPT ![i] = AfterPurge(i)]
    /\ UNCHANGED <<backend, cutShort, rows, archive, cutoff, batch, purged, lastRun, serviceVars>>

Next ==
    \/ AppendRow \/ Age \/ Tick
    \/ \E i \in Instances :
         \/ Crash(i) \/ Restart(i) \/ CleanupTrigger(i)
         \/ query_before(i) \/ query_before_turso(i) \/ archive_events(i) \/ abort(i)
         \/ drop_rule(i) \/ count_rows(i) \/ delete_rows(i) \/ delete_fails(i) \/ reinstate_rule(i)

Spec == Init /\ [][Next]_vars

-----------------------------------------------------------------------------
(* Properties.                                                             *)

\* The state stays within its types; in particular every stored row has a
\* positive sequence number (AuditChain::seal increments first).
TypeOK ==
    /\ backend \in Backends /\ cutShort \in BOOLEAN
    /\ rows \subseteq Rows /\ purged \subseteq Rows
    /\ protected \in BOOLEAN /\ exposed \in BOOLEAN
    /\ appended \in 0 .. MaxRows /\ sequence \in Nat
    /\ horizon \in 0 .. MaxRows /\ second \in 1 .. MaxSeconds /\ crashes \in 0 .. MaxCrashes
    /\ archive \in [Instances \X (1 .. MaxSeconds) -> SUBSET Rows]
    /\ lastRun \in [Instances -> 0 .. MaxSeconds]
    /\ pc \in [Instances -> {"down", "idle", "query", "archive", "drop"} \cup Purging]
    /\ cutoff \in [Instances -> 0 .. MaxRows]
    /\ batch \in [Instances -> SUBSET Rows]

\* Every event the cleanup deleted is in an archive file, whatever the other
\* replicas' cycles, crashes and failed statements (run_cleanup archives a
\* batch before it purges); only where Turso handed out part of a batch may
\* the purge, which goes by the cutoff, take more than was archived.
PurgedWereArchived == cutShort \/ purged \subseteq UNION {archive[f] : f \in DOMAIN archive}

\* Outside a purge the table refuses DELETE, however the purges of two
\* replicas interleave, unless a reinstatement failed, died with its process
\* or was skipped with SurrealDB's count (purge_before reinstates "regardless
\* of delete outcome").  ClickHouse protects nothing.
ProtectedWhenQuiet ==
    Guarded /\ (\A i \in Instances : pc[i] \notin Purging) => protected \/ exposed

\* Sequence numbers are used once in the life of the trail, purged and
\* archived events included.
SequencesNeverReused ==
    \A r, s \in rows \cup purged : r.sequence = s.sequence => r = s

=============================================================================
