------------------------- MODULE AuditUpkeepProofs -------------------------
(***************************************************************************)
(* The properties of AuditRetention and AuditAlerts for any number of      *)
(* replicas, rows, crashes and outcomes, any threshold and any cooldown.   *)
(***************************************************************************)
EXTENDS AuditUpkeep, FiniteSetTheorems, TLAPS

-----------------------------------------------------------------------------
(* Retention: the table's protection.                                      *)

Places == {"down", "idle", "query", "archive", "drop"} \cup Purging

ProtectedInv ==
    /\ pc \in [Instances -> Places] /\ protected \in BOOLEAN /\ exposed \in BOOLEAN
    /\ ProtectedWhenQuiet

\* The table starts protected and no replica purges.
LEMMA ProtectedInit == Init => ProtectedInv
    BY DEF Init, ProtectedInv, ProtectedWhenQuiet, Places, Guarded

\* Each statement of a cycle, and a crash or restart between any two.
LEMMA ProtectedStep == ProtectedInv /\ [Next]_vars => ProtectedInv'
<1> SUFFICES ASSUME ProtectedInv, [Next]_vars PROVE ProtectedInv'
    OBVIOUS
<1> USE DEF ProtectedInv, ProtectedWhenQuiet, Places, Purging, Guarded, serviceVars
<1>1. CASE AppendRow \/ Age \/ Tick \/ UNCHANGED vars
    BY <1>1 DEF AppendRow, Age, Tick, vars
<1>2. ASSUME NEW i \in Instances, Crash(i) PROVE ProtectedInv'
    BY <1>2 DEF Crash
<1>3. ASSUME NEW i \in Instances, Restart(i) PROVE ProtectedInv'
    BY <1>3 DEF Restart, initialize
<1>4. ASSUME NEW i \in Instances,
             CleanupTrigger(i) \/ query_before(i) \/ query_before_turso(i) \/ abort(i)
      PROVE  ProtectedInv'
    BY <1>4 DEF CleanupTrigger, query_before, query_before_turso, abort
<1>5. ASSUME NEW i \in Instances, archive_events(i) PROVE ProtectedInv'
    BY <1>5 DEF archive_events
<1>6. ASSUME NEW i \in Instances, drop_rule(i) PROVE ProtectedInv'
    BY <1>6 DEF drop_rule
<1>7. ASSUME NEW i \in Instances, count_rows(i) PROVE ProtectedInv'
    BY <1>7 DEF count_rows
<1>8. ASSUME NEW i \in Instances, delete_rows(i) \/ delete_fails(i) PROVE ProtectedInv'
    BY <1>8 DEF delete_rows, delete_fails, AfterPurge
<1>9. ASSUME NEW i \in Instances, reinstate_rule(i) PROVE ProtectedInv'
    BY <1>9 DEF reinstate_rule, AfterPurge
<1> QED
    BY <1>1, <1>2, <1>3, <1>4, <1>5, <1>6, <1>7, <1>8, <1>9 DEF Next

\* Whatever the purges of any number of replicas do to one another, the table
\* is protected again once none is under way, unless a reinstatement failed or
\* never ran (purge_before).
THEOREM AlwaysProtected == UpkeepSpec => []ProtectedWhenQuiet
<1>1. UpkeepInit => ProtectedInv
    BY ProtectedInit DEF UpkeepInit
<1>2. ProtectedInv /\ [UpkeepNext]_upkeepVars => ProtectedInv'
    <2> SUFFICES ASSUME ProtectedInv, [UpkeepNext]_upkeepVars PROVE ProtectedInv'
        OBVIOUS
    <2>1. [Next]_vars
        BY DEF UpkeepNext, upkeepVars
    <2> QED
        BY <2>1, ProtectedStep
<1>3. ProtectedInv => ProtectedWhenQuiet
    BY DEF ProtectedInv
<1> QED
    BY <1>1, <1>2, <1>3, PTL DEF UpkeepSpec

-----------------------------------------------------------------------------
(* Retention: what is purged was archived.                                 *)

Files == Instances \X (1 .. MaxSeconds)

\* The rows of the table are among those appended, told apart by their ids, no
\* cutoff is ahead of them, and no cycle is ahead of the clock.
TableInv ==
    /\ pc \in [Instances -> Places] /\ cutoff \in [Instances -> Nat] /\ lastRun \in [Instances -> Nat]
    /\ DOMAIN batch = Instances /\ DOMAIN archive = Files /\ cutShort \in BOOLEAN
    /\ second \in 1 .. MaxSeconds /\ appended \in 0 .. MaxRows /\ horizon \in 0 .. appended
    /\ \A r \in rows : r.id \in 1 .. appended
    /\ \A r, s \in rows : r.id = s.id => r = s
    /\ \A i \in Instances : cutoff[i] <= appended /\ lastRun[i] <= second
    /\ \A i \in Instances : pc[i] \notin {"idle", "down"} => lastRun[i] \in 1 .. MaxSeconds

\* The replica's cycle is past its purge, or has nothing left to archive: it will
\* not write over the file of its last batch.
Through(i) == pc[i] \in {"idle", "down"} \/ (pc[i] \in {"reinstate", "query"} /\ Old(i) = {})

\* Row r is in a file that no replica will write over.
Kept(r) ==
    \E i \in Instances, n \in 1 .. MaxSeconds :
        r \in archive[<<i, n>>] /\ (n < second \/ (n = lastRun[i] /\ Through(i)))

\* A batch holds what the purge after it will delete, and so does its file once
\* it is written.
Covered(i) ==
    /\ pc[i] = "archive" => Old(i) \subseteq batch[i]
    /\ pc[i] \in {"drop", "count", "delete"} => Old(i) \subseteq archive[<<i, lastRun[i]>>]

ArchiveInv ==
    /\ TableInv
    /\ ~cutShort => (\A i \in Instances : Covered(i)) /\ (\A r \in purged : Kept(r))

\* A table smaller than a batch is read whole.
LEMMA WholeBatch ==
    ASSUME TableInv, MaxRows < BatchSize, NEW i \in Instances
    PROVE  FirstBySequence(Old(i), BatchSize) = Old(i)
<1>1. ASSUME NEW r \in Old(i)
      PROVE  Cardinality({s \in Old(i) : s.sequence < r.sequence}) < BatchSize
    <2> DEFINE T == {s \in Old(i) : s.sequence < r.sequence}
               f == [s \in T |-> s.id]
    <2>1. f \in Injection(T, 1 .. MaxRows)
        <3>1. \A s \in T : s \in rows
            BY DEF Old
        <3>2. \A s \in rows : s.id \in 1 .. MaxRows
            BY RetentionAssumption DEF TableInv
        <3>3. f \in [T -> 1 .. MaxRows]
            BY <3>1, <3>2
        <3>4. \A s, t \in T : f[s] = f[t] => s = t
            BY <3>1 DEF TableInv
        <3> QED
            BY <3>3, <3>4 DEF Injection, IsInjective
    <2>2. IsFiniteSet(1 .. MaxRows) /\ Cardinality(1 .. MaxRows) <= MaxRows
        <3>1. 1 \in Int /\ MaxRows \in Int
            BY RetentionAssumption
        <3>2. /\ IsFiniteSet(1 .. MaxRows)
              /\ Cardinality(1 .. MaxRows) = IF 1 > MaxRows THEN 0 ELSE MaxRows - 1 + 1
            BY <3>1, FS_Interval, Zenon
        <3> QED
            BY <3>2, RetentionAssumption
    <2>3. IsFiniteSet(T) /\ Cardinality(T) <= Cardinality(1 .. MaxRows)
        BY <2>1, <2>2, FS_Injection
    <2>4. Cardinality(T) \in Nat /\ Cardinality(1 .. MaxRows) \in Nat
        BY <2>2, <2>3, FS_CardinalityType
    <2> QED
        BY <2>2, <2>3, <2>4, RetentionAssumption
<1> QED
    BY <1>1 DEF FirstBySequence

\* No row has been deleted before the first cycle.
LEMMA ArchiveInit == Init => ArchiveInv
<1> SUFFICES ASSUME Init PROVE ArchiveInv
    OBVIOUS
<1>1. TableInv
    <2>1. pc \in [Instances -> Places] /\ cutoff \in [Instances -> Nat] /\ lastRun \in [Instances -> Nat]
        BY DEF Init, Places
    <2>2. DOMAIN batch = Instances /\ DOMAIN archive = Files /\ cutShort \in BOOLEAN /\ rows = {}
        BY DEF Init, Files
    <2>3. second \in 1 .. MaxSeconds /\ appended \in 0 .. MaxRows /\ horizon \in 0 .. appended
        BY RetentionAssumption DEF Init
    <2>4. \A i \in Instances : cutoff[i] <= appended /\ lastRun[i] <= second /\ pc[i] = "idle"
        BY DEF Init
    <2> QED
        BY <2>1, <2>2, <2>3, <2>4 DEF TableInv
<1>2. \A i \in Instances : Covered(i)
    BY DEF Init, Covered
<1>3. purged = {}
    BY DEF Init
<1> QED
    BY <1>1, <1>2, <1>3 DEF ArchiveInv

\* The table and the clocks, step by step.
LEMMA TableStep == TableInv /\ [Next]_vars => TableInv'
<1> SUFFICES ASSUME TableInv, [Next]_vars PROVE TableInv'
    OBVIOUS
<1> USE RetentionAssumption DEF TableInv, Places, Purging, serviceVars
<1>1. CASE UNCHANGED vars
    BY <1>1 DEF vars
<1>2. CASE AppendRow
    BY <1>2 DEF AppendRow
<1>3. CASE Age \/ Tick
    BY <1>3 DEF Age, Tick
<1>4. ASSUME NEW i \in Instances, Crash(i) \/ Restart(i) PROVE TableInv'
    BY <1>4 DEF Crash, Restart
<1>5. ASSUME NEW i \in Instances, CleanupTrigger(i) PROVE TableInv'
    BY <1>5 DEF CleanupTrigger
<1>6. ASSUME NEW i \in Instances, query_before(i) \/ query_before_turso(i) PROVE TableInv'
    <2>1. DOMAIN batch' = Instances /\ cutShort' \in BOOLEAN
        BY <1>6 DEF query_before, query_before_turso
    <2>2. pc' \in [Instances -> Places] /\ \A k \in Instances : pc'[k] # pc[k] => k = i /\ pc[k] = "query"
        BY <1>6 DEF query_before, query_before_turso
    <2> QED
        BY <1>6, <2>1, <2>2 DEF query_before, query_before_turso
<1>7. ASSUME NEW i \in Instances, archive_events(i) PROVE TableInv'
    BY <1>7 DEF archive_events, Guarded
<1>8. ASSUME NEW i \in Instances, abort(i) \/ drop_rule(i) \/ count_rows(i) PROVE TableInv'
    BY <1>8 DEF abort, drop_rule, count_rows
<1>9. ASSUME NEW i \in Instances, delete_rows(i) PROVE TableInv'
    <2>1. rows' \subseteq rows /\ DOMAIN batch' = Instances
        BY <1>9 DEF delete_rows, purge_postgres, purge_turso, purge_surrealdb, purge_clickhouse,
                    Deletes, Discarded, Refused
    <2> QED
        BY <1>9, <2>1 DEF delete_rows, AfterPurge
<1>10. ASSUME NEW i \in Instances, delete_fails(i) \/ reinstate_rule(i) PROVE TableInv'
    BY <1>10 DEF delete_fails, reinstate_rule, AfterPurge
<1> QED
    BY <1>1, <1>2, <1>3, <1>4, <1>5, <1>6, <1>7, <1>8, <1>9, <1>10 DEF Next

\* What the other replicas do to a cycle: they delete rows at most.
Undisturbed(k) ==
    /\ pc'[k] = pc[k] /\ cutoff'[k] = cutoff[k] /\ batch'[k] = batch[k] /\ lastRun'[k] = lastRun[k]
    /\ \A n \in 1 .. MaxSeconds : archive'[<<k, n>>] = archive[<<k, n>>]

\* A cycle that others leave alone stays covered by its file.
LEMMA Shrinks ==
    ASSUME TableInv, TableInv', NEW k \in Instances, Undisturbed(k), Covered(k),
           rows' \subseteq rows \cup {r \in rows' : r.id > appended}
    PROVE  Covered(k)' /\ (Through(k) => Through(k)')
<1>1. Old(k)' \subseteq Old(k)
    BY DEF Old, Undisturbed, TableInv
<1>2. pc[k] \in {"drop", "count", "delete"} => archive'[<<k, lastRun'[k]>>] = archive[<<k, lastRun[k]>>]
    BY DEF Undisturbed, TableInv
<1>3. Covered(k)'
    BY <1>1, <1>2 DEF Covered, Undisturbed
<1>4. Through(k) => Through(k)'
    BY <1>1 DEF Through, Undisturbed
<1> QED
    BY <1>3, <1>4

Shrunk == rows' \subseteq rows \cup {r \in rows' : r.id > appended}

\* Rows appended, aged or timed: every archived row stays archived.
LEMMA NobodyActs ==
    ASSUME TableInv, TableInv', \A k \in Instances : Covered(k) /\ Undisturbed(k), Shrunk, second' >= second
    PROVE  (\A k \in Instances : Covered(k)') /\ (\A r : Kept(r) => Kept(r)')
<1>1. \A k \in Instances : Covered(k)' /\ (Through(k) => Through(k)')
    BY Shrinks DEF Shrunk
<1>2. ASSUME NEW r, Kept(r) PROVE Kept(r)'
    <2>1. PICK k \in Instances, n \in 1 .. MaxSeconds :
             r \in archive[<<k, n>>] /\ (n < second \/ (n = lastRun[k] /\ Through(k)))
        BY <1>2 DEF Kept
    <2>2. r \in archive'[<<k, n>>]
        BY <2>1 DEF Undisturbed
    <2>3. n < second' \/ (n = lastRun'[k] /\ Through(k)')
        BY <2>1, <1>1 DEF Undisturbed, TableInv
    <2> QED
        BY <2>2, <2>3 DEF Kept
<1> QED
    BY <1>1, <1>2

\* A step of replica i: it must leave alone the files that keep rows.
LEMMA OneActs ==
    ASSUME TableInv, TableInv', \A k \in Instances : Covered(k), NEW i \in Instances,
           \A k \in Instances \ {i} : Undisturbed(k), Shrunk, second' = second, Covered(i)',
           \A n \in 1 .. MaxSeconds :
              n < second \/ (n = lastRun[i] /\ Through(i)) => archive'[<<i, n>>] = archive[<<i, n>>],
           Through(i) => lastRun[i] < second \/ (lastRun'[i] = lastRun[i] /\ Through(i)')
    PROVE  (\A k \in Instances : Covered(k)') /\ (\A r : Kept(r) => Kept(r)')
<1>1. \A k \in Instances \ {i} : Covered(k)' /\ (Through(k) => Through(k)')
    BY Shrinks DEF Shrunk
<1>2. ASSUME NEW r, Kept(r) PROVE Kept(r)'
    <2>1. PICK k \in Instances, n \in 1 .. MaxSeconds :
             r \in archive[<<k, n>>] /\ (n < second \/ (n = lastRun[k] /\ Through(k)))
        BY <1>2 DEF Kept
    <2>2. r \in archive'[<<k, n>>] /\ (n < second' \/ (n = lastRun'[k] /\ Through(k)'))
        <3>1. CASE k = i
            BY <2>1, <3>1
        <3>2. CASE k # i
            BY <2>1, <3>2, <1>1 DEF Undisturbed
        <3> QED
            BY <3>1, <3>2
    <2> QED
        BY <2>2 DEF Kept
<1> QED
    BY <1>1, <1>2

\* Every statement of the cycle; a batch holds the whole table and no two replicas
\* share a directory.
LEMMA ArchiveStep ==
    ASSUME SharedDir = FALSE, MaxRows < BatchSize, ArchiveInv, [Next]_vars
    PROVE  ArchiveInv'
<1>1. TableInv /\ TableInv'
    BY TableStep DEF ArchiveInv
<1>2. CASE cutShort'
    BY <1>1, <1>2 DEF ArchiveInv
<1>3. CASE ~cutShort'
    <2>1. ~cutShort /\ ~\E i \in Instances : query_before_turso(i)
        BY <1>1, <1>3 DEF TableInv, Next, vars, AppendRow, Age, Tick, Crash, Restart, CleanupTrigger,
                          query_before, query_before_turso, archive_events, abort, drop_rule, count_rows,
                          delete_rows, delete_fails, reinstate_rule
    <2>2. (\A k \in Instances : Covered(k)) /\ (\A r \in purged : Kept(r))
        BY <2>1 DEF ArchiveInv
    <2> DEFINE Goal == (\A k \in Instances : Covered(k)') /\ (\A r : Kept(r) => Kept(r)')
    <2>3. CASE AppendRow \/ Age \/ Tick \/ UNCHANGED vars
        <3>1. purged' = purged /\ \A k \in Instances : Undisturbed(k)
            BY <2>3 DEF AppendRow, Age, Tick, vars, Undisturbed
        <3>2. Shrunk /\ second' >= second
            BY <2>3, <1>1 DEF AppendRow, Age, Tick, vars, Shrunk, TableInv
        <3> QED
            BY <1>1, <2>2, <3>1, <3>2, NobodyActs DEF ArchiveInv
    <2>4. ASSUME NEW i \in Instances,
                 \/ Crash(i) \/ Restart(i) \/ CleanupTrigger(i) \/ query_before(i) \/ abort(i)
                 \/ drop_rule(i) \/ count_rows(i) \/ delete_fails(i) \/ reinstate_rule(i)
          PROVE  ArchiveInv'
        <3> USE DEF serviceVars
        <3>1. /\ purged' = purged /\ rows' = rows /\ second' = second /\ archive' = archive
              /\ \A k \in Instances \ {i} : Undisturbed(k)
            BY <2>4, <1>1 DEF Undisturbed, TableInv, Crash, Restart, CleanupTrigger, query_before, abort,
                              drop_rule, count_rows, delete_fails, reinstate_rule
        <3>2. Covered(i)'
            <4>1. CASE query_before(i)
                BY <4>1, <1>1, WholeBatch DEF query_before, Covered, TableInv, Old
            <4>2. CASE drop_rule(i) \/ count_rows(i)
                BY <4>2, <1>1, <2>2 DEF drop_rule, count_rows, Covered, TableInv, Old
            <4>3. CASE Crash(i) \/ Restart(i) \/ CleanupTrigger(i) \/ abort(i)
                BY <4>3, <1>1 DEF Crash, Restart, CleanupTrigger, abort, Covered, TableInv
            <4>4. CASE delete_fails(i) \/ reinstate_rule(i)
                BY <4>4, <1>1 DEF delete_fails, reinstate_rule, AfterPurge, Covered, TableInv
            <4> QED
                BY <2>4, <4>1, <4>2, <4>3, <4>4
        <3>3. Through(i) => lastRun[i] < second \/ (lastRun'[i] = lastRun[i] /\ Through(i)')
            BY <2>4, <1>1 DEF Through, Old, TableInv, Crash, Restart, CleanupTrigger, query_before, abort,
                              drop_rule, count_rows, delete_fails, reinstate_rule, AfterPurge
        <3>4. Goal
            BY <1>1, <2>2, <3>1, <3>2, <3>3, OneActs DEF Shrunk
        <3> QED
            BY <1>1, <2>2, <3>1, <3>4 DEF ArchiveInv
    <2>5. ASSUME NEW i \in Instances, archive_events(i) PROVE ArchiveInv'
        <3> USE DEF serviceVars
        <3>1. archive' = [archive EXCEPT ![<<i, second>>] = batch[i]]
            BY <2>5 DEF archive_events, Dir
        <3>2. /\ purged' = purged /\ rows' = rows /\ second' = second /\ cutoff' = cutoff
              /\ lastRun' = [lastRun EXCEPT ![i] = second] /\ pc[i] = "archive"
              /\ pc' = [pc EXCEPT ![i] = IF Guarded THEN "drop" ELSE "delete"]
              /\ batch' = batch
            BY <2>5 DEF archive_events
        <3>3. \A k \in Instances \ {i} : Undisturbed(k)
            BY <3>1, <3>2, <1>1 DEF Undisturbed, TableInv, Files
        <3>4. Covered(i)'
            <4>1. Old(i)' = Old(i) /\ Old(i) \subseteq batch[i]
                BY <3>2, <2>2 DEF Old, Covered
            <4>2. archive'[<<i, lastRun'[i]>>] = batch[i] /\ pc'[i] \in {"drop", "delete"}
                BY <3>1, <3>2, <1>1 DEF TableInv, Files
            <4> QED
                BY <4>1, <4>2 DEF Covered
        <3>5. ~Through(i)
            BY <3>2 DEF Through
        <3>6. \A n \in 1 .. MaxSeconds : n < second => archive'[<<i, n>>] = archive[<<i, n>>]
            BY <3>1, <1>1 DEF TableInv, Files
        <3>7. Goal
            BY <1>1, <2>2, <3>2, <3>3, <3>4, <3>5, <3>6, OneActs DEF Shrunk
        <3> QED
            BY <1>1, <2>2, <3>2, <3>7 DEF ArchiveInv
    <2>6. ASSUME NEW i \in Instances, delete_rows(i) PROVE ArchiveInv'
        <3> USE DEF serviceVars
        <3>1. /\ pc[i] = "delete" /\ second' = second /\ archive' = archive /\ cutoff' = cutoff
              /\ lastRun' = lastRun
              /\ pc' = [pc EXCEPT ![i] = IF Guarded THEN "reinstate" ELSE AfterPurge(i)]
            BY <2>6 DEF delete_rows
        <3>2. \/ rows' = rows \ Old(i) /\ purged' = purged \cup Old(i)
              \/ rows' = rows /\ purged' = purged
            BY <2>6 DEF delete_rows, purge_postgres, purge_turso, purge_surrealdb, purge_clickhouse,
                        Deletes, Discarded, Refused
        <3>3. \A k \in Instances \ {i} : batch'[k] = batch[k]
            BY <2>6, <1>1 DEF delete_rows, purge_postgres, purge_turso, purge_surrealdb, purge_clickhouse,
                              Deletes, Discarded, Refused, TableInv
        <3>4. \A k \in Instances \ {i} : Undisturbed(k)
            BY <3>1, <3>3, <1>1 DEF Undisturbed, TableInv
        <3>5. pc'[i] \in {"reinstate", "idle", "query"}
            BY <3>1, <1>1 DEF TableInv, AfterPurge
        <3>6. Covered(i)' /\ ~Through(i)
            BY <3>1, <3>5 DEF Covered, Through
        <3>7. Goal
            BY <1>1, <2>2, <3>1, <3>2, <3>4, <3>6, OneActs DEF Shrunk
        <3>8. ASSUME NEW r \in purged' PROVE Kept(r)'
            <4>1. CASE r \in purged
                BY <4>1, <2>2, <3>7
            <4>2. CASE r \notin purged
                <5>1. r \in Old(i) /\ rows' = rows \ Old(i)
                    BY <4>2, <3>2, <3>8
                <5>2. r \in archive'[<<i, lastRun'[i]>>] /\ lastRun'[i] \in 1 .. MaxSeconds
                    BY <5>1, <3>1, <2>2, <1>1 DEF Covered, TableInv
                <5>3. Old(i)' = {}
                    BY <5>1, <3>1 DEF Old
                <5> QED
                    BY <5>2, <5>3, <3>5 DEF Kept, Through
            <4> QED
                BY <4>1, <4>2
        <3> QED
            BY <1>1, <3>7, <3>8 DEF ArchiveInv
    <2> QED
        BY <2>1, <2>3, <2>4, <2>5, <2>6 DEF Next
<1> QED
    BY <1>2, <1>3

\* Where each replica archives into a directory of its own and a batch is
\* larger than the table, every row run_cleanup deletes is in a file, whatever
\* the replicas' statements, crashes and failures.
THEOREM AlwaysArchived ==
    ASSUME SharedDir = FALSE, MaxRows < BatchSize
    PROVE  UpkeepSpec => []PurgedWereArchived
<1>1. UpkeepInit => ArchiveInv
    BY ArchiveInit DEF UpkeepInit
<1>2. ArchiveInv /\ [UpkeepNext]_upkeepVars => ArchiveInv'
    <2> SUFFICES ASSUME ArchiveInv, [UpkeepNext]_upkeepVars PROVE ArchiveInv'
        OBVIOUS
    <2>1. [Next]_vars
        BY DEF UpkeepNext, upkeepVars
    <2> QED
        BY <2>1, ArchiveStep
<1>3. ArchiveInv => PurgedWereArchived
    <2> SUFFICES ASSUME ArchiveInv, ~cutShort, NEW r \in purged
                 PROVE  \E f \in DOMAIN archive : r \in archive[f]
        BY DEF PurgedWereArchived
    <2>1. PICK i \in Instances, n \in 1 .. MaxSeconds : r \in archive[<<i, n>>]
        BY DEF ArchiveInv, Kept
    <2>2. <<i, n>> \in DOMAIN archive
        BY DEF ArchiveInv, TableInv, Files
    <2> QED
        BY <2>1, <2>2
<1> QED
    BY <1>1, <1>2, <1>3, PTL DEF UpkeepSpec

-----------------------------------------------------------------------------
(* Alerts: the tracker against the log of outcomes.                        *)

Entries == [ok : BOOLEAN, at : Nat]
Notices ==
    [kind : {"unreachable", "recovered"}, outage_start : Nat, count : Nat, at : Nat, outcome : Nat \ {0}]

AlertTypes ==
    /\ now \in Nat \ {0} /\ first_failure_at \in Nat /\ last_alert_at \in Nat /\ affected \in Nat
    /\ alert_active \in BOOLEAN /\ log \in Seq(Entries) /\ sent \in Seq(Notices)

\* Outcomes j .. k are the outage that outcome k belongs to, as far as k.
Starts(j, k) == Failing(j, k) /\ (j = 1 \/ log[j - 1].ok)

\* The clock of the log only goes forward.
InTime ==
    /\ \A j, k \in DOMAIN log : j <= k => log[j].at <= log[k].at
    /\ \A k \in DOMAIN log : log[k].at <= now

\* What was sent is about outcomes in the log; last_alert_at is the time of the
\* latest alert.
Dated ==
    /\ \A e \in ToSet(sent) : e.outcome \in DOMAIN log /\ e.at = log[e.outcome].at
    /\ \A e \in Alerts : last_alert_at # Never /\ e.at <= last_alert_at
    /\ last_alert_at # Never => \E e \in Alerts : e.at = last_alert_at

\* Every failure belongs to an outage that began somewhere.
Begun == \A k \in DOMAIN log : ~log[k].ok => \E j \in 1 .. k : Starts(j, k)

\* The tracker's fields describe the outage that is going on.
Tracks ==
    /\ first_failure_at = Never =>
         (log = << >> \/ log[Len(log)].ok) /\ affected = 0 /\ alert_active = FALSE
    /\ first_failure_at # Never =>
         \E j \in 1 .. Len(log) :
            /\ Starts(j, Len(log)) /\ log[j].at = first_failure_at /\ affected = Len(log) - j + 1
            /\ alert_active <=> Alerted(j, Len(log))

AlertsInv ==
    /\ AlertTypes /\ InTime /\ Dated /\ Begun /\ Tracks
    /\ AlertsSpaced /\ RecoveriesMatchOutages /\ LongOutagesAlerted

\* An outage has one beginning.
OneStart == \A k \in DOMAIN log : \A j \in 1 .. k : Starts(j, k) => OutageStart(k) = j

\* Two outages that end in the same failure began at the same one.
LEMMA HasOneStart == AlertTypes => OneStart
<1> SUFFICES ASSUME AlertTypes, NEW k \in DOMAIN log, NEW j \in 1 .. k, Starts(j, k)
             PROVE  OutageStart(k) = j
    BY DEF OneStart
<1>1. k \in 1 .. Len(log)
    BY DEF AlertTypes
<1>2. ASSUME NEW i \in 1 .. k, Starts(i, k) PROVE i = j
    <2>1. ~(i < j)
        <3> SUFFICES ASSUME i < j PROVE FALSE
            OBVIOUS
        <3>1. j - 1 \in i .. k /\ j # 1
            BY <1>1
        <3> QED
            BY <3>1, <1>2 DEF Starts, Failing
    <2>2. ~(j < i)
        <3> SUFFICES ASSUME j < i PROVE FALSE
            OBVIOUS
        <3>1. i - 1 \in j .. k /\ i # 1
            BY <1>1
        <3> QED
            BY <3>1, <1>2 DEF Starts, Failing
    <2> QED
        BY <2>1, <2>2, <1>1
<1>3. \A i \in 1 .. k : (Failing(i, k) /\ (i = 1 \/ log[i - 1].ok)) <=> i = j
    BY <1>2 DEF Starts
<1> QED
    BY <1>3 DEF OutageStart

\* dispatch adds one event to what was sent.
LEMMA ToSetAppend ==
    ASSUME NEW S, NEW s \in Seq(S), NEW e \in S
    PROVE  ToSet(Append(s, e)) = ToSet(s) \cup {e}
<1>1. /\ DOMAIN Append(s, e) = 1 .. Len(s) + 1 /\ DOMAIN s = 1 .. Len(s) /\ Len(s) \in Nat
      /\ Append(s, e)[Len(s) + 1] = e /\ \A n \in 1 .. Len(s) : Append(s, e)[n] = s[n]
    OBVIOUS
<1>2. \A n \in 1 .. Len(s) + 1 : n \in 1 .. Len(s) \/ n = Len(s) + 1
    BY <1>1
<1>3. \A n \in 1 .. Len(s) : n \in 1 .. Len(s) + 1
    BY <1>1
<1>4. Len(s) + 1 \in 1 .. Len(s) + 1
    BY <1>1
<1> QED
    BY <1>1, <1>2, <1>3, <1>4, Zenon DEF ToSet

\* An outcome is logged, and what is sent with it is about it.
Grows(ok, new) ==
    /\ log' = Append(log, [ok |-> ok, at |-> now]) /\ now' = now
    /\ ToSet(sent') = ToSet(sent) \cup new
    /\ \A e \in new : e.outcome = Len(log) + 1 /\ e.at = now

\* What was so up to outcome k stays so.
LEMMA Grown ==
    ASSUME AlertTypes, AlertTypes', InTime, Dated, Begun, RecoveriesMatchOutages, LongOutagesAlerted,
           NEW ok \in BOOLEAN, NEW new, Grows(ok, new)
    PROVE  /\ Len(log) \in Nat /\ DOMAIN log = 1 .. Len(log) /\ DOMAIN log' = 1 .. Len(log) + 1
           /\ Len(log') = Len(log) + 1 /\ \A k \in 1 .. Len(log) : log'[k] = log[k]
           /\ log'[Len(log) + 1] = [ok |-> ok, at |-> now]
           /\ \A k \in 1 .. Len(log) : \A j \in 1 .. k : Starts(j, k)' <=> Starts(j, k)
           /\ \A k \in 1 .. Len(log) : \A j \in Nat : Alerted(j, k)' <=> Alerted(j, k)
           /\ \A k \in 1 .. Len(log) : ~log[k].ok => OutageStart(k)' = OutageStart(k)
           /\ InTime'
           /\ \A e \in ToSet(sent') : e.outcome \in DOMAIN log' /\ e.at = log'[e.outcome].at
           /\ \A k \in 1 .. Len(log) : \A j \in 1 .. k : Failing(j, k)' <=> Failing(j, k)
<1>1. /\ Len(log) \in Nat /\ DOMAIN log = 1 .. Len(log) /\ DOMAIN log' = 1 .. Len(log) + 1
      /\ Len(log') = Len(log) + 1 /\ \A k \in 1 .. Len(log) : log'[k] = log[k]
      /\ log'[Len(log) + 1] = [ok |-> ok, at |-> now]
    <2>1. [ok |-> ok, at |-> now] \in Entries
        BY DEF AlertTypes, Entries
    <2> QED
        BY <2>1 DEF AlertTypes, Grows
<1>2. \A k \in 1 .. Len(log) : \A j \in 1 .. k : Failing(j, k)' <=> Failing(j, k)
    BY <1>1 DEF Failing
<1>3. \A k \in 1 .. Len(log) : \A j \in 1 .. k : Starts(j, k)' <=> Starts(j, k)
    <2> SUFFICES ASSUME NEW k \in 1 .. Len(log), NEW j \in 1 .. k PROVE Starts(j, k)' <=> Starts(j, k)
        OBVIOUS
    <2>1. j # 1 => log'[j - 1] = log[j - 1]
        BY <1>1
    <2> QED
        BY <1>2, <2>1 DEF Starts
<1>4. \A k \in 1 .. Len(log) : \A j \in Nat : Alerted(j, k)' <=> Alerted(j, k)
    <2> SUFFICES ASSUME NEW k \in 1 .. Len(log), NEW j \in Nat PROVE Alerted(j, k)' <=> Alerted(j, k)
        OBVIOUS
    <2>1. \A e \in ToSet(sent') : e.outcome \in j .. k => e \in ToSet(sent)
        BY <1>1 DEF Grows
    <2>2. ToSet(sent) \subseteq ToSet(sent')
        BY DEF Grows
    <2> QED
        BY <2>1, <2>2 DEF Alerted, Alerts
<1>5. ASSUME NEW k \in 1 .. Len(log), ~log[k].ok PROVE OutageStart(k)' = OutageStart(k)
    <2>1. PICK j \in 1 .. k : Starts(j, k)
        BY <1>5, <1>1 DEF Begun
    <2>2. OutageStart(k) = j
        BY <2>1, <1>1, HasOneStart DEF OneStart
    <2>3. OneStart'
        BY HasOneStart, PTL
    <2>4. k \in DOMAIN log' /\ Starts(j, k)'
        BY <2>1, <1>1, <1>3
    <2>5. OutageStart(k)' = j
        BY <2>3, <2>4 DEF OneStart
    <2> QED
        BY <2>2, <2>5
<1>6. InTime'
    BY <1>1 DEF InTime, Grows, AlertTypes
<1>7. ASSUME NEW e \in ToSet(sent') PROVE e.outcome \in DOMAIN log' /\ e.at = log'[e.outcome].at
    BY <1>1, <1>7 DEF Dated, Grows
<1> QED
    BY <1>1, <1>2, <1>3, <1>4, <1>5, <1>6, <1>7

\* The two properties about outages, for the outcome k.
RecoveryFits(k) ==
    log[k].ok =>
        LET failing == k > 1 /\ ~log[k - 1].ok
            j == OutageStart(k - 1)
        IN  {e \in Recoveries : e.outcome = k} =
              IF NotifyRecovery /\ failing /\ Alerted(j, k - 1)
              THEN {[kind |-> "recovered", outage_start |-> log[j].at, count |-> k - j,
                     at |-> log[k].at, outcome |-> k]}
              ELSE {}

LongFits(k) ==
    \A j \in 1 .. k :
        /\ Failing(j, k) /\ log[k].at - log[j].at >= Threshold /\ log[k].at - log[j].at >= Cooldown
        => Alerted(OutageStart(k), k)

\* Both properties are about each outcome on its own.
LEMMA FitsAll ==
    AlertTypes => /\ RecoveriesMatchOutages <=> \A k \in DOMAIN log : RecoveryFits(k)
                  /\ LongOutagesAlerted <=> \A k \in DOMAIN log : LongFits(k)
<1> SUFFICES ASSUME AlertTypes
             PROVE  /\ RecoveriesMatchOutages <=> \A k \in DOMAIN log : RecoveryFits(k)
                    /\ LongOutagesAlerted <=> \A k \in DOMAIN log : LongFits(k)
    OBVIOUS
<1>1. RecoveriesMatchOutages <=> \A k \in DOMAIN log : RecoveryFits(k)
    BY Zenon DEF RecoveriesMatchOutages, RecoveryFits
<1>2. \A k \in DOMAIN log : \A j : j \in 1 .. k <=> j \in DOMAIN log /\ j <= k
    BY DEF AlertTypes
<1>3. LongOutagesAlerted <=> \A k \in DOMAIN log : LongFits(k)
    BY <1>2 DEF LongOutagesAlerted, LongFits
<1> QED
    BY <1>1, <1>3

\* What held of the outcomes so far still does; the new one is left to show.
LEMMA OldOutcomes ==
    ASSUME AlertsInv, AlertTypes', NEW ok \in BOOLEAN, NEW new, Grows(ok, new)
    PROVE  /\ \A k \in 1 .. Len(log) : ~log'[k].ok => \E j \in 1 .. k : Starts(j, k)'
           /\ \A k \in 1 .. Len(log) : RecoveryFits(k)' /\ LongFits(k)'
<1> DEFINE n == Len(log)
<1>1. /\ n \in Nat /\ DOMAIN log = 1 .. n /\ \A k \in 1 .. n : log'[k] = log[k]
      /\ \A k \in 1 .. n : \A j \in 1 .. k : Starts(j, k)' <=> Starts(j, k)
      /\ \A k \in 1 .. n : \A j \in Nat : Alerted(j, k)' <=> Alerted(j, k)
      /\ \A k \in 1 .. n : ~log[k].ok => OutageStart(k)' = OutageStart(k)
      /\ \A k \in 1 .. n : \A j \in 1 .. k : Failing(j, k)' <=> Failing(j, k)
    BY Grown DEF AlertsInv
<1> HIDE DEF n
<1>2. \A k \in 1 .. n : ~log[k].ok => OutageStart(k) \in 1 .. k
    <2> SUFFICES ASSUME NEW k \in 1 .. n, ~log[k].ok PROVE OutageStart(k) \in 1 .. k
        OBVIOUS
    <2>1. PICK j \in 1 .. k : Starts(j, k)
        BY <1>1 DEF AlertsInv, Begun
    <2> QED
        BY <2>1, <1>1, HasOneStart DEF OneStart, AlertsInv
<1>3. \A k \in 1 .. n : ~log'[k].ok => \E j \in 1 .. k : Starts(j, k)'
    BY <1>1 DEF AlertsInv, Begun
<1>4. ASSUME NEW k \in 1 .. n PROVE RecoveryFits(k)'
    <2>1. {e \in Recoveries' : e.outcome = k} = {e \in Recoveries : e.outcome = k}
        <3>1. \A e \in ToSet(sent') : e.outcome = k => e \in ToSet(sent)
            BY <1>1 DEF Grows, n
        <3>2. ToSet(sent) \subseteq ToSet(sent')
            BY DEF Grows
        <3> QED
            BY <3>1, <3>2 DEF Recoveries
    <2>2. log'[k] = log[k] /\ RecoveryFits(k)
        BY <1>1, FitsAll DEF AlertsInv
    <2>3. CASE k > 1 /\ ~log[k - 1].ok
        <3>1. k - 1 \in 1 .. n /\ log'[k - 1] = log[k - 1]
            BY <2>3, <1>1
        <3>2. PICK j \in 1 .. k - 1 : OutageStart(k - 1)' = j /\ OutageStart(k - 1) = j
            BY <2>3, <3>1, <1>1, <1>2
        <3>3. (Alerted(j, k - 1)' <=> Alerted(j, k - 1)) /\ log'[j] = log[j]
            BY <3>1, <3>2, <1>1
        <3> QED
            BY <2>1, <2>2, <3>1, <3>2, <3>3 DEF RecoveryFits
    <2>4. CASE ~(k > 1 /\ ~log[k - 1].ok)
        <3>1. ~(k > 1 /\ ~log'[k - 1].ok)
            BY <2>4, <1>1
        <3> QED
            BY <2>1, <2>2, <2>4, <3>1 DEF RecoveryFits
    <2> QED
        BY <2>3, <2>4
<1>5. ASSUME NEW k \in 1 .. n PROVE LongFits(k)'
    <2> SUFFICES ASSUME NEW j \in 1 .. k, Failing(j, k)',
                        log'[k].at - log'[j].at >= Threshold, log'[k].at - log'[j].at >= Cooldown
                 PROVE  Alerted(OutageStart(k), k)'
        BY DEF LongFits
    <2>1. j \in 1 .. n /\ Failing(j, k) /\ log'[k] = log[k] /\ log'[j] = log[j]
        BY <1>1
    <2>2. ~log[k].ok
        BY <2>1, <1>1 DEF Failing
    <2>3. PICK i \in 1 .. k : OutageStart(k)' = i /\ OutageStart(k) = i
        BY <2>2, <1>1, <1>2
    <2>4. Alerted(i, k)
        BY <2>1, <2>3, <1>1, FitsAll DEF AlertsInv, LongFits
    <2>5. Alerted(i, k)'
        BY <2>4, <1>1
    <2> QED
        BY <2>3, <2>5
<1> QED
    BY <1>3, <1>4, <1>5 DEF n

\* AlertsInv after an outcome, from what is to be shown of that outcome.
LEMMA NewOutcome ==
    ASSUME AlertsInv, AlertTypes', NEW ok \in BOOLEAN, NEW new, Grows(ok, new),
           NEW n, n = Len(log), Dated', Tracks', AlertsSpaced',
           ~ok => \E j \in 1 .. n + 1 : Starts(j, n + 1)',
           RecoveryFits(n + 1)', LongFits(n + 1)'
    PROVE  AlertsInv'
<1>1. /\ n \in Nat /\ DOMAIN log' = 1 .. n + 1 /\ log'[n + 1] = [ok |-> ok, at |-> now] /\ InTime'
    BY Grown DEF AlertsInv
<1>2. \A k \in 1 .. n : (~log'[k].ok => \E j \in 1 .. k : Starts(j, k)') /\ RecoveryFits(k)' /\ LongFits(k)'
    BY OldOutcomes
<1>3. \A k \in 1 .. n + 1 : k \in 1 .. n \/ k = n + 1
    BY <1>1
<1>4. (~log'[n + 1].ok => \E j \in 1 .. n + 1 : Starts(j, n + 1)') /\ RecoveryFits(n + 1)' /\ LongFits(n + 1)'
    BY <1>1
<1>5. \A k \in 1 .. n + 1 :
         (~log'[k].ok => \E j \in 1 .. k : Starts(j, k)') /\ RecoveryFits(k)' /\ LongFits(k)'
    BY <1>2, <1>3, <1>4
<1>6. Begun'
    BY <1>1, <1>5 DEF Begun
<1>7. RecoveriesMatchOutages' /\ LongOutagesAlerted'
    <2>1. (AlertTypes => /\ RecoveriesMatchOutages <=> \A k \in DOMAIN log : RecoveryFits(k)
                         /\ LongOutagesAlerted <=> \A k \in DOMAIN log : LongFits(k))'
        BY FitsAll, PTL
    <2> QED
        BY <2>1, <1>1, <1>5
<1> QED
    BY <1>1, <1>6, <1>7 DEF AlertsInv

\* The log holds a result and a time for each outcome.
LEMMA LogEntries == AlertTypes => \A k \in DOMAIN log : log[k].at \in Nat /\ log[k].ok \in BOOLEAN
<1> SUFFICES ASSUME AlertTypes, NEW k \in DOMAIN log PROVE log[k].at \in Nat /\ log[k].ok \in BOOLEAN
    OBVIOUS
<1>1. log[k] \in Entries
    BY DEF AlertTypes
<1> QED
    BY <1>1 DEF Entries

\* A failure goes into the outage under way, or begins one (record_failure).
LEMMA FailureStep == AlertsInv /\ record_failure => AlertsInv'
<1> SUFFICES ASSUME AlertsInv, record_failure PROVE AlertsInv'
    OBVIOUS
<1>0. PICK n : n = Len(log)
    OBVIOUS
<1> DEFINE start == IF first_failure_at = Never THEN now ELSE first_failure_at
           event == Event("unreachable", start, affected + 1)
           new == IF MayAlert(start) THEN {event} ELSE {}
<1>1. AlertTypes /\ InTime /\ Dated /\ Tracks /\ AlertsSpaced
    BY DEF AlertsInv
<1>2. n \in Nat /\ start \in Nat /\ start # Never /\ DOMAIN log = 1 .. n
    BY <1>0, <1>1 DEF AlertTypes, Never
<1>3. event \in Notices /\ [ok |-> FALSE, at |-> now] \in Entries
    BY <1>1, <1>2 DEF Event, Notices, AlertTypes, Entries
<1>4. /\ log' = Append(log, [ok |-> FALSE, at |-> now]) /\ now' = now
      /\ first_failure_at' = start /\ affected' = affected + 1
      /\ \/ MayAlert(start) /\ last_alert_at' = now /\ alert_active' = TRUE /\ sent' = Append(sent, event)
         \/ ~MayAlert(start) /\ last_alert_at' = last_alert_at /\ alert_active' = alert_active /\ sent' = sent
    BY DEF record_failure, Outcome
<1>5. AlertTypes'
    <2>1. Append(sent, event) \in Seq(Notices) /\ Append(log, [ok |-> FALSE, at |-> now]) \in Seq(Entries)
        BY <1>1, <1>3 DEF AlertTypes
    <2> HIDE DEF start, event
    <2>2. first_failure_at' \in Nat /\ affected' \in Nat /\ last_alert_at' \in Nat /\ now' \in Nat \ {0}
        BY <1>1, <1>2, <1>4 DEF AlertTypes
    <2>3. alert_active' \in BOOLEAN /\ log' \in Seq(Entries) /\ sent' \in Seq(Notices)
        BY <2>1, <1>1, <1>4, Zenon DEF AlertTypes
    <2> QED
        BY <2>2, <2>3, Zenon DEF AlertTypes
<1>6. event.outcome = n + 1 /\ event.at = now /\ event.kind = "unreachable"
      /\ new = IF MayAlert(start) THEN {event} ELSE {}
    BY <1>0 DEF Event
<1>7. Grows(FALSE, new)
    <2>1. MayAlert(start) => ToSet(Append(sent, event)) = ToSet(sent) \cup {event}
        BY <1>1, <1>3, ToSetAppend DEF AlertTypes
    <2> HIDE DEF start, event
    <2> QED
        BY <2>1, <1>0, <1>4, <1>6 DEF Grows
<1> HIDE DEF start, event
<1> HIDE DEF new
<1>8. /\ Len(log') = n + 1 /\ \A k \in 1 .. n : log'[k] = log[k]
      /\ DOMAIN log' = 1 .. n + 1 /\ log'[n + 1] = [ok |-> FALSE, at |-> now]
      /\ \A e \in ToSet(sent') : e.outcome \in DOMAIN log' /\ e.at = log'[e.outcome].at
      /\ \A k \in 1 .. n : \A j \in 1 .. k : Starts(j, k)' <=> Starts(j, k)
      /\ \A k \in 1 .. n : \A j \in Nat : Alerted(j, k)' <=> Alerted(j, k)
      /\ InTime'
    BY <1>0, <1>7, <1>5, Grown DEF AlertsInv
<1>9. last_alert_at <= now
    BY <1>1, <1>2 DEF Dated, InTime, AlertTypes, Never, Alerts
<1>10. Alerts' = Alerts \cup (IF MayAlert(start) THEN {event} ELSE {})
       /\ \A e \in Alerts : e.outcome \in 1 .. n /\ e.at \in Nat /\ e.at <= last_alert_at
    <2>1. Alerts' = Alerts \cup (IF MayAlert(start) THEN {event} ELSE {})
        BY <1>7, <1>6 DEF Grows, Alerts
    <2>2. \A e \in Alerts : e.outcome \in 1 .. n /\ e.at = log[e.outcome].at /\ e.at <= last_alert_at
        BY <1>1, <1>2 DEF Dated, Alerts
    <2>3. \A k \in 1 .. n : log[k].at \in Nat
        BY <1>1, <1>2, LogEntries
    <2> QED
        BY <2>1, <2>2, <2>3
<1>11. Dated'
    <2>1. CASE MayAlert(start)
        <3>1. last_alert_at' = now /\ event \in Alerts' /\ now # Never
            BY <2>1, <1>4, <1>10, <1>1 DEF AlertTypes, Never
        <3>2. \A e \in Alerts' : e.at <= now
            BY <1>1, <1>6, <1>9, <1>10 DEF AlertTypes
        <3> QED
            BY <3>1, <3>2, <1>6, <1>8 DEF Dated
    <2>2. CASE ~MayAlert(start)
        <3>1. last_alert_at' = last_alert_at /\ Alerts' = Alerts
            BY <2>2, <1>4, <1>10
        <3> QED
            BY <3>1, <1>1, <1>8 DEF Dated
    <2> QED
        BY <2>1, <2>2
<1>12. AlertsSpaced'
    <2> SUFFICES ASSUME NEW d \in Alerts', NEW e \in Alerts', d.outcome < e.outcome
                 PROVE  e.at - d.at >= Cooldown
        BY DEF AlertsSpaced
    <2>1. CASE e \in Alerts
        <3>1. d \in Alerts
            BY <2>1, <1>10, <1>6, <1>2
        <3> QED
            BY <2>1, <3>1, <1>1 DEF AlertsSpaced
    <2>2. CASE e \notin Alerts
        <3>1. e = event /\ MayAlert(start) /\ d \in Alerts
            BY <2>2, <1>10, <1>6, <1>2
        <3>2. last_alert_at # Never
            BY <3>1, <1>1 DEF Dated
        <3> QED
            BY <3>1, <3>2, <1>1, <1>6, <1>10, AlertsAssumption DEF MayAlert, AlertTypes
    <2> QED
        BY <2>1, <2>2
<1>21. \A k \in 1 .. n + 1 : log'[k].at \in Nat
    <2>1. (AlertTypes => \A k \in DOMAIN log : log[k].at \in Nat /\ log[k].ok \in BOOLEAN)'
        BY LogEntries, PTL
    <2> QED
        BY <2>1, <1>5, <1>8
<1>13. PICK j \in 1 .. n + 1 :
          /\ Starts(j, n + 1)' /\ log'[j].at = start /\ affected' = n + 1 - j + 1
          /\ alert_active' <=> Alerted(j, n + 1)'
    <2>1. CASE first_failure_at = Never
        <3>1. Starts(n + 1, n + 1)'
            <4>1. n + 1 = 1 \/ log'[n].ok
                BY <2>1, <1>1, <1>2, <1>8 DEF Tracks
            <4>2. (n + 1) - 1 = n
                BY <1>2
            <4> QED
                BY <4>1, <4>2, <1>2, <1>8 DEF Starts, Failing
        <3>2. log'[n + 1].at = start /\ affected' = 1
            BY <2>1, <1>1, <1>4, <1>8 DEF start, Tracks
        <3>3. alert_active' <=> Alerted(n + 1, n + 1)'
            <4>1. CASE MayAlert(start)
                BY <4>1, <1>2, <1>4, <1>6, <1>10 DEF Alerted
            <4>2. CASE ~MayAlert(start)
                BY <4>2, <2>1, <1>1, <1>2, <1>4, <1>10 DEF Alerted, Tracks
            <4> QED
                BY <4>1, <4>2
        <3> QED
            BY <3>1, <3>2, <3>3, <1>2
    <2>2. CASE first_failure_at # Never
        <3>1. PICK i \in 1 .. n :
                 /\ Starts(i, n) /\ log[i].at = first_failure_at /\ affected = n - i + 1
                 /\ alert_active <=> Alerted(i, n)
            BY <2>2, <1>0, <1>1 DEF Tracks
        <3>2. Starts(i, n + 1)'
            <4>1. \A k \in i .. n + 1 : (k \in 1 .. n /\ k \in i .. n) \/ k = n + 1
                BY <1>2
            <4>2. i # 1 => i - 1 \in 1 .. n
                BY <1>2
            <4> QED
                BY <3>1, <4>1, <4>2, <1>8 DEF Starts, Failing
        <3>3. log'[i].at = start /\ affected' = n + 1 - i + 1
            BY <3>1, <2>2, <1>2, <1>4, <1>8 DEF start
        <3>4. alert_active' <=> Alerted(i, n + 1)'
            <4>1. CASE MayAlert(start)
                <5>1. event.outcome \in i .. n + 1
                    BY <1>2, <1>6
                <5> QED
                    BY <4>1, <5>1, <1>4, <1>10 DEF Alerted
            <4>2. CASE ~MayAlert(start)
                <5>1. \A e \in Alerts : e.outcome \in i .. n + 1 <=> e.outcome \in i .. n
                    BY <1>2, <1>10
                <5>2. Alerts' = Alerts
                    BY <4>2, <1>10
                <5> QED
                    BY <4>2, <5>1, <5>2, <3>1, <1>4 DEF Alerted
            <4> QED
                BY <4>1, <4>2
        <3> QED
            BY <3>2, <3>3, <3>4, <1>2
    <2> QED
        BY <2>1, <2>2
<1>14. Tracks'
    BY <1>13, <1>4, <1>2, <1>8 DEF Tracks
<1>15. RecoveryFits(n + 1)'
    BY <1>8 DEF RecoveryFits
<1>16. OutageStart(n + 1)' = j
    <2>1. OneStart'
        BY <1>5, HasOneStart, PTL
    <2> QED
        BY <2>1, <1>13, <1>8, <1>2 DEF OneStart
<1>17. LongFits(n + 1)'
    <2> SUFFICES ASSUME NEW i \in 1 .. n + 1, Failing(i, n + 1)',
                        log'[n + 1].at - log'[i].at >= Threshold, log'[n + 1].at - log'[i].at >= Cooldown
                 PROVE  Alerted(OutageStart(n + 1), n + 1)'
        BY DEF LongFits
    <2>1. j <= i /\ log'[j].at <= log'[i].at
        <3>1. ~(i < j)
            <4> SUFFICES ASSUME i < j PROVE FALSE
                OBVIOUS
            <4>1. j - 1 \in i .. n + 1 /\ j # 1
                BY <1>2
            <4> QED
                BY <4>1, <1>13 DEF Starts, Failing
        <3> QED
            BY <3>1, <1>2, <1>8 DEF InTime
    <2>2. log'[i].at \in Nat /\ log'[n + 1].at = now /\ now \in Nat
        BY <1>21, <1>2, <1>8, <1>1 DEF AlertTypes
    <2>3. CASE MayAlert(start)
        <3>1. event \in Alerts' /\ event.outcome \in j .. n + 1
            BY <2>3, <1>2, <1>6, <1>10
        <3> QED
            BY <3>1, <1>16 DEF Alerted
    <2>4. CASE ~MayAlert(start)
        <3>1. last_alert_at # Never /\ now - last_alert_at < Cooldown
            <4>1. now - start >= Threshold
                BY <2>1, <2>2, <1>2, <1>13, AlertsAssumption
            <4>2. last_alert_at \in Nat /\ Cooldown \in Nat
                BY <1>1, AlertsAssumption DEF AlertTypes
            <4> QED
                BY <4>1, <4>2, <2>2, <2>4 DEF MayAlert
        <3>2. PICK e \in Alerts : e.at = last_alert_at
            BY <3>1, <1>1 DEF Dated
        <3>3. e.outcome \in 1 .. n /\ e.at = log'[e.outcome].at
            BY <1>1, <1>2, <1>8, <1>10 DEF Dated, Alerts
        <3>4. log'[e.outcome].at > log'[i].at
            <4>1. last_alert_at \in Nat /\ Cooldown \in Nat
                BY <1>1, AlertsAssumption DEF AlertTypes
            <4>2. last_alert_at > log'[i].at
                BY <4>1, <3>1, <2>2
            <4> QED
                BY <4>2, <3>2, <3>3
        <3>5. ~(e.outcome <= i)
            <4>1. e.outcome \in DOMAIN log' /\ i \in DOMAIN log' /\ log'[e.outcome].at \in Nat
                BY <3>3, <1>2, <1>8, <1>21
            <4> QED
                BY <4>1, <3>4, <2>2, <1>8 DEF InTime
        <3>6. e.outcome \in j .. n + 1
            BY <3>3, <3>5, <2>1, <1>2
        <3> QED
            BY <3>6, <1>10, <1>16 DEF Alerted
    <2> QED
        BY <2>3, <2>4
<1> QED
    BY <1>0, <1>5, <1>7, <1>11, <1>12, <1>13, <1>14, <1>15, <1>17, NewOutcome

\* A success ends the outage; its recovery, if one is due, is the outage's.
LEMMA SuccessStep == AlertsInv /\ record_success => AlertsInv'
<1> SUFFICES ASSUME AlertsInv, record_success PROVE AlertsInv'
    OBVIOUS
<1>0. PICK n : n = Len(log)
    OBVIOUS
<1> DEFINE event == Event("recovered", first_failure_at, affected)
           new == IF RecoveryDue THEN {event} ELSE {}
<1>1. AlertTypes /\ InTime /\ Dated /\ Begun /\ Tracks /\ AlertsSpaced
    BY DEF AlertsInv
<1>2. n \in Nat /\ DOMAIN log = 1 .. n
    BY <1>0, <1>1 DEF AlertTypes
<1>3. event \in Notices /\ [ok |-> TRUE, at |-> now] \in Entries
    BY <1>0, <1>1, <1>2 DEF Event, Notices, AlertTypes, Entries
<1>4. /\ log' = Append(log, [ok |-> TRUE, at |-> now]) /\ now' = now
      /\ first_failure_at' = Never /\ affected' = 0 /\ alert_active' = FALSE
      /\ last_alert_at' = last_alert_at
      /\ sent' = IF RecoveryDue THEN Append(sent, event) ELSE sent
    BY DEF record_success, Outcome, ResetAfterOutage
<1>5. AlertTypes'
    <2>1. Append(sent, event) \in Seq(Notices) /\ Append(log, [ok |-> TRUE, at |-> now]) \in Seq(Entries)
        BY <1>1, <1>3 DEF AlertTypes
    <2> HIDE DEF event
    <2>2. first_failure_at' \in Nat /\ affected' \in Nat /\ last_alert_at' \in Nat /\ now' \in Nat \ {0}
        BY <1>1, <1>4 DEF AlertTypes, Never
    <2>3. alert_active' \in BOOLEAN /\ log' \in Seq(Entries) /\ sent' \in Seq(Notices)
        BY <2>1, <1>1, <1>4, Zenon DEF AlertTypes
    <2> QED
        BY <2>2, <2>3, Zenon DEF AlertTypes
<1>6. /\ event = [kind |-> "recovered", outage_start |-> first_failure_at, count |-> affected,
                  at |-> now, outcome |-> n + 1]
      /\ event.outcome = n + 1 /\ event.at = now /\ event.kind = "recovered"
      /\ new = IF RecoveryDue THEN {event} ELSE {}
    BY <1>0 DEF Event
<1>7. Grows(TRUE, new)
    <2>1. ToSet(Append(sent, event)) = ToSet(sent) \cup {event}
        BY <1>1, <1>3, ToSetAppend DEF AlertTypes
    <2> HIDE DEF event
    <2> QED
        BY <2>1, <1>0, <1>4, <1>6 DEF Grows
<1> HIDE DEF event, new
<1>8. /\ Len(log') = n + 1 /\ \A k \in 1 .. n : log'[k] = log[k]
      /\ DOMAIN log' = 1 .. n + 1 /\ log'[n + 1] = [ok |-> TRUE, at |-> now]
      /\ \A e \in ToSet(sent') : e.outcome \in DOMAIN log' /\ e.at = log'[e.outcome].at
      /\ \A k \in 1 .. n : \A j \in Nat : Alerted(j, k)' <=> Alerted(j, k)
      /\ \A k \in 1 .. n : ~log[k].ok => OutageStart(k)' = OutageStart(k)
    BY <1>0, <1>7, <1>5, Grown DEF AlertsInv
<1>9. Alerts' = Alerts
    BY <1>6, <1>7 DEF Grows, Alerts
<1>10. Dated'
    BY <1>1, <1>4, <1>8, <1>9 DEF Dated
<1>11. AlertsSpaced'
    BY <1>1, <1>9 DEF AlertsSpaced
<1>12. Tracks'
    BY <1>4, <1>8 DEF Tracks
<1>13. LongFits(n + 1)'
    BY <1>2, <1>8 DEF LongFits, Failing
<1>14. {e \in Recoveries' : e.outcome = n + 1} = new
    <2>1. \A e \in ToSet(sent) : e.outcome # n + 1
        BY <1>1, <1>2 DEF Dated
    <2> QED
        BY <2>1, <1>6, <1>7 DEF Grows, Recoveries
<1>15. RecoveryFits(n + 1)'
    <2>0. (n + 1) - 1 = n
        BY <1>2
    <2>1. CASE first_failure_at = Never
        <3>1. new = {}
            BY <2>1, <1>1, <1>6 DEF Tracks, RecoveryDue
        <3>2. ~(n + 1 > 1 /\ ~log'[n].ok)
            BY <2>1, <1>0, <1>1, <1>2, <1>8 DEF Tracks
        <3> QED
            BY <3>1, <3>2, <2>0, <1>14 DEF RecoveryFits
    <2>2. CASE first_failure_at # Never
        <3>1. PICK i \in 1 .. n :
                 /\ Starts(i, n) /\ log[i].at = first_failure_at /\ affected = n - i + 1
                 /\ alert_active <=> Alerted(i, n)
            BY <2>2, <1>0, <1>1 DEF Tracks
        <3>2. n \in 1 .. n /\ ~log[n].ok
            BY <3>1, <1>2 DEF Starts, Failing
        <3>3. OutageStart(n)' = i
            BY <3>1, <3>2, <1>1, <1>2, <1>8, HasOneStart DEF OneStart
        <3>4. n + 1 > 1 /\ ~log'[n].ok /\ log'[i] = log[i] /\ (alert_active <=> Alerted(i, n)')
            BY <3>1, <3>2, <1>2, <1>8
        <3>5. new = IF NotifyRecovery /\ Alerted(i, n)' THEN {event} ELSE {}
            BY <3>4, <1>6 DEF RecoveryDue
        <3>6. event = [kind |-> "recovered", outage_start |-> log'[i].at, count |-> (n + 1) - i,
                       at |-> log'[n + 1].at, outcome |-> n + 1]
            <4>1. affected = (n + 1) - i
                BY <3>1, <1>2
            <4> QED
                BY <4>1, <3>1, <3>4, <1>6, <1>8
        <3> QED
            BY <3>3, <3>4, <3>5, <3>6, <2>0, <1>14 DEF RecoveryFits
    <2> QED
        BY <2>1, <2>2
<1> QED
    BY <1>0, <1>5, <1>7, <1>10, <1>11, <1>12, <1>13, <1>15, NewOutcome

\* A fresh tracker has seen no outcome and sent nothing.
LEMMA AlertsStart == AlertsInit => AlertsInv
<1> SUFFICES ASSUME AlertsInit PROVE AlertsInv
    OBVIOUS
<1>1. log = << >> /\ DOMAIN log = {} /\ ToSet(sent) = {} /\ last_alert_at = Never
    BY DEF AlertsInit, ToSet
<1>2. AlertTypes
    <2>1. << >> \in Seq(Entries) /\ << >> \in Seq(Notices)
        OBVIOUS
    <2>2. now \in Nat \ {0} /\ first_failure_at \in Nat /\ last_alert_at \in Nat /\ affected \in Nat
        BY DEF AlertsInit, Never
    <2> QED
        BY <2>1, <2>2, Zenon DEF AlertsInit, AlertTypes
<1>3. InTime /\ Begun /\ Tracks
    BY <1>1 DEF InTime, Begun, Tracks, AlertsInit
<1>4. Dated /\ AlertsSpaced
    BY <1>1 DEF Dated, AlertsSpaced, Alerts
<1>5. RecoveriesMatchOutages /\ LongOutagesAlerted
    BY <1>1 DEF RecoveriesMatchOutages, LongOutagesAlerted
<1> QED
    BY <1>2, <1>3, <1>4, <1>5 DEF AlertsInv

\* The steps that leave the tracker alone; the hooks run in any order.
LEMMA AlertsQuiet ==
    ASSUME AlertsInv, now' \in Nat, now' >= now,
           UNCHANGED <<first_failure_at, affected, last_alert_at, alert_active, log, sent>>
    PROVE  AlertsInv'
<1>1. AlertTypes'
    BY DEF AlertsInv, AlertTypes
<1>2. Alerts' = Alerts /\ Recoveries' = Recoveries
    BY DEF Alerts, Recoveries
<1>3. /\ \A j, k : Alerted(j, k)' <=> Alerted(j, k)
      /\ \A j, k : Failing(j, k)' <=> Failing(j, k)
      /\ \A j, k : Starts(j, k)' <=> Starts(j, k)
      /\ \A k : OutageStart(k)' = OutageStart(k)
    BY <1>2 DEF Alerted, Failing, Starts, OutageStart
<1>4. InTime'
    <2>1. \A k \in DOMAIN log : log[k].at \in Nat /\ log[k].at <= now /\ now \in Nat
        BY LogEntries DEF AlertsInv, InTime, AlertTypes
    <2> QED
        BY <2>1 DEF AlertsInv, InTime
<1>5. Dated' /\ Begun' /\ Tracks' /\ AlertsSpaced'
    BY <1>2, <1>3 DEF AlertsInv, Dated, Begun, Tracks, AlertsSpaced
<1>6. RecoveriesMatchOutages' /\ LongOutagesAlerted'
    BY <1>2, <1>3 DEF AlertsInv, RecoveriesMatchOutages, LongOutagesAlerted
<1> QED
    BY <1>1, <1>4, <1>5, <1>6 DEF AlertsInv

\* The clock, a failure, a success, or a hook running.
LEMMA AlertsStep == AlertsInv /\ [AlertsNext]_alertVars => AlertsInv'
<1> SUFFICES ASSUME AlertsInv, [AlertsNext]_alertVars PROVE AlertsInv'
    OBVIOUS
<1>1. now \in Nat
    BY DEF AlertsInv, AlertTypes
<1>2. CASE ClockTick
    BY <1>1, <1>2, AlertsQuiet DEF ClockTick
<1>3. CASE on_alert
    BY <1>1, <1>3, AlertsQuiet DEF on_alert
<1>4. CASE UNCHANGED alertVars
    BY <1>1, <1>4, AlertsQuiet DEF alertVars
<1> QED
    BY <1>2, <1>3, <1>4, FailureStep, SuccessStep DEF AlertsNext

\* The tracker against the log, in every behaviour of either duty.
LEMMA AlertsAlways == UpkeepSpec => []AlertsInv
<1>1. UpkeepInit => AlertsInv
    BY AlertsStart DEF UpkeepInit
<1>2. AlertsInv /\ [UpkeepNext]_upkeepVars => AlertsInv'
    <2> SUFFICES ASSUME AlertsInv, [UpkeepNext]_upkeepVars PROVE AlertsInv'
        OBVIOUS
    <2>1. [AlertsNext]_alertVars
        BY DEF UpkeepNext, upkeepVars
    <2> QED
        BY <2>1, AlertsStep
<1> QED
    BY <1>1, <1>2, PTL DEF UpkeepSpec

\* record_failure never sends two alerts closer than cooldown_secs, for any
\* threshold, cooldown and sequence of outcomes.
THEOREM AlwaysSpaced == UpkeepSpec => []AlertsSpaced
<1>1. AlertsInv => AlertsSpaced
    BY DEF AlertsInv
<1> QED
    BY <1>1, AlertsAlways, PTL

\* record_success reports exactly the outages that were alerted, with their
\* start and their number of lost events.
THEOREM AlwaysMatched == UpkeepSpec => []RecoveriesMatchOutages
<1>1. AlertsInv => RecoveriesMatchOutages
    BY DEF AlertsInv
<1> QED
    BY <1>1, AlertsAlways, PTL

\* No outage outlasts threshold and cooldown together without an alert.
THEOREM AlwaysAlerted == UpkeepSpec => []LongOutagesAlerted
<1>1. AlertsInv => LongOutagesAlerted
    BY DEF AlertsInv
<1> QED
    BY <1>1, AlertsAlways, PTL

=============================================================================
