----------------------------- MODULE TlsReload -----------------------------
(***************************************************************************)
(* Rotation of the listeners' TLS credentials (tls.rs): credential sources *)
(* loaded from files, the poll task that reloads a source when the hash of *)
(* its files changes, and the SIGHUP task that reloads every source.       *)
(*                                                                         *)
(* An operator rewrites the files one by one, not atomically, while the    *)
(* service reads them one by one.  Hashing and loading are separate reads. *)
(***************************************************************************)
EXTENDS Integers, Sequences

CONSTANTS
    Sources,        \* reloadable credential sources (HTTP, gRPC)
    Parts,          \* files of a source: 2, or 3 with a client-CA bundle
    MaxVersion,     \* bound: rotations of the files
    MaxSignals,     \* bound: SIGHUPs
    Triggers        \* configured triggers, one set per service modelled

ASSUME TlsAssumption ==
    /\ Parts \in {2, 3} /\ MaxVersion \in Nat /\ MaxSignals \in Nat
    /\ Triggers \subseteq SUBSET {"poll", "sighup"}

Files == 1 .. Parts     \* 1 certificate, 2 key, 3 client CA

\* What a file holds: version n of the credentials, or an unfinished write.
Versions == 0 .. MaxVersion
Torn == -1              \* readable, does not parse
Missing == -2           \* cannot be read
Contents == Versions \cup {Torn, Missing}

\* Files read so far; all of them: a fingerprint, or a loaded ServerConfig.
Reads == UNION {[1 .. n -> Contents] : n \in 0 .. Parts}
Whole == [Files -> Contents]
None == <<>>

Tasks == {"poll", "sighup"}

VARIABLES
    disk,           \* contents of each source's files
    version,        \* version the operator is writing, per source
    mode,           \* "boot", "serving", "refused"
    current,        \* installed configuration (ArcSwap)
    last_seen,      \* fingerprint the poll task compares with
    pc,             \* per task and source: "idle", "queued", "hash", "load", "store"
    read,           \* what that task has read of the files
    hashed,         \* fingerprint the running poll tick took
    pending,        \* a SIGHUP is waiting to be handled
    signals,        \* SIGHUPs sent
    triggers        \* configured triggers

operator == <<disk, version>>
tasks == <<pc, read, hashed>>
vars == <<operator, mode, current, last_seen, tasks, pending, signals, triggers>>

Init ==
    /\ disk = [s \in Sources |-> [f \in Files |-> 0]]
    /\ version = [s \in Sources |-> 0]
    /\ mode = [s \in Sources |-> "boot"]
    /\ current = [s \in Sources |-> None]
    /\ last_seen = [s \in Sources |-> None]
    /\ pc = [t \in Tasks |-> [s \in Sources |-> IF t = "poll" THEN "hash" ELSE "idle"]]
    /\ read = [t \in Tasks |-> [s \in Sources |-> None]]
    /\ hashed = [s \in Sources |-> None]
    /\ pending = FALSE /\ signals = 0
    /\ triggers \in Triggers

-----------------------------------------------------------------------------
(* The operator.                                                           *)

Complete(s) == \A f \in Files : disk[s][f] = version[s]

StartRotation(s) ==
    /\ Complete(s) /\ version[s] < MaxVersion
    /\ version' = [version EXCEPT ![s] = @ + 1]
    /\ UNCHANGED <<disk, mode, current, last_seen, tasks, pending, signals, triggers>>

\* A file is being rewritten ...
BeginWrite(s, f) ==
    /\ disk[s][f] \in Versions /\ disk[s][f] # version[s]
    /\ \E c \in {Torn, Missing} : disk' = [disk EXCEPT ![s][f] = c]
    /\ UNCHANGED <<version, mode, current, last_seen, tasks, pending, signals, triggers>>

\* ... and is complete, or was replaced in one rename.
EndWrite(s, f) ==
    /\ disk[s][f] # version[s]
    /\ disk' = [disk EXCEPT ![s][f] = version[s]]
    /\ UNCHANGED <<version, mode, current, last_seen, tasks, pending, signals, triggers>>

Hangup ==
    /\ "sighup" \in triggers /\ signals < MaxSignals
    /\ \A s \in Sources : mode[s] = "serving"
    /\ signals' = signals + 1
    /\ pending' = TRUE
    /\ UNCHANGED <<operator, mode, current, last_seen, tasks, triggers>>

-----------------------------------------------------------------------------
(* A task's progress on a source.                                          *)

At(t, s, step) == pc[t][s] = step

\* Task t goes on to `step' with nothing read.
Goto(t, s, step) ==
    /\ pc' = [pc EXCEPT ![t][s] = step]
    /\ read' = [read EXCEPT ![t][s] = None]

\* The content of the file task t reads next, and all it has read then.
NextFile(t, s) == disk[s][Len(read[t][s]) + 1]
ReadAfter(t, s) == Append(read[t][s], NextFile(t, s))

ReadsLast(t, s) == Len(read[t][s]) = Parts - 1

ReadOn(t, s) ==
    /\ read' = [read EXCEPT ![t][s] = ReadAfter(t, s)]
    /\ UNCHANGED pc

\* A tick of the poll task; the ticks of a source do not overlap.
Tick(s) ==
    /\ "poll" \in triggers /\ mode[s] = "serving"
    /\ At("poll", s, "idle")
    /\ Goto("poll", s, "hash")
    /\ UNCHANGED <<operator, mode, current, last_seen, hashed, pending, signals, triggers>>

\* fingerprint_credentials within reload_tick: an unreadable file ends the
\* tick, an unchanged fingerprint as well.
fingerprint_tick(s) ==
    \/ /\ NextFile("poll", s) = Missing
       /\ Goto("poll", s, "idle")
       /\ UNCHANGED hashed
    \/ /\ NextFile("poll", s) # Missing /\ ~ReadsLast("poll", s)
       /\ ReadOn("poll", s)
       /\ UNCHANGED hashed
    \/ /\ NextFile("poll", s) # Missing /\ ReadsLast("poll", s)
       /\ \/ /\ ReadAfter("poll", s) = last_seen[s]
             /\ Goto("poll", s, "idle")
             /\ UNCHANGED hashed
          \/ /\ ReadAfter("poll", s) # last_seen[s]
             /\ hashed' = [hashed EXCEPT ![s] = ReadAfter("poll", s)]
             /\ Goto("poll", s, "load")

\* fingerprint_credentials(..).ok() within from_tls_config.
fingerprint_boot(s) ==
    \/ /\ NextFile("poll", s) = Missing
       /\ Goto("poll", s, "load")
       /\ UNCHANGED hashed
    \/ /\ NextFile("poll", s) # Missing /\ ~ReadsLast("poll", s)
       /\ ReadOn("poll", s)
       /\ UNCHANGED hashed
    \/ /\ NextFile("poll", s) # Missing /\ ReadsLast("poll", s)
       /\ hashed' = [hashed EXCEPT ![s] = ReadAfter("poll", s)]
       /\ Goto("poll", s, "load")

fingerprint_credentials(s) ==
    /\ At("poll", s, "hash")
    /\ \/ mode[s] = "boot" /\ fingerprint_boot(s)
       \/ mode[s] = "serving" /\ fingerprint_tick(s)
    /\ UNCHANGED <<operator, mode, current, last_seen, pending, signals, triggers>>

-----------------------------------------------------------------------------
(* load_server_config and reload.                                          *)

\* Mutant of Loadable: the key is not compared with the certificate.
Loadable_Unpaired(r) == \A f \in DOMAIN r : r[f] \in Versions

\* with_single_cert refuses a key that is not the certificate's.
Loadable(r) ==
    /\ \A f \in DOMAIN r : r[f] \in Versions
    /\ Len(r) >= 2 => r[1] = r[2]

\* The key's mismatch shows when the whole configuration is built.  A failed
\* load leaves the poll's baseline alone.
load_server_config(t, s) ==
    /\ At(t, s, "load")
    /\ \/ /\ NextFile(t, s) \in Versions /\ ~ReadsLast(t, s)
          /\ ReadOn(t, s)
          /\ UNCHANGED <<mode, hashed>>
       \/ /\ NextFile(t, s) \in Versions /\ ReadsLast(t, s) /\ Loadable(ReadAfter(t, s))
          /\ read' = [read EXCEPT ![t][s] = ReadAfter(t, s)]
          /\ pc' = [pc EXCEPT ![t][s] = "store"]
          /\ UNCHANGED <<mode, hashed>>
       \/ /\ NextFile(t, s) \notin Versions \/ (ReadsLast(t, s) /\ ~Loadable(ReadAfter(t, s)))
          /\ Goto(t, s, "idle")
          /\ mode' = [mode EXCEPT ![s] = IF @ = "boot" THEN "refused" ELSE @]
          /\ hashed' = IF t = "poll" THEN [hashed EXCEPT ![s] = None] ELSE hashed
    /\ UNCHANGED <<operator, current, last_seen, pending, signals, triggers>>

\* Mutant of Baseline: the baseline is what was on disk when the load ended.
Baseline_Late(s) == disk[s]

\* The fingerprint taken before the files were loaded.
Baseline(s) == hashed[s]

\* ArcSwap::store; at start-up the poll task is spawned with the fingerprint
\* the source recorded.
store(t, s) ==
    /\ At(t, s, "store")
    /\ current' = [current EXCEPT ![s] = read[t][s]]
    /\ mode' = [mode EXCEPT ![s] = "serving"]
    /\ last_seen' = IF t = "poll" THEN [last_seen EXCEPT ![s] = Baseline(s)] ELSE last_seen
    /\ hashed' = IF t = "poll" THEN [hashed EXCEPT ![s] = None] ELSE hashed
    /\ Goto(t, s, "idle")
    /\ UNCHANGED <<operator, pending, signals, triggers>>

-----------------------------------------------------------------------------
(* SIGHUP: reload_all, one source after the other.                         *)

SighupIdle == \A s \in Sources : At("sighup", s, "idle")

recv_hangup ==
    /\ pending /\ SighupIdle
    /\ pending' = FALSE
    /\ pc' = [pc EXCEPT !["sighup"] = [s \in Sources |-> "queued"]]
    /\ UNCHANGED <<operator, mode, current, last_seen, read, hashed, signals, triggers>>

Reloading == {s \in Sources : pc["sighup"][s] \in {"load", "store"}}

\* Mutant of reload_next: the sources after a failed one are skipped.
reload_next_FailFast(s) ==
    /\ At("sighup", s, "queued") /\ Reloading = {}
    /\ \/ /\ \A o \in Sources : At("sighup", o, "idle") => current[o] = disk[o]
          /\ Goto("sighup", s, "load")
       \/ /\ \E o \in Sources : At("sighup", o, "idle") /\ current[o] # disk[o]
          /\ Goto("sighup", s, "idle")
    /\ UNCHANGED <<operator, mode, current, last_seen, hashed, pending, signals, triggers>>

\* The order of the sources is of no consequence.
reload_next(s) ==
    /\ At("sighup", s, "queued") /\ Reloading = {}
    /\ Goto("sighup", s, "load")
    /\ UNCHANGED <<operator, mode, current, last_seen, hashed, pending, signals, triggers>>

-----------------------------------------------------------------------------

PollStep(s) ==
    Tick(s) \/ fingerprint_credentials(s) \/ load_server_config("poll", s) \/ store("poll", s)

SighupStep ==
    \/ recv_hangup
    \/ \E s \in Sources :
         reload_next(s) \/ load_server_config("sighup", s) \/ store("sighup", s)

Next ==
    \/ \E s \in Sources :
         \/ StartRotation(s) \/ PollStep(s)
         \/ \E f \in Files : BeginWrite(s, f) \/ EndWrite(s, f)
    \/ Hangup \/ SighupStep

\* The runtime runs the tasks and their timers.  The operator owes nothing.
Fairness == (\A s \in Sources : WF_vars(PollStep(s))) /\ WF_vars(SighupStep)

Spec == Init /\ [][Next]_vars /\ Fairness

-----------------------------------------------------------------------------
(* Properties.                                                             *)

\* Fingerprints and installed configurations cover every file of the source,
\* and tasks keep their types.
TypeOK ==
    /\ disk \in [Sources -> [Files -> Contents]] /\ version \in [Sources -> Versions]
    /\ mode \in [Sources -> {"boot", "serving", "refused"}]
    /\ current \in [Sources -> Whole \cup {None}]
    /\ last_seen \in [Sources -> Whole \cup {None}]
    /\ hashed \in [Sources -> Whole \cup {None}]
    /\ pc \in [Tasks -> [Sources -> {"idle", "queued", "hash", "load", "store"}]]
    /\ read \in [Tasks -> [Sources -> Reads]]
    /\ pending \in BOOLEAN /\ signals \in 0 .. MaxSignals
    /\ triggers \in Triggers

\* A listener that serves, serves a whole configuration whose key is its
\* certificate's, though files are read one by one while they are rewritten.
ServesPair ==
    \A s \in Sources : mode[s] = "serving" =>
        /\ Len(current[s]) = Parts
        /\ \A f \in Files : current[s][f] \in Versions
        /\ current[s][1] = current[s][2]

\* A service that polls ends up serving what the operator left on disk,
\* whatever its ticks read in the middle of a rotation.
PollConverges ==
    "poll" \in triggers =>
        \A s \in Sources :
            <>[](mode[s] = "serving" /\ Complete(s) => current[s] = disk[s])

\* A SIGHUP after a source's files are complete installs them, even when
\* another source's do not load.
SighupTakesEffect ==
    "sighup" \in triggers =>
        \A s \in Sources :
            (pending /\ Complete(s) /\ version[s] = MaxVersion) ~> (current[s] = disk[s])

=============================================================================
