----------------------------- MODULE TlsProofs -----------------------------
(***************************************************************************)
(* What TlsReload and ClientTls promise for any set of sources, any number *)
(* of files, rotations and signals, any combination of triggers, and any   *)
(* number of tasks that reload and use the outbound identity: a serving    *)
(* listener never holds a torn or mismatched pair, and the identity is     *)
(* replaced entirely or not at all.                                        *)
(***************************************************************************)
EXTENDS TlsReload, ClientTls, SequenceTheorems, TLAPS

-----------------------------------------------------------------------------
(* Listeners.                                                              *)

\* What a task holds of the files at each of its steps: less than all while
\* it reads, a configuration that loads when it is about to install one.
Progress(t, s) ==
    /\ read[t][s] \in Seq(Contents)
    /\ pc[t][s] \in {"idle", "queued", "hash", "load"} => Len(read[t][s]) < Parts
    /\ pc[t][s] = "store" => Len(read[t][s]) = Parts /\ Loadable(read[t][s])

\* The inductive invariant.
IInv ==
    /\ TypeOK
    /\ ServesPair
    /\ \A t \in Tasks, s \in Sources : Progress(t, s)

\* What has been read of the files is a value of Reads.
LEMMA SeqIsReads ==
    ASSUME NEW r \in Seq(Contents), Len(r) <= Parts
    PROVE  r \in Reads
<1>1. r \in [1 .. Len(r) -> Contents] /\ Len(r) \in Nat
    BY LenProperties
<1>2. Len(r) \in 0 .. Parts
    BY <1>1, TlsAssumption
<1> QED
    BY <1>1, <1>2 DEF Reads

\* A sequence as long as the list of files covers every file.
LEMMA SeqIsWhole ==
    ASSUME NEW r \in Seq(Contents), Len(r) = Parts
    PROVE  r \in Whole /\ r \in Whole \cup {None}
    BY LenProperties DEF Whole, Files

\* Reading one file more appends its content.
LEMMA OneMore ==
    ASSUME TypeOK, NEW t \in Tasks, NEW s \in Sources,
           Progress(t, s), Len(read[t][s]) < Parts
    PROVE  /\ NextFile(t, s) \in Contents
           /\ ReadAfter(t, s) \in Seq(Contents)
           /\ Len(ReadAfter(t, s)) = Len(read[t][s]) + 1
           /\ Len(read[t][s]) \in Nat
<1> DEFINE n == Len(read[t][s])
<1>1. read[t][s] \in Seq(Contents)
    BY DEF Progress
<1>2. n \in Nat
    BY <1>1, LenProperties
<1>3. n + 1 \in Files
    BY <1>2, TlsAssumption DEF Files
<1>4. NextFile(t, s) \in Contents
    BY <1>3 DEF NextFile, TypeOK
<1> QED
    BY <1>1, <1>2, <1>4, AppendProperties DEF ReadAfter

\* What loads and covers every file is a configuration with its own key.
LEMMA LoadableServes ==
    ASSUME NEW r \in Seq(Contents), Len(r) = Parts, Loadable(r)
    PROVE  /\ \A f \in Files : r[f] \in Versions
           /\ r[1] = r[2]
<1>1. DOMAIN r = Files
    BY LenProperties DEF Files
<1>2. Len(r) >= 2
    BY TlsAssumption
<1> QED
    BY <1>1, <1>2 DEF Loadable

\* Nothing read yet is less than every file.
LEMMA EmptyRead ==
    /\ None \in Seq(Contents) /\ Len(None) = 0 /\ Len(None) < Parts
    BY EmptySeq, TlsAssumption DEF None

Steps == {"idle", "queued", "hash", "load", "store"}

\* A task's step on one source: what it holds then fits where it stands, and
\* the other tasks and sources are not concerned.
LEMMA Moved ==
    ASSUME TypeOK, \A t \in Tasks, s \in Sources : Progress(t, s),
           NEW t \in Tasks, NEW s \in Sources, NEW p \in Steps, NEW r \in Seq(Contents),
           pc' = [pc EXCEPT ![t][s] = p], read' = [read EXCEPT ![t][s] = r],
           p \in {"idle", "queued", "hash", "load"} => Len(r) < Parts,
           p = "store" => Len(r) = Parts /\ Loadable(r)
    PROVE  /\ \A u \in Tasks, v \in Sources : Progress(u, v)'
           /\ pc' \in [Tasks -> [Sources -> Steps]]
           /\ read' \in [Tasks -> [Sources -> Reads]]
<1>1. pc \in [Tasks -> [Sources -> Steps]] /\ read \in [Tasks -> [Sources -> Reads]]
    BY DEF TypeOK, Steps
<1>2. Len(r) <= Parts
  <2>1. Len(r) \in Nat
      BY LenProperties
  <2> QED
      BY <2>1, TlsAssumption DEF Steps
<1>3. r \in Reads
    BY <1>2, SeqIsReads
<1>4. ASSUME NEW u \in Tasks, NEW v \in Sources
      PROVE  Progress(u, v)'
  <2>1. CASE u = t /\ v = s
    <3>1. pc'[u][v] = p /\ read'[u][v] = r
        BY <1>1, <2>1
    <3> QED
        BY <3>1 DEF Progress
  <2>2. CASE u # t \/ v # s
    <3>1. pc'[u][v] = pc[u][v] /\ read'[u][v] = read[u][v]
        BY <1>1, <2>2
    <3> QED
        BY <3>1 DEF Progress
  <2> QED
      BY <2>1, <2>2
<1> QED
    BY <1>1, <1>3, <1>4

\* A task that stays where it is, or forgets what it read, stays in step.
LEMMA GotoMoves ==
    ASSUME TypeOK, \A t \in Tasks, s \in Sources : Progress(t, s),
           NEW t \in Tasks, NEW s \in Sources,
           NEW p \in {"idle", "queued", "hash", "load"}, Goto(t, s, p)
    PROVE  /\ \A u \in Tasks, v \in Sources : Progress(u, v)'
           /\ pc' \in [Tasks -> [Sources -> Steps]]
           /\ read' \in [Tasks -> [Sources -> Reads]]
<1>1. /\ pc' = [pc EXCEPT ![t][s] = p] /\ read' = [read EXCEPT ![t][s] = None]
      /\ p \in Steps /\ p # "store"
    BY DEF Goto, Steps
<1> QED
    BY <1>1, EmptyRead, Moved

\* A task that has read one file more and not the last stays in step.
LEMMA ReadOnMoves ==
    ASSUME TypeOK, \A t \in Tasks, s \in Sources : Progress(t, s),
           NEW t \in Tasks, NEW s \in Sources, pc[t][s] \in {"hash", "load"},
           ~ReadsLast(t, s), ReadOn(t, s)
    PROVE  /\ \A u \in Tasks, v \in Sources : Progress(u, v)'
           /\ pc' \in [Tasks -> [Sources -> Steps]]
           /\ read' \in [Tasks -> [Sources -> Reads]]
<1>1. Len(read[t][s]) < Parts
    BY DEF Progress
<1>2. /\ ReadAfter(t, s) \in Seq(Contents)
      /\ Len(ReadAfter(t, s)) = Len(read[t][s]) + 1 /\ Len(read[t][s]) \in Nat
    BY <1>1, OneMore
<1>3. Len(ReadAfter(t, s)) < Parts
    BY <1>1, <1>2, TlsAssumption DEF ReadsLast
<1>4. pc' = [pc EXCEPT ![t][s] = pc[t][s]]
    BY DEF ReadOn, TypeOK
<1>5. read' = [read EXCEPT ![t][s] = ReadAfter(t, s)]
    BY DEF ReadOn
<1>6. pc[t][s] \in Steps /\ pc[t][s] # "store"
    BY DEF Steps
<1> QED
    BY <1>2, <1>3, <1>4, <1>5, <1>6, Moved

-----------------------------------------------------------------------------
(* The initial state and the steps.                                        *)

\* Nothing is installed at the start, so nothing is mismatched.
LEMMA InitIInv == Init => IInv
<1> SUFFICES ASSUME Init PROVE IInv
    OBVIOUS
<1>1. 0 \in Versions /\ 0 \in Contents
    BY TlsAssumption DEF Versions, Contents
<1>2. None \in Reads
  <2>1. None \in Seq(Contents) /\ Len(None) <= Parts
      BY EmptyRead, TlsAssumption
  <2> QED
      BY ONLY <2>1, SeqIsReads
<1>3. TypeOK
  <2>1. disk \in [Sources -> [Files -> Contents]] /\ version \in [Sources -> Versions]
      BY <1>1 DEF Init
  <2>2. /\ mode \in [Sources -> {"boot", "serving", "refused"}]
        /\ current \in [Sources -> Whole \cup {None}]
        /\ last_seen \in [Sources -> Whole \cup {None}]
        /\ hashed \in [Sources -> Whole \cup {None}]
      BY DEF Init
  <2>3. pc \in [Tasks -> [Sources -> {"idle", "queued", "hash", "load", "store"}]]
      BY DEF Init
  <2>4. read \in [Tasks -> [Sources -> Reads]]
      BY <1>2 DEF Init
  <2>5. pending \in BOOLEAN /\ triggers \in Triggers
      BY DEF Init
  <2>6. signals \in 0 .. MaxSignals
      BY TlsAssumption DEF Init
  <2> QED
      BY <2>1, <2>2, <2>3, <2>4, <2>5, <2>6 DEF TypeOK
<1>4. ServesPair
    BY DEF Init, ServesPair
<1>5. ASSUME NEW t \in Tasks, NEW s \in Sources PROVE Progress(t, s)
    BY EmptyRead DEF Init, Progress
<1> QED
    BY <1>3, <1>4, <1>5 DEF IInv

\* The operator and the signal touch no task and nothing installed.
LEMMA OutsideStep ==
    ASSUME IInv,
           \/ Hangup
           \/ \E s \in Sources :
                \/ StartRotation(s)
                \/ \E f \in Files : BeginWrite(s, f) \/ EndWrite(s, f)
    PROVE  IInv'
<1>1. /\ pc' = pc /\ read' = read /\ hashed' = hashed /\ mode' = mode
      /\ current' = current /\ last_seen' = last_seen /\ triggers' = triggers
    BY DEF Hangup, StartRotation, BeginWrite, EndWrite, tasks, operator
<1>2. TypeOK /\ ServesPair /\ \A t \in Tasks, s \in Sources : Progress(t, s)
    BY DEF IInv
<1>3. disk' \in [Sources -> [Files -> Contents]] /\ version' \in [Sources -> Versions]
  <2>1. CASE Hangup
      BY <1>2, <2>1 DEF TypeOK, Hangup, operator
  <2>2. ASSUME NEW s \in Sources, StartRotation(s)
        PROVE  disk' = disk /\ version' \in [Sources -> Versions]
      BY <1>2, <2>2, TlsAssumption DEF TypeOK, StartRotation, Versions
  <2>3. ASSUME NEW s \in Sources, NEW f \in Files, BeginWrite(s, f)
        PROVE  disk' \in [Sources -> [Files -> Contents]] /\ version' = version
      BY <1>2, <2>3 DEF TypeOK, BeginWrite, Contents
  <2>4. ASSUME NEW s \in Sources, NEW f \in Files, EndWrite(s, f)
        PROVE  disk' \in [Sources -> [Files -> Contents]] /\ version' = version
    <3>1. version[s] \in Contents
        BY <1>2 DEF TypeOK, Contents
    <3> QED
        BY <1>2, <2>4, <3>1 DEF TypeOK, EndWrite
  <2> QED
      BY <1>2, <2>1, <2>2, <2>3, <2>4 DEF TypeOK
<1>4. pending' \in BOOLEAN /\ signals' \in 0 .. MaxSignals
  <2>1. CASE Hangup
      BY <1>2, <2>1, TlsAssumption DEF TypeOK, Hangup
  <2>2. CASE pending' = pending /\ signals' = signals
      BY <1>2, <2>2 DEF TypeOK
  <2> QED
      BY <2>1, <2>2 DEF StartRotation, BeginWrite, EndWrite
<1>5. TypeOK'
    BY <1>1, <1>2, <1>3, <1>4 DEF TypeOK
<1>6. ServesPair'
    BY <1>1, <1>2 DEF ServesPair
<1>7. \A t \in Tasks, s \in Sources : Progress(t, s)'
    BY <1>1, <1>2 DEF Progress
<1> QED
    BY <1>5, <1>6, <1>7 DEF IInv

\* A step that installs nothing and takes no fingerprint: the invariant
\* depends on the tasks alone.
LEMMA Installed ==
    ASSUME TypeOK, ServesPair,
           UNCHANGED <<operator, current, last_seen, signals, triggers>>,
           pending' \in BOOLEAN,
           hashed' \in [Sources -> Whole \cup {None}],
           mode' \in [Sources -> {"boot", "serving", "refused"}],
           \A s \in Sources : mode'[s] = "serving" => mode[s] = "serving",
           \A u \in Tasks, v \in Sources : Progress(u, v)',
           pc' \in [Tasks -> [Sources -> Steps]],
           read' \in [Tasks -> [Sources -> Reads]]
    PROVE  IInv'
<1>1. TypeOK'
    BY DEF TypeOK, Steps, operator
<1>2. ServesPair'
    BY DEF ServesPair
<1> QED
    BY <1>1, <1>2 DEF IInv

\* A tick starts a fingerprint.
LEMMA TickStep ==
    ASSUME IInv, NEW s \in Sources, Tick(s)
    PROVE  IInv'
<1>1. TypeOK /\ ServesPair /\ \A t \in Tasks, v \in Sources : Progress(t, v)
    BY DEF IInv
<1>2. "poll" \in Tasks /\ "hash" \in {"idle", "queued", "hash", "load"} /\ Goto("poll", s, "hash")
    BY DEF Tasks, Tick
<1>3. /\ \A u \in Tasks, v \in Sources : Progress(u, v)'
      /\ pc' \in [Tasks -> [Sources -> Steps]] /\ read' \in [Tasks -> [Sources -> Reads]]
    BY ONLY <1>1, <1>2, GotoMoves
<1>4. UNCHANGED <<operator, current, last_seen, signals, triggers, pending, hashed, mode>>
    BY DEF Tick
<1> QED
    BY <1>1, <1>3, <1>4, Installed DEF TypeOK

\* fingerprint_credentials keeps no fingerprint of fewer than all files.
LEMMA FingerprintStep ==
    ASSUME IInv, NEW s \in Sources, fingerprint_credentials(s)
    PROVE  IInv'
<1>1. TypeOK /\ ServesPair /\ \A t \in Tasks, v \in Sources : Progress(t, v)
    BY DEF IInv
<1>2. "poll" \in Tasks /\ pc["poll"][s] = "hash"
    BY DEF Tasks, fingerprint_credentials, At
<1>3. UNCHANGED <<operator, current, last_seen, signals, triggers, pending, mode>>
    BY DEF fingerprint_credentials
<1>4. Len(read["poll"][s]) < Parts
    BY <1>1, <1>2 DEF Progress
<1>5. /\ ReadAfter("poll", s) \in Seq(Contents) /\ Len(read["poll"][s]) \in Nat
      /\ Len(ReadAfter("poll", s)) = Len(read["poll"][s]) + 1
    BY <1>1, <1>2, <1>4, OneMore
<1>6. ReadsLast("poll", s) => ReadAfter("poll", s) \in Whole \cup {None}
  <2>1. SUFFICES ASSUME ReadsLast("poll", s) PROVE ReadAfter("poll", s) \in Whole \cup {None}
      OBVIOUS
  <2>2. Len(ReadAfter("poll", s)) = Parts
      BY <1>5, <2>1, TlsAssumption DEF ReadsLast
  <2> QED
      BY <1>5, <2>2, SeqIsWhole
<1>7. hashed' \in [Sources -> Whole \cup {None}]
  <2>1. \/ hashed' = hashed
        \/ ReadsLast("poll", s) /\ hashed' = [hashed EXCEPT ![s] = ReadAfter("poll", s)]
      BY DEF fingerprint_credentials, fingerprint_boot, fingerprint_tick
  <2> QED
      BY <1>1, <1>6, <2>1 DEF TypeOK
<1>8. \/ \E p \in {"idle", "load"} : Goto("poll", s, p)
      \/ ~ReadsLast("poll", s) /\ ReadOn("poll", s)
    BY DEF fingerprint_credentials, fingerprint_boot, fingerprint_tick
<1>9. /\ \A u \in Tasks, v \in Sources : Progress(u, v)'
      /\ pc' \in [Tasks -> [Sources -> Steps]] /\ read' \in [Tasks -> [Sources -> Reads]]
  <2>1. ASSUME NEW p \in {"idle", "load"}, Goto("poll", s, p) PROVE <1>9
    <3>1. p \in {"idle", "queued", "hash", "load"}
        OBVIOUS
    <3> QED
        BY ONLY <1>1, <1>2, <2>1, <3>1, GotoMoves
  <2>2. CASE ~ReadsLast("poll", s) /\ ReadOn("poll", s)
    <3>1. pc["poll"][s] \in {"hash", "load"}
        BY <1>2
    <3> QED
        BY ONLY <1>1, <1>2, <2>2, <3>1, ReadOnMoves
  <2> QED
      BY <1>8, <2>1, <2>2
<1> QED
    BY <1>1, <1>3, <1>7, <1>9, Installed DEF TypeOK

\* load_server_config goes on to install only what loads.
LEMMA LoadStep ==
    ASSUME IInv, NEW t \in Tasks, NEW s \in Sources, load_server_config(t, s)
    PROVE  IInv'
<1>1. TypeOK /\ ServesPair /\ \A u \in Tasks, v \in Sources : Progress(u, v)
    BY DEF IInv
<1>2. pc[t][s] = "load"
    BY DEF load_server_config, At
<1>3. UNCHANGED <<operator, current, last_seen, signals, triggers, pending>>
    BY DEF load_server_config
<1>4. Len(read[t][s]) < Parts
    BY <1>1, <1>2 DEF Progress
<1>5. /\ ReadAfter(t, s) \in Seq(Contents) /\ Len(read[t][s]) \in Nat
      /\ Len(ReadAfter(t, s)) = Len(read[t][s]) + 1
    BY <1>1, <1>4, OneMore
<1>6. hashed' \in [Sources -> Whole \cup {None}]
    BY <1>1 DEF load_server_config, TypeOK
<1>7. /\ mode' \in [Sources -> {"boot", "serving", "refused"}]
      /\ \A v \in Sources : mode'[v] = "serving" => mode[v] = "serving"
  <2>1. \/ mode' = mode
        \/ mode' = [mode EXCEPT ![s] = IF @ = "boot" THEN "refused" ELSE @]
      BY DEF load_server_config
  <2> QED
      BY <1>1, <2>1 DEF TypeOK
<1>8. \/ ~ReadsLast(t, s) /\ ReadOn(t, s)
      \/ /\ ReadsLast(t, s) /\ Loadable(ReadAfter(t, s))
         /\ read' = [read EXCEPT ![t][s] = ReadAfter(t, s)]
         /\ pc' = [pc EXCEPT ![t][s] = "store"]
      \/ Goto(t, s, "idle")
    BY DEF load_server_config
<1>9. /\ \A u \in Tasks, v \in Sources : Progress(u, v)'
      /\ pc' \in [Tasks -> [Sources -> Steps]] /\ read' \in [Tasks -> [Sources -> Reads]]
  <2>1. CASE ~ReadsLast(t, s) /\ ReadOn(t, s)
    <3>1. pc[t][s] \in {"hash", "load"}
        BY <1>2
    <3> QED
        BY ONLY <1>1, <2>1, <3>1, ReadOnMoves, t \in Tasks, s \in Sources
  <2>2. CASE /\ ReadsLast(t, s) /\ Loadable(ReadAfter(t, s))
             /\ read' = [read EXCEPT ![t][s] = ReadAfter(t, s)]
             /\ pc' = [pc EXCEPT ![t][s] = "store"]
    <3>1. Len(ReadAfter(t, s)) = Parts
        BY <1>5, <2>2, TlsAssumption DEF ReadsLast
    <3>2. "store" \in Steps /\ "store" \notin {"idle", "queued", "hash", "load"}
        BY DEF Steps
    <3> QED
        BY ONLY <1>1, <1>5, <2>2, <3>1, <3>2, Moved, t \in Tasks, s \in Sources
  <2>3. CASE Goto(t, s, "idle")
    <3>1. "idle" \in {"idle", "queued", "hash", "load"}
        OBVIOUS
    <3> QED
        BY ONLY <1>1, <2>3, <3>1, GotoMoves, t \in Tasks, s \in Sources
  <2> QED
      BY <1>8, <2>1, <2>2, <2>3
<1>10. pending' \in BOOLEAN
    BY <1>1, <1>3 DEF TypeOK
<1> QED
    BY <1>1, <1>3, <1>6, <1>7, <1>9, <1>10, Installed

\* Installing: the configuration loaded, and a baseline that covers every file.
LEMMA StoreStep ==
    ASSUME IInv, NEW t \in Tasks, NEW s \in Sources, store(t, s)
    PROVE  IInv'
<1>1. TypeOK /\ ServesPair /\ \A u \in Tasks, v \in Sources : Progress(u, v)
    BY DEF IInv
<1>2. /\ read[t][s] \in Seq(Contents) /\ Len(read[t][s]) = Parts /\ Loadable(read[t][s])
    BY <1>1 DEF store, At, Progress
<1>3. read[t][s] \in Whole \cup {None}
    BY ONLY <1>2, SeqIsWhole
<1>4. (\A f \in Files : read[t][s][f] \in Versions) /\ read[t][s][1] = read[t][s][2]
    BY ONLY <1>2, LoadableServes
<1>5. /\ current' = [current EXCEPT ![s] = read[t][s]]
      /\ mode' = [mode EXCEPT ![s] = "serving"]
      /\ Goto(t, s, "idle")
      /\ UNCHANGED <<operator, pending, signals, triggers>>
    BY DEF store
<1>6. /\ last_seen' \in [Sources -> Whole \cup {None}]
      /\ hashed' \in [Sources -> Whole \cup {None}]
    BY <1>1 DEF store, Baseline, TypeOK
<1>7. /\ \A u \in Tasks, v \in Sources : Progress(u, v)'
      /\ pc' \in [Tasks -> [Sources -> Steps]] /\ read' \in [Tasks -> [Sources -> Reads]]
  <2>1. "idle" \in {"idle", "queued", "hash", "load"}
      OBVIOUS
  <2> QED
      BY ONLY <1>1, <1>5, <2>1, GotoMoves, t \in Tasks, s \in Sources
<1>8. current' \in [Sources -> Whole \cup {None}]
    BY <1>1, <1>3, <1>5 DEF TypeOK
<1>9. mode' \in [Sources -> {"boot", "serving", "refused"}]
    BY <1>1, <1>5 DEF TypeOK
<1>10. TypeOK'
    BY <1>1, <1>5, <1>6, <1>7, <1>8, <1>9 DEF TypeOK, Steps, operator
<1>11. ServesPair'
  <2>1. SUFFICES ASSUME NEW v \in Sources, mode'[v] = "serving"
                 PROVE  /\ Len(current'[v]) = Parts
                        /\ \A f \in Files : current'[v][f] \in Versions
                        /\ current'[v][1] = current'[v][2]
      BY DEF ServesPair
  <2>2. CASE v = s
    <3>1. current'[v] = read[t][s]
        BY <1>1, <1>5, <2>2 DEF TypeOK
    <3> QED
        BY <1>2, <1>4, <3>1
  <2>3. CASE v # s
    <3>1. current'[v] = current[v] /\ mode[v] = "serving"
        BY <1>1, <1>5, <2>1, <2>3 DEF TypeOK
    <3> QED
        BY <1>1, <3>1 DEF ServesPair
  <2> QED
      BY <2>2, <2>3
<1> QED
    BY <1>7, <1>10, <1>11 DEF IInv

\* Receiving a SIGHUP queues every source.
LEMMA HangupStep ==
    ASSUME IInv, recv_hangup
    PROVE  IInv'
<1>1. TypeOK /\ ServesPair /\ \A u \in Tasks, v \in Sources : Progress(u, v)
    BY DEF IInv
<1>2. /\ UNCHANGED <<operator, current, last_seen, signals, triggers, read, hashed, mode>>
      /\ pending' = FALSE
      /\ pc' = [pc EXCEPT !["sighup"] = [s \in Sources |-> "queued"]]
      /\ \A s \in Sources : pc["sighup"][s] = "idle"
    BY DEF recv_hangup, SighupIdle, At
<1>3. pc' \in [Tasks -> [Sources -> Steps]]
    BY <1>1, <1>2 DEF TypeOK, Steps
<1>4. ASSUME NEW u \in Tasks, NEW v \in Sources
      PROVE  Progress(u, v)'
  <2>1. read'[u][v] = read[u][v]
      BY <1>2
  <2>2. CASE u = "sighup"
    <3>1. pc'[u][v] = "queued" /\ pc[u][v] = "idle"
        BY <1>1, <1>2, <2>2 DEF TypeOK
    <3> QED
        BY <1>1, <2>1, <3>1 DEF Progress
  <2>3. CASE u # "sighup"
    <3>1. pc'[u][v] = pc[u][v]
        BY <1>1, <1>2, <2>3 DEF TypeOK
    <3> QED
        BY <1>1, <2>1, <3>1 DEF Progress
  <2> QED
      BY <2>2, <2>3
<1>5. /\ read' \in [Tasks -> [Sources -> Reads]] /\ pending' \in BOOLEAN
      /\ hashed' \in [Sources -> Whole \cup {None}]
      /\ mode' \in [Sources -> {"boot", "serving", "refused"}] /\ mode' = mode
    BY <1>1, <1>2 DEF TypeOK
<1> QED
    BY <1>1, <1>2, <1>3, <1>4, <1>5, Installed

\* reload_all turns to its next source.
LEMMA ReloadNextStep ==
    ASSUME IInv, NEW s \in Sources, reload_next(s)
    PROVE  IInv'
<1>1. TypeOK /\ ServesPair /\ \A t \in Tasks, v \in Sources : Progress(t, v)
    BY DEF IInv
<1>2. /\ "sighup" \in Tasks /\ "load" \in {"idle", "queued", "hash", "load"}
      /\ Goto("sighup", s, "load")
    BY DEF Tasks, reload_next
<1>3. /\ \A u \in Tasks, v \in Sources : Progress(u, v)'
      /\ pc' \in [Tasks -> [Sources -> Steps]] /\ read' \in [Tasks -> [Sources -> Reads]]
    BY ONLY <1>1, <1>2, GotoMoves, s \in Sources
<1>4. UNCHANGED <<operator, current, last_seen, signals, triggers, pending, hashed, mode>>
    BY DEF reload_next
<1> QED
    BY <1>1, <1>3, <1>4, Installed DEF TypeOK

-----------------------------------------------------------------------------
(* The theorems.                                                           *)

\* The inductive invariant holds in every behaviour of the two reload tasks,
\* the operator and the signals.
THEOREM Invariance == Spec => []IInv
<1>1. Init => IInv
    BY InitIInv
<1>2. IInv /\ [Next]_vars => IInv'
  <2> SUFFICES ASSUME IInv, [Next]_vars PROVE IInv'
      OBVIOUS
  <2>1. "poll" \in Tasks /\ "sighup" \in Tasks
      BY DEF Tasks
  <2>2. CASE Hangup
      BY <2>2, OutsideStep
  <2>3. ASSUME NEW s \in Sources,
               StartRotation(s) \/ \E f \in Files : BeginWrite(s, f) \/ EndWrite(s, f)
        PROVE  IInv'
      BY <2>3, OutsideStep
  <2>4. ASSUME NEW s \in Sources, PollStep(s) PROVE IInv'
      BY <2>1, <2>4, TickStep, FingerprintStep, LoadStep, StoreStep DEF PollStep
  <2>5. CASE SighupStep
      BY <2>1, <2>5, HangupStep, ReloadNextStep, LoadStep, StoreStep DEF SighupStep
  <2>6. CASE UNCHANGED vars
    <3>1. TypeOK'
        BY <2>6 DEF IInv, TypeOK, vars, operator, tasks
    <3>2. ServesPair'
        BY <2>6 DEF IInv, ServesPair, vars, operator, tasks
    <3>3. \A t \in Tasks, s \in Sources : Progress(t, s)'
        BY <2>6 DEF IInv, Progress, vars, operator, tasks
    <3> QED
        BY <3>1, <3>2, <3>3 DEF IInv
  <2> QED
      BY <2>2, <2>3, <2>4, <2>5, <2>6 DEF Next
<1> QED
    BY <1>1, <1>2, PTL DEF Spec

\* Fingerprints and installed configurations cover every file, for any number
\* of sources, rotations and signals.
THEOREM TypeCorrect == Spec => []TypeOK
<1>1. IInv => TypeOK
    BY DEF IInv
<1> QED
    BY <1>1, Invariance, PTL

\* load_server_config and reload never install a key that is not the
\* certificate's or a file that did not parse, whichever triggers run and
\* however their reads interleave with the rewriting of the files.
THEOREM AlwaysServesPair == Spec => []ServesPair
<1>1. IInv => ServesPair
    BY DEF IInv
<1> QED
    BY <1>1, Invariance, PTL

-----------------------------------------------------------------------------
(* The outbound identity.  ReloadAllOrNothing is not inductive: what a     *)
(* reload is about to store must be a pair already, and between its two    *)
(* stores the identity must be what the same reload read.                  *)

Material == [cert : Int, key : Int, ca : Int]
ReloadSteps == {"idle", "cert", "key", "ca", "store_key", "store_verifier"}
UseSteps == {"idle", "cert", "key", "validate", "reread", "verify", "resolve"}
ClientSteps == ReloadSteps \cup UseSteps

ClientTypeOK ==
    /\ peer_ca \in {"public", "bundle"}
    /\ pem \in Material /\ rotation \in Int /\ resolver \in Material /\ verifier \in Material
    /\ job \in [Callers -> ClientSteps] /\ got \in [Callers -> Material]
    /\ used \in [Users -> [identity : Material, anchors : Int]]
    /\ overlapped \in BOOLEAN

\* Each kind of task keeps to its own steps, and past the key it holds a pair.
Reading ==
    /\ \A c \in Reloaders : job[c] \in ReloadSteps
    /\ \A u \in Users : job[u] \in UseSteps
    /\ \A c \in Callers :
          job[c] \in {"ca", "store_key", "store_verifier", "validate", "reread"} => keys_match(got[c])

\* Reloads that do not overlap run one at a time, and between its two stores a
\* reload has stored the identity it read.
OneAtATime ==
    ~overlapped =>
        /\ \A c, d \in Reloaders : job[c] # "idle" /\ job[d] # "idle" => c = d
        /\ \A c \in Reloaders : job[c] = "store_verifier" => resolver = got[c]
        /\ Quiet => resolver = verifier

\* A user has presented a pair, or nothing yet.
Presented == \A u \in Users : used[u].identity # NothingRead => keys_match(used[u].identity)

\* What is installed, and what is about to be, parsed.
Parsed ==
    /\ keys_match(resolver) /\ build_root_store(verifier.ca) # Broken
    /\ \A c \in Reloaders : job[c] \in {"store_key", "store_verifier"} => build_root_store(got[c].ca) # Broken

ClientInv == ClientTypeOK /\ Reading /\ Parsed /\ OneAtATime /\ Presented

\* The constants of the readings are readings.
LEMMA Constants ==
    /\ NothingRead \in Material /\ ~keys_match(NothingRead)
    /\ Unused = [identity |-> NothingRead, anchors |-> Broken]
    /\ Unused \in [identity : Material, anchors : Int]
    BY DEF NothingRead, Unused, Material, keys_match, Broken

\* A source built from complete files.
LEMMA InitHolds == ClientInit => ClientInv
<1> SUFFICES ASSUME ClientInit PROVE ClientInv
    OBVIOUS
<1>1. ClientTypeOK
    <2>1. peer_ca \in {"public", "bundle"} /\ pem \in Material /\ rotation \in Int
        BY DEF ClientInit, Material
    <2>2. resolver \in Material /\ verifier \in Material
        BY <2>1 DEF ClientInit
    <2>3. job \in [Callers -> ClientSteps]
        BY DEF ClientInit, ClientSteps, ReloadSteps
    <2>4. got \in [Callers -> Material] /\ used \in [Users -> [identity : Material, anchors : Int]]
        BY Constants DEF ClientInit
    <2>5. overlapped \in BOOLEAN
        BY DEF ClientInit
    <2> QED
        BY <2>1, <2>2, <2>3, <2>4, <2>5 DEF ClientTypeOK
<1>2. Reading /\ Parsed
    BY DEF ClientInit, Reading, Parsed, keys_match, build_root_store, Callers, ReloadSteps, UseSteps, Broken, NoBundle
<1>3. OneAtATime
    BY DEF ClientInit, OneAtATime, Callers, Quiet
<1>4. Presented
    BY Constants DEF ClientInit, Presented
<1> QED
    BY <1>1, <1>2, <1>3, <1>4 DEF ClientInv

\* The operator touches the files only.
LEMMA OperatorSteps ==
    ASSUME ClientInv, NEW f \in {"cert", "key", "ca"}, Rotate \/ Rewrite(f) \/ Spoil(f)
    PROVE  ClientInv'
<1>1. rotation' \in Int /\ pem' \in Material
    BY DEF ClientInv, ClientTypeOK, Material, Rotate, Rewrite, Spoil, Broken
<1>2. UNCHANGED <<peer_ca, resolver, verifier, job, got, used, overlapped>>
    BY DEF Rotate, Rewrite, Spoil
<1> QED
    BY <1>1, <1>2 DEF ClientInv, ClientTypeOK, Reading, Parsed, OneAtATime, Quiet, Presented, build_root_store

-----------------------------------------------------------------------------
(* Every step of a task moves it to some place with some files read.       *)

HoldsPair == {"ca", "store_key", "store_verifier", "validate", "reread"}
Storing == {"store_key", "store_verifier"}

\* Task c goes to `where', holding the files m, as its kind may.
Moves(c, where, m) ==
    /\ job' = [job EXCEPT ![c] = where] /\ got' = [got EXCEPT ![c] = m]
    /\ UNCHANGED <<peer_ca, pem, rotation>>
    /\ c \in Reloaders => where \in ReloadSteps
    /\ c \in Users => where \in UseSteps
    /\ where \in HoldsPair => keys_match(m)
    /\ c \in Reloaders /\ where \in Storing => build_root_store(m.ca) # Broken

\* What a move does to the tasks, whatever it does to the cells.
LEMMA ClientMoved ==
    ASSUME ClientInv, NEW c \in Callers, NEW where, NEW m \in Material, Moves(c, where, m)
    PROVE  /\ job' \in [Callers -> ClientSteps] /\ got' \in [Callers -> Material]
           /\ job'[c] = where /\ got'[c] = m
           /\ \A d \in Callers \ {c} : job'[d] = job[d] /\ got'[d] = got[d]
           /\ Reading'
           /\ \A d \in Reloaders : job'[d] \in Storing => build_root_store(got'[d].ca) # Broken
           /\ \A ca : build_root_store(ca)' = build_root_store(ca)
<1>1. where \in ClientSteps
    BY DEF Moves, ClientSteps, Callers
<1>2. job \in [Callers -> ClientSteps] /\ got \in [Callers -> Material]
    BY DEF ClientInv, ClientTypeOK
<1>3. /\ job' \in [Callers -> ClientSteps] /\ got' \in [Callers -> Material]
      /\ job'[c] = where /\ got'[c] = m
      /\ \A d \in Callers \ {c} : job'[d] = job[d] /\ got'[d] = got[d]
    BY <1>1, <1>2 DEF Moves
<1>4. Reading'
    <2>1. \A d \in Reloaders : job'[d] \in ReloadSteps
        BY <1>3 DEF ClientInv, Reading, Moves, Callers
    <2>2. \A u \in Users : job'[u] \in UseSteps
        BY <1>3 DEF ClientInv, Reading, Moves, Callers
    <2>3. \A d \in Callers : job'[d] \in HoldsPair => keys_match(got'[d])
        BY <1>3 DEF ClientInv, Reading, Moves, HoldsPair
    <2> QED
        BY <2>1, <2>2, <2>3 DEF Reading, HoldsPair
<1>5. \A d \in Reloaders : job'[d] \in Storing => build_root_store(got'[d].ca) # Broken
    BY <1>3 DEF ClientInv, Parsed, Moves, Callers, Storing
<1>6. \A ca : build_root_store(ca)' = build_root_store(ca)
    BY DEF Moves, build_root_store
<1> QED
    BY <1>3, <1>4, <1>5, <1>6

\* A move that stores nothing and starts no reload.
LEMMA CalmMove ==
    ASSUME ClientInv, NEW c \in Callers, NEW where, NEW m \in Material, Moves(c, where, m),
           UNCHANGED <<resolver, verifier, overlapped>>,
           used' \in [Users -> [identity : Material, anchors : Int]], Presented',
           c \in Reloaders => job[c] \notin {"idle", "store_verifier"} /\ where # "store_verifier"
    PROVE  ClientInv'
<1>1. ClientTypeOK'
    BY ClientMoved DEF ClientInv, ClientTypeOK, Moves
<1>2. Parsed'
    BY ClientMoved DEF ClientInv, Parsed, Storing
<1>3. OneAtATime'
    <2>1. \A d \in Reloaders : d \in Callers
        BY DEF Callers
    <2>2. \A d \in Reloaders : job'[d] # "idle" => job[d] # "idle"
        BY <2>1, ClientMoved
    <2>3. \A d \in Reloaders : job'[d] = "store_verifier" <=> job[d] = "store_verifier"
        BY <2>1, ClientMoved
    <2>4. \A d \in Reloaders : job'[d] = "store_verifier" => got'[d] = got[d]
        BY <2>1, ClientMoved
    <2> QED
        BY <2>2, <2>3, <2>4 DEF ClientInv, OneAtATime, Quiet
<1> QED
    BY <1>1, <1>2, <1>3, ClientMoved DEF ClientInv

\* A call that fails holds nothing, one that goes on without reading what it held.
LEMMA Holding ==
    ASSUME ClientInv, NEW c \in Callers
    PROVE  got[c] \in Material /\ got = [got EXCEPT ![c] = got[c]]
    BY DEF ClientInv, ClientTypeOK

\* Giving up is a move of either kind of task.
LEMMA GivingUp ==
    ASSUME NEW c, GivesUp(c), UNCHANGED <<peer_ca, pem, rotation>>
    PROVE  Moves(c, "idle", NothingRead)
    BY DEF GivesUp, Goes, Moves, HoldsPair, Storing, ReloadSteps, UseSteps

\* No connection changes: those there are present what they did.
LEMMA SameUses ==
    ASSUME ClientInv, UNCHANGED used
    PROVE  used' \in [Users -> [identity : Material, anchors : Int]] /\ Presented'
    BY DEF ClientInv, ClientTypeOK, Presented

-----------------------------------------------------------------------------
(* One lemma per step.                                                     *)

\* Reading a certificate, by either kind of task.
LEMMA ReadCertStep ==
    ASSUME ClientInv, NEW c \in Callers, read_cert(c)
    PROVE  ClientInv'
<1> DEFINE m == [NothingRead EXCEPT !.cert = pem.cert]
<1>1. m \in Material
    BY DEF ClientInv, ClientTypeOK, Material, NothingRead, Broken
<1>2. Moves(c, "key", m)
    BY DEF read_cert, Goes, Moves, HoldsPair, Storing, ReloadSteps, UseSteps
<1>3. UNCHANGED <<resolver, verifier, overlapped, used>> /\ job[c] = "cert"
    BY DEF read_cert
<1> QED
    BY <1>1, <1>2, <1>3, SameUses, CalmMove

\* A call goes on with the pair only if the key fits, to a place of its kind.
LEMMA ReadKeyStep ==
    ASSUME ClientInv, NEW c \in Callers, NEW next, read_key(c, next), next \notin Storing,
           c \in Reloaders => next \in ReloadSteps, c \in Users => next \in UseSteps
    PROVE  ClientInv'
<1> DEFINE m == [got[c] EXCEPT !.key = pem.key]
<1>1. m \in Material
    BY Holding DEF ClientInv, ClientTypeOK, Material
<1>2. UNCHANGED <<peer_ca, pem, rotation, resolver, verifier, overlapped, used>> /\ job[c] = "key"
    BY DEF read_key
<1>3. CASE keys_match(m)
    <2>1. Moves(c, next, m)
        BY <1>2, <1>3 DEF read_key, Goes, Moves
    <2> QED
        BY <1>1, <1>2, <2>1, SameUses, CalmMove DEF Storing
<1>4. CASE ~keys_match(m)
    <2>1. Moves(c, "idle", NothingRead)
        BY <1>2, <1>4, GivingUp DEF read_key
    <2> QED
        BY <1>2, <2>1, SameUses, CalmMove, Constants
<1> QED
    BY <1>3, <1>4

\* A reload that starts beside another one is noted.
LEMMA ReloadStarts ==
    ASSUME ClientInv, NEW c \in Reloaders, reload(c)
    PROVE  ClientInv'
<1>1. c \in Callers /\ got[c] \in Material /\ Moves(c, "cert", got[c])
    BY Holding, ClientAssumption DEF Callers, reload, Goes, Moves, HoldsPair, Storing, ReloadSteps, UseSteps
<1>2. UNCHANGED <<resolver, verifier, used>> /\ overlapped' = (overlapped \/ Running # {})
    BY DEF reload
<1>3. overlapped' \in BOOLEAN
    BY <1>2, Zenon DEF ClientInv, ClientTypeOK
<1>4. ClientTypeOK'
    BY <1>1, <1>2, <1>3, ClientMoved DEF ClientInv, ClientTypeOK, Moves
<1>5. Parsed'
    BY <1>1, <1>2, ClientMoved DEF ClientInv, Parsed, Storing
<1>6. OneAtATime'
    <2> SUFFICES ASSUME ~overlapped' PROVE OneAtATime'
        BY DEF OneAtATime
    <2>1. ~overlapped /\ \A d \in Reloaders : job[d] = "idle"
        BY <1>2 DEF Running
    <2>2. \A d \in Reloaders \ {c} : job'[d] = "idle"
        BY <1>1, <2>1, ClientMoved DEF Callers
    <2>3. job'[c] = "cert"
        BY <1>1, ClientMoved
    <2> QED
        BY <1>2, <2>1, <2>2, <2>3 DEF ClientInv, OneAtATime, Quiet
<1> QED
    BY <1>1, <1>2, <1>4, <1>5, <1>6, ClientMoved, SameUses DEF ClientInv

\* Anchors that do not parse end the reload before anything is stored.
LEMMA VerifierStep ==
    ASSUME ClientInv, NEW c \in Reloaders, build_peer_verifier(c)
    PROVE  ClientInv'
<1> DEFINE m == [got[c] EXCEPT !.ca = pem.ca]
           broken == peer_ca # "public" /\ pem.ca = Broken
<1>1. c \in Callers /\ c \notin Users /\ got[c] \in Material
    BY Holding, ClientAssumption DEF Callers
<1>2. m \in Material /\ m.ca = pem.ca /\ m.cert = got[c].cert /\ m.key = got[c].key
    BY <1>1 DEF ClientInv, ClientTypeOK, Material
<1>3. UNCHANGED <<peer_ca, pem, rotation, resolver, verifier, overlapped, used>> /\ job[c] = "ca"
    BY DEF build_peer_verifier
<1>4. CASE broken
    <2>1. Moves(c, "idle", NothingRead)
        BY <1>3, <1>4, GivingUp DEF build_peer_verifier
    <2> QED
        BY <1>1, <1>3, <2>1, SameUses, CalmMove, Constants
<1>5. CASE ~broken
    <2>1. keys_match(m)
        BY <1>1, <1>2, <1>3 DEF ClientInv, Reading, keys_match
    <2>2. build_root_store(m.ca) # Broken
        BY <1>2, <1>5 DEF build_root_store, NoBundle, Broken
    <2>3. got' = [got EXCEPT ![c] = m] /\ job' = [job EXCEPT ![c] = "store_key"]
        BY <1>5 DEF build_peer_verifier, Goes
    <2>4. Moves(c, "store_key", m)
        BY <1>1, <1>3, <2>1, <2>2, <2>3 DEF Moves, ReloadSteps
    <2> QED
        BY <1>1, <1>2, <1>3, <2>4, SameUses, CalmMove
<1> QED
    BY <1>4, <1>5

\* The first store.
LEMMA StoreKeyStep ==
    ASSUME ClientInv, NEW c \in Reloaders, store_key(c)
    PROVE  ClientInv'
<1>1. c \in Callers /\ c \notin Users /\ got[c] \in Material /\ got = [got EXCEPT ![c] = got[c]]
    BY Holding, ClientAssumption DEF Callers
<1>2. /\ UNCHANGED <<peer_ca, pem, rotation, verifier, overlapped, used, got>>
      /\ job[c] = "store_key" /\ resolver' = got[c] /\ job' = [job EXCEPT ![c] = "store_verifier"]
    BY DEF store_key, Goes
<1>3. keys_match(got[c]) /\ build_root_store(got[c].ca) # Broken
    BY <1>1, <1>2 DEF ClientInv, Reading, Parsed
<1>4. Moves(c, "store_verifier", got[c])
    BY <1>1, <1>2, <1>3 DEF Moves, ReloadSteps
<1>5. ClientTypeOK'
    BY <1>1, <1>2, <1>4, ClientMoved DEF ClientInv, ClientTypeOK
<1>6. Parsed'
    BY <1>1, <1>2, <1>3, <1>4, ClientMoved DEF ClientInv, Parsed, Storing
<1>7. OneAtATime'
    <2> SUFFICES ASSUME ~overlapped PROVE OneAtATime'
        BY <1>2 DEF OneAtATime
    <2>1. \A d \in Reloaders \ {c} : job[d] = "idle"
        BY <1>2 DEF ClientInv, OneAtATime
    <2>2. \A d \in Reloaders \ {c} : job'[d] = "idle"
        BY <1>1, <1>4, <2>1, ClientMoved DEF Callers
    <2>3. job'[c] = "store_verifier"
        BY <1>1, <1>4, ClientMoved
    <2> QED
        BY <1>2, <2>2, <2>3 DEF OneAtATime, Quiet
<1> QED
    BY <1>1, <1>2, <1>4, <1>5, <1>6, <1>7, ClientMoved, SameUses DEF ClientInv

\* The second store.
LEMMA StoreVerifierStep ==
    ASSUME ClientInv, NEW c \in Reloaders, store_verifier(c)
    PROVE  ClientInv'
<1>1. c \in Callers /\ got[c] \in Material
    BY Holding DEF Callers
<1>2. /\ UNCHANGED <<peer_ca, pem, rotation, resolver, overlapped, used>>
      /\ job[c] = "store_verifier" /\ verifier' = got[c]
    BY DEF store_verifier
<1>3. Moves(c, "idle", NothingRead)
    BY <1>2, GivingUp DEF store_verifier
<1>4. build_root_store(got[c].ca) # Broken
    BY <1>2 DEF ClientInv, Parsed
<1>5. ClientTypeOK'
    BY <1>1, <1>2, <1>3, Constants, ClientMoved DEF ClientInv, ClientTypeOK
<1>6. Parsed'
    BY <1>1, <1>2, <1>3, <1>4, Constants, ClientMoved DEF ClientInv, Parsed, Storing
<1>7. OneAtATime'
    <2> SUFFICES ASSUME ~overlapped PROVE OneAtATime'
        BY <1>2 DEF OneAtATime
    <2>1. resolver = got[c] /\ \A d \in Reloaders \ {c} : job[d] = "idle"
        BY <1>2 DEF ClientInv, OneAtATime
    <2>2. \A d \in Reloaders : job'[d] = "idle"
        BY <1>1, <1>3, <2>1, Constants, ClientMoved DEF Callers
    <2> QED
        BY <1>2, <2>1, <2>2 DEF OneAtATime, Quiet
<1> QED
    BY <1>1, <1>2, <1>3, <1>5, <1>6, <1>7, Constants, ClientMoved, SameUses DEF ClientInv

\* A user's step that reads no file: to another place, with another connection.
LEMMA UserMove ==
    ASSUME ClientInv, NEW u \in Users, NEW where \in {"idle", "cert", "verify", "resolve"},
           job' = [job EXCEPT ![u] = where],
           UNCHANGED <<peer_ca, pem, rotation, resolver, verifier, got, overlapped>>,
           used' \in [Users -> [identity : Material, anchors : Int]], Presented'
    PROVE  ClientInv'
<1>1. u \in Callers /\ u \notin Reloaders /\ got[u] \in Material /\ got = [got EXCEPT ![u] = got[u]]
    BY Holding, ClientAssumption DEF Callers
<1>2. Moves(u, where, got[u])
    BY <1>1 DEF Moves, HoldsPair, UseSteps
<1> QED
    BY <1>1, <1>2, CalmMove

\* A user's connection is replaced by one that presents a pair, or nothing.
LEMMA OneUse ==
    ASSUME ClientInv, NEW u \in Users, NEW x \in [identity : Material, anchors : Int],
           x.identity # NothingRead => keys_match(x.identity), used' = [used EXCEPT ![u] = x]
    PROVE  used' \in [Users -> [identity : Material, anchors : Int]] /\ Presented'
<1>1. used' \in [Users -> [identity : Material, anchors : Int]]
    BY DEF ClientInv, ClientTypeOK
<1>2. \A v \in Users : used'[v] = IF v = u THEN x ELSE used[v]
    BY DEF ClientInv, ClientTypeOK
<1> QED
    BY <1>1, <1>2 DEF ClientInv, Presented

\* A handshake begins or fails, or a transport is begun.
LEMMA ConnectSteps ==
    ASSUME ClientInv, NEW u \in Users, connect_tls(u) \/ connect_fails(u) \/ build_transport(u)
    PROVE  ClientInv'
<1>1. used' = [used EXCEPT ![u] = Unused] /\ UNCHANGED <<peer_ca, pem, rotation, resolver, verifier, got, overlapped>>
    BY DEF connect_tls, connect_fails, build_transport
<1>2. PICK where \in {"idle", "cert", "verify", "resolve"} : job' = [job EXCEPT ![u] = where]
    BY DEF connect_tls, connect_fails, build_transport, Goes
<1>3. Unused.identity = NothingRead
    BY DEF Unused
<1> QED
    BY <1>1, <1>2, <1>3, Constants, OneUse, UserMove

\* A handshake verifies the peer.
LEMMA VerifyStep ==
    ASSUME ClientInv, NEW u \in Users, verify_server_cert(u)
    PROVE  ClientInv'
<1> DEFINE x == [used[u] EXCEPT !.anchors = build_root_store(verifier.ca)]
<1>1. used[u] \in [identity : Material, anchors : Int] /\ build_root_store(verifier.ca) \in Int
    BY DEF ClientInv, ClientTypeOK, Material, build_root_store, NoBundle
<1>2. x \in [identity : Material, anchors : Int] /\ x.identity = used[u].identity
    BY <1>1
<1>3. /\ used' = [used EXCEPT ![u] = x] /\ job' = [job EXCEPT ![u] = "resolve"]
      /\ UNCHANGED <<peer_ca, pem, rotation, resolver, verifier, got, overlapped>>
    BY DEF verify_server_cert, Goes
<1> QED
    BY <1>2, <1>3, OneUse, UserMove DEF ClientInv, Presented

\* A handshake presents what is installed.
LEMMA ResolveStep ==
    ASSUME ClientInv, NEW u \in Users, resolve(u)
    PROVE  ClientInv'
<1> DEFINE x == [used[u] EXCEPT !.identity = resolver]
<1>1. used[u] \in [identity : Material, anchors : Int] /\ resolver \in Material
    BY DEF ClientInv, ClientTypeOK
<1>2. x \in [identity : Material, anchors : Int] /\ x.identity = resolver
    BY <1>1
<1>3. /\ used' = [used EXCEPT ![u] = x] /\ job' = [job EXCEPT ![u] = "idle"]
      /\ UNCHANGED <<peer_ca, pem, rotation, resolver, verifier, got, overlapped>>
    BY DEF resolve, Goes
<1> QED
    BY <1>2, <1>3, OneUse, UserMove DEF ClientInv, Parsed

\* The bundle is validated.
LEMMA BundleStep ==
    ASSUME ClientInv, NEW u \in Users, read_validated_ca_bundle(u)
    PROVE  ClientInv'
<1>1. u \in Callers /\ u \notin Reloaders /\ got[u] \in Material /\ got = [got EXCEPT ![u] = got[u]]
    BY Holding, ClientAssumption DEF Callers
<1>2. UNCHANGED <<peer_ca, pem, rotation, resolver, verifier, overlapped, used>> /\ job[u] = "validate"
    BY DEF read_validated_ca_bundle
<1>3. CASE GivesUp(u)
    <2>1. Moves(u, "idle", NothingRead)
        BY <1>2, <1>3, GivingUp
    <2> QED
        BY <1>1, <1>2, <2>1, Constants, SameUses, CalmMove
<1>4. CASE Goes(u, "reread") /\ UNCHANGED got
    <2>1. keys_match(got[u])
        BY <1>1, <1>2 DEF ClientInv, Reading
    <2>2. Moves(u, "reread", got[u])
        BY <1>1, <1>2, <1>4, <2>1 DEF Goes, Moves, UseSteps
    <2> QED
        BY <1>1, <1>2, <2>2, SameUses, CalmMove
<1> QED
    BY <1>3, <1>4 DEF read_validated_ca_bundle

\* A transport is built from the pair that was read.
LEMMA TransportStep ==
    ASSUME ClientInv, NEW u \in Users, transport_built(u)
    PROVE  ClientInv'
<1> DEFINE x == [identity |-> got[u], anchors |-> build_root_store(pem.ca)]
<1>1. u \in Callers /\ u \notin Reloaders /\ got[u] \in Material
    BY Holding, ClientAssumption DEF Callers
<1>2. UNCHANGED <<peer_ca, pem, rotation, resolver, verifier, overlapped>> /\ job[u] = "reread" /\ GivesUp(u)
    BY DEF transport_built
<1>3. x \in [identity : Material, anchors : Int] /\ keys_match(x.identity)
    <2>1. build_root_store(pem.ca) \in Int
        BY DEF ClientInv, ClientTypeOK, Material, build_root_store, NoBundle
    <2>2. keys_match(got[u])
        BY <1>1, <1>2 DEF ClientInv, Reading
    <2> QED
        BY <1>1, <2>1, <2>2
<1>4. UNCHANGED used \/ used' = [used EXCEPT ![u] = x]
    BY DEF transport_built
<1>5. used' \in [Users -> [identity : Material, anchors : Int]] /\ Presented'
    BY <1>3, <1>4, SameUses, OneUse
<1>6. Moves(u, "idle", NothingRead)
    BY <1>2, GivingUp
<1> QED
    BY <1>1, <1>2, <1>5, <1>6, Constants, CalmMove

\* A step that changes nothing.
LEMMA StutterStep == ClientInv /\ UNCHANGED clientVars => ClientInv'
    BY DEF ClientInv, clientVars, ClientTypeOK, Reading, Parsed, OneAtATime, Quiet, Presented, build_root_store

\* Every step keeps the invariant.
LEMMA NextHolds == ClientInv /\ [ClientNext]_clientVars => ClientInv'
<1> SUFFICES ASSUME ClientInv, [ClientNext]_clientVars PROVE ClientInv'
    OBVIOUS
<1>1. CASE Rotate \/ \E f \in {"cert", "key", "ca"} : Rewrite(f) \/ Spoil(f)
    BY <1>1, OperatorSteps
<1>2. ASSUME NEW c \in Reloaders, Reload(c) PROVE ClientInv'
    <2>1. c \in Callers /\ c \notin Users
        BY ClientAssumption DEF Callers
    <2>2. read_key(c, "ca") => ClientInv'
        BY <2>1, ReadKeyStep DEF ReloadSteps, Storing
    <2> QED
        BY <1>2, <2>1, <2>2, ReadCertStep, ReloadStarts, VerifierStep, StoreKeyStep, StoreVerifierStep DEF Reload
<1>3. ASSUME NEW u \in Users, Use(u) PROVE ClientInv'
    <2>1. u \in Callers /\ u \notin Reloaders
        BY ClientAssumption DEF Callers
    <2>2. read_key(u, "validate") => ClientInv'
        BY <2>1, ReadKeyStep DEF UseSteps, Storing
    <2> QED
        BY <1>3, <2>1, <2>2, ReadCertStep, ConnectSteps, VerifyStep, ResolveStep, BundleStep, TransportStep DEF Use
<1>4. CASE UNCHANGED clientVars
    BY <1>4, StutterStep
<1> QED
    BY <1>1, <1>2, <1>3, <1>4 DEF ClientNext

\* ClientIdentitySource::reload is all or nothing for any number of tasks that
\* reload and connect, and whatever the operator does to the files meanwhile.
THEOREM AlwaysAllOrNothing == ClientSpec => []ReloadAllOrNothing
<1>1. ClientInv => ReloadAllOrNothing
    BY DEF ClientInv, Parsed, OneAtATime, Presented, ReloadAllOrNothing
<1> QED
    BY <1>1, InitHolds, NextHolds, PTL DEF ClientSpec

=============================================================================
