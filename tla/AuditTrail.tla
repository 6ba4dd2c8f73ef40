----------------------------- MODULE AuditTrail -----------------------------
(***************************************************************************)
(* The audit trail of acton-service: the AuditAgent actor that owns the    *)
(* hash chain (audit/agent.rs), the chain itself (audit/chain.rs), the     *)
(* writer task that persists sealed events, and the table every replica of *)
(* the service shares (audit/storage/).                                    *)
(*                                                                         *)
(* Events reach the agent through its FIFO mailbox.  Until the task        *)
(* spawned by after_start has read the newest stored event they are        *)
(* buffered; ChainLoaded seals the buffer, and from then on every event is *)
(* sealed on arrival and handed to the writer.  A replica may crash at any *)
(* point and restart; the database may be unreachable at any point.        *)
(***************************************************************************)
EXTENDS Integers, Sequences, FiniteSets

CONSTANTS
    Instances,      \* replicas of the service that share one audit table
    Backend,        \* storage backend of audit/storage/
    FineEvents,     \* events whose clock reading has digits below the
                    \* precision the column keeps
    MaxPending,     \* MAX_PENDING_EVENTS (1024 in the code)
    MaxEvents,      \* bound: events one replica emits
    MaxTotal,       \* bound: events all replicas emit together
    MaxCrashes,     \* bound: crashes in one behaviour
    None            \* Option::None of the agent's chain field

Events == Instances \X (1 .. MaxEvents)

\* Utc::now() on Linux: nanoseconds, never a whole microsecond.
FineClock == Events

Backends == {"postgres", "turso", "clickhouse"}

\* The table declares `sequence` UNIQUE (ClickHouse's MergeTree does not).
UniqueBackends == {"postgres", "turso"}

(***************************************************************************)
(* BLAKE3 is collision free, so a hash is modelled by everything that went *)
(* into it: the chain of inputs from genesis on.  Option::None, the        *)
(* previous hash of the first event, is the empty chain.                   *)
(***************************************************************************)
HashInput == (Nat \ {0}) \X Events \X {0, 1}
Hashes    == Seq(HashInput)
Genesis   == << >>

Chains == [previous_hash : Hashes, sequence : Nat]
Rows   == [event : Events, timestamp : {0, 1}, sequence : Nat \ {0},
           previous_hash : Hashes, hash : Hashes]

Messages == [type : {"event"}, event : Events]
              \cup [type : {"loaded"}, previous_hash : Hashes, sequence : Nat]

ASSUME ConstantsAssumption ==
    /\ Backend \in Backends
    /\ FineEvents \subseteq Events
    /\ MaxPending \in Nat \ {0}
    /\ MaxEvents \in Nat /\ MaxTotal \in Nat
    /\ MaxCrashes \in Nat
    /\ None \notin Chains

VARIABLES
    phase,      \* "down", or how far the start-up task of the replica is
    mailbox,    \* messages queued for the agent
    chain,      \* AuditAgentState.chain
    pending,    \* AuditAgentState.pending
    channel,    \* sealed events queued for the writer task
    db,         \* rows of audit_events
    online,     \* the database answers
    emitted,    \* number of events each replica has emitted
    reported,   \* events for which record_failure was called
    dropped,    \* events refused by the full pending buffer
    forked,     \* a fresh chain was started although the table held rows
    lost,       \* events that were in memory when their replica crashed
    crashes     \* number of crashes so far

agentVars   == <<phase, mailbox, chain, pending, channel>>
historyVars == <<emitted, reported, dropped, forked, lost, crashes>>
vars        == <<agentVars, db, online, historyVars>>

-----------------------------------------------------------------------------
(* The hash chain.                                                         *)

Timestamp(e) == IF e \in FineEvents THEN 1 ELSE 0

\* Chain of inputs after the first k events of es are sealed on top of c.
HashAfter(c, es, k) ==
    c.previous_hash \o [j \in 1 .. k |-> <<c.sequence + j, es[j], Timestamp(es[j])>>]

\* The events es sealed one after the other by AuditChain::seal.
Sealed(c, es) ==
    [k \in 1 .. Len(es) |->
        [event         |-> es[k],
         timestamp     |-> Timestamp(es[k]),
         sequence      |-> c.sequence + k,
         previous_hash |-> HashAfter(c, es, k - 1),
         hash          |-> HashAfter(c, es, k)]]

\* Mutant of Advanced: seal() forgets to advance previous_hash.
Advanced_StaleHash(c, es) ==
    [previous_hash |-> c.previous_hash, sequence |-> c.sequence + Len(es)]

\* The chain state those calls leave behind.
Advanced(c, es) ==
    [previous_hash |-> HashAfter(c, es, Len(es)), sequence |-> c.sequence + Len(es)]

\* What a row read back from the table holds: Postgres keeps microseconds,
\* ClickHouse milliseconds, Turso the RFC 3339 text.
AsStored(r) == IF Backend = "turso" THEN r ELSE [r EXCEPT !.timestamp = 0]

recompute_hash(r) == Append(r.previous_hash, <<r.sequence, r.event, r.timestamp>>)

\* Rows verify_chain sees before r when it starts at sequence `from`.
Before(r, from) == {s \in db : s.sequence >= from /\ s.sequence < r.sequence}

\* r carries the hash of the row read just before it (None for the first).
LinkHolds(r, from) ==
    IF Before(r, from) = {}
    THEN r.previous_hash = Genesis
    ELSE \E s \in Before(r, from) :
            /\ \A t \in Before(r, from) : t.sequence <= s.sequence
            /\ r.previous_hash = s.hash

\* Rows at which verify_chain stops; empty when it answers "intact".
BrokenRows(from) ==
    {r \in db : /\ r.sequence >= from
                /\ ~LinkHolds(r, from) \/ recompute_hash(r) # r.hash}

-----------------------------------------------------------------------------
Init ==
    /\ phase    = [i \in Instances |-> "waiting"]
    /\ mailbox  = [i \in Instances |-> << >>]
    /\ chain    = [i \in Instances |-> None]
    /\ pending  = [i \in Instances |-> << >>]
    /\ channel  = [i \in Instances |-> << >>]
    /\ db       = {}
    /\ online   = FALSE
    /\ emitted  = [i \in Instances |-> 0]
    /\ reported = {}
    /\ dropped  = {}
    /\ forked   = FALSE
    /\ lost     = {}
    /\ crashes  = 0

\* AuditLogger::log: fire and forget into the agent's mailbox.
Log(i) ==
    /\ phase[i] # "down"
    /\ emitted[i] < MaxEvents
    /\ Cardinality({e \in Events : e[2] <= emitted[e[1]]}) < MaxTotal
    /\ emitted' = [emitted EXCEPT ![i] = @ + 1]
    /\ mailbox' = [mailbox EXCEPT ![i] =
                     Append(@, [type |-> "event", event |-> <<i, emitted[i] + 1>>])]
    /\ UNCHANGED <<phase, chain, pending, channel, db, online, reported, dropped, forked, lost, crashes>>

\* wait_for_storage returns because ensure_ready succeeded, or because the
\* last poll before the deadline failed.
wait_for_storage(i) ==
    /\ phase[i] = "waiting"
    /\ phase' = [phase EXCEPT ![i] = "reading"]
    /\ UNCHANGED <<mailbox, chain, pending, channel, db, online, historyVars>>

\* The newest row, if any, in the shape the start-up task sends on.
LatestRows == {r \in db : \A s \in db : s.sequence <= r.sequence}

\* Mutant of load_chain: an error ends the start-up task without ChainLoaded.
load_chain_GivesUp(i) ==
    /\ phase[i] = "reading"
    /\ phase' = [phase EXCEPT ![i] = "loaded"]
    /\ \/ /\ online /\ LatestRows # {}
          /\ \E r \in LatestRows :
               mailbox' = [mailbox EXCEPT ![i] = Append(@,
                   [type |-> "loaded", previous_hash |-> r.hash, sequence |-> r.sequence])]
       \/ /\ ~online \/ db = {}
          /\ UNCHANGED mailbox
    /\ UNCHANGED <<chain, pending, channel, db, online, historyVars>>

\* The start-up task asks for the latest row and sends ChainLoaded.  An error
\* and an empty table both start a fresh chain.
load_chain(i) ==
    /\ phase[i] = "reading"
    /\ phase' = [phase EXCEPT ![i] = "loaded"]
    /\ \/ /\ online /\ LatestRows # {}
          /\ \E r \in LatestRows :
               mailbox' = [mailbox EXCEPT ![i] = Append(@,
                   [type |-> "loaded", previous_hash |-> r.hash, sequence |-> r.sequence])]
          /\ UNCHANGED forked
       \/ /\ ~online \/ db = {}
          /\ mailbox' = [mailbox EXCEPT ![i] = Append(@,
                   [type |-> "loaded", previous_hash |-> Genesis, sequence |-> 0])]
          /\ forked' = (forked \/ db # {})
    /\ UNCHANGED <<chain, pending, channel, db, online, emitted, reported, dropped, lost, crashes>>

\* Mutant of buffer_pending_event: the buffer is a stack.
buffer_pending_event_Stack(i, e) ==
    /\ Len(pending[i]) < MaxPending
    /\ pending' = [pending EXCEPT ![i] = <<e>> \o @]
    /\ UNCHANGED <<reported, dropped>>

\* An AuditEvent arrives before the chain exists and is kept.
buffer_pending_event(i, e) ==
    /\ Len(pending[i]) < MaxPending
    /\ pending' = [pending EXCEPT ![i] = Append(@, e)]
    /\ UNCHANGED <<reported, dropped>>

\* Mutant of overflow_pending_event: the dropped event is not reported.
overflow_pending_event_Silent(i, e) ==
    /\ Len(pending[i]) >= MaxPending
    /\ UNCHANGED <<pending, reported, dropped>>

\* The buffer is full: the newest event is dropped and reported.
overflow_pending_event(i, e) ==
    /\ Len(pending[i]) >= MaxPending
    /\ reported' = reported \cup {e}
    /\ dropped' = dropped \cup {e}
    /\ UNCHANGED pending

\* seal_and_dispatch applied to the events es, in order.
seal_and_dispatch(i, c, es) ==
    /\ chain' = [chain EXCEPT ![i] = Advanced(c, es)]
    /\ channel' = [channel EXCEPT ![i] = @ \o Sealed(c, es)]

\* The agent's AuditEvent handler.
HandleEvent(i) ==
    /\ mailbox[i] # << >>
    /\ Head(mailbox[i]).type = "event"
    /\ mailbox' = [mailbox EXCEPT ![i] = Tail(@)]
    /\ LET e == Head(mailbox[i]).event IN
         \/ /\ chain[i] = None
            /\ buffer_pending_event(i, e) \/ overflow_pending_event(i, e)
            /\ UNCHANGED <<chain, channel>>
         \/ /\ chain[i] # None
            /\ seal_and_dispatch(i, chain[i], <<e>>)
            /\ UNCHANGED <<pending, reported, dropped>>
    /\ UNCHANGED <<phase, db, online, emitted, forked, lost, crashes>>

\* The agent's ChainLoaded handler: build the chain, seal what was buffered.
HandleChainLoaded(i) ==
    /\ mailbox[i] # << >>
    /\ Head(mailbox[i]).type = "loaded"
    /\ mailbox' = [mailbox EXCEPT ![i] = Tail(@)]
    /\ LET m == Head(mailbox[i])
           c == [previous_hash |-> m.previous_hash, sequence |-> m.sequence]
       IN  seal_and_dispatch(i, c, pending[i])
    /\ pending' = [pending EXCEPT ![i] = << >>]
    /\ UNCHANGED <<phase, db, online, historyVars>>

\* INSERT of the row is accepted by the table.
Accepts(r) == Backend \in UniqueBackends => \A s \in db : s.sequence # r.sequence

\* One turn of the writer task: append, and tell the failure tracker when the
\* database refuses, is away, or answers too late to be heard (the row is in,
\* the caller gets an error).
WriterAppend(i) ==
    /\ channel[i] # << >>
    /\ channel' = [channel EXCEPT ![i] = Tail(@)]
    /\ LET r == Head(channel[i]) IN
         \/ /\ online /\ Accepts(r)
            /\ db' = db \cup {AsStored(r)}
            /\ UNCHANGED reported
         \/ /\ online /\ Accepts(r)
            /\ db' = db \cup {AsStored(r)}
            /\ reported' = reported \cup {r.event}
         \/ /\ ~online \/ ~Accepts(r)
            /\ reported' = reported \cup {r.event}
            /\ UNCHANGED db
    /\ UNCHANGED <<phase, mailbox, chain, pending, online, emitted, dropped, forked, lost, crashes>>

\* The connection pool connects, or loses the database.
Connectivity ==
    /\ online' = ~online
    /\ UNCHANGED <<agentVars, db, historyVars>>

\* Events the replica holds in memory only.
InMemory(i) ==
    {mailbox[i][k].event : k \in {j \in 1 .. Len(mailbox[i]) : mailbox[i][j].type = "event"}}
      \cup {pending[i][k] : k \in 1 .. Len(pending[i])}
      \cup {channel[i][k].event : k \in 1 .. Len(channel[i])}

\* The process ends (crash, or exit after a stop that does not wait for the
\* writer task): mailbox, buffer and channel go with it.
Crash(i) ==
    /\ phase[i] # "down"
    /\ crashes < MaxCrashes
    /\ crashes' = crashes + 1
    /\ lost' = lost \cup InMemory(i)
    /\ phase' = [phase EXCEPT ![i] = "down"]
    /\ mailbox' = [mailbox EXCEPT ![i] = << >>]
    /\ chain' = [chain EXCEPT ![i] = None]
    /\ pending' = [pending EXCEPT ![i] = << >>]
    /\ channel' = [channel EXCEPT ![i] = << >>]
    /\ UNCHANGED <<db, online, emitted, reported, dropped, forked>>

\* AuditAgent::spawn in the new process.
Restart(i) ==
    /\ phase[i] = "down"
    /\ phase' = [phase EXCEPT ![i] = "waiting"]
    /\ UNCHANGED <<mailbox, chain, pending, channel, db, online, historyVars>>

Next ==
    \/ \E i \in Instances :
         \/ Log(i)
         \/ wait_for_storage(i)
         \/ load_chain(i)
         \/ HandleEvent(i)
         \/ HandleChainLoaded(i)
         \/ WriterAppend(i)
         \/ Crash(i)
         \/ Restart(i)
    \/ Connectivity

(***************************************************************************)
(* The tokio runtime keeps polling the start-up task, the actor and the    *)
(* writer task of a live process; nothing is assumed of the database.      *)
(***************************************************************************)
Fairness ==
    \A i \in Instances :
        /\ WF_vars(wait_for_storage(i))
        /\ WF_vars(load_chain(i))
        /\ WF_vars(HandleEvent(i) \/ HandleChainLoaded(i))
        /\ WF_vars(WriterAppend(i))

Spec == Init /\ [][Next]_vars

FairSpec == Spec /\ Fairness

-----------------------------------------------------------------------------
(* Properties.                                                             *)

\* Every variable keeps the type its declaration in agent.rs and chain.rs
\* gives it, across crashes and restarts.
TypeOK ==
    /\ phase \in [Instances -> {"down", "waiting", "reading", "loaded"}]
    /\ mailbox \in [Instances -> Seq(Messages)]
    /\ chain \in [Instances -> Chains \cup {None}]
    /\ pending \in [Instances -> Seq(Events)]
    /\ channel \in [Instances -> Seq(Rows)]
    /\ db \subseteq Rows
    /\ online \in BOOLEAN
    /\ emitted \in [Instances -> 0 .. MaxEvents]
    /\ reported \subseteq Events
    /\ dropped \subseteq reported
    /\ forked \in BOOLEAN
    /\ lost \subseteq Events
    /\ crashes \in 0 .. MaxCrashes

\* With a UNIQUE sequence column the stored chain cannot break silently:
\* unless seal_and_dispatch, the pending buffer or the writer task called
\* record_failure for some event, every stored row links to the row before
\* it.  Neither crashes, nor the fresh chain started when storage is late,
\* nor replicas that resume from the same row are an exception.
BreaksAreReported ==
    Backend \in UniqueBackends /\ reported = {} => \A r \in db : LinkHolds(r, 1)

\* The events one replica emits are stored in emission order (the claim of
\* spawn_writer_task and of the ChainLoaded handler), across restarts, unless
\* a fresh chain was started over a table that already held rows.
EmissionOrder ==
    ~forked /\ Backend \in UniqueBackends =>
        \A r, s \in db :
            r.event[1] = s.event[1] /\ r.event[2] < s.event[2] => r.sequence < s.sequence

\* No event vanishes: each one that was logged is in memory, stored, known to
\* the failure tracker, or went down with its process.
Accounted ==
    \A i \in Instances : \A n \in 1 .. emitted[i] :
        <<i, n>> \in InMemory(i) \cup {r.event : r \in db} \cup reported \cup lost

\* verify_chain finds nothing to complain about in a table only this code
\* wrote to, when no failure was reported.
UntamperedVerifies ==
    Backend \in UniqueBackends /\ reported = {} => BrokenRows(1) = {}

\* AuditStorage::verify_chain(n) answers "intact" for an intact chain,
\* whatever the sequence number verification starts from.
VerifyFromAnySequence ==
    BrokenRows(1) = {} => \A r \in db : BrokenRows(r.sequence) = {}

\* The documented promise that no event is lost while storage connects.
NothingDroppedWhileConnecting == dropped = {}

\* Every logged event is eventually stored, reported or gone with a crashed
\* process: the buffer is always drained and nobody waits for the database
\* forever.
Settles ==
    \A e \in Events :
        emitted[e[1]] >= e[2] ~> e \in {r.event : r \in db} \cup reported \cup lost

=============================================================================
