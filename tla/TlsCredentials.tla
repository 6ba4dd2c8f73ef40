--------------------------- MODULE TlsCredentials ---------------------------
(***************************************************************************)
(* A TLS listener (tls.rs): the pump that accepts TCP connections and runs *)
(* each handshake in a task of its own, within a time limit, and the       *)
(* bounded channel through which axum's serve loop gets the streams.       *)
(*                                                                         *)
(* With it the three sides of a service's TLS: the rotation of its         *)
(* listeners' credentials, the handshakes of a listener, and its outbound  *)
(* identity.  They share nothing but the files' format: a behaviour is     *)
(* about one.                                                              *)
(***************************************************************************)
EXTENDS TlsReload, ClientTls

CONSTANTS
    Peers,          \* clients, each connecting once
    Silent,         \* those that never send a ClientHello
    Capacity        \* HANDSHAKE_CHANNEL_CAPACITY

ASSUME ListenerAssumption == Silent \subseteq Peers /\ Capacity \in Nat \ {0}

VARIABLES
    pump,           \* "off", "accepting", "sleeping", "aborted"
    backlog,        \* TCP connections not yet accepted
    peer,           \* "away", "backlog", "handshake", "send", "queued",
                    \* "served", "refused"
    queue           \* completed handshakes in the channel

listenerVars == <<pump, backlog, peer, queue>>

ListenerInit ==
    /\ pump = "off" /\ backlog = << >> /\ queue = << >>
    /\ peer = [p \in Peers |-> "away"]

Becomes(p, state) == peer' = [peer EXCEPT ![p] = state]

Connects(p) ==
    /\ peer[p] = "away" /\ pump # "aborted"
    /\ backlog' = Append(backlog, p)
    /\ Becomes(p, "backlog")
    /\ UNCHANGED <<pump, queue>>

-----------------------------------------------------------------------------
\* The first accept() spawns the pump; every accept() waits for the channel.
\* The serve loop takes streams until it is shut down.
accept ==
    /\ \/ pump = "off" /\ pump' = "accepting" /\ UNCHANGED <<queue, peer>>
       \/ /\ pump \in {"accepting", "sleeping"} /\ queue # << >>
          /\ Becomes(Head(queue), "served") /\ queue' = Tail(queue)
          /\ UNCHANGED pump
    /\ UNCHANGED backlog

\* handshake_pump: accept, take the source's configuration of the
\* moment, spawn.
pump_accept ==
    /\ pump = "accepting" /\ backlog # << >>
    /\ Becomes(Head(backlog), "handshake")
    /\ backlog' = Tail(backlog)
    /\ UNCHANGED <<pump, queue>>

\* An accept error pauses the pump for a second.
pump_error ==
    /\ pump = "accepting" /\ pump' = "sleeping"
    /\ UNCHANGED <<backlog, peer, queue>>

pump_resumes ==
    /\ pump = "sleeping" /\ pump' = "accepting"
    /\ UNCHANGED <<backlog, peer, queue>>

\* The handshake task: the handshake ends, or handshake_timeout does.
handshake_done(p) ==
    /\ peer[p] = "handshake" /\ p \notin Silent
    /\ Becomes(p, "send")
    /\ UNCHANGED <<pump, backlog, queue>>

\* Mutant of handshake_elapsed: the time limit is on nothing.
handshake_elapsed_Never(p) == FALSE /\ UNCHANGED listenerVars

handshake_elapsed(p) ==
    /\ peer[p] = "handshake"
    /\ Becomes(p, "refused")
    /\ UNCHANGED <<pump, backlog, queue>>

\* tx.send: parks while the channel is full; the receiver may be gone.
send_stream(p) ==
    /\ peer[p] = "send"
    /\ \/ /\ pump # "aborted" /\ Len(queue) < Capacity
          /\ queue' = Append(queue, p) /\ Becomes(p, "queued")
       \/ /\ pump = "aborted"
          /\ Becomes(p, "refused") /\ UNCHANGED queue
    /\ UNCHANGED <<pump, backlog>>

\* A shutdown drops the listener: the pump is aborted, the socket closed, and
\* what waits in the channel or the backlog is lost.
drop_listener ==
    /\ pump \in {"accepting", "sleeping"}
    /\ pump' = "aborted" /\ backlog' = << >> /\ queue' = << >>
    /\ peer' = [p \in Peers |-> IF peer[p] \in {"backlog", "queued"} THEN "refused" ELSE peer[p]]

Handshake(p) == handshake_done(p) \/ handshake_elapsed(p) \/ send_stream(p)

Serving == accept \/ \E p \in Peers : Handshake(p)

ListenerNext ==
    \/ \E p \in Peers : Connects(p)
    \/ Serving \/ pump_accept \/ pump_error \/ pump_resumes \/ drop_listener

-----------------------------------------------------------------------------
\* Whoever connects gets a stream into the serve loop or is let go: a peer that
\* sends nothing holds up neither the pump nor the others, its task ends with
\* the time limit, a full channel only delays, and a shutdown strands nobody.
HandshakesSettle == <>[](\A p \in Peers : peer[p] \in {"away", "served", "refused"})

-----------------------------------------------------------------------------
(* The three sides.                                                        *)

VARIABLE side       \* "rotation", "listener", "client"

tlsVars == <<vars, clientVars, listenerVars, side>>

\* One set of triggers and one client configuration where they play no part.
TlsInit ==
    /\ Init /\ ClientInit /\ ListenerInit
    /\ side \in {"rotation", "listener", "client"}
    /\ side # "rotation" => triggers = CHOOSE t \in Triggers : TRUE
    /\ side # "client" => peer_ca = "public"

Rotating(A) == side = "rotation" /\ A /\ UNCHANGED <<clientVars, listenerVars, side>>
Listening(A) == side = "listener" /\ A /\ UNCHANGED <<vars, clientVars, side>>
Calling(A) == side = "client" /\ A /\ UNCHANGED <<vars, listenerVars, side>>

TlsNext == Rotating(Next) \/ Listening(ListenerNext) \/ Calling(ClientNext)

\* Besides the tasks and timers of TlsReload: handshake tasks and the serve
\* loop run, and an accept error passes.
TlsFairness ==
    /\ \A s \in Sources : WF_tlsVars(Rotating(PollStep(s)))
    /\ WF_tlsVars(Rotating(SighupStep))
    /\ WF_tlsVars(Listening(Serving)) /\ WF_tlsVars(Listening(pump_resumes))
    /\ SF_tlsVars(Listening(pump_accept))

TlsSpec == TlsInit /\ [][TlsNext]_tlsVars /\ TlsFairness

=============================================================================
