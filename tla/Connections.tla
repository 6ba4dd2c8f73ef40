----------------------------- MODULE Connections -----------------------------
(***************************************************************************)
(* WebSocket connections as the websocket page sets them up: the task of a *)
(* connection works through what its client sends, a second task forwards  *)
(* what is queued in the connection's bounded channel to the socket.       *)
(***************************************************************************)
EXTENDS Naturals, Sequences, FiniteSets, SequencesExt

CONSTANTS
    Conns,          \* connections
    ChannelSize,    \* capacity of a connection's channel
    Scripts,        \* [says, registered]: what each client sends, in order, and
                    \* whether the connections are registered already
    MaxHangups,     \* bound: peers that go away of themselves
    MaxStalled      \* bound: peers that do not read at one time

\* What a client may send.
ClientMessages ==
    [op : {"join", "leave", "broadcast", "broadcast_others"}, room : STRING]
      \cup [op : {"cast"}, target : {"All", "AllExcept", "Connections"}]

ASSUME ConnectionsAssumption ==
    /\ ChannelSize \in Nat \ {0}
    /\ \A s \in Scripts : s.says \in [Conns -> Seq(ClientMessages)]

VARIABLES
    script,         \* what each client has still to send
    task,           \* where the task of each connection is
    queued,         \* messages in each connection's channel
    socket,         \* connections whose peer is there
    stalled,        \* connections whose peer is there and does not read
    receiving       \* connections whose channel has a receiver

connVars == <<script, task, queued, socket, stalled, receiving>>

\* What a task is doing: its broadcast's target, the connections left to send to.
At(name) == [at |-> name, target |-> "none", to |-> << >>]

ConnInit ==
    /\ \E s \in Scripts :
           /\ script = s.says
           /\ task = [c \in Conns |-> At(IF s.registered THEN "reading" ELSE "start")]
    /\ queued = [c \in Conns |-> 0] /\ socket = Conns /\ stalled = {} /\ receiving = Conns

\* The task of c reads a message of this kind from its socket.
Reads(c, op) == task[c].at = "reading" /\ script[c] # << >> /\ Head(script[c]).op = op
Msg(c) == Head(script[c])
Consumed(c) == script' = [script EXCEPT ![c] = Tail(@)]

Goto(c, where) == task' = [task EXCEPT ![c] = where]

\* mpsc::Sender::send: waits while the channel is full, fails without receiver.
Accepts(c) == c \in receiving /\ queued[c] < ChannelSize
Gone(c) == c \notin receiving

\* The send task forwards a message, for which it waits while the peer does
\* not read, without a timeout; it ends when the socket fails.
Forward(c) ==
    /\ c \in receiving /\ queued[c] > 0 /\ c \notin stalled
    /\ queued' = [queued EXCEPT ![c] = @ - 1]
    /\ receiving' = IF c \in socket THEN receiving ELSE receiving \ {c}
    /\ UNCHANGED <<script, task, socket, stalled>>

\* The peer goes away: the task reads nothing more.
Hangup(c) ==
    /\ c \in socket /\ Cardinality(Conns \ socket) < MaxHangups
    /\ socket' = socket \ {c} /\ stalled' = stalled \ {c}
    /\ script' = [script EXCEPT ![c] = << >>]
    /\ UNCHANGED <<task, queued, receiving>>

\* A peer that is there does not read what it is sent, or reads again.
Stall(c) ==
    /\ \/ c \in socket \ stalled /\ queued[c] > 0 /\ Cardinality(stalled) < MaxStalled /\ stalled' = stalled \cup {c}
       \/ c \in stalled /\ stalled' = stalled \ {c}
    /\ UNCHANGED <<script, task, queued, socket, receiving>>

\* The last steps of the task: the send task is aborted.
Abort(c) ==
    /\ task[c].at = "abort" /\ Goto(c, At("done"))
    /\ receiving' = receiving \ {c}
    /\ UNCHANGED <<script, queued, socket, stalled>>

=============================================================================
