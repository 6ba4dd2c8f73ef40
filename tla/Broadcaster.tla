----------------------------- MODULE Broadcaster -----------------------------
(***************************************************************************)
(* Broadcaster (websocket/broadcast.rs): the senders of all connections    *)
(* behind one tokio RwLock, which admits its waiters in order.  A          *)
(* broadcast keeps the read lock while it awaits the channel of each       *)
(* receiver.                                                               *)
(***************************************************************************)
EXTENDS Connections

VARIABLES
    connections,    \* registered connections
    readers,        \* tasks that hold the read lock
    waiting         \* tasks waiting for the lock, first come first served

castVars == <<connections, readers, waiting>>

CastInit == connections = {c \in Conns : task[c].at = "reading"} /\ readers = {} /\ waiting = << >>

Wait(c, mode, next) ==
    /\ waiting' = Append(waiting, [who |-> c, mode |-> mode])
    /\ Goto(c, next)

\* register and unregister need the write lock.
register(c) ==
    /\ task[c].at = "start" /\ Wait(c, "write", At("registering"))
    /\ UNCHANGED <<script, queued, socket, stalled, receiving, connections, readers>>

\* When nothing is left to read the task unregisters its connection.
unregister(c) ==
    /\ task[c].at = "reading" /\ script[c] = << >> /\ Wait(c, "write", At("unregistering"))
    /\ UNCHANGED <<script, queued, socket, stalled, receiving, connections, readers>>

\* broadcast_all, broadcast_to, broadcast_except and send_to need the read lock.
broadcast(c) ==
    /\ Reads(c, "cast") /\ Consumed(c)
    /\ Wait(c, "read", [At("broadcasting") EXCEPT !.target = Msg(c).target])
    /\ UNCHANGED <<queued, socket, stalled, receiving, connections, readers>>

Admitted(c, mode) ==
    /\ waiting # << >> /\ Head(waiting) = [who |-> c, mode |-> mode]
    /\ mode = "write" => readers = {}
    /\ waiting' = Tail(waiting)

\* The map is changed and the lock released in one step of the task.
Write(c) ==
    /\ Admitted(c, "write")
    /\ \/ task[c].at = "registering" /\ connections' = connections \cup {c} /\ Goto(c, At("reading"))
       \/ task[c].at = "unregistering" /\ connections' = connections \ {c} /\ Goto(c, At("disconnect"))
    /\ UNCHANGED <<script, queued, socket, stalled, receiving, readers>>

\* The connections of a target, in the order of the map.
targets(c) ==
    CASE task[c].target = "All"       -> connections
      [] task[c].target = "AllExcept" -> connections \ {c}
      [] OTHER                        -> connections \cap {c}

Read(c) ==
    /\ Admitted(c, "read") /\ readers' = readers \cup {c}
    /\ \E order \in SetToSeqs(targets(c)) : Goto(c, [At("sending") EXCEPT !.to = order])
    /\ UNCHANGED <<script, queued, socket, stalled, receiving, connections>>

\* Mutant of failed_send: the broadcast removes a connection that is gone.
failed_send_Unregisters(c) ==
    /\ waiting' = Append(waiting, [who |-> c, mode |-> "write"])
    /\ Goto(c, At("unregistering"))

\* A send that fails is not counted.
failed_send(c) == Goto(c, [task[c] EXCEPT !.to = Tail(@)]) /\ UNCHANGED waiting

\* One receiver after the other, under the read lock.
send(c) ==
    /\ task[c].at = "sending" /\ task[c].to # << >>
    /\ LET d == Head(task[c].to)
       IN  \/ Gone(d) /\ failed_send(c) /\ UNCHANGED queued
           \/ /\ Accepts(d) /\ queued' = [queued EXCEPT ![d] = @ + 1]
              /\ Goto(c, [task[c] EXCEPT !.to = Tail(@)]) /\ UNCHANGED waiting
    /\ UNCHANGED <<script, socket, stalled, receiving, connections, readers>>

release(c) ==
    /\ task[c].at = "sending" /\ task[c].to = << >>
    /\ readers' = readers \ {c} /\ Goto(c, At("reading"))
    /\ UNCHANGED <<script, queued, socket, stalled, receiving, connections, waiting>>

CastStep(c) ==
    register(c) \/ unregister(c) \/ broadcast(c) \/ Write(c) \/ Read(c) \/ send(c) \/ release(c)

=============================================================================
