-------------------------------- MODULE Rooms --------------------------------
(***************************************************************************)
(* RoomManager (websocket/rooms.rs): an actor that keeps the members of    *)
(* each room and, the other way round, the rooms of each connection.       *)
(* Joins, leaves and disconnects change both; a broadcast takes the        *)
(* members' senders and sends to one after the other beside the mailbox.   *)
(***************************************************************************)
EXTENDS Connections

CONSTANTS
    MaxMembers,     \* max_members of a room
    MaxRooms        \* max_rooms_per_connection

ASSUME RoomsAssumption == MaxMembers \in Nat \ {0} /\ MaxRooms \in Nat

VARIABLES
    mailbox,            \* messages to the manager, first come first served
    rooms,              \* members of each room there is
    connection_rooms,   \* rooms of each connection that has an entry
    broadcasts          \* broadcasts under way: the members still to be sent to

roomVars == <<mailbox, rooms, connection_rooms, broadcasts>>

RoomsInit == mailbox = << >> /\ rooms = << >> /\ connection_rooms = << >> /\ broadcasts = << >>

Put(f, k, v) == [x \in DOMAIN f \cup {k} |-> IF x = k THEN v ELSE f[x]]
Drop(f, K) == [x \in DOMAIN f \ K |-> f[x]]
Entry(f, k) == IF k \in DOMAIN f THEN f[k] ELSE {}

Receives(kind) == mailbox # << >> /\ Head(mailbox).kind = kind /\ mailbox' = Tail(mailbox)

\* The connection's limit first, then the room's: an entry or a room that was
\* looked up stays behind when the join is refused.
JoinRoomRequest ==
    LET c == Head(mailbox).conn
        r == Head(mailbox).room
        mine == Entry(connection_rooms, c)
        members == Entry(rooms, r)
    IN  /\ Receives("join")
        /\ IF Cardinality(mine) >= MaxRooms
           THEN UNCHANGED rooms /\ connection_rooms' = Put(connection_rooms, c, mine)
           ELSE IF Cardinality(members) >= MaxMembers
           THEN rooms' = Put(rooms, r, members) /\ connection_rooms' = Put(connection_rooms, c, mine)
           ELSE /\ rooms' = Put(rooms, r, members \cup {c})
                /\ connection_rooms' = Put(connection_rooms, c, mine \cup {r})
        /\ UNCHANGED <<connVars, broadcasts>>

\* Rooms of rs without c; the ones that are empty then are removed.
Without(c, rs) ==
    LET left == [r \in DOMAIN rooms |-> IF r \in rs THEN rooms[r] \ {c} ELSE rooms[r]]
    IN  Drop(left, {r \in rs \cap DOMAIN left : left[r] = {}})

LeaveRoomRequest ==
    LET c == Head(mailbox).conn
        r == Head(mailbox).room
    IN  /\ Receives("leave")
        /\ rooms' = Without(c, {r})
        /\ connection_rooms' = IF c \in DOMAIN connection_rooms
                               THEN Put(connection_rooms, c, connection_rooms[c] \ {r}) ELSE connection_rooms
        /\ UNCHANGED <<connVars, broadcasts>>

\* Mutant of joined_rooms: only one of the rooms is left.
joined_rooms_First(c) ==
    LET rs == Entry(connection_rooms, c) IN IF rs = {} THEN {} ELSE {CHOOSE r \in rs : TRUE}

\* The rooms a disconnected connection is taken out of.
joined_rooms(c) == Entry(connection_rooms, c)

ConnectionDisconnected ==
    LET c == Head(mailbox).conn
    IN  /\ Receives("disconnected")
        /\ rooms' = Without(c, joined_rooms(c))
        /\ connection_rooms' = Drop(connection_rooms, {c})
        /\ UNCHANGED <<connVars, broadcasts>>

\* The senders are collected, in the order of a hash map, when the message is
\* handled; who joins later is not among them, who leaves later still is.
\* exclude_sender leaves the one out who asked.
BroadcastToRoom ==
    LET exclude_sender == IF Head(mailbox).kind = "broadcast_others" THEN {Head(mailbox).conn} ELSE {}
        members == Entry(rooms, Head(mailbox).room) \ exclude_sender
    IN  /\ Receives("broadcast") \/ Receives("broadcast_others")
        /\ IF members = {} THEN UNCHANGED broadcasts
           ELSE \E order \in SetToSeqs(members) : broadcasts' = Append(broadcasts, order)
        /\ UNCHANGED <<connVars, rooms, connection_rooms>>

\* One member is sent to; a member that is gone is skipped.
SendToMember(k) ==
    LET c == Head(broadcasts[k])
        left == Tail(broadcasts[k])
    IN  /\ Accepts(c) \/ Gone(c)
        /\ queued' = IF Gone(c) THEN queued ELSE [queued EXCEPT ![c] = @ + 1]
        /\ broadcasts' = IF left = << >> THEN RemoveAt(broadcasts, k) ELSE [broadcasts EXCEPT ![k] = left]
        /\ UNCHANGED <<script, task, socket, stalled, receiving, mailbox, rooms, connection_rooms>>

Manager == JoinRoomRequest \/ LeaveRoomRequest \/ ConnectionDisconnected \/ BroadcastToRoom

\* What a client asks for: the manager is sent a message.
Tells(c) ==
    /\ \E op \in {"join", "leave", "broadcast", "broadcast_others"} : Reads(c, op)
    /\ mailbox' = Append(mailbox, [kind |-> Msg(c).op, conn |-> c, room |-> Msg(c).room])
    /\ Consumed(c)
    /\ UNCHANGED <<task, queued, socket, stalled, receiving, rooms, connection_rooms, broadcasts>>

\* Cleanup of the task: the manager is told.
Disconnects(c) ==
    /\ task[c].at = "disconnect" /\ Goto(c, At("abort"))
    /\ mailbox' = Append(mailbox, [kind |-> "disconnected", conn |-> c, room |-> "none"])
    /\ UNCHANGED <<script, queued, socket, stalled, receiving, rooms, connection_rooms, broadcasts>>

-----------------------------------------------------------------------------
(* Properties.                                                             *)

\* The two maps of the manager say the same, both limits hold, no room without
\* members is kept, and a connection whose task has ended is forgotten once
\* its messages are handled, whatever mix of joins, refused joins, leaves and
\* disconnects came before.
RoomsConsistent ==
    /\ \A c \in Conns : Cardinality(Entry(connection_rooms, c)) <= MaxRooms
    /\ \A c \in Conns : Entry(connection_rooms, c) = {r \in DOMAIN rooms : c \in rooms[r]}
    /\ \A r \in DOMAIN rooms : Cardinality(rooms[r]) \in 1 .. MaxMembers
    /\ \A c \in Conns : task[c].at = "done" /\ mailbox = << >> => c \notin DOMAIN connection_rooms

=============================================================================
