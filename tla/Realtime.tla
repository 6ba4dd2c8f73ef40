------------------------------ MODULE Realtime ------------------------------
(***************************************************************************)
(* The realtime side of a service: connections that join rooms of the      *)
(* RoomManager and broadcast through the Broadcaster.                      *)
(***************************************************************************)
EXTENDS Rooms, Broadcaster

vars == <<connVars, roomVars, castVars>>

Init == ConnInit /\ RoomsInit /\ CastInit

Task(c) ==
    \/ CastStep(c) /\ UNCHANGED roomVars
    \/ (Tells(c) \/ Disconnects(c)) /\ UNCHANGED castVars
    \/ Abort(c) /\ UNCHANGED <<roomVars, castVars>>

Forwards(c) == Forward(c) /\ UNCHANGED <<roomVars, castVars>>

Manages == Manager /\ UNCHANGED castVars

SendsToRoom == (\E k \in DOMAIN broadcasts : SendToMember(k)) /\ UNCHANGED castVars

HangsUp(c) == Hangup(c) /\ UNCHANGED <<roomVars, castVars>>

Stalls(c) == Stall(c) /\ UNCHANGED <<roomVars, castVars>>

Next ==
    \/ \E c \in Conns : Task(c) \/ Forwards(c) \/ HangsUp(c) \/ Stalls(c)
    \/ Manages \/ SendsToRoom

\* Tasks are scheduled.  Nothing is assumed of the peers: one may never read
\* again.  The actor may hold its mailbox until its broadcasts are through:
\* only then must it go on.
Fairness ==
    /\ \A c \in Conns : WF_vars(Task(c)) /\ WF_vars(Forwards(c))
    /\ WF_vars(Manages /\ broadcasts = << >>) /\ WF_vars(SendsToRoom)

Spec == Init /\ [][Next]_vars /\ Fairness

\* Although a broadcast holds the lock while it awaits full channels, calls to
\* the broadcaster and the manager never wait for each other in a circle: only
\* a peer that stays connected and never reads again holds them up.  Without
\* one, every connection's task gets through its messages, unregisters and
\* ends.
TasksFinish == <>[](stalled = {}) => <>(\A c \in Conns : task[c].at = "done")

=============================================================================
