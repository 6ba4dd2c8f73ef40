----------------------------- MODULE MCRealtime -----------------------------
(***************************************************************************)
(* Scripts for Realtime: three connections that meet in rooms or in        *)
(* broadcasts.                                                             *)
(***************************************************************************)
EXTENDS Realtime

CONSTANTS c1, c2, c3

Join(r) == [op |-> "join", room |-> r]
Leave(r) == [op |-> "leave", room |-> r]
Say(r) == [op |-> "broadcast", room |-> r]
SayOthers(r) == [op |-> "broadcast_others", room |-> r]
Cast(t) == [op |-> "cast", target |-> t]

Three(s1, s2, s3) == [c \in Conns |-> CASE c = c1 -> s1 [] c = c2 -> s2 [] OTHER -> s3]

InRooms ==
    {[says |-> Three(<<Join("a"), Join("b"), Join("c")>>, <<Say("a")>>, << >>), registered |-> TRUE],
     [says |-> Three(<<Join("a"), Leave("a")>>, <<Join("a"), SayOthers("a")>>, <<Join("a")>>), registered |-> TRUE]}
Starting ==
    {[says |-> Three(<<Cast(t)>>, <<Cast("AllExcept")>>, << >>), registered |-> FALSE] :
        t \in {"All", "Connections"}}
Casting == {[says |-> Three(<<Cast("All")>>, <<Cast("All")>>, << >>), registered |-> TRUE]}

MCScripts == InRooms \cup Starting \cup Casting

=============================================================================
