---------------------------- MODULE TrafficProofs ----------------------------
(***************************************************************************)
(* Proofs about what clients send.                                         *)
(*                                                                         *)
(* Realtime, for any number of connections and rooms and any scripts of    *)
(* the clients: the room manager's two maps agree within their limits and  *)
(* forget who is gone.                                                     *)
(*                                                                         *)
(* Pipeline, for any number of requests and any deployment: the limits     *)
(* hold, answers leave their traces, and no handler runs for a request     *)
(* without the authority its deployment asks for.                          *)
(***************************************************************************)
EXTENDS Realtime, Pipeline, FiniteSetTheorems, SequenceTheorems, WellFoundedInduction, TLAPS

-----------------------------------------------------------------------------
(* Tasks and their turns at the Broadcaster's lock.                        *)

\* What the manager is sent.
ManagerMessages ==
    [kind : {"join", "leave", "broadcast", "broadcast_others", "disconnected"}, conn : Conns, room : STRING \cup {"none"}]

\* A task at the lock is in one of these places.
Awaits(mode) == IF mode = "read" THEN {"broadcasting"} ELSE {"registering", "unregistering"}

\* Types of what tasks do, and of what they send to the manager and the lock.
TaskTypes ==
    /\ script \in [Conns -> Seq(ClientMessages)]
    /\ DOMAIN task = Conns /\ \A c \in Conns : "at" \in DOMAIN task[c]
    /\ mailbox \in Seq(ManagerMessages)
    /\ waiting \in Seq([who : Conns, mode : {"read", "write"}])

\* Who waits for the lock is at a place where it waits, and waits once.
LockQueue ==
    /\ \A i \in 1 .. Len(waiting) : task[waiting[i].who].at \in Awaits(waiting[i].mode)
    /\ \A i, j \in 1 .. Len(waiting) : waiting[i].who = waiting[j].who => i = j

\* The message of a client that is read is one it may send.
LEMMA MessageRead ==
    ASSUME TaskTypes, NEW c \in Conns, NEW op, Reads(c, op)
    PROVE  /\ Msg(c) \in ClientMessages /\ Msg(c).op = op /\ Tail(script[c]) \in Seq(ClientMessages)
           /\ op \in {"join", "leave", "broadcast", "broadcast_others"} => Msg(c).room \in STRING
<1>1. script[c] \in Seq(ClientMessages) /\ script[c] # << >>
  BY DEF TaskTypes, Reads
<1>2. Msg(c) \in ClientMessages /\ Msg(c).op = op /\ Tail(script[c]) \in Seq(ClientMessages)
  BY <1>1 DEF Reads, Msg
<1> QED  BY <1>2 DEF ClientMessages

\* An entry of the queue is of a connection whose task waits.
LEMMA WaitingApart ==
    ASSUME TaskTypes, LockQueue
    PROVE  \A i \in 1 .. Len(waiting) :
               /\ waiting[i] \in [who : Conns, mode : {"read", "write"}] /\ waiting[i].who \in Conns
               /\ task[waiting[i].who].at \in {"broadcasting", "registering", "unregistering"}
<1> SUFFICES ASSUME NEW i \in 1 .. Len(waiting)
             PROVE  /\ waiting[i] \in [who : Conns, mode : {"read", "write"}] /\ waiting[i].who \in Conns
                    /\ task[waiting[i].who].at \in {"broadcasting", "registering", "unregistering"}
  OBVIOUS
<1>1. waiting[i] \in [who : Conns, mode : {"read", "write"}]
  <2>1. waiting \in Seq([who : Conns, mode : {"read", "write"}])
    BY DEF TaskTypes
  <2> QED  BY <2>1, ElementOfSeq
<1>2. waiting[i].who \in Conns /\ waiting[i].mode \in {"read", "write"}
  BY <1>1
<1>3. task[waiting[i].who].at \in Awaits(waiting[i].mode)
  BY DEF LockQueue
<1>4. Awaits(waiting[i].mode) \subseteq {"broadcasting", "registering", "unregistering"}
  BY DEF Awaits
<1> QED  BY <1>1, <1>2, <1>3, <1>4

\* A task that does not wait moves somewhere else.
LEMMA QueueAside ==
    ASSUME TaskTypes, LockQueue, NEW c \in Conns, NEW where,
           task[c].at \notin {"broadcasting", "registering", "unregistering"},
           Goto(c, where), "at" \in DOMAIN where, UNCHANGED waiting
    PROVE  DOMAIN task' = Conns /\ (\A d \in Conns : "at" \in DOMAIN task'[d]) /\ LockQueue'
<1>1. /\ DOMAIN task' = Conns /\ task'[c] = where /\ \A d \in Conns \ {c} : task'[d] = task[d]
  BY DEF TaskTypes, Goto
<1>2. \A i \in 1 .. Len(waiting) : waiting[i].who \in Conns /\ waiting[i].who # c
  BY WaitingApart
<1> QED  BY <1>1, <1>2 DEF TaskTypes, LockQueue

\* A task that does not wait starts to.
LEMMA QueueJoined ==
    ASSUME TaskTypes, LockQueue, NEW c \in Conns, NEW mode \in {"read", "write"}, NEW where,
           task[c].at \notin {"broadcasting", "registering", "unregistering"},
           Wait(c, mode, where), "at" \in DOMAIN where, where.at \in Awaits(mode)
    PROVE  /\ DOMAIN task' = Conns /\ (\A d \in Conns : "at" \in DOMAIN task'[d]) /\ LockQueue'
           /\ waiting' \in Seq([who : Conns, mode : {"read", "write"}])
<1>1. /\ DOMAIN task' = Conns /\ task'[c] = where /\ \A d \in Conns \ {c} : task'[d] = task[d]
  BY DEF TaskTypes, Wait, Goto
<1>2. \A i \in 1 .. Len(waiting) : waiting[i].who \in Conns /\ waiting[i].who # c
  BY WaitingApart
<1>3. PICK w : w = [who |-> c, mode |-> mode]
  OBVIOUS
<1>4. w \in [who : Conns, mode : {"read", "write"}] /\ w.who = c /\ w.mode = mode
  BY <1>3
<1>5. /\ waiting' = Append(waiting, w) /\ Len(waiting) \in Nat /\ Len(waiting') = Len(waiting) + 1
      /\ waiting' \in Seq([who : Conns, mode : {"read", "write"}])
      /\ waiting'[Len(waiting) + 1] = w /\ \A i \in 1 .. Len(waiting) : waiting'[i] = waiting[i]
  BY <1>3, <1>4 DEF TaskTypes, Wait
<1>6. \A i \in 1 .. Len(waiting') : i \in 1 .. Len(waiting) \/ i = Len(waiting) + 1
  BY <1>5
<1>7. \A i \in 1 .. Len(waiting') : task'[waiting'[i].who].at \in Awaits(waiting'[i].mode)
  BY <1>1, <1>2, <1>4, <1>5, <1>6 DEF LockQueue
<1>8. \A i, j \in 1 .. Len(waiting') : waiting'[i].who = waiting'[j].who => i = j
  BY <1>2, <1>4, <1>5, <1>6 DEF LockQueue
<1> QED  BY <1>1, <1>5, <1>7, <1>8 DEF TaskTypes, LockQueue, Awaits

\* The first in the queue is admitted.
LEMMA QueueLeft ==
    ASSUME TaskTypes, LockQueue, NEW c \in Conns, NEW mode \in {"read", "write"}, NEW where,
           Admitted(c, mode), Goto(c, where), "at" \in DOMAIN where
    PROVE  /\ DOMAIN task' = Conns /\ (\A d \in Conns : "at" \in DOMAIN task'[d]) /\ LockQueue'
           /\ waiting' \in Seq([who : Conns, mode : {"read", "write"}])
           /\ task[c].at \in Awaits(mode)
<1>1. /\ DOMAIN task' = Conns /\ task'[c] = where /\ \A d \in Conns \ {c} : task'[d] = task[d]
  BY DEF TaskTypes, Goto
<1>2. /\ waiting # << >> /\ waiting' = Tail(waiting) /\ waiting[1] = [who |-> c, mode |-> mode]
  BY DEF Admitted, TaskTypes
<1>3. waiting[1].who = c /\ waiting[1].mode = mode /\ 1 \in 1 .. Len(waiting) /\ Len(waiting) \in Nat
  BY <1>2 DEF TaskTypes
<1>4. /\ waiting' \in Seq([who : Conns, mode : {"read", "write"}])
      /\ \A i \in 1 .. Len(waiting') : i + 1 \in 1 .. Len(waiting) /\ i + 1 # 1 /\ waiting'[i] = waiting[i + 1]
  BY <1>2 DEF TaskTypes
<1>5. \A i \in 1 .. Len(waiting) : i # 1 => waiting[i].who \in Conns /\ waiting[i].who # c
  BY <1>3, WaitingApart DEF LockQueue
<1>6. \A i \in 1 .. Len(waiting') : task'[waiting'[i].who].at \in Awaits(waiting'[i].mode)
  <2> SUFFICES ASSUME NEW i \in 1 .. Len(waiting')
               PROVE  task'[waiting'[i].who].at \in Awaits(waiting'[i].mode)
    OBVIOUS
  <2>1. waiting'[i] = waiting[i + 1] /\ waiting[i + 1].who \in Conns \ {c} /\ i + 1 \in 1 .. Len(waiting)
    BY <1>4, <1>5
  <2>2. task[waiting[i + 1].who].at \in Awaits(waiting[i + 1].mode)
    BY <2>1 DEF LockQueue
  <2> QED  BY <1>1, <2>1, <2>2
<1>7. \A i, j \in 1 .. Len(waiting') : waiting'[i].who = waiting'[j].who => i = j
  <2> SUFFICES ASSUME NEW i \in 1 .. Len(waiting'), NEW j \in 1 .. Len(waiting'),
                      waiting'[i].who = waiting'[j].who
               PROVE  i = j
    OBVIOUS
  <2>1. i + 1 = j + 1
    BY <1>4 DEF LockQueue
  <2> QED  BY <2>1
<1>8. task[c].at \in Awaits(mode)
  BY <1>3 DEF LockQueue
<1> QED  BY <1>1, <1>4, <1>6, <1>7, <1>8 DEF TaskTypes, LockQueue, Awaits

\* Steps of the Broadcaster keep tasks and queue.
LEMMA CastKeepsQueue ==
    ASSUME TaskTypes, LockQueue, NEW c \in Conns, CastStep(c), UNCHANGED mailbox
    PROVE  TaskTypes' /\ LockQueue'
<1>0. \A name : At(name).at = name /\ "at" \in DOMAIN At(name)
  BY DEF At
<1>1. CASE register(c)
  <2>1. At("registering").at \in Awaits("write")
    BY <1>0 DEF Awaits
  <2> QED  BY <1>0, <1>1, <2>1, QueueJoined DEF register, TaskTypes
<1>2. CASE unregister(c)
  <2>1. At("unregistering").at \in Awaits("write")
    BY <1>0 DEF Awaits
  <2> QED  BY <1>0, <1>2, <2>1, QueueJoined DEF unregister, TaskTypes
<1>3. CASE broadcast(c)
  <2>1. PICK where : where = [At("broadcasting") EXCEPT !.target = Msg(c).target]
    OBVIOUS
  <2>2. "at" \in DOMAIN where /\ where.at \in Awaits("read")
    BY <2>1 DEF At, Awaits
  <2>3. Reads(c, "cast") /\ Consumed(c) /\ Wait(c, "read", where) /\ task[c].at = "reading"
    BY <1>3, <2>1 DEF broadcast, Reads
  <2>4. script' \in [Conns -> Seq(ClientMessages)]
    BY <2>3, MessageRead DEF Consumed, TaskTypes
  <2> QED  BY <2>2, <2>3, <2>4, QueueJoined DEF TaskTypes
<1>4. CASE Write(c)
  <2>1. PICK where : Goto(c, where) /\ "at" \in DOMAIN where
    BY <1>0, <1>4 DEF Write
  <2> QED  BY <1>4, <2>1, QueueLeft DEF Write, TaskTypes
<1>5. CASE Read(c)
  <2>1. PICK order : Goto(c, [At("sending") EXCEPT !.to = order])
    BY <1>5 DEF Read
  <2>2. PICK where : where = [At("sending") EXCEPT !.to = order]
    OBVIOUS
  <2>3. Goto(c, where) /\ "at" \in DOMAIN where
    BY <2>1, <2>2 DEF At
  <2> QED  BY <1>5, <2>3, QueueLeft DEF Read, TaskTypes
<1>6. CASE send(c)
  <2>1. PICK where : where = [task[c] EXCEPT !.to = Tail(@)]
    OBVIOUS
  <2>2. "at" \in DOMAIN where
    BY <2>1 DEF TaskTypes
  <2>3. Goto(c, where) /\ UNCHANGED <<waiting, script>> /\ task[c].at = "sending"
    BY <1>6, <2>1 DEF send, failed_send
  <2> QED  BY <2>2, <2>3, QueueAside DEF TaskTypes
<1>7. CASE release(c)
  BY <1>0, <1>7, QueueAside DEF release, TaskTypes
<1> QED  BY <1>1, <1>2, <1>3, <1>4, <1>5, <1>6, <1>7 DEF CastStep

\* The tasks' types and the queue of the lock are kept.
LEMMA QueueInductive ==
    /\ Init => TaskTypes /\ LockQueue
    /\ TaskTypes /\ LockQueue /\ [Next]_vars => TaskTypes' /\ LockQueue'
<1>1. ASSUME Init  PROVE TaskTypes /\ LockQueue
  BY <1>1, ConnectionsAssumption
     DEF Init, ConnInit, RoomsInit, CastInit, At, TaskTypes, LockQueue
<1>2. ASSUME TaskTypes, LockQueue, UNCHANGED <<script, task, mailbox, waiting>>
      PROVE  TaskTypes' /\ LockQueue'
  BY <1>2 DEF TaskTypes, LockQueue
<1>3. ASSUME TaskTypes, LockQueue, NEW c \in Conns, Task(c)  PROVE TaskTypes' /\ LockQueue'
  <2>1. CASE CastStep(c) /\ UNCHANGED mailbox
    BY <1>3, <2>1, CastKeepsQueue
  <2>2. CASE Tells(c) /\ UNCHANGED waiting
    <3>1. PICK op \in {"join", "leave", "broadcast", "broadcast_others"} : Reads(c, op)
      BY <2>2 DEF Tells
    <3>2. Msg(c).op = op /\ Msg(c).room \in STRING /\ Tail(script[c]) \in Seq(ClientMessages)
      BY <1>3, <3>1, MessageRead
    <3>3. [kind |-> Msg(c).op, conn |-> c, room |-> Msg(c).room] \in ManagerMessages
      BY <3>1, <3>2 DEF ManagerMessages
    <3>4. mailbox' \in Seq(ManagerMessages) /\ UNCHANGED <<task, waiting>>
      BY <1>3, <2>2, <3>3 DEF Tells, TaskTypes
    <3>5. script' \in [Conns -> Seq(ClientMessages)]
      BY <1>3, <2>2, <3>2 DEF Tells, Consumed, TaskTypes
    <3> QED  BY <1>3, <3>4, <3>5 DEF TaskTypes, LockQueue
  <2>3. CASE Disconnects(c) /\ UNCHANGED waiting
    <3>1. "at" \in DOMAIN At("abort") /\ task[c].at = "disconnect" /\ Goto(c, At("abort"))
      BY <2>3 DEF Disconnects, At
    <3>2. DOMAIN task' = Conns /\ (\A d \in Conns : "at" \in DOMAIN task'[d]) /\ LockQueue'
      BY <1>3, <2>3, <3>1, QueueAside
    <3>3. [kind |-> "disconnected", conn |-> c, room |-> "none"] \in ManagerMessages
      BY DEF ManagerMessages
    <3>4. mailbox' \in Seq(ManagerMessages) /\ UNCHANGED script
      BY <1>3, <2>3, <3>3 DEF Disconnects, TaskTypes
    <3> QED  BY <1>3, <2>3, <3>2, <3>4 DEF TaskTypes
  <2>4. CASE Abort(c) /\ UNCHANGED <<mailbox, waiting>>
    <3>1. /\ "at" \in DOMAIN At("done") /\ task[c].at = "abort" /\ Goto(c, At("done"))
          /\ UNCHANGED script
      BY <2>4 DEF Abort, At
    <3> QED  BY <1>3, <2>4, <3>1, QueueAside DEF TaskTypes
  <2> QED  BY <1>3, <2>1, <2>2, <2>3, <2>4 DEF Task, roomVars, castVars
<1>4. ASSUME TaskTypes, LockQueue, NEW c \in Conns, HangsUp(c)  PROVE TaskTypes' /\ LockQueue'
  <2>1. script' \in [Conns -> Seq(ClientMessages)]
    BY <1>4 DEF HangsUp, Hangup, TaskTypes
  <2> QED  BY <1>4, <2>1 DEF HangsUp, Hangup, roomVars, castVars, TaskTypes, LockQueue
<1>5. ASSUME TaskTypes, LockQueue, Manages  PROVE TaskTypes' /\ LockQueue'
  <2>0. mailbox # << >> /\ mailbox' = Tail(mailbox)
    BY <1>5 DEF Manages, Manager, JoinRoomRequest, LeaveRoomRequest, ConnectionDisconnected,
         BroadcastToRoom, Receives
  <2>1. mailbox' \in Seq(ManagerMessages)
    BY <1>5, <2>0 DEF TaskTypes
  <2>2. UNCHANGED <<script, task, waiting>>
    BY <1>5 DEF Manages, Manager, JoinRoomRequest, LeaveRoomRequest, ConnectionDisconnected,
         BroadcastToRoom, castVars, connVars
  <2> QED  BY <1>5, <2>1, <2>2 DEF TaskTypes, LockQueue
<1>6. ASSUME [Next]_vars
      PROVE  \/ UNCHANGED <<script, task, mailbox, waiting>>
             \/ \E c \in Conns : Task(c) \/ HangsUp(c)
             \/ Manages
  BY <1>6 DEF vars, Next, Forwards, Forward, Stalls, Stall, SendsToRoom, SendToMember,
       connVars, roomVars, castVars
<1> QED  BY <1>1, <1>2, <1>3, <1>4, <1>5, <1>6

-----------------------------------------------------------------------------
(* The room manager's maps.                                                *)

\* The members of the rooms and the rooms of the connections say the same,
\* within both limits, and a room has members.
Agree(R, K) ==
    /\ \A r \in DOMAIN R : IsFiniteSet(R[r]) /\ Cardinality(R[r]) <= MaxMembers /\ R[r] # {}
    /\ \A c \in Conns : IsFiniteSet(Entry(K, c)) /\ Cardinality(Entry(K, c)) <= MaxRooms
    /\ \A c \in Conns : Entry(K, c) = {r \in DOMAIN R : c \in R[r]}

\* A join that is admitted.
LEMMA JoinAgrees ==
    ASSUME NEW R, NEW K, Agree(R, K), NEW c \in Conns, NEW r,
           ~(Cardinality(Entry(K, c)) >= MaxRooms), ~(Cardinality(Entry(R, r)) >= MaxMembers)
    PROVE  Agree(Put(R, r, Entry(R, r) \cup {c}), Put(K, c, Entry(K, c) \cup {r}))
<1>1. PICK R2, K2 : R2 = Put(R, r, Entry(R, r) \cup {c}) /\ K2 = Put(K, c, Entry(K, c) \cup {r})
  OBVIOUS
<1>2. /\ DOMAIN R2 = DOMAIN R \cup {r} /\ R2[r] = Entry(R, r) \cup {c}
      /\ \A x \in DOMAIN R \ {r} : R2[x] = R[x]
  BY <1>1 DEF Put, Entry
<1>3. Entry(K2, c) = Entry(K, c) \cup {r} /\ \A d : d # c => Entry(K2, d) = Entry(K, d)
  BY <1>1 DEF Put, Entry
<1>4. IsFiniteSet(Entry(R, r)) /\ (r \in DOMAIN R => Entry(R, r) = R[r]) /\ (r \notin DOMAIN R => Entry(R, r) = {})
  BY FS_EmptySet DEF Agree, Entry
<1>5. IsFiniteSet(R2[r]) /\ Cardinality(R2[r]) <= MaxMembers /\ R2[r] # {}
  <2>1. /\ IsFiniteSet(R2[r]) /\ Cardinality(Entry(R, r)) \in Nat
        /\ Cardinality(R2[r]) = IF c \in Entry(R, r) THEN Cardinality(Entry(R, r)) ELSE Cardinality(Entry(R, r)) + 1
    BY <1>2, <1>4, FS_AddElement, FS_CardinalityType
  <2> QED  BY <1>2, <2>1, RoomsAssumption
<1>6. IsFiniteSet(Entry(K2, c)) /\ Cardinality(Entry(K2, c)) <= MaxRooms
  <2>1. IsFiniteSet(Entry(K, c))
    BY DEF Agree
  <2>2. /\ IsFiniteSet(Entry(K2, c)) /\ Cardinality(Entry(K, c)) \in Nat
        /\ Cardinality(Entry(K2, c)) = IF r \in Entry(K, c) THEN Cardinality(Entry(K, c)) ELSE Cardinality(Entry(K, c)) + 1
    BY <1>3, <2>1, FS_AddElement, FS_CardinalityType
  <2> QED  BY <2>2, RoomsAssumption
<1>7. \A d \in Conns : Entry(K2, d) = {x \in DOMAIN R2 : d \in R2[x]}
  <2>1. ASSUME NEW d \in Conns, d # c  PROVE Entry(K2, d) = {x \in DOMAIN R2 : d \in R2[x]}
    BY <1>2, <1>3, <1>4, <2>1 DEF Agree
  <2>2. Entry(K2, c) = {x \in DOMAIN R2 : c \in R2[x]}
    BY <1>2, <1>3, <1>4 DEF Agree
  <2> QED  BY <2>1, <2>2
<1>8. \A x \in DOMAIN R2 : IsFiniteSet(R2[x]) /\ Cardinality(R2[x]) <= MaxMembers /\ R2[x] # {}
  BY <1>2, <1>5 DEF Agree
<1>9. \A d \in Conns : IsFiniteSet(Entry(K2, d)) /\ Cardinality(Entry(K2, d)) <= MaxRooms
  BY <1>3, <1>6 DEF Agree
<1>10. Agree(R2, K2)
  BY <1>7, <1>8, <1>9 DEF Agree
<1> QED  BY <1>1, <1>10

\* A join that is refused puts what was there.
LEMMA RefusedAgrees ==
    ASSUME NEW R, NEW K, Agree(R, K), NEW c, NEW r
    PROVE  /\ Agree(R, Put(K, c, Entry(K, c)))
           /\ Cardinality(Entry(R, r)) >= MaxMembers
                => Agree(Put(R, r, Entry(R, r)), Put(K, c, Entry(K, c)))
<1>1. PICK K2 : K2 = Put(K, c, Entry(K, c))
  OBVIOUS
<1>2. \A d : Entry(K2, d) = Entry(K, d)
  BY <1>1 DEF Put, Entry
<1>3. Agree(R, K2)
  BY <1>2 DEF Agree
<1>4. ASSUME Cardinality(Entry(R, r)) >= MaxMembers  PROVE Agree(Put(R, r, Entry(R, r)), K2)
  <2>1. r \in DOMAIN R
    BY <1>4, FS_EmptySet, RoomsAssumption DEF Entry
  <2>2. PICK R2 : R2 = Put(R, r, Entry(R, r))
    OBVIOUS
  <2>3. DOMAIN R2 = DOMAIN R /\ \A x \in DOMAIN R : R2[x] = R[x]
    BY <2>1, <2>2 DEF Put, Entry
  <2>4. Agree(R2, K2)
    BY <1>3, <2>3 DEF Agree
  <2> QED  BY <2>2, <2>4
<1> QED  BY <1>1, <1>3, <1>4

\* What is left of the rooms when c is taken out of some of them.
LEMMA WithoutEntry ==
    ASSUME NEW c, NEW rs, NEW W, W = Without(c, rs)
    PROVE  /\ \A r : r \in DOMAIN W <=> r \in DOMAIN rooms /\ ~(r \in rs /\ rooms[r] \ {c} = {})
           /\ \A r \in DOMAIN W : W[r] = IF r \in rs THEN rooms[r] \ {c} ELSE rooms[r]
<1>1. PICK left : left = [r \in DOMAIN rooms |-> IF r \in rs THEN rooms[r] \ {c} ELSE rooms[r]]
  OBVIOUS
<1>2. W = Drop(left, {r \in rs \cap DOMAIN left : left[r] = {}})
  BY <1>1 DEF Without
<1>3. /\ DOMAIN W = DOMAIN left \ {r \in rs \cap DOMAIN left : left[r] = {}}
      /\ \A r \in DOMAIN W : W[r] = left[r]
  BY <1>2 DEF Drop
<1> QED  BY <1>1, <1>3

\* A connection is taken out of rooms, in both maps.
LEMMA WithoutAgrees ==
    ASSUME Agree(rooms, connection_rooms), NEW c \in Conns, NEW rs, NEW K2,
           Entry(K2, c) = Entry(connection_rooms, c) \ rs,
           \A d : d # c => Entry(K2, d) = Entry(connection_rooms, d)
    PROVE  Agree(Without(c, rs), K2)
<1>1. PICK W : W = Without(c, rs)
  OBVIOUS
<1>2. /\ \A r : r \in DOMAIN W <=> r \in DOMAIN rooms /\ ~(r \in rs /\ rooms[r] \ {c} = {})
      /\ \A r \in DOMAIN W : W[r] = IF r \in rs THEN rooms[r] \ {c} ELSE rooms[r]
  BY <1>1, WithoutEntry
<1>3. ASSUME NEW r \in DOMAIN W
      PROVE  IsFiniteSet(W[r]) /\ Cardinality(W[r]) <= MaxMembers /\ W[r] # {}
  <2>1. IsFiniteSet(rooms[r]) /\ Cardinality(rooms[r]) <= MaxMembers /\ rooms[r] # {} /\ r \in DOMAIN rooms
    BY <1>2, <1>3 DEF Agree
  <2>2. W[r] \in SUBSET rooms[r] /\ W[r] # {}
    BY <1>2, <1>3, <2>1
  <2>3. /\ IsFiniteSet(W[r]) /\ Cardinality(W[r]) <= Cardinality(rooms[r])
        /\ Cardinality(W[r]) \in Nat /\ Cardinality(rooms[r]) \in Nat
    BY <2>1, <2>2, FS_Subset, FS_CardinalityType
  <2> QED  BY <2>1, <2>2, <2>3, RoomsAssumption
<1>4. ASSUME NEW d \in Conns
      PROVE  IsFiniteSet(Entry(K2, d)) /\ Cardinality(Entry(K2, d)) <= MaxRooms
  <2>1. IsFiniteSet(Entry(connection_rooms, d)) /\ Cardinality(Entry(connection_rooms, d)) <= MaxRooms
    BY DEF Agree
  <2>2. Entry(K2, d) \in SUBSET Entry(connection_rooms, d)
    BY <1>4
  <2>3. /\ IsFiniteSet(Entry(K2, d)) /\ Cardinality(Entry(K2, d)) <= Cardinality(Entry(connection_rooms, d))
        /\ Cardinality(Entry(K2, d)) \in Nat /\ Cardinality(Entry(connection_rooms, d)) \in Nat
    BY <2>1, <2>2, FS_Subset, FS_CardinalityType
  <2> QED  BY <2>1, <2>3, RoomsAssumption
<1>5. ASSUME NEW d \in Conns  PROVE Entry(K2, d) = {r \in DOMAIN W : d \in W[r]}
  <2>1. Entry(connection_rooms, d) = {r \in DOMAIN rooms : d \in rooms[r]}
    BY DEF Agree
  <2>2. CASE d = c
    BY <1>2, <2>1, <2>2
  <2>3. CASE d # c
    <3>1. \A r : r \in DOMAIN W /\ d \in W[r] <=> r \in DOMAIN rooms /\ d \in rooms[r]
      BY <1>2, <2>3
    <3> QED  BY <2>1, <2>3, <3>1
  <2> QED  BY <2>2, <2>3
<1>6. Agree(W, K2)
  BY <1>3, <1>4, <1>5 DEF Agree
<1> QED  BY <1>1, <1>6

-----------------------------------------------------------------------------
(* Connections that go.                                                    *)

\* A task past telling the manager that it goes.
Over == {"abort", "done"}

\* The message that a connection is gone is its last one, and sent by a task
\* that is over; the manager keeps nothing of a connection whose task is over
\* unless that message is still to come.
Parting ==
    /\ \A i \in 1 .. Len(mailbox) : mailbox[i].kind = "disconnected" =>
           /\ task[mailbox[i].conn].at \in Over
           /\ \A j \in 1 .. Len(mailbox) : j > i => mailbox[j].conn # mailbox[i].conn
    /\ \A c \in Conns : task[c].at \in Over =>
           \/ \E i \in 1 .. Len(mailbox) : mailbox[i].kind = "disconnected" /\ mailbox[i].conn = c
           \/ /\ c \notin DOMAIN connection_rooms
              /\ \A i \in 1 .. Len(mailbox) : mailbox[i].conn # c

\* A message in the mailbox is one to the manager.
LEMMA MailTyped ==
    ASSUME TaskTypes, NEW i \in 1 .. Len(mailbox)
    PROVE  mailbox[i] \in ManagerMessages /\ mailbox[i].conn \in Conns
<1>1. mailbox \in Seq(ManagerMessages)
  BY DEF TaskTypes
<1>2. mailbox[i] \in ManagerMessages
  BY <1>1, ElementOfSeq
<1> QED  BY <1>2 DEF ManagerMessages

\* A task moves without beginning or ceasing to be over.
LEMMA PartingMoved ==
    ASSUME TaskTypes, Parting, NEW c \in Conns, NEW where, Goto(c, where),
           where.at \in Over <=> task[c].at \in Over,
           UNCHANGED <<mailbox, connection_rooms>>
    PROVE  Parting'
<1>1. DOMAIN task' = Conns /\ task'[c] = where /\ \A d \in Conns \ {c} : task'[d] = task[d]
  BY DEF TaskTypes, Goto
<1>2. \A d \in Conns : task'[d].at \in Over <=> task[d].at \in Over
  BY <1>1
<1>3. \A i \in 1 .. Len(mailbox) : mailbox[i].conn \in Conns
  BY MailTyped
<1>4. UNCHANGED mailbox /\ UNCHANGED connection_rooms
  OBVIOUS
<1>5. \A i \in 1 .. Len(mailbox) : mailbox[i].kind = "disconnected" => task'[mailbox[i].conn].at \in Over
  BY <1>2, <1>3 DEF Parting
<1> QED  BY <1>2, <1>4, <1>5 DEF Parting

\* Steps at the Broadcaster are of tasks that are not over.
LEMMA CastKeepsParting ==
    ASSUME TaskTypes, LockQueue, Parting, NEW c \in Conns, CastStep(c),
           UNCHANGED <<mailbox, connection_rooms>>
    PROVE  Parting'
<1>1. ASSUME NEW where, Goto(c, where), where.at \notin Over, task[c].at \notin Over  PROVE Parting'
  BY <1>1, PartingMoved
<1>2. CASE register(c)
  BY <1>1, <1>2 DEF register, Wait, At, Over
<1>3. CASE unregister(c)
  BY <1>1, <1>3 DEF unregister, Wait, At, Over
<1>4. CASE broadcast(c)
  <2>1. PICK where : where = [At("broadcasting") EXCEPT !.target = Msg(c).target]
    OBVIOUS
  <2>2. where.at = "broadcasting"
    BY <2>1 DEF At
  <2>3. Goto(c, where) /\ task[c].at = "reading"
    BY <1>4, <2>1 DEF broadcast, Wait, Reads
  <2> QED  BY <1>1, <2>2, <2>3 DEF Over
<1>5. CASE Write(c)
  BY <1>1, <1>5 DEF Write, At, Over
<1>6. CASE Read(c)
  <2>1. PICK order : Goto(c, [At("sending") EXCEPT !.to = order])
    BY <1>6 DEF Read
  <2>2. PICK where : where = [At("sending") EXCEPT !.to = order]
    OBVIOUS
  <2>3. Goto(c, where) /\ "at" \in DOMAIN where /\ where.at = "sending"
    BY <2>1, <2>2 DEF At
  <2>4. task[c].at \in Awaits("read")
    BY <1>6, <2>3, QueueLeft DEF Read
  <2> QED  BY <1>1, <2>3, <2>4 DEF Awaits, Over
<1>7. CASE send(c)
  <2>1. PICK where : where = [task[c] EXCEPT !.to = Tail(@)]
    OBVIOUS
  <2>2. where.at = task[c].at
    BY <2>1 DEF TaskTypes
  <2>3. Goto(c, where) /\ task[c].at = "sending"
    BY <1>7, <2>1 DEF send, failed_send
  <2> QED  BY <1>1, <2>2, <2>3 DEF Over
<1>8. CASE release(c)
  BY <1>1, <1>8 DEF release, At, Over
<1> QED  BY <1>2, <1>3, <1>4, <1>5, <1>6, <1>7, <1>8 DEF CastStep

\* A message is sent by a connection that is not over.
LEMMA MailAppended ==
    ASSUME TaskTypes, NEW m \in ManagerMessages, mailbox' = Append(mailbox, m)
    PROVE  /\ Len(mailbox) \in Nat /\ Len(mailbox') = Len(mailbox) + 1
           /\ mailbox'[Len(mailbox) + 1] = m /\ \A i \in 1 .. Len(mailbox) : mailbox'[i] = mailbox[i]
           /\ \A i \in 1 .. Len(mailbox') : i \in 1 .. Len(mailbox) \/ i = Len(mailbox) + 1
           /\ \A i \in 1 .. Len(mailbox) : i \in 1 .. Len(mailbox')
           /\ Len(mailbox) + 1 \in 1 .. Len(mailbox')
BY DEF TaskTypes

LEMMA TellsKeepsParting ==
    ASSUME TaskTypes, Parting, NEW c \in Conns, Tells(c)
    PROVE  Parting'
<1>1. PICK op \in {"join", "leave", "broadcast", "broadcast_others"} : Reads(c, op)
  BY DEF Tells
<1>2. Msg(c).op = op /\ Msg(c).room \in STRING
  BY <1>1, MessageRead
<1>3. PICK m : m = [kind |-> Msg(c).op, conn |-> c, room |-> Msg(c).room]
  OBVIOUS
<1>4. m \in ManagerMessages /\ m.kind # "disconnected" /\ m.conn = c
  BY <1>1, <1>2, <1>3 DEF ManagerMessages
<1>5. mailbox' = Append(mailbox, m) /\ UNCHANGED task /\ UNCHANGED connection_rooms
  BY <1>3 DEF Tells
<1>6. task[c].at = "reading" /\ task[c].at \notin Over
  BY <1>1 DEF Reads, Over
<1>7. /\ Len(mailbox) \in Nat /\ Len(mailbox') = Len(mailbox) + 1
      /\ mailbox'[Len(mailbox) + 1] = m /\ \A i \in 1 .. Len(mailbox) : mailbox'[i] = mailbox[i]
      /\ \A i \in 1 .. Len(mailbox') : i \in 1 .. Len(mailbox) \/ i = Len(mailbox) + 1
      /\ \A i \in 1 .. Len(mailbox) : i \in 1 .. Len(mailbox')
  BY <1>4, <1>5, MailAppended
<1>8. ASSUME NEW i \in 1 .. Len(mailbox'), mailbox'[i].kind = "disconnected"
      PROVE  /\ task'[mailbox'[i].conn].at \in Over
             /\ \A j \in 1 .. Len(mailbox') : j > i => mailbox'[j].conn # mailbox'[i].conn
  <2>1. i \in 1 .. Len(mailbox) /\ mailbox'[i] = mailbox[i]
    BY <1>4, <1>7, <1>8
  <2>2. task[mailbox[i].conn].at \in Over
    BY <1>8, <2>1 DEF Parting
  <2>3. mailbox[i].conn # c
    BY <1>6, <2>2
  <2>4. \A j \in 1 .. Len(mailbox) : j > i => mailbox[j].conn # mailbox[i].conn
    BY <1>8, <2>1 DEF Parting
  <2> QED  BY <1>4, <1>5, <1>7, <2>1, <2>2, <2>3, <2>4
<1>9. ASSUME NEW d \in Conns, task'[d].at \in Over
      PROVE  \/ \E i \in 1 .. Len(mailbox') : mailbox'[i].kind = "disconnected" /\ mailbox'[i].conn = d
             \/ d \notin DOMAIN connection_rooms' /\ \A i \in 1 .. Len(mailbox') : mailbox'[i].conn # d
  <2>1. d # c /\ task[d].at \in Over
    BY <1>5, <1>6, <1>9
  <2>2. \/ \E i \in 1 .. Len(mailbox) : mailbox[i].kind = "disconnected" /\ mailbox[i].conn = d
        \/ d \notin DOMAIN connection_rooms /\ \A i \in 1 .. Len(mailbox) : mailbox[i].conn # d
    BY <2>1 DEF Parting
  <2> QED  BY <1>4, <1>5, <1>7, <2>1, <2>2
<1> QED  BY <1>8, <1>9 DEF Parting

LEMMA DisconnectsKeepsParting ==
    ASSUME TaskTypes, Parting, NEW c \in Conns, Disconnects(c)
    PROVE  Parting'
<1>1. PICK m : m = [kind |-> "disconnected", conn |-> c, room |-> "none"]
  OBVIOUS
<1>2. m \in ManagerMessages /\ m.kind = "disconnected" /\ m.conn = c
  BY <1>1 DEF ManagerMessages
<1>3. mailbox' = Append(mailbox, m) /\ UNCHANGED connection_rooms /\ task[c].at = "disconnect"
  BY <1>1 DEF Disconnects
<1>4. task'[c].at = "abort" /\ \A d \in Conns \ {c} : task'[d] = task[d]
  BY DEF Disconnects, Goto, At, TaskTypes
<1>5. task[c].at \notin Over /\ task'[c].at \in Over
  BY <1>3, <1>4 DEF Over
<1>6. /\ Len(mailbox) \in Nat /\ Len(mailbox') = Len(mailbox) + 1
      /\ mailbox'[Len(mailbox) + 1] = m /\ \A i \in 1 .. Len(mailbox) : mailbox'[i] = mailbox[i]
      /\ \A i \in 1 .. Len(mailbox') : i \in 1 .. Len(mailbox) \/ i = Len(mailbox) + 1
      /\ \A i \in 1 .. Len(mailbox) : i \in 1 .. Len(mailbox')
      /\ Len(mailbox) + 1 \in 1 .. Len(mailbox')
  BY <1>2, <1>3, MailAppended
<1>7. ASSUME NEW i \in 1 .. Len(mailbox'), mailbox'[i].kind = "disconnected"
      PROVE  /\ task'[mailbox'[i].conn].at \in Over
             /\ \A j \in 1 .. Len(mailbox') : j > i => mailbox'[j].conn # mailbox'[i].conn
  <2>1. CASE i \in 1 .. Len(mailbox)
    <3>1. mailbox'[i] = mailbox[i] /\ mailbox[i].conn \in Conns
      BY <1>6, <2>1, MailTyped
    <3>2. task[mailbox[i].conn].at \in Over
      BY <1>7, <2>1, <3>1 DEF Parting
    <3>3. mailbox[i].conn # c
      BY <1>5, <3>2
    <3>4. \A j \in 1 .. Len(mailbox) : j > i => mailbox[j].conn # mailbox[i].conn
      BY <1>7, <2>1, <3>1 DEF Parting
    <3> QED  BY <1>2, <1>4, <1>6, <3>1, <3>2, <3>3, <3>4
  <2>2. CASE i = Len(mailbox) + 1
    BY <1>2, <1>5, <1>6, <2>2
  <2> QED  BY <1>6, <2>1, <2>2
<1>8. ASSUME NEW d \in Conns, task'[d].at \in Over
      PROVE  \/ \E i \in 1 .. Len(mailbox') : mailbox'[i].kind = "disconnected" /\ mailbox'[i].conn = d
             \/ d \notin DOMAIN connection_rooms' /\ \A i \in 1 .. Len(mailbox') : mailbox'[i].conn # d
  <2>1. CASE d = c
    BY <1>2, <1>6, <2>1
  <2>2. CASE d # c
    <3>1. task[d].at \in Over
      BY <1>4, <1>8, <2>2
    <3>2. \/ \E i \in 1 .. Len(mailbox) : mailbox[i].kind = "disconnected" /\ mailbox[i].conn = d
          \/ d \notin DOMAIN connection_rooms /\ \A i \in 1 .. Len(mailbox) : mailbox[i].conn # d
      BY <3>1 DEF Parting
    <3> QED  BY <1>2, <1>3, <1>6, <2>2, <3>2
  <2> QED  BY <2>1, <2>2
<1> QED  BY <1>7, <1>8 DEF Parting

\* What the manager takes from the mailbox, and whom its handlers add to the
\* map of connections.
LEMMA ManagerHandles ==
    ASSUME TaskTypes, Manager, NEW m, m = mailbox[1]
    PROVE  /\ mailbox # << >> /\ mailbox' = Tail(mailbox) /\ UNCHANGED task
           /\ m \in ManagerMessages /\ m.conn \in Conns
           /\ \A d : d # m.conn => (d \in DOMAIN connection_rooms' <=> d \in DOMAIN connection_rooms)
           /\ m.kind = "disconnected" => m.conn \notin DOMAIN connection_rooms'
<1>1. mailbox # << >> /\ mailbox' = Tail(mailbox) /\ UNCHANGED task
  BY DEF Manager, JoinRoomRequest, LeaveRoomRequest, ConnectionDisconnected, BroadcastToRoom,
       Receives, connVars
<1>2. m \in ManagerMessages /\ m.conn \in Conns /\ m = Head(mailbox)
  <2>1. 1 \in 1 .. Len(mailbox) /\ m = Head(mailbox)
    BY <1>1 DEF TaskTypes
  <2> QED  BY <2>1, MailTyped
<1>3. CASE JoinRoomRequest
  <2>1. m.kind = "join"
    BY <1>2, <1>3 DEF JoinRoomRequest, Receives
  <2>2. DOMAIN connection_rooms' = DOMAIN connection_rooms \cup {m.conn}
    BY <1>2, <1>3 DEF JoinRoomRequest, Put
  <2> QED  BY <1>1, <1>2, <2>1, <2>2
<1>4. CASE LeaveRoomRequest
  <2>1. m.kind = "leave"
    BY <1>2, <1>4 DEF LeaveRoomRequest, Receives
  <2>2. DOMAIN connection_rooms' = DOMAIN connection_rooms
    BY <1>2, <1>4 DEF LeaveRoomRequest, Put
  <2> QED  BY <1>1, <1>2, <2>1, <2>2
<1>5. CASE ConnectionDisconnected
  <2>1. DOMAIN connection_rooms' = DOMAIN connection_rooms \ {m.conn}
    BY <1>2, <1>5 DEF ConnectionDisconnected, Drop
  <2> QED  BY <1>1, <1>2, <2>1
<1>6. CASE BroadcastToRoom
  <2>1. m.kind # "disconnected" /\ UNCHANGED connection_rooms
    BY <1>2, <1>6 DEF BroadcastToRoom, Receives
  <2> QED  BY <1>1, <1>2, <2>1
<1> QED  BY <1>3, <1>4, <1>5, <1>6 DEF Manager

\* The manager handles a message.
LEMMA ManagerKeepsParting ==
    ASSUME TaskTypes, Parting, Manager
    PROVE  Parting'
<1>1. PICK m : m = mailbox[1]
  OBVIOUS
<1>2. /\ mailbox # << >> /\ mailbox' = Tail(mailbox) /\ UNCHANGED task
      /\ m \in ManagerMessages /\ m.conn \in Conns
      /\ \A d : d # m.conn => (d \in DOMAIN connection_rooms' <=> d \in DOMAIN connection_rooms)
      /\ m.kind = "disconnected" => m.conn \notin DOMAIN connection_rooms'
  BY <1>1, ManagerHandles
<1>3. /\ 1 \in 1 .. Len(mailbox) /\ Len(mailbox) \in Nat /\ Len(mailbox') = Len(mailbox) - 1
      /\ \A i \in 1 .. Len(mailbox') : i + 1 \in 1 .. Len(mailbox) /\ i + 1 > 1 /\ mailbox'[i] = mailbox[i + 1]
      /\ \A i \in 1 .. Len(mailbox) : i # 1 => i - 1 \in 1 .. Len(mailbox') /\ mailbox'[i - 1] = mailbox[i]
  BY <1>2 DEF TaskTypes
<1>4. ASSUME NEW i \in 1 .. Len(mailbox'), mailbox'[i].kind = "disconnected"
      PROVE  /\ task'[mailbox'[i].conn].at \in Over
             /\ \A j \in 1 .. Len(mailbox') : j > i => mailbox'[j].conn # mailbox'[i].conn
  <2>1. i + 1 \in 1 .. Len(mailbox) /\ mailbox'[i] = mailbox[i + 1]
    BY <1>3, <1>4
  <2>2. /\ task[mailbox[i + 1].conn].at \in Over
        /\ \A j \in 1 .. Len(mailbox) : j > i + 1 => mailbox[j].conn # mailbox[i + 1].conn
    BY <1>4, <2>1 DEF Parting
  <2>3. ASSUME NEW j \in 1 .. Len(mailbox'), j > i  PROVE mailbox'[j].conn # mailbox'[i].conn
    <3>1. j + 1 \in 1 .. Len(mailbox) /\ mailbox'[j] = mailbox[j + 1] /\ j + 1 > i + 1
      BY <1>3, <2>3
    <3> QED  BY <2>1, <2>2, <3>1
  <2> QED  BY <1>2, <2>1, <2>2, <2>3
<1>5. ASSUME NEW d \in Conns, task'[d].at \in Over
      PROVE  \/ \E i \in 1 .. Len(mailbox') : mailbox'[i].kind = "disconnected" /\ mailbox'[i].conn = d
             \/ d \notin DOMAIN connection_rooms' /\ \A i \in 1 .. Len(mailbox') : mailbox'[i].conn # d
  <2>1. \/ \E i \in 1 .. Len(mailbox) : mailbox[i].kind = "disconnected" /\ mailbox[i].conn = d
        \/ d \notin DOMAIN connection_rooms /\ \A i \in 1 .. Len(mailbox) : mailbox[i].conn # d
    BY <1>2, <1>5 DEF Parting
  <2>2. ASSUME NEW i \in 1 .. Len(mailbox), mailbox[i].kind = "disconnected", mailbox[i].conn = d, i # 1
        PROVE  \E k \in 1 .. Len(mailbox') : mailbox'[k].kind = "disconnected" /\ mailbox'[k].conn = d
    <3>1. i - 1 \in 1 .. Len(mailbox') /\ mailbox'[i - 1] = mailbox[i]
      BY <1>3, <2>2
    <3> QED  BY <2>2, <3>1
  <2>3. ASSUME m.kind = "disconnected", m.conn = d
        PROVE  d \notin DOMAIN connection_rooms' /\ \A i \in 1 .. Len(mailbox') : mailbox'[i].conn # d
    <3>1. \A j \in 1 .. Len(mailbox) : j > 1 => mailbox[j].conn # d
      BY <1>1, <1>3, <2>3 DEF Parting
    <3> QED  BY <1>2, <1>3, <2>3, <3>1
  <2>4. ASSUME d \notin DOMAIN connection_rooms, \A i \in 1 .. Len(mailbox) : mailbox[i].conn # d
        PROVE  d \notin DOMAIN connection_rooms' /\ \A i \in 1 .. Len(mailbox') : mailbox'[i].conn # d
    BY <1>1, <1>2, <1>3, <2>4
  <2> QED  BY <1>1, <2>1, <2>2, <2>3, <2>4
<1> QED  BY <1>4, <1>5 DEF Parting

\* The manager's handlers keep the two maps in agreement.
LEMMA ManagerAgrees ==
    ASSUME TaskTypes, Agree(rooms, connection_rooms), Manager
    PROVE  Agree(rooms', connection_rooms')
<1>1. PICK m : m = mailbox[1]
  OBVIOUS
<1>2. m.conn \in Conns /\ m = Head(mailbox)
  BY <1>1, ManagerHandles DEF TaskTypes
<1>3. PICK c, r : c = m.conn /\ r = m.room
  OBVIOUS
<1>4. CASE JoinRoomRequest
  <2>1. CASE Cardinality(Entry(connection_rooms, c)) >= MaxRooms
    <3>1. rooms' = rooms /\ connection_rooms' = Put(connection_rooms, c, Entry(connection_rooms, c))
      BY <1>2, <1>3, <1>4, <2>1 DEF JoinRoomRequest
    <3> QED  BY <3>1, RefusedAgrees
  <2>2. CASE /\ ~(Cardinality(Entry(connection_rooms, c)) >= MaxRooms)
             /\ Cardinality(Entry(rooms, r)) >= MaxMembers
    <3>1. /\ rooms' = Put(rooms, r, Entry(rooms, r))
          /\ connection_rooms' = Put(connection_rooms, c, Entry(connection_rooms, c))
      BY <1>2, <1>3, <1>4, <2>2 DEF JoinRoomRequest
    <3> QED  BY <2>2, <3>1, RefusedAgrees
  <2>3. CASE /\ ~(Cardinality(Entry(connection_rooms, c)) >= MaxRooms)
             /\ ~(Cardinality(Entry(rooms, r)) >= MaxMembers)
    <3>1. /\ rooms' = Put(rooms, r, Entry(rooms, r) \cup {c})
          /\ connection_rooms' = Put(connection_rooms, c, Entry(connection_rooms, c) \cup {r})
      BY <1>2, <1>3, <1>4, <2>3 DEF JoinRoomRequest
    <3> QED  BY <1>2, <1>3, <2>3, <3>1, JoinAgrees
  <2> QED  BY <2>1, <2>2, <2>3
<1>5. CASE LeaveRoomRequest
  <2>1. /\ rooms' = Without(c, {r})
        /\ connection_rooms' = IF c \in DOMAIN connection_rooms
                               THEN Put(connection_rooms, c, connection_rooms[c] \ {r}) ELSE connection_rooms
    BY <1>2, <1>3, <1>5 DEF LeaveRoomRequest
  <2>2. PICK K2 : K2 = connection_rooms'
    OBVIOUS
  <2>3. Entry(K2, c) = Entry(connection_rooms, c) \ {r} /\ \A d : d # c => Entry(K2, d) = Entry(connection_rooms, d)
    BY <2>1, <2>2 DEF Put, Entry
  <2>4. Agree(Without(c, {r}), K2)
    BY <1>2, <1>3, <2>3, WithoutAgrees
  <2> QED  BY <2>1, <2>2, <2>4
<1>6. CASE ConnectionDisconnected
  <2>1. rooms' = Without(c, Entry(connection_rooms, c)) /\ connection_rooms' = Drop(connection_rooms, {c})
    BY <1>2, <1>3, <1>6 DEF ConnectionDisconnected, joined_rooms
  <2>2. PICK K2, rs : K2 = connection_rooms' /\ rs = Entry(connection_rooms, c)
    OBVIOUS
  <2>3. Entry(K2, c) = Entry(connection_rooms, c) \ rs /\ \A d : d # c => Entry(K2, d) = Entry(connection_rooms, d)
    BY <2>1, <2>2 DEF Drop, Entry
  <2>4. Agree(Without(c, rs), K2)
    BY <1>2, <1>3, <2>3, WithoutAgrees
  <2> QED  BY <2>1, <2>2, <2>4
<1>7. CASE BroadcastToRoom
  BY <1>7 DEF BroadcastToRoom
<1> QED  BY <1>4, <1>5, <1>6, <1>7 DEF Manager

\* The whole inductive invariant of rooms.
RoomsInv == TaskTypes /\ LockQueue /\ Parting /\ Agree(rooms, connection_rooms)

LEMMA RoomsInductive ==
    /\ Init => RoomsInv
    /\ RoomsInv /\ [Next]_vars => RoomsInv'
<1>1. ASSUME Init  PROVE RoomsInv
  <2>1. /\ mailbox = << >> /\ DOMAIN rooms = {} /\ DOMAIN connection_rooms = {} /\ Len(mailbox) = 0
    BY <1>1 DEF Init, RoomsInit
  <2>2. Agree(rooms, connection_rooms)
    BY <2>1, FS_EmptySet, RoomsAssumption DEF Agree, Entry
  <2>3. Parting
    BY <2>1 DEF Parting
  <2> QED  BY <1>1, <2>2, <2>3, QueueInductive DEF RoomsInv
<1>2. ASSUME RoomsInv, [Next]_vars  PROVE TaskTypes' /\ LockQueue'
  BY <1>2, QueueInductive DEF RoomsInv
<1>3. ASSUME Parting, UNCHANGED <<task, mailbox, connection_rooms>>  PROVE Parting'
  BY <1>3 DEF Parting
<1>4. ASSUME RoomsInv, NEW c \in Conns, Task(c)  PROVE Parting' /\ UNCHANGED <<rooms, connection_rooms>>
  <2>1. CASE CastStep(c) /\ UNCHANGED <<mailbox, rooms, connection_rooms>>
    BY <1>4, <2>1, CastKeepsParting DEF RoomsInv
  <2>2. CASE Tells(c)
    BY <1>4, <2>2, TellsKeepsParting DEF RoomsInv, Tells
  <2>3. CASE Disconnects(c)
    BY <1>4, <2>3, DisconnectsKeepsParting DEF RoomsInv, Disconnects
  <2>4. CASE Abort(c) /\ UNCHANGED <<mailbox, rooms, connection_rooms>>
    <3>1. At("done").at \in Over /\ task[c].at \in Over /\ Goto(c, At("done"))
      BY <2>4 DEF Abort, At, Over
    <3> QED  BY <1>4, <2>4, <3>1, PartingMoved DEF RoomsInv
  <2> QED  BY <1>4, <2>1, <2>2, <2>3, <2>4 DEF Task, roomVars
<1>5. ASSUME RoomsInv, Manager  PROVE Parting' /\ Agree(rooms', connection_rooms')
  BY <1>5, ManagerKeepsParting, ManagerAgrees DEF RoomsInv
<1>6. ASSUME [Next]_vars
      PROVE  \/ UNCHANGED <<task, mailbox, rooms, connection_rooms>>
             \/ \E c \in Conns : Task(c)
             \/ Manager
  BY <1>6 DEF vars, Next, Forwards, Forward, HangsUp, Hangup, Stalls, Stall, Manages, SendsToRoom,
       SendToMember, connVars, roomVars
<1>7. ASSUME RoomsInv, [Next]_vars  PROVE Parting' /\ Agree(rooms, connection_rooms)'
  <2>1. CASE UNCHANGED <<task, mailbox, rooms, connection_rooms>>
    BY <1>3, <1>7, <2>1 DEF RoomsInv, Agree
  <2>2. CASE \E c \in Conns : Task(c)
    BY <1>4, <1>7, <2>2 DEF RoomsInv, Agree
  <2>3. CASE Manager
    BY <1>5, <1>7, <2>3 DEF Agree
  <2> QED  BY <1>6, <1>7, <2>1, <2>2, <2>3
<1> QED  BY <1>1, <1>2, <1>7 DEF RoomsInv

\* The room manager's two maps say the same within both limits, no room
\* without members is kept, and who has gone is forgotten, for every number
\* of clients and whatever they ask for.
THEOREM RoomsStayConsistent == Spec => []RoomsConsistent
<1>1. ASSUME RoomsInv  PROVE RoomsConsistent
  <2>1. \A r \in DOMAIN rooms : Cardinality(rooms[r]) \in 1 .. MaxMembers
    <3>1. ASSUME NEW r \in DOMAIN rooms  PROVE Cardinality(rooms[r]) \in 1 .. MaxMembers
      <4>1. IsFiniteSet(rooms[r]) /\ Cardinality(rooms[r]) <= MaxMembers /\ rooms[r] # {}
        BY <1>1 DEF RoomsInv, Agree
      <4>2. Cardinality(rooms[r]) \in Nat /\ Cardinality(rooms[r]) # 0
        BY <4>1, FS_EmptySet, FS_CardinalityType
      <4> QED  BY <4>1, <4>2, RoomsAssumption
    <3> QED  BY <3>1
  <2>2. \A c \in Conns : task[c].at = "done" /\ mailbox = << >> => c \notin DOMAIN connection_rooms
    <3>1. ASSUME NEW c \in Conns, task[c].at = "done", mailbox = << >>
          PROVE  c \notin DOMAIN connection_rooms
      <4>1. 1 .. Len(mailbox) = {}
        BY <3>1
      <4> QED  BY <1>1, <3>1, <4>1 DEF RoomsInv, Parting, Over
    <3> QED  BY <3>1
  <2>3. /\ \A c \in Conns : Cardinality(Entry(connection_rooms, c)) <= MaxRooms
        /\ \A c \in Conns : Entry(connection_rooms, c) = {r \in DOMAIN rooms : c \in rooms[r]}
    BY <1>1 DEF RoomsInv, Agree
  <2> QED  BY <2>1, <2>2, <2>3 DEF RoomsConsistent
<1> QED  BY <1>1, RoomsInductive, PTL DEF Spec

-----------------------------------------------------------------------------
(* Least and greatest elements.                                            *)

\* A non-empty set of naturals has a least element: the next layer.
LEMMA LeastElement ==
    ASSUME NEW S, S \subseteq Nat, S # {}
    PROVE  Min(S) \in S /\ \A y \in S : Min(S) <= y
<1>1. \E x \in S : \A y \in S : <<y, x>> \notin OpToRel(<, Nat)
  BY NatLessThanWellFounded, WFMin
<1>2. PICK x \in S : \A y \in S : <<y, x>> \notin OpToRel(<, Nat)
  BY <1>1
<1>3. \A y \in S : ~(y < x)
  BY <1>2 DEF OpToRel
<1>4. \A y \in S : x =< y
  BY <1>3
<1> QED
  BY <1>4 DEF Min

\* A bounded one has a greatest: the layer an answer comes back to.
LEMMA GreatestElement ==
    ASSUME NEW n \in Nat, NEW S, S \subseteq 0 .. n, S # {}
    PROVE  Max(S) \in S /\ \A y \in S : y <= Max(S)
<1> DEFINE T == {n - y : y \in S}
<1>1. T \subseteq Nat /\ T # {}
  <2>1. \A y \in S : n - y \in Nat
    OBVIOUS
  <2>2. PICK y \in S : TRUE
    OBVIOUS
  <2>3. n - y \in T
    BY <2>2
  <2> QED
    BY <2>1, <2>3
<1>2. PICK x \in T : \A y \in T : x <= y
  BY <1>1, LeastElement
<1>3. PICK m \in S : x = n - m
  OBVIOUS
<1>4. \A y \in S : m >= y
  BY <1>2, <1>3
<1> QED
  BY <1>4 DEF Max

LEMMA GreaterOfTwo ==
    ASSUME NEW a \in Int, NEW b \in Int
    PROVE  Max({a, b}) = IF a >= b THEN a ELSE b
<1>1. \E x \in {a, b} : \A y \in {a, b} : x >= y
  OBVIOUS
<1>2. Max({a, b}) \in {a, b} /\ \A y \in {a, b} : Max({a, b}) >= y
  BY <1>1 DEF Max
<1> QED
  BY <1>2

LEMMA LesserOfTwo ==
    ASSUME NEW a \in Int, NEW b \in Int
    PROVE  Min({a, b}) = IF a <= b THEN a ELSE b
<1>1. \E x \in {a, b} : \A y \in {a, b} : x <= y
  OBVIOUS
<1>2. Min({a, b}) \in {a, b} /\ \A y \in {a, b} : Min({a, b}) <= y
  BY <1>1 DEF Min
<1> QED
  BY <1>2

-----------------------------------------------------------------------------
(* Lists.                                                                  *)

GoodList(l) ==
    /\ l.rows <= MAX_PER_PAGE
    /\ l.meta.has_next = ((l.meta.page - 1) * l.meta.per_page + l.rows < l.meta.total)

LEMMA TimesMonotone ==
    ASSUME NEW a \in Nat, NEW b \in Nat, NEW s \in Nat, a <= b
    PROVE  a * s <= b * s
<1>1. PICK k \in Nat : b = a + k
  BY b - a \in Nat
<1>2. b * s = a * s + k * s /\ k * s \in Nat /\ a * s \in Nat
  BY <1>1
<1> QED
  BY <1>2

\* calculate_total_pages rounds up: there is a page behind this one exactly
\* when there are rows behind its last.
LEMMA PagesRoundUp ==
    ASSUME NEW total \in Nat, NEW size \in Nat, size >= 1, NEW page \in Nat
    PROVE  page < calculate_total_pages(total, size) <=> page * size < total
<1> DEFINE n == total + size - 1
           q == n \div size
<1>1. n \in Nat /\ q \in Nat /\ q * size <= n /\ n < q * size + size
  OBVIOUS
<1>2. calculate_total_pages(total, size) = q
  BY DEF calculate_total_pages
<1> HIDE DEF q
<1>3. q * size \in Nat /\ page * size \in Nat /\ (page + 1) * size = page * size + size
  BY <1>1
<1>4. CASE page < q
  <2>1. (page + 1) * size <= q * size
    BY <1>1, <1>4, TimesMonotone
  <2> QED
    BY <2>1, <1>1, <1>2, <1>3, <1>4
<1>5. CASE q <= page
  <2>1. q * size <= page * size
    BY <1>1, <1>5, TimesMonotone
  <2> QED
    BY <2>1, <1>1, <1>2, <1>3, <1>5
<1> QED
  BY <1>1, <1>4, <1>5

LEMMA MetaFields ==
    ASSUME NEW page \in Nat, NEW size \in Nat, size >= 1, NEW total \in Nat
    PROVE  LET m == PaginationMeta(page, size, total) IN
           /\ m.page = page /\ m.per_page = size /\ m.total = total
           /\ m.has_next = (page < calculate_total_pages(total, size))
<1>1. Max({size, 1}) = size
  BY GreaterOfTwo
<1> QED
  BY <1>1 DEF PaginationMeta

\* Whatever page and size are asked for, of a table of any length.
LEMMA ListGood ==
    ASSUME NEW q, q.page \in Nat \cup {Unset}, q.per_page \in Nat \cup {Unset}, NEW total \in Nat
    PROVE  GoodList(ListResponse(q, total))
<1>1. PICK page \in Nat : page = page_number(q) /\ page >= 1
  BY GreaterOfTwo DEF page_number, Unset
<1>2. PICK size \in Nat : size = items_per_page(q) /\ 1 <= size /\ size <= MAX_PER_PAGE
  <2>1. CASE q.per_page = Unset
    BY <2>1 DEF items_per_page, Unset, DEFAULT_PER_PAGE, MAX_PER_PAGE
  <2>2. CASE q.per_page # Unset
    <3>1. PICK m \in Nat : m = Max({q.per_page, 1}) /\ m >= 1
      BY <2>2, GreaterOfTwo
    <3>2. Min({m, MAX_PER_PAGE}) = IF m <= MAX_PER_PAGE THEN m ELSE MAX_PER_PAGE
      BY LesserOfTwo DEF MAX_PER_PAGE
    <3> QED
      BY <2>2, <3>1, <3>2 DEF items_per_page, MAX_PER_PAGE
  <2> QED
    BY <2>1, <2>2
<1>3. PICK off \in Nat : off = (page - 1) * size /\ page * size = off + size
  BY <1>1, <1>2
<1>4. PICK rows \in Nat : rows = find_all(total, Pagination(page, size)) /\ rows = IF total - off >= size THEN size ELSE IF total >= off THEN total - off ELSE 0
  <2>1. Min({total - off, size}) = IF total - off <= size THEN total - off ELSE size
    BY LesserOfTwo
  <2>2. PICK m \in Int : m = Min({total - off, size})
    BY <2>1
  <2>3. Max({m, 0}) = IF m >= 0 THEN m ELSE 0
    BY GreaterOfTwo
  <2>4. find_all(total, Pagination(page, size)) = Max({m, 0})
    BY <2>2, <1>3 DEF find_all, Pagination
  <2> QED
    BY <2>1, <2>2, <2>3, <2>4
<1> DEFINE l == ListResponse(q, total)
<1>5. l.rows = rows /\ l.meta = PaginationMeta(page, size, total)
  BY <1>1, <1>2, <1>4 DEF ListResponse
<1>6. /\ l.meta.page = page /\ l.meta.per_page = size /\ l.meta.total = total
      /\ l.meta.has_next = (page < calculate_total_pages(total, size))
  <2>1. size >= 1
    BY <1>2
  <2>2. /\ PaginationMeta(page, size, total).page = page
        /\ PaginationMeta(page, size, total).per_page = size
        /\ PaginationMeta(page, size, total).total = total
        /\ PaginationMeta(page, size, total).has_next = (page < calculate_total_pages(total, size))
    BY <2>1, MetaFields
  <2> QED
    BY <1>5, <2>2
<1>7. (page < calculate_total_pages(total, size)) <=> page * size < total
  BY <1>2, PagesRoundUp
<1>8. (off + rows < total) <=> page * size < total
  BY <1>2, <1>3, <1>4
<1> HIDE DEF l
<1>9. (page < calculate_total_pages(total, size)) = (off + rows < total)
  BY <1>7, <1>8
<1> QED
  BY <1>2, <1>3, <1>4, <1>5, <1>6, <1>9 DEF GoodList, l, MAX_PER_PAGE

LEMMA NoListGood == GoodList(NoList)
<1>1. NoList.rows = 0 /\ NoList.meta = PaginationMeta(1, 1, 0)
  BY DEF NoList
<1>2. /\ NoList.meta.page = 1 /\ NoList.meta.per_page = 1 /\ NoList.meta.total = 0
      /\ NoList.meta.has_next = (1 < calculate_total_pages(0, 1))
  BY <1>1, MetaFields
<1>3. (1 < calculate_total_pages(0, 1)) = FALSE
  BY PagesRoundUp
<1> QED
  BY <1>1, <1>2, <1>3 DEF GoodList, MAX_PER_PAGE

-----------------------------------------------------------------------------
(* Stacks.                                                                 *)

Holds(s, l) == \E i \in 1 .. Len(s) : s[i] = l

InsideAudit ==
    {"cors", "security_headers", "compression", "timeout", "body_limit", "trace", "metrics",
     "request_context", "sensitive_headers", "propagation", "request_id", "catch_panic", "cedar"}
OutsideAudit == {"governor", "token", "caller_auth", "audit_extension"}

LayerNames ==
    InsideAudit \cup OutsideAudit \cup {"audit", "bulkhead", "circuit_breaker", "rate_limit", "grpc_rate_limit"}

\* As added: what the audit layer covers comes before it.
AuditAt(s, k) ==
    /\ k \in 1 .. Len(s) /\ s[k] = "audit"
    /\ \A j \in 1 .. Len(s) : (j < k => s[j] \in InsideAudit) /\ (j > k => s[j] \in OutsideAudit)

\* One more call of Router::layer keeps what there is.
LEMMA LayerAdded ==
    ASSUME NEW s \in Seq(LayerNames), NEW l \in LayerNames, NEW t, t \in {s, Append(s, l)}
    PROVE  /\ t \in Seq(LayerNames) /\ \A x : Holds(s, x) => Holds(t, x)
           /\ l \in OutsideAudit => \A k : AuditAt(s, k) => AuditAt(t, k)
           /\ l \in InsideAudit /\ s \in Seq(InsideAudit) => t \in Seq(InsideAudit)
<1>1. CASE t = s
  BY <1>1
<1>2. CASE t = Append(s, l)
  <2>1. t \in Seq(LayerNames) /\ Len(t) = Len(s) + 1 /\ t[Len(s) + 1] = l /\ Len(s) \in Nat
    BY <1>2, AppendProperties
  <2>2. \A i \in 1 .. Len(s) : t[i] = s[i]
    BY <1>2
  <2>3. \A i \in 1 .. Len(t) : i \in 1 .. Len(s) \/ i = Len(s) + 1
    BY <2>1
  <2>4. \A x : Holds(s, x) => Holds(t, x)
    BY <2>1, <2>2 DEF Holds
  <2>5. ASSUME l \in OutsideAudit, NEW k, AuditAt(s, k) PROVE AuditAt(t, k)
    BY <2>1, <2>2, <2>3, <2>5 DEF AuditAt
  <2>6. l \in InsideAudit /\ s \in Seq(InsideAudit) => t \in Seq(InsideAudit)
    BY <1>2, AppendProperties
  <2> QED
    BY <2>1, <2>4, <2>5, <2>6
<1> QED
  BY <1>1, <1>2

LEMMA LayerThere ==
    ASSUME NEW s \in Seq(LayerNames), NEW l \in LayerNames
    PROVE  Holds(Append(s, l), l)
<1>1. Len(Append(s, l)) = Len(s) + 1 /\ Append(s, l)[Len(s) + 1] = l /\ \A i \in 1 .. Len(s) : Append(s, l)[i] = s[i]
  BY AppendProperties
<1>2. Len(s) \in Nat
  OBVIOUS
<1> DEFINE t == Append(s, l)
<1> HIDE DEF t
<1>3. Len(t) = Len(s) + 1 /\ t[Len(s) + 1] = l /\ \A i \in 1 .. Len(s) : t[i] = s[i]
  BY <1>1 DEF t
<1>4. Holds(t, l)
  BY <1>2, <1>3 DEF Holds
<1> QED
  BY <1>4 DEF t

\* Layers added together.
LEMMA LayersJoined ==
    ASSUME NEW s \in Seq(LayerNames), NEW t \in Seq(LayerNames)
    PROVE  /\ s \o t \in Seq(LayerNames)
           /\ \A x : Holds(s \o t, x) <=> Holds(s, x) \/ Holds(t, x)
<1>1. s \o t \in Seq(LayerNames) /\ Len(s \o t) = Len(s) + Len(t) /\ Len(s) \in Nat /\ Len(t) \in Nat
  OBVIOUS
<1>2. \A i \in 1 .. Len(s) : (s \o t)[i] = s[i]
  OBVIOUS
<1>3. \A i \in 1 .. Len(t) : (s \o t)[Len(s) + i] = t[i]
  OBVIOUS
<1> DEFINE u == s \o t
<1> HIDE DEF u
<1>4. \A i \in 1 .. Len(u) : i \in 1 .. Len(s) \/ \E j \in 1 .. Len(t) : i = Len(s) + j
  <2> SUFFICES ASSUME NEW i \in 1 .. Len(u), i \notin 1 .. Len(s) PROVE \E j \in 1 .. Len(t) : i = Len(s) + j
    OBVIOUS
  <2>1. i - Len(s) \in 1 .. Len(t) /\ i = Len(s) + (i - Len(s))
    BY <1>1 DEF u
  <2> QED
    BY <2>1
<1>5. \A i \in 1 .. Len(t) : Len(s) + i \in 1 .. Len(u)
  BY <1>1 DEF u
<1>6. \A i \in 1 .. Len(s) : i \in 1 .. Len(u)
  BY <1>1 DEF u
<1>7. \A x : Holds(u, x) => Holds(s, x) \/ Holds(t, x)
  BY <1>2, <1>3, <1>4 DEF Holds, u
<1>8. \A x : Holds(s, x) => Holds(u, x)
  BY <1>2, <1>6 DEF Holds, u
<1>9. \A x : Holds(t, x) => Holds(u, x)
  <2> SUFFICES ASSUME NEW x, NEW i \in 1 .. Len(t), t[i] = x PROVE Holds(u, x)
    BY DEF Holds
  <2>1. Len(s) + i \in 1 .. Len(u) /\ u[Len(s) + i] = x
    BY <1>3, <1>5 DEF u
  <2> QED
    BY <2>1 DEF Holds
<1> QED
  BY <1>1, <1>7, <1>8, <1>9 DEF u

\* The order of execution is the reverse.
LEMMA Executed ==
    ASSUME NEW s \in Seq(LayerNames)
    PROVE  /\ Executes(s) \in Seq(LayerNames) /\ Len(Executes(s)) = Len(s)
           /\ \A i \in 1 .. Len(s) : Len(s) - i + 1 \in 1 .. Len(s) /\ Executes(s)[i] = s[Len(s) - i + 1]
           /\ \A x : Holds(s, x) => Holds(Executes(s), x)
<1>1. Len(s) \in Nat
  OBVIOUS
<1>2. \A i \in 1 .. Len(s) : Len(s) - i + 1 \in 1 .. Len(s) /\ s[Len(s) - i + 1] \in LayerNames /\ Len(s) - (Len(s) - i + 1) + 1 = i
  BY <1>1
<1>3. Executes(s) = [i \in 1 .. Len(s) |-> s[(Len(s) - i) + 1]]
  BY DEF Executes, Reverse
<1>4. Executes(s) \in Seq(LayerNames) /\ Len(Executes(s)) = Len(s)
  BY <1>1, <1>2, <1>3
<1>5. \A i \in 1 .. Len(s) : Executes(s)[i] = s[Len(s) - i + 1]
  BY <1>3
<1> DEFINE u == Executes(s)
<1> HIDE DEF u
<1>6. \A x : Holds(s, x) => Holds(u, x)
  <2> SUFFICES ASSUME NEW x, NEW i \in 1 .. Len(s), s[i] = x PROVE Holds(u, x)
    BY DEF Holds
  <2>1. Len(s) - i + 1 \in 1 .. Len(s) /\ u[Len(s) - i + 1] = x
    BY <1>2, <1>5 DEF u
  <2> QED
    BY <2>1, <1>4 DEF Holds, u
<1> QED
  BY <1>2, <1>4, <1>5, <1>6 DEF u

LEMMA ConstantStacks ==
    /\ <<"cors", "security_headers">> \in Seq(LayerNames) /\ <<"cors", "security_headers">> \in Seq(InsideAudit)
    /\ Holds(<<"cors", "security_headers">>, "cors")
    /\ <<"timeout", "body_limit", "trace">> \in Seq(InsideAudit) /\ <<"timeout", "body_limit", "trace">> \in Seq(LayerNames)
    /\ << >> \in Seq(LayerNames) /\ \A x : ~Holds(<< >>, x)
<1>1. <<"cors", "security_headers">> \in Seq(LayerNames) /\ <<"cors", "security_headers">> \in Seq(InsideAudit)
  BY DEF LayerNames, InsideAudit
<1>2. Holds(<<"cors", "security_headers">>, "cors")
  BY DEF Holds
<1>3. <<"timeout", "body_limit", "trace">> \in Seq(InsideAudit) /\ <<"timeout", "body_limit", "trace">> \in Seq(LayerNames)
  BY DEF LayerNames, InsideAudit
<1>4. << >> \in Seq(LayerNames) /\ \A x : ~Holds(<< >>, x)
  BY DEF Holds
<1> QED
  BY <1>1, <1>2, <1>3, <1>4

LEMMA InsideIsLayer == \A s \in Seq(InsideAudit) : s \in Seq(LayerNames)
<1> SUFFICES ASSUME NEW s \in Seq(InsideAudit) PROVE s \in Seq(LayerNames)
  OBVIOUS
<1>1. \A i \in 1 .. Len(s) : s[i] \in LayerNames
  BY DEF LayerNames
<1> QED
  BY <1>1

\* apply_middleware: its layers are all inside the audit layer's place, and
\* the innermost is cors.
LEMMA GeneralLayers ==
    ASSUME NEW on
    PROVE  /\ apply_middleware(on) \in Seq(InsideAudit)
           /\ Holds(apply_middleware(on), "cors")
<1> DEFINE base == <<"cors", "security_headers">>
           rest == <<"timeout", "body_limit", "trace">>
           s1 == Added(base, "compression" \in on, "compression")
           s2 == s1 \o rest
           s3 == Added(s2, "metrics" \in on, "metrics")
           s4 == Append(s3, "request_context")
           s5 == Added(s4, "sensitive_headers" \in on, "sensitive_headers")
           s6 == Added(s5, "propagation" \in on, "propagation")
           s7 == Added(s6, "request_id" \in on, "request_id")
           s8 == Added(s7, "catch_panic" \in on, "catch_panic")
<1>0. apply_middleware(on) = s8
  BY DEF apply_middleware
<1>1. s1 \in {base, Append(base, "compression")} /\ s3 \in {s2, Append(s2, "metrics")}
  BY DEF Added
<1>2. s4 \in {s3, Append(s3, "request_context")} /\ s5 \in {s4, Append(s4, "sensitive_headers")}
  BY DEF Added
<1>3. s6 \in {s5, Append(s5, "propagation")} /\ s7 \in {s6, Append(s6, "request_id")} /\ s8 \in {s7, Append(s7, "catch_panic")}
  BY DEF Added
<1>4. base \in Seq(LayerNames) /\ base \in Seq(InsideAudit) /\ Holds(base, "cors") /\ rest \in Seq(InsideAudit) /\ rest \in Seq(LayerNames)
  BY ConstantStacks
<1>5. {"compression", "metrics", "request_context", "sensitive_headers", "propagation", "request_id", "catch_panic"}
        \subseteq LayerNames \cap InsideAudit
  BY DEF LayerNames, InsideAudit
<1>s2. s2 = s1 \o rest
  OBVIOUS
<1> HIDE DEF base, rest, s1, s2, s3, s4, s5, s6, s7, s8
<1>11. s1 \in Seq(LayerNames) /\ s1 \in Seq(InsideAudit) /\ Holds(s1, "cors")
  BY <1>1, <1>4, <1>5, LayerAdded
<1>12. s2 \in Seq(LayerNames) /\ Holds(s2, "cors")
  BY <1>s2, <1>4, <1>11, LayersJoined
<1>13. s2 \in Seq(InsideAudit)
  BY <1>s2, <1>4, <1>11, ConcatProperties
<1>14. s3 \in Seq(LayerNames) /\ s3 \in Seq(InsideAudit) /\ Holds(s3, "cors")
  BY <1>1, <1>5, <1>12, <1>13, LayerAdded
<1>15. s4 \in Seq(LayerNames) /\ s4 \in Seq(InsideAudit) /\ Holds(s4, "cors")
  BY <1>2, <1>5, <1>14, LayerAdded
<1>16. s5 \in Seq(LayerNames) /\ s5 \in Seq(InsideAudit) /\ Holds(s5, "cors")
  BY <1>2, <1>5, <1>15, LayerAdded
<1>17. s6 \in Seq(LayerNames) /\ s6 \in Seq(InsideAudit) /\ Holds(s6, "cors")
  BY <1>3, <1>5, <1>16, LayerAdded
<1>18. s7 \in Seq(LayerNames) /\ s7 \in Seq(InsideAudit) /\ Holds(s7, "cors")
  BY <1>3, <1>5, <1>17, LayerAdded
<1>19. s8 \in Seq(LayerNames) /\ s8 \in Seq(InsideAudit) /\ Holds(s8, "cors")
  BY <1>3, <1>5, <1>18, LayerAdded
<1> QED
  BY <1>0, <1>19

\* The HTTP router: what is asked for is there, and auditing is between what
\* decides who calls and everything else.
LEMMA HttpLayers ==
    ASSUME NEW d
    PROVE  /\ http_stack(d) \in Seq(LayerNames) /\ Holds(http_stack(d), "cors")
           /\ d.token # "off" => Holds(http_stack(d), "token")
           /\ d.cedar # "absent" => Holds(http_stack(d), "cedar")
           /\ Certified(d) => Holds(http_stack(d), "caller_auth")
           /\ d.audit => \E k : AuditAt(http_stack(d), k)
<1> DEFINE s0 == apply_middleware(d.switches)
           s1 == Added(s0, d.cedar # "absent", "cedar")
           s2 == Added(s1, d.audit, "audit")
           s3 == Added(s2, d.governor, "governor")
           s4 == Added(s3, d.token # "off", "token")
           s5 == Added(s4, d.caller \in {"mtls", "mtls-or-bearer"}, "caller_auth")
           s6 == Added(s5, d.audit, "audit_extension")
<1>0. http_stack(d) = s6
  BY DEF http_stack, caller_layers, authorization_layers
<1>1. s1 \in {s0, Append(s0, "cedar")} /\ s2 \in {s1, Append(s1, "audit")} /\ s3 \in {s2, Append(s2, "governor")}
  BY DEF Added
<1>2. s4 \in {s3, Append(s3, "token")} /\ s5 \in {s4, Append(s4, "caller_auth")} /\ s6 \in {s5, Append(s5, "audit_extension")}
  BY DEF Added
<1>3. /\ d.cedar # "absent" => s1 = Append(s0, "cedar")
      /\ d.audit => s2 = Append(s1, "audit")
      /\ d.token # "off" => s4 = Append(s3, "token")
      /\ Certified(d) => s5 = Append(s4, "caller_auth")
  BY DEF Added, Certified
<1>4. s0 \in Seq(InsideAudit) /\ Holds(s0, "cors")
  BY GeneralLayers
<1>5. {"cedar", "audit", "governor", "token", "caller_auth", "audit_extension"} \subseteq LayerNames
  BY DEF LayerNames, InsideAudit, OutsideAudit
<1>6. "cedar" \in InsideAudit /\ {"governor", "token", "caller_auth", "audit_extension"} \subseteq OutsideAudit
  BY DEF InsideAudit, OutsideAudit
<1> HIDE DEF s0, s1, s2, s3, s4, s5, s6
<1>10. s0 \in Seq(LayerNames)
  BY <1>4, InsideIsLayer
<1>11. s1 \in Seq(LayerNames) /\ s1 \in Seq(InsideAudit) /\ Holds(s1, "cors") /\ (d.cedar # "absent" => Holds(s1, "cedar"))
  <2>1. s1 \in Seq(LayerNames) /\ s1 \in Seq(InsideAudit) /\ Holds(s1, "cors")
    BY <1>1, <1>4, <1>5, <1>6, <1>10, LayerAdded
  <2>2. Holds(Append(s0, "cedar"), "cedar")
    BY <1>5, <1>10, LayerThere
  <2> QED
    BY <2>1, <2>2, <1>3
<1>12. s2 \in Seq(LayerNames) /\ \A x : Holds(s1, x) => Holds(s2, x)
  BY <1>1, <1>5, <1>11, LayerAdded
<1>13. d.audit => \E k : AuditAt(s2, k)
  <2> SUFFICES ASSUME d.audit PROVE \E k : AuditAt(s2, k)
    OBVIOUS
  <2>1. s2 = Append(s1, "audit")
    BY <1>3
  <2>2. Len(s1) \in Nat /\ Len(s2) = Len(s1) + 1 /\ s2[Len(s1) + 1] = "audit" /\ \A i \in 1 .. Len(s1) : s2[i] = s1[i]
    BY <2>1, <1>5, <1>11, AppendProperties
  <2>3. \A i \in 1 .. Len(s1) : s1[i] \in InsideAudit
    BY <1>11
  <2>4. AuditAt(s2, Len(s1) + 1)
    BY <2>2, <2>3 DEF AuditAt
  <2> QED
    BY <2>4
<1>14. s3 \in Seq(LayerNames) /\ (\A x : Holds(s2, x) => Holds(s3, x)) /\ (d.audit => \E k : AuditAt(s3, k))
  <2>1. s3 \in Seq(LayerNames) /\ (\A x : Holds(s2, x) => Holds(s3, x)) /\ \A k : AuditAt(s2, k) => AuditAt(s3, k)
    BY <1>1, <1>5, <1>6, <1>12, LayerAdded
  <2> QED
    BY <2>1, <1>13
<1>15. s4 \in Seq(LayerNames) /\ (\A x : Holds(s3, x) => Holds(s4, x)) /\ (d.audit => \E k : AuditAt(s4, k))
  <2>1. s4 \in Seq(LayerNames) /\ (\A x : Holds(s3, x) => Holds(s4, x)) /\ \A k : AuditAt(s3, k) => AuditAt(s4, k)
    BY <1>2, <1>5, <1>6, <1>14, LayerAdded
  <2> QED
    BY <2>1, <1>14
<1>16. d.token # "off" => Holds(s4, "token")
  <2>1. Holds(Append(s3, "token"), "token")
    BY <1>5, <1>14, LayerThere
  <2> QED
    BY <2>1, <1>3
<1>17. s5 \in Seq(LayerNames) /\ (\A x : Holds(s4, x) => Holds(s5, x)) /\ (d.audit => \E k : AuditAt(s5, k))
  <2>1. s5 \in Seq(LayerNames) /\ (\A x : Holds(s4, x) => Holds(s5, x)) /\ \A k : AuditAt(s4, k) => AuditAt(s5, k)
    BY <1>2, <1>5, <1>6, <1>15, LayerAdded
  <2> QED
    BY <2>1, <1>15
<1>18. Certified(d) => Holds(s5, "caller_auth")
  <2>1. Holds(Append(s4, "caller_auth"), "caller_auth")
    BY <1>5, <1>15, LayerThere
  <2> QED
    BY <2>1, <1>3
<1>19. s6 \in Seq(LayerNames) /\ (\A x : Holds(s5, x) => Holds(s6, x)) /\ (d.audit => \E k : AuditAt(s6, k))
  <2>1. s6 \in Seq(LayerNames) /\ (\A x : Holds(s5, x) => Holds(s6, x)) /\ \A k : AuditAt(s5, k) => AuditAt(s6, k)
    BY <1>2, <1>5, <1>6, <1>17, LayerAdded
  <2> QED
    BY <2>1, <1>17
<1> QED
  BY <1>0, <1>11, <1>12, <1>14, <1>15, <1>16, <1>17, <1>18, <1>19

ServerOwn == <<"compression", "timeout", "body_limit", "trace", "sensitive_headers",
               "propagation", "request_id", "catch_panic">>

\* A router under Server::serve.
ServerAdds(d) ==
    server_stack(Added(Added(<< >>, d.rate_limit, "rate_limit"), d.token # "off", "token"),
                 d.max_concurrent > 0, d.window > 0)

LEMMA ServerLayers ==
    ASSUME NEW d
    PROVE  /\ ServerAdds(d) \in Seq(LayerNames) /\ Holds(ServerAdds(d), "cors")
           /\ d.token # "off" => Holds(ServerAdds(d), "token")
<1> DEFINE s0 == << >>
           s1 == Added(s0, d.rate_limit, "rate_limit")
           s2 == Added(s1, d.token # "off", "token")
           own == <<"cors", "security_headers">>
           s3 == s2 \o own
           s4 == Added(s3, d.max_concurrent > 0, "bulkhead")
           s5 == Added(s4, d.window > 0, "circuit_breaker")
           s6 == s5 \o ServerOwn
<1>0. ServerAdds(d) = s6
  BY DEF ServerAdds, server_stack, apply_resilience, ServerOwn
<1>1. s1 \in {s0, Append(s0, "rate_limit")} /\ s2 \in {s1, Append(s1, "token")} /\ (d.token # "off" => s2 = Append(s1, "token"))
  BY DEF Added
<1>2. s4 \in {s3, Append(s3, "bulkhead")} /\ s5 \in {s4, Append(s4, "circuit_breaker")}
  BY DEF Added
<1>3. {"rate_limit", "token", "bulkhead", "circuit_breaker"} \subseteq LayerNames
  BY DEF LayerNames, OutsideAudit
<1>4. s0 \in Seq(LayerNames) /\ own \in Seq(LayerNames) /\ Holds(own, "cors")
  BY ConstantStacks
<1>5. ServerOwn \in Seq(LayerNames)
  BY DEF ServerOwn, LayerNames, InsideAudit
<1>7. s3 = s2 \o own /\ s6 = s5 \o ServerOwn
  OBVIOUS
<1> HIDE DEF s0, s1, s2, own, s3, s4, s5, s6
<1>11. s1 \in Seq(LayerNames)
  BY <1>1, <1>3, <1>4, LayerAdded
<1>12. s2 \in Seq(LayerNames)
  BY <1>1, <1>3, <1>11, LayerAdded
<1>13. d.token # "off" => Holds(s2, "token")
  <2>1. Holds(Append(s1, "token"), "token")
    BY <1>3, <1>11, LayerThere
  <2> QED
    BY <2>1, <1>1
<1>14. s3 \in Seq(LayerNames) /\ (\A x : Holds(s3, x) <=> Holds(s2, x) \/ Holds(own, x))
  BY <1>4, <1>7, <1>12, LayersJoined
<1>15. Holds(s3, "cors") /\ (d.token # "off" => Holds(s3, "token"))
  BY <1>4, <1>12, <1>13, <1>14
<1>16. s4 \in Seq(LayerNames) /\ Holds(s4, "cors") /\ (d.token # "off" => Holds(s4, "token"))
  BY <1>2, <1>3, <1>14, <1>15, LayerAdded
<1>18. s5 \in Seq(LayerNames) /\ Holds(s5, "cors") /\ (d.token # "off" => Holds(s5, "token"))
  BY <1>2, <1>3, <1>16, LayerAdded
<1>20. /\ s6 \in Seq(LayerNames) /\ (\A x : Holds(s6, x) <=> Holds(s5, x) \/ Holds(ServerOwn, x))
  BY <1>5, <1>7, <1>18, LayersJoined
<1> QED
  BY <1>0, <1>18, <1>20

\* The gRPC router.
GrpcAdds(d) ==
    Added(<< >>, d.governor, "grpc_rate_limit")
      \o grpc_stack(d.cedar # "absent", d.token # "off", d.caller \in {"mtls", "mtls-or-bearer"}, d.audit)

LEMMA GrpcLayers ==
    ASSUME NEW d
    PROVE  /\ GrpcAdds(d) \in Seq(LayerNames)
           /\ d.token # "off" => Holds(GrpcAdds(d), "token")
           /\ d.cedar # "absent" => Holds(GrpcAdds(d), "cedar")
           /\ Certified(d) => Holds(GrpcAdds(d), "caller_auth")
<1> DEFINE s0 == << >>
           f == Added(s0, d.governor, "grpc_rate_limit")
           s1 == Added(s0, d.cedar # "absent", "cedar")
           s2 == Added(s1, d.token # "off", "token")
           s3 == Added(s2, d.caller \in {"mtls", "mtls-or-bearer"}, "caller_auth")
           s4 == Added(s3, d.audit, "audit_extension")
           s5 == f \o s4
<1>0. GrpcAdds(d) = s5
  BY DEF GrpcAdds, grpc_stack, caller_layers
<1>1. f \in {s0, Append(s0, "grpc_rate_limit")} /\ s1 \in {s0, Append(s0, "cedar")} /\ s2 \in {s1, Append(s1, "token")}
  BY DEF Added
<1>2. s3 \in {s2, Append(s2, "caller_auth")} /\ s4 \in {s3, Append(s3, "audit_extension")}
  BY DEF Added
<1>3. /\ d.cedar # "absent" => s1 = Append(s0, "cedar")
      /\ d.token # "off" => s2 = Append(s1, "token")
      /\ Certified(d) => s3 = Append(s2, "caller_auth")
  BY DEF Added, Certified
<1>4. {"grpc_rate_limit", "cedar", "token", "caller_auth", "audit_extension"} \subseteq LayerNames
  BY DEF LayerNames, InsideAudit, OutsideAudit
<1>5. s0 \in Seq(LayerNames)
  BY ConstantStacks
<1>6. s5 = f \o s4
  OBVIOUS
<1> HIDE DEF s0, f, s1, s2, s3, s4, s5
<1>10. f \in Seq(LayerNames) /\ s1 \in Seq(LayerNames)
  BY <1>1, <1>4, <1>5, LayerAdded
<1>11. d.cedar # "absent" => Holds(s1, "cedar")
  <2>1. Holds(Append(s0, "cedar"), "cedar")
    BY <1>4, <1>5, LayerThere
  <2> QED
    BY <2>1, <1>3
<1>12. s2 \in Seq(LayerNames) /\ \A x : Holds(s1, x) => Holds(s2, x)
  BY <1>1, <1>4, <1>10, LayerAdded
<1>13. d.token # "off" => Holds(s2, "token")
  <2>1. Holds(Append(s1, "token"), "token")
    BY <1>4, <1>10, LayerThere
  <2> QED
    BY <2>1, <1>3
<1>14. s3 \in Seq(LayerNames) /\ \A x : Holds(s2, x) => Holds(s3, x)
  BY <1>2, <1>4, <1>12, LayerAdded
<1>15. Certified(d) => Holds(s3, "caller_auth")
  <2>1. Holds(Append(s2, "caller_auth"), "caller_auth")
    BY <1>4, <1>12, LayerThere
  <2> QED
    BY <2>1, <1>3
<1>16. s4 \in Seq(LayerNames) /\ \A x : Holds(s3, x) => Holds(s4, x)
  BY <1>2, <1>4, <1>14, LayerAdded
<1>17. s5 \in Seq(LayerNames) /\ \A x : Holds(s4, x) => Holds(s5, x)
  BY <1>6, <1>10, <1>16, LayersJoined
<1> QED
  BY <1>0, <1>11, <1>12, <1>13, <1>14, <1>15, <1>16, <1>17

\* As met: who calls is decided first, then comes auditing, then the rest.
AuditMet(s, a) ==
    /\ a \in 1 .. Len(s) /\ s[a] = "audit"
    /\ \A j \in 1 .. Len(s) : (j < a => s[j] \in OutsideAudit) /\ (j > a => s[j] \in InsideAudit)

LEMMA AuditMetInOrder ==
    ASSUME NEW s \in Seq(LayerNames), NEW k, AuditAt(s, k)
    PROVE  AuditMet(Executes(s), Len(s) - k + 1)
<1>1. Len(s) \in Nat /\ k \in 1 .. Len(s)
  BY DEF AuditAt
<1>2. Len(Executes(s)) = Len(s) /\ \A i \in 1 .. Len(s) : Len(s) - i + 1 \in 1 .. Len(s) /\ Executes(s)[i] = s[Len(s) - i + 1]
  BY Executed
<1> DEFINE u == Executes(s)
           a == Len(s) - k + 1
<1> HIDE DEF u
<1>3. a \in 1 .. Len(u) /\ Len(s) - a + 1 = k
  BY <1>1, <1>2 DEF u
<1>4. u[a] = "audit"
  BY <1>2, <1>3 DEF u, AuditAt
<1>5. ASSUME NEW j \in 1 .. Len(u) PROVE (j < a => u[j] \in OutsideAudit) /\ (j > a => u[j] \in InsideAudit)
  <2>1. PICK i \in 1 .. Len(s) : i = Len(s) - j + 1 /\ u[j] = s[i]
    BY <1>2 DEF u
  <2>2. (j < a => i > k) /\ (j > a => i < k)
    BY <1>1, <2>1
  <2> QED
    BY <2>1, <2>2 DEF AuditAt
<1> QED
  BY <1>3, <1>4, <1>5 DEF AuditMet, u

\* What a listener's stack has.
StackShape(d, s) ==
    /\ s \in Seq(LayerNames)
    /\ d.token # "off" => Holds(s, "token")
    /\ d.listener # "server" /\ Certified(d) => Holds(s, "caller_auth")
    /\ d.listener # "server" /\ d.cedar # "absent" => Holds(s, "cedar")
    /\ d.listener # "grpc" => Holds(s, "cors")
    /\ d.listener = "http" /\ d.audit => \E a : AuditMet(s, a)

LEMMA StackHasShape ==
    ASSUME NEW d \in Deployments
    PROVE  StackShape(d, Stack(d))
<1>1. CASE d.listener = "http"
  <2>1. PICK s : s = http_stack(d)
    OBVIOUS
  <2>2. Stack(d) = Executes(s)
    BY <1>1, <2>1 DEF Stack
  <2>3. s \in Seq(LayerNames) /\ (d.audit => \E k : AuditAt(s, k))
    BY <2>1, HttpLayers
  <2>4. Executes(s) \in Seq(LayerNames) /\ \A x : Holds(s, x) => Holds(Executes(s), x)
    BY <2>3, Executed
  <2>5. d.audit => \E a : AuditMet(Executes(s), a)
    BY <2>3, AuditMetInOrder
  <2>6. /\ Holds(s, "cors") /\ (d.token # "off" => Holds(s, "token"))
        /\ (d.cedar # "absent" => Holds(s, "cedar")) /\ (Certified(d) => Holds(s, "caller_auth"))
    BY <2>1, HttpLayers
  <2> QED
    BY <1>1, <2>2, <2>4, <2>5, <2>6 DEF StackShape
<1>2. CASE d.listener = "server"
  <2>1. PICK s : s = ServerAdds(d)
    OBVIOUS
  <2>2. Stack(d) = Executes(s)
    BY <1>2, <2>1 DEF Stack, ServerAdds
  <2>3. s \in Seq(LayerNames) /\ Holds(s, "cors") /\ (d.token # "off" => Holds(s, "token"))
    BY <2>1, ServerLayers
  <2>4. /\ Executes(s) \in Seq(LayerNames) /\ \A x : Holds(s, x) => Holds(Executes(s), x)
    BY <2>3, Executed
  <2> QED
    BY <1>2, <2>2, <2>3, <2>4 DEF StackShape
<1>3. CASE d.listener = "grpc"
  <2>1. PICK s : s = GrpcAdds(d)
    OBVIOUS
  <2>2. Stack(d) = Executes(s)
    BY <1>3, <2>1 DEF Stack, GrpcAdds
  <2>3. /\ s \in Seq(LayerNames) /\ (d.token # "off" => Holds(s, "token"))
        /\ (d.cedar # "absent" => Holds(s, "cedar")) /\ (Certified(d) => Holds(s, "caller_auth"))
    BY <2>1, GrpcLayers
  <2>4. Executes(s) \in Seq(LayerNames) /\ \A x : Holds(s, x) => Holds(Executes(s), x)
    BY <2>3, Executed
  <2> QED
    BY <1>3, <2>2, <2>3, <2>4 DEF StackShape
<1> QED
  BY <1>1, <1>2, <1>3, DeploymentsAssumption

-----------------------------------------------------------------------------
(* Requests on their way.                                                  *)

AwaitSteps == {"is_revoked", "expire", "cache_get", "evaluate", "cache_set"}
Active == AwaitSteps \cup {"call", "handler"}
Doings == Active \cup {"idle", "return", "answered", "gone"}

\* Where a request is, by what it does.
Placed ==
    /\ dep \in Deployments /\ stack \in Seq(LayerNames) /\ StackShape(dep, stack)
    /\ at \in [Ids -> Nat] /\ doing \in [Ids -> Doings]
    /\ DOMAIN held = Ids /\ DOMAIN ext = Ids /\ DOMAIN answer = Ids
    /\ \A r \in Ids :
         /\ doing[r] # "idle" => r \in DOMAIN dep.asks
         /\ doing[r] \in Active => at[r] \in 1 .. Len(stack) + 1
         /\ doing[r] = "handler" => at[r] = Len(stack) + 1
         /\ doing[r] = "return" => at[r] \in 1 .. Len(stack) /\ stack[at[r]] \in Returning

LEMMA InnerFacts ==
    ASSUME stack \in Seq(LayerNames), NEW i \in Nat
    PROVE  /\ Inner(i) \in Nat /\ Inner(i) <= Len(stack) + 1 /\ (i <= Len(stack) => Inner(i) > i)
           /\ Inner(i) >= 1
           /\ \A j \in 1 .. Len(stack) : i < j /\ j < Inner(i) => stack[j] \notin Acting
<1> DEFINE S == {j \in i + 1 .. Len(stack) : stack[j] \in Acting} \cup {Len(stack) + 1}
<1>0. Len(stack) \in Nat
  OBVIOUS
<1>1. S \subseteq Nat /\ S # {} /\ Len(stack) + 1 \in S
  BY <1>0
<1>2. Inner(i) = Min(S)
  BY DEF Inner
<1>3. Inner(i) \in S /\ \A y \in S : Inner(i) <= y
  BY <1>1, <1>2, LeastElement
<1>4. \A j \in 1 .. Len(stack) : i < j /\ stack[j] \in Acting => j \in S
  BY <1>0
<1>5. Inner(i) \in Nat /\ (Inner(i) = Len(stack) + 1 \/ Inner(i) \in i + 1 .. Len(stack))
  BY <1>0, <1>3
<1> HIDE DEF S
<1> QED
  BY <1>0, <1>1, <1>3, <1>4, <1>5

LEMMA OuterFacts ==
    ASSUME stack \in Seq(LayerNames), NEW i \in 1 .. Len(stack) + 1
    PROVE  /\ Outer(i) \in Nat /\ Outer(i) < i /\ Outer(i) <= Len(stack)
           /\ Outer(i) # 0 => stack[Outer(i)] \in Returning
           /\ \A j \in 1 .. Len(stack) : Outer(i) < j /\ j < i => stack[j] \notin Returning
<1> DEFINE S == {j \in 1 .. i - 1 : stack[j] \in Returning} \cup {0}
<1>0. Len(stack) \in Nat
  OBVIOUS
<1>1. S \subseteq 0 .. Len(stack) /\ S # {} /\ \A j \in S : j < i
  BY <1>0
<1>2. Outer(i) = Max(S)
  BY DEF Outer
<1>3. Outer(i) \in S /\ \A y \in S : y <= Outer(i)
  BY <1>0, <1>1, <1>2, GreatestElement
<1>4. \A j \in 1 .. Len(stack) : j < i /\ stack[j] \in Returning => j \in S
  BY <1>0
<1>5. Outer(i) # 0 => stack[Outer(i)] \in Returning
  BY <1>3
<1>6. PICK n : n = Outer(i)
  OBVIOUS
<1> HIDE DEF S
<1>7. n \in Nat /\ n < i /\ n <= Len(stack)
  <2>1. n \in S
    BY <1>3, <1>6
  <2>2. n \in 0 .. Len(stack) /\ n < i
    BY <1>1, <2>1
  <2> QED
    BY <1>0, <2>2
<1>8. \A j \in 1 .. Len(stack) : n < j /\ j < i => stack[j] \notin Returning
  BY <1>0, <1>3, <1>4, <1>6, <1>7
<1> QED
  BY <1>5, <1>6, <1>7, <1>8

\* What a step does to a request, whatever the layer.
Others(r) ==
    /\ DOMAIN held' = Ids /\ DOMAIN ext' = Ids /\ DOMAIN answer' = Ids
    /\ \A o \in Ids : o # r => held'[o] = held[o] /\ ext'[o] = ext[o] /\ answer'[o] = answer[o]

Enters(r) ==
    /\ doing[r] = "idle" /\ r \in DOMAIN dep.asks
    /\ at' = [at EXCEPT ![r] = Inner(0)]
    /\ doing' = [doing EXCEPT ![r] = IF Inner(0) > Len(stack) THEN "handler" ELSE "call"]
    /\ UNCHANGED <<held, ext, answer>>

Passes(r) ==
    /\ doing[r] \in Active /\ at[r] \in 1 .. Len(stack)
    /\ at' = [at EXCEPT ![r] = Inner(at[r])]
    /\ doing' = [doing EXCEPT ![r] = IF Inner(at[r]) > Len(stack) THEN "handler" ELSE "call"]
    /\ answer'[r] = answer[r] /\ Others(r)

Replies(r, i) ==
    /\ doing[r] \in Active /\ i \in 1 .. Len(stack) + 1
    /\ at' = [at EXCEPT ![r] = Outer(i)]
    /\ doing' = [doing EXCEPT ![r] = IF Outer(i) = 0 THEN "answered" ELSE "return"]
    /\ ext'[r] = ext[r] /\ Others(r)

Waits(r) ==
    /\ doing[r] \in Active /\ at[r] \in 1 .. Len(stack)
    /\ \E w \in AwaitSteps : doing' = [doing EXCEPT ![r] = w] /\ (w = "expire" => LimitStep(r))
    /\ at' = at /\ ext'[r] = ext[r] /\ answer'[r] = answer[r] /\ Others(r)

Returns(r) ==
    /\ doing[r] = "return" /\ at[r] \in 1 .. Len(stack)
    /\ at' = [at EXCEPT ![r] = Outer(at[r])]
    /\ doing' = [doing EXCEPT ![r] = IF Outer(at[r]) = 0 THEN "answered" ELSE "return"]
    /\ UNCHANGED <<held, ext, answer>>

Leaves(r) ==
    /\ doing[r] \in Active \cup {"return"}
    /\ doing' = [doing EXCEPT ![r] = "gone"]
    /\ at' = at /\ ext' = ext /\ answer' = answer /\ Others(r)

Stays == UNCHANGED <<at, doing, held, ext, answer>>

LEMMA PassOnPasses ==
    ASSUME Placed, NEW r \in Ids, NEW l, NEW w \in Active, In(r, l, w), NEW e, PassOn(r, e)
    PROVE  Passes(r) /\ ext'[r] = e
  BY DEF Placed, In, PassOn, Passes, Others

LEMMA AnswerReplies ==
    ASSUME Placed, NEW r \in Ids, doing[r] \in Active, NEW i \in 1 .. Len(stack) + 1,
           NEW by, NEW code, NEW headers, NEW list, AnswerWith(r, i, by, code, headers, list)
    PROVE  /\ Replies(r, i)
           /\ answer'[r] = [status |-> code, by |-> by, headers |-> headers, list |-> list]
  BY DEF Placed, AnswerWith, Replies, Others

LEMMA AwaitWaits ==
    ASSUME Placed, NEW r \in Ids, NEW l, NEW w \in Active, In(r, l, w), NEW s \in AwaitSteps, NEW v, Await(r, s, v),
           s = "expire" => LimitStep(r)
    PROVE  Waits(r) /\ doing'[r] = s /\ held'[r] = v
  BY DEF Placed, In, Await, Waits, Others

\* Whatever it does, a request stays where it may be.
LEMMA PlacedKept ==
    ASSUME Placed, dep' = dep, stack' = stack,
           \/ Stays
           \/ \E r \in Ids : \/ Enters(r) \/ Passes(r) \/ Waits(r) \/ Returns(r) \/ Leaves(r)
                             \/ \E i \in 1 .. Len(stack) + 1 : Replies(r, i)
    PROVE  Placed'
<1>0. Len(stack) \in Nat /\ stack \in Seq(LayerNames)
  BY DEF Placed
<1>1. CASE Stays
  BY <1>1 DEF Placed, Stays, StackShape, Certified
<1>2. ASSUME NEW r \in Ids,
             \/ Enters(r) \/ Passes(r) \/ Waits(r) \/ Returns(r) \/ Leaves(r)
             \/ \E i \in 1 .. Len(stack) + 1 : Replies(r, i)
      PROVE  Placed'
  <2>1. dep' \in Deployments /\ stack' \in Seq(LayerNames) /\ StackShape(dep, stack)'
    BY DEF Placed, StackShape, Certified
  <2>2. CASE Enters(r)
    <3>1. PICK n \in Nat : n = Inner(0) /\ n >= 1 /\ n <= Len(stack) + 1
      BY <1>0, InnerFacts
    <3> QED
      BY <1>0, <2>1, <2>2, <3>1 DEF Placed, Enters, Active, AwaitSteps, Doings
  <2>3. CASE Passes(r)
    <3>0. PICK i \in Nat : i = at[r]
      BY <1>0, <2>3 DEF Passes
    <3>1. PICK n \in Nat : n = Inner(at[r]) /\ n >= 1 /\ n <= Len(stack) + 1
      BY <1>0, <3>0, InnerFacts
    <3>2. doing'[r] \in {"call", "handler"} /\ (doing'[r] = "handler" => n = Len(stack) + 1) /\ at'[r] = n
      <4>1. at \in [Ids -> Nat] /\ doing \in [Ids -> Doings]
        BY DEF Placed
      <4>2. at' = [at EXCEPT ![r] = n]
        BY <2>3, <3>1 DEF Passes
      <4>3. doing' = [doing EXCEPT ![r] = IF n > Len(stack) THEN "handler" ELSE "call"]
        BY <2>3, <3>1 DEF Passes
      <4>4. at'[r] = n /\ doing'[r] = IF n > Len(stack) THEN "handler" ELSE "call"
        BY <4>1, <4>2, <4>3
      <4> QED
        BY <1>0, <3>1, <4>4
    <3>3. at' \in [Ids -> Nat] /\ doing' \in [Ids -> Doings]
      BY <2>3, <3>1 DEF Placed, Passes, Doings, Active
    <3>4. \A o \in Ids : o # r => at'[o] = at[o] /\ doing'[o] = doing[o]
      BY <2>3 DEF Placed, Passes
    <3>5. r \in DOMAIN dep.asks
      BY <2>3 DEF Placed, Passes, Active, AwaitSteps
    <3>6. ASSUME NEW o \in Ids
          PROVE  /\ doing'[o] # "idle" => o \in DOMAIN dep.asks
                 /\ doing'[o] \in Active => at'[o] \in 1 .. Len(stack) + 1
                 /\ doing'[o] = "handler" => at'[o] = Len(stack) + 1
                 /\ doing'[o] = "return" => at'[o] \in 1 .. Len(stack) /\ stack[at'[o]] \in Returning
      <4>1. CASE o = r
        BY <1>0, <3>1, <3>2, <3>5, <4>1
      <4>2. CASE o # r
        BY <3>4, <4>2 DEF Placed
      <4> QED
        BY <4>1, <4>2
    <3>7. DOMAIN held' = Ids /\ DOMAIN ext' = Ids /\ DOMAIN answer' = Ids
      BY <2>3 DEF Passes, Others
    <3> QED
      BY <2>1, <3>3, <3>6, <3>7 DEF Placed
  <2>4. CASE Waits(r)
    BY <1>0, <2>1, <2>4 DEF Placed, Waits, Others, Active, AwaitSteps, Doings
  <2>5. CASE Returns(r)
    <3>1. PICK n \in Nat : n = Outer(at[r]) /\ n <= Len(stack) /\ (n # 0 => stack[n] \in Returning)
      BY <1>0, <2>5, OuterFacts DEF Returns
    <3> QED
      BY <1>0, <2>1, <2>5, <3>1 DEF Placed, Returns, Active, AwaitSteps, Doings
  <2>6. CASE Leaves(r)
    BY <1>0, <2>1, <2>6 DEF Placed, Leaves, Others, Active, AwaitSteps, Doings
  <2>7. ASSUME NEW i \in 1 .. Len(stack) + 1, Replies(r, i) PROVE Placed'
    <3>1. PICK n \in Nat : n = Outer(i) /\ n <= Len(stack) /\ (n # 0 => stack[n] \in Returning)
      BY <1>0, OuterFacts
    <3> QED
      BY <1>0, <2>1, <2>7, <3>1 DEF Placed, Replies, Others, Active, AwaitSteps, Doings
  <2> QED
    BY <1>2, <2>2, <2>3, <2>4, <2>5, <2>6, <2>7
<1> QED
  BY <1>1, <1>2

-----------------------------------------------------------------------------
(* The layers, one by one: each step of a request is one of those moves.   *)

\* The denials that have an event of their own, and where they are heard.
Denials == {"AuthTokenMissing", "AuthTokenInvalid", "AuthTokenRevoked", "HttpRequestDenied"}
Heard == dep.listener = "http" /\ dep.audit /\ dep.audit_auth_events
Unheard(a) == <<a.by, a.status>> = <<"token", into_response["Internal"]>>

Told(r) == \E e \in audited' : e.of = r /\ e.kind \in Denials

RepliesFrom(r, i) ==
    /\ Replies(r, i) /\ GoodList(answer'[r].list)
    /\ answer'[r].by = IF i = Len(stack) + 1 THEN "handler" ELSE stack[i]
    /\ answer'[r].by \notin {"audit", "audit_extension"}
    /\ answer'[r].by \in {"token", "governor"} /\ Heard /\ ~Unheard(answer'[r]) => Told(r)

ReturnsWell(r) ==
    /\ Returns(r)
    /\ stack[at[r]] = "audit" /\ dep.audit_all /\ ~starts_with_any(Asked(r).path, dep.excluded) =>
         \E e \in audited' : e.of = r /\ e.kind = "HttpRequest" /\ e.status = answer[r].status

Moves(r) ==
    /\ dep' = dep /\ stack' = stack /\ audited \subseteq audited'
    /\ \/ Enters(r) \/ Passes(r) \/ Waits(r) \/ ReturnsWell(r) \/ Leaves(r)
       \/ \E i \in 1 .. Len(stack) + 1 : RepliesFrom(r, i)

LEMMA InFacts ==
    ASSUME Placed, NEW r \in Ids, NEW l, NEW w, In(r, l, w)
    PROVE  doing[r] = w /\ at[r] \in 1 .. Len(stack) + 1 /\ at[r] # Len(stack) + 1 /\ stack[at[r]] = l /\ at[r] \in 1 .. Len(stack)
  BY DEF Placed, In

LEMMA LoggedEvent ==
    ASSUME NEW r \in Ids, NEW kind, Logged(r, kind)
    PROVE  audited \subseteq audited' /\ (Heard /\ kind \in Denials => Told(r))
<1>1. audited \subseteq audited'
  BY DEF Logged
<1>2. ASSUME Heard, kind \in Denials PROVE Told(r)
  <2>1. audited' = audited \cup {[of |-> r, kind |-> kind, status |-> 0]}
    BY <1>2 DEF Logged, Heard
  <2>2. PICK e : e = [of |-> r, kind |-> kind, status |-> 0]
    OBVIOUS
  <2>3. e \in audited' /\ e.of = r /\ e.kind = kind
    BY <2>1, <2>2
  <2> QED
    BY <1>2, <2>3 DEF Told
<1> QED
  BY <1>1, <1>2

\* An answer of the layer a request is in.
LEMMA RefusalMoves ==
    ASSUME Placed, NEW r \in Ids, NEW l, l \notin {"audit", "audit_extension"}, NEW w \in Active, In(r, l, w), NEW by, by = l, NEW code,
           AnswerFrom(r, at[r], by, code), dep' = dep, stack' = stack, audited \subseteq audited',
           l \in {"token", "governor"} /\ Heard /\ <<l, code>> # <<"token", into_response["Internal"]>> => Told(r)
    PROVE  Moves(r)
<1>1. doing[r] = w /\ at[r] \in 1 .. Len(stack) + 1 /\ at[r] # Len(stack) + 1 /\ stack[at[r]] = l
  BY InFacts
<1>2. AnswerWith(r, at[r], l, code, {}, NoList)
  BY DEF AnswerFrom
<1>3. Replies(r, at[r]) /\ answer'[r] = [status |-> code, by |-> l, headers |-> {}, list |-> NoList]
  <2>1. doing[r] \in Active /\ at[r] \in 1 .. Len(stack) + 1
    BY <1>1
  <2>2. PICK i, none, list : i \in 1 .. Len(stack) + 1 /\ i = at[r] /\ none = {} /\ list = NoList
    BY <2>1
  <2>3. AnswerWith(r, i, l, code, none, list)
    BY <1>2, <2>2
  <2>4. Replies(r, i) /\ answer'[r] = [status |-> code, by |-> l, headers |-> none, list |-> list]
    BY <2>1, <2>2, <2>3 DEF Placed, AnswerWith, Replies, Others
  <2> QED
    BY <2>2, <2>4
<1>4. answer'[r].list = NoList /\ answer'[r].by = l /\ answer'[r].status = code
  BY <1>3
<1>5. RepliesFrom(r, at[r])
  BY <1>1, <1>3, <1>4, NoListGood DEF RepliesFrom, Unheard
<1> QED
  BY <1>1, <1>5 DEF Moves

LEMMA RefuseMoves ==
    ASSUME Placed, NEW r \in Ids, NEW l, l \notin {"audit", "audit_extension"}, NEW w \in Active, In(r, l, w), NEW error, Refuse(r, error),
           dep' = dep, stack' = stack, audited \subseteq audited',
           l \in {"token", "governor"} /\ Heard => (l = "token" /\ error = "Internal") \/ Told(r)
    PROVE  Moves(r)
<1>1. stack[at[r]] = l
  BY InFacts
<1>2. AnswerFrom(r, at[r], l, into_response[error])
  BY <1>1 DEF Refuse
<1> QED
  BY <1>1, <1>2, RefusalMoves

LEMMA PassOnMoves ==
    ASSUME Placed, NEW r \in Ids, NEW l, NEW w \in Active, In(r, l, w), NEW e, PassOn(r, e),
           dep' = dep, stack' = stack, audited \subseteq audited'
    PROVE  Moves(r)
<1>1. Passes(r) /\ stack[at[r]] = l
  BY PassOnPasses, InFacts
<1> QED
  BY <1>1 DEF Moves

LEMMA AwaitMoves ==
    ASSUME Placed, NEW r \in Ids, NEW l, NEW w \in Active, In(r, l, w), NEW s \in AwaitSteps, NEW v, Await(r, s, v),
           s = "expire" => LimitStep(r), dep' = dep, stack' = stack, audited \subseteq audited'
    PROVE  Moves(r)
  BY AwaitWaits DEF Moves

LEMMA CallIsActive == "call" \in Active /\ "is_revoked" \in Active /\ "expire" \in Active /\ "cache_get" \in Active
                      /\ "evaluate" \in Active /\ "cache_set" \in Active /\ AwaitSteps \subseteq Active
  BY DEF Active, AwaitSteps

\* CallerAuthService::call.
LEMMA CallerAuthMoves ==
    ASSUME Placed, NEW r \in Ids, CallerAuthService(r)
    PROVE  Moves(r)
<1>1. In(r, "caller_auth", "call") /\ dep' = dep /\ stack' = stack /\ audited \subseteq audited'
  BY DEF CallerAuthService, Calls
<1>2. (\E e : PassOn(r, e)) \/ \E code : AnswerFrom(r, at[r], "caller_auth", code)
  BY DEF CallerAuthService
<1> QED
  BY <1>1, <1>2, PassOnMoves, RefusalMoves, CallIsActive

\* The token layers.
LEMMA TokenRefusedMoves ==
    ASSUME Placed, NEW r \in Ids, NEW w \in Active, In(r, "token", w), NEW error, NEW kind \in Denials,
           TokenRefused(r, error, kind), dep' = dep, stack' = stack
    PROVE  Moves(r)
<1>1. Refuse(r, error) /\ (dep.listener # "grpc" => Logged(r, kind)) /\ (dep.listener = "grpc" => audited' = audited)
  BY DEF TokenRefused
<1>2. audited \subseteq audited' /\ (Heard => Told(r))
  BY <1>1, LoggedEvent DEF Heard
<1> QED
  BY <1>1, <1>2, RefuseMoves

LEMMA AuthenticatedMoves ==
    ASSUME Placed, NEW r \in Ids, NEW w \in Active, In(r, "token", w), Authenticated(r), dep' = dep, stack' = stack
    PROVE  Moves(r)
<1>1. PassOn(r, [ext[r] EXCEPT !.claims = claims_of(r)])
  BY DEF Authenticated
<1>2. audited \subseteq audited'
  BY LoggedEvent DEF Authenticated
<1> QED
  BY <1>1, <1>2, PassOnMoves

LEMMA TokenMoves ==
    ASSUME Placed, NEW r \in Ids, TokenStep(r)
    PROVE  Moves(r)
<1>0. {"AuthTokenMissing", "AuthTokenInvalid", "AuthTokenRevoked"} \subseteq Denials /\ "is_revoked" \in AwaitSteps
  BY DEF Denials, AwaitSteps
<1>1. CASE TokenMiddleware(r)
  <2>1. In(r, "token", "call") /\ dep' = dep /\ stack' = stack
    BY <1>1 DEF TokenMiddleware, Calls
  <2>2. \/ PassOn(r, ext[r]) /\ audited' = audited
        \/ TokenRefused(r, "Unauthorized", "AuthTokenMissing")
        \/ TokenRefused(r, token_error, "AuthTokenInvalid")
        \/ Await(r, "is_revoked", << >>) /\ audited' = audited
        \/ Authenticated(r)
    BY <1>1 DEF TokenMiddleware
  <2>3. CASE PassOn(r, ext[r]) /\ audited' = audited
    BY <2>1, <2>3, PassOnMoves, CallIsActive
  <2>4. CASE Await(r, "is_revoked", << >>) /\ audited' = audited
    BY <1>0, <2>1, <2>4, AwaitMoves, CallIsActive
  <2> QED
    BY <1>0, <2>1, <2>2, <2>3, <2>4, TokenRefusedMoves, AuthenticatedMoves, CallIsActive
<1>2. CASE is_revoked(r)
  <2>1. In(r, "token", "is_revoked") /\ dep' = dep /\ stack' = stack
    BY <1>2 DEF is_revoked
  <2>2. \/ Refuse(r, "Internal") /\ audited' = audited
        \/ TokenRefused(r, "Unauthorized", "AuthTokenRevoked")
        \/ Authenticated(r)
    BY <1>2 DEF is_revoked
  <2>3. CASE Refuse(r, "Internal") /\ audited' = audited
    BY <2>1, <2>3, RefuseMoves, CallIsActive
  <2> QED
    BY <1>0, <2>1, <2>2, <2>3, TokenRefusedMoves, AuthenticatedMoves, CallIsActive
<1> QED
  BY <1>1, <1>2 DEF TokenStep

\* The limiters.
LEMMA BucketMoves ==
    ASSUME Placed, NEW r \in Ids, NEW l \in {"governor", "grpc_rate_limit"}, In(r, l, "call"), NEW k,
           check_with_limiter(r, k), dep' = dep, stack' = stack
    PROVE  Moves(r)
<1>1. \/ PassOn(r, ext[r]) /\ audited' = audited
      \/ /\ Refuse(r, "RateLimitExceeded")
         /\ (dep.listener = "grpc" => audited' = audited) /\ (dep.listener # "grpc" => Logged(r, "HttpRequestDenied"))
  BY DEF check_with_limiter
<1>2. CASE PassOn(r, ext[r]) /\ audited' = audited
  BY <1>2, PassOnMoves, CallIsActive
<1>3. CASE /\ Refuse(r, "RateLimitExceeded")
           /\ (dep.listener = "grpc" => audited' = audited) /\ (dep.listener # "grpc" => Logged(r, "HttpRequestDenied"))
  <2>1. audited \subseteq audited' /\ (Heard => Told(r))
    BY <1>3, LoggedEvent DEF Heard, Denials
  <2> QED
    BY <1>3, <2>1, RefuseMoves, CallIsActive
<1> QED
  BY <1>1, <1>2, <1>3

LEMMA VerdictMoves ==
    ASSUME Placed, NEW r \in Ids, NEW w \in Active, In(r, "rate_limit", w), NEW k, NEW n, NEW v,
           Verdict(r, k, n, v), dep' = dep, stack' = stack
    PROVE  Moves(r)
<1>1. \/ Refuse(r, "RateLimitExceeded") /\ Logged(r, "HttpRequestDenied")
      \/ PassOn(r, ext[r]) /\ audited' = audited
  BY DEF Verdict
<1>2. audited \subseteq audited'
  BY <1>1, LoggedEvent
<1> QED
  BY <1>1, <1>2, RefuseMoves, PassOnMoves

LEMMA LimitMoves ==
    ASSUME Placed, NEW r \in Ids, LimitStep(r)
    PROVE  Moves(r)
<1>1. CASE GovernorMiddleware(r)
  BY <1>1, BucketMoves DEF GovernorMiddleware, Calls
<1>2. CASE GrpcRateLimit(r)
  <2>1. In(r, "grpc_rate_limit", "call") /\ dep' = dep /\ stack' = stack
    BY <1>2 DEF GrpcRateLimit, Calls
  <2>2. \/ PassOn(r, ext[r]) /\ audited' = audited
        \/ \E k : check_with_limiter(r, k)
    BY <1>2 DEF GrpcRateLimit
  <2> QED
    BY <2>1, <2>2, BucketMoves, PassOnMoves, CallIsActive
<1>3. CASE RateLimitMiddleware(r)
  <2>1. In(r, "rate_limit", "call") /\ dep' = dep /\ stack' = stack
    BY <1>3 DEF RateLimitMiddleware, Calls
  <2>2. \/ PassOn(r, ext[r]) /\ audited' = audited
        \/ Refuse(r, "Redis") /\ audited' = audited
        \/ \E k : incr(r, k)
    BY <1>3 DEF RateLimitMiddleware
  <2>3. ASSUME NEW k, incr(r, k)
        PROVE  (Await(r, "expire", <<k>>) /\ audited' = audited) \/ \E n, v : Verdict(r, k, n, v)
    BY <2>3 DEF incr
  <2>4. ASSUME NEW k, Await(r, "expire", <<k>>), audited' = audited PROVE Moves(r)
    BY <2>1, <2>4, AwaitMoves, CallIsActive DEF AwaitSteps
  <2> QED
    <3>1. CASE PassOn(r, ext[r]) /\ audited' = audited
      BY <2>1, <3>1, PassOnMoves, CallIsActive
    <3>2. CASE Refuse(r, "Redis") /\ audited' = audited
      BY <2>1, <3>2, RefuseMoves, CallIsActive
    <3>3. ASSUME NEW k, incr(r, k) PROVE Moves(r)
      BY <2>1, <2>3, <2>4, <3>3, VerdictMoves, CallIsActive
    <3> QED
      BY <2>2, <3>1, <3>2, <3>3
<1>4. CASE expire(r)
  <2>1. In(r, "rate_limit", "expire") /\ dep' = dep /\ stack' = stack
    BY <1>4 DEF expire
  <2>2. \/ Refuse(r, "Redis") /\ audited' = audited
        \/ \E k, v : Verdict(r, k, 1, v)
    BY <1>4 DEF expire
  <2> QED
    BY <2>1, <2>2, RefuseMoves, VerdictMoves, CallIsActive
<1> QED
  BY <1>1, <1>2, <1>3, <1>4 DEF LimitStep

\* Policies.
LEMMA DecideMoves ==
    ASSUME Placed, NEW r \in Ids, NEW w \in Active, In(r, "cedar", w), NEW decision, Decide(r, decision),
           dep' = dep, stack' = stack
    PROVE  Moves(r)
<1>1. \/ PassOn(r, ext[r]) /\ audited' = audited
      \/ Refuse(r, "Forbidden") /\ Logged(r, "AuthPermissionDenied")
  BY DEF Decide
<1>2. audited \subseteq audited'
  BY <1>1, LoggedEvent
<1> QED
  BY <1>1, <1>2, PassOnMoves, RefuseMoves

LEMMA CedarMoves ==
    ASSUME Placed, NEW r \in Ids, CedarStep(r)
    PROVE  Moves(r)
<1>0. {"cache_get", "evaluate", "cache_set"} \subseteq AwaitSteps
  BY DEF AwaitSteps
<1>1. CASE CedarMiddleware(r)
  <2>1. In(r, "cedar", "call") /\ dep' = dep /\ stack' = stack /\ audited \subseteq audited'
    BY <1>1 DEF CedarMiddleware, Calls
  <2>2. PassOn(r, ext[r]) \/ Refuse(r, "Unauthorized") \/ Await(r, "cache_get", << >>) \/ Await(r, "evaluate", << >>)
    BY <1>1 DEF CedarMiddleware
  <2> QED
    BY <1>0, <2>1, <2>2, PassOnMoves, RefuseMoves, AwaitMoves, CallIsActive
<1>2. CASE cache_get(r)
  <2>1. In(r, "cedar", "cache_get") /\ dep' = dep /\ stack' = stack
    BY <1>2 DEF cache_get
  <2>2. \/ Refuse(r, "Internal") /\ audited' = audited
        \/ Decide(r, cache[cache_key(r)])
        \/ Await(r, "evaluate", << >>) /\ audited' = audited
    BY <1>2 DEF cache_get
  <2>3. CASE Refuse(r, "Internal") /\ audited' = audited
    BY <2>1, <2>3, RefuseMoves, CallIsActive
  <2>4. CASE Decide(r, cache[cache_key(r)])
    BY <2>1, <2>4, DecideMoves, CallIsActive
  <2>5. CASE Await(r, "evaluate", << >>) /\ audited' = audited
    BY <1>0, <2>1, <2>5, AwaitMoves, CallIsActive
  <2> QED
    BY <2>2, <2>3, <2>4, <2>5
<1>3. CASE evaluate(r)
  <2>1. In(r, "cedar", "evaluate") /\ dep' = dep /\ stack' = stack
    BY <1>3 DEF evaluate
  <2>2. PICK decision : decision = is_authorized(policy_set, ext[r].claims, build_action(r))
    OBVIOUS
  <2>3. (Await(r, "cache_set", <<decision>>) /\ audited' = audited) \/ Decide(r, decision)
    BY <1>3, <2>2 DEF evaluate
  <2> QED
    BY <1>0, <2>1, <2>3, AwaitMoves, DecideMoves, CallIsActive
<1>4. CASE cache_set(r)
  <2>1. In(r, "cedar", "cache_set") /\ dep' = dep /\ stack' = stack /\ Decide(r, held[r][1])
    BY <1>4 DEF cache_set
  <2> QED
    BY <2>1, DecideMoves, CallIsActive
<1> QED
  BY <1>1, <1>2, <1>3, <1>4 DEF CedarStep

\* Resilience, body limit and cors pass on or answer themselves.
LEMMA ResilienceMoves ==
    ASSUME Placed, NEW r \in Ids, Bulkhead(r) \/ CircuitBreaker(r) \/ BodyLimit(r) \/ Cors(r)
    PROVE  Moves(r)
<1>1. CASE Bulkhead(r)
  <2>1. In(r, "bulkhead", "call") /\ dep' = dep /\ stack' = stack /\ audited \subseteq audited'
    BY <1>1 DEF Bulkhead, Calls, others
  <2>2. PassOn(r, ext[r]) \/ AnswerFrom(r, at[r], "bulkhead", 503)
    BY <1>1 DEF Bulkhead
  <2> QED
    BY <2>1, <2>2, PassOnMoves, RefusalMoves, CallIsActive
<1>2. CASE CircuitBreaker(r)
  <2>1. In(r, "circuit_breaker", "call") /\ dep' = dep /\ stack' = stack /\ audited \subseteq audited'
    BY <1>2 DEF CircuitBreaker, Calls, others
  <2>2. PassOn(r, ext[r]) \/ AnswerFrom(r, at[r], "circuit_breaker", 503)
    BY <1>2 DEF CircuitBreaker
  <2> QED
    BY <2>1, <2>2, PassOnMoves, RefusalMoves, CallIsActive
<1>3. CASE BodyLimit(r)
  <2>1. In(r, "body_limit", "call") /\ dep' = dep /\ stack' = stack /\ audited \subseteq audited'
    BY <1>3 DEF BodyLimit, Calls, others
  <2>2. PassOn(r, ext[r]) \/ AnswerFrom(r, at[r], "body_limit", 413)
    BY <1>3 DEF BodyLimit
  <2> QED
    BY <2>1, <2>2, PassOnMoves, RefusalMoves, CallIsActive
<1>4. CASE Cors(r)
  <2>1. In(r, "cors", "call") /\ dep' = dep /\ stack' = stack /\ audited \subseteq audited'
    BY <1>4 DEF Cors, Calls, others
  <2>2. PassOn(r, ext[r]) \/ AnswerFrom(r, at[r], "cors", 200)
    BY <1>4 DEF Cors
  <2> QED
    BY <2>1, <2>2, PassOnMoves, RefusalMoves, CallIsActive
<1> QED
  BY <1>1, <1>2, <1>3, <1>4

\* An answer from an outer layer, or from the handler.
LEMMA AnswerMoves ==
    ASSUME Placed, NEW r \in Ids, doing[r] \in Active, NEW i \in 1 .. Len(stack) + 1,
           NEW by, by = IF i = Len(stack) + 1 THEN "handler" ELSE stack[i], by \notin {"token", "governor", "audit", "audit_extension"},
           NEW code, NEW headers, NEW list, GoodList(list), AnswerWith(r, i, by, code, headers, list),
           dep' = dep, stack' = stack, audited' = audited
    PROVE  Moves(r)
<1>1. Replies(r, i) /\ answer'[r] = [status |-> code, by |-> by, headers |-> headers, list |-> list]
  BY DEF Placed, AnswerWith, Replies, Others
<1>2. answer'[r].list = list /\ answer'[r].by = by
  BY <1>1
<1>3. RepliesFrom(r, i)
  BY <1>1, <1>2 DEF RepliesFrom
<1> QED
  BY <1>3 DEF Moves

LEMMA HandlerMoves ==
    ASSUME Placed, NEW r \in Ids, HandlerAnswers(r)
    PROVE  Moves(r)
<1>1. doing[r] = "handler" /\ dep' = dep /\ stack' = stack /\ audited' = audited
  BY DEF HandlerAnswers, others
<1>2. doing[r] \in Active /\ at[r] = Len(stack) + 1 /\ at[r] \in 1 .. Len(stack) + 1 /\ r \in DOMAIN dep.asks /\ dep \in Deployments
  BY <1>1 DEF Placed, Active
<1>3. PICK i : i = at[r]
  OBVIOUS
<1>4. GoodList(ListResponse(Asked(r).query, dep.rows))
  <2>1. /\ {dep.asks[r].query.page, dep.asks[r].query.per_page} \subseteq Nat \cup {Unset}
        /\ {dep.per_user_rpm, dep.per_client_rpm, dep.max_concurrent, dep.rows} \subseteq Nat
    BY <1>2, DeploymentsAssumption
  <2>2. PICK q, n : q = dep.asks[r].query /\ n = dep.rows
    OBVIOUS
  <2>3. q.page \in Nat \cup {Unset} /\ q.per_page \in Nat \cup {Unset} /\ n \in Nat
    BY <2>1, <2>2
  <2>4. GoodList(ListResponse(q, n))
    BY <2>3, ListGood
  <2> QED
    BY <2>2, <2>4 DEF Asked
<1>5. \E code, headers, list : GoodList(list) /\ AnswerWith(r, i, "handler", code, headers, list)
  <2>1. CASE Matched(r).kind = "none"
    <3>1. AnswerFrom(r, at[r], "handler", 404)
      BY <2>1 DEF HandlerAnswers
    <3> QED
      BY <3>1, <1>3, NoListGood DEF AnswerFrom
  <2>2. CASE Matched(r).kind # "none"
    <3>1. PICK s \in dep.outcomes \ {"panic", "hang"} :
            AnswerWith(r, at[r], "handler", Outcome(s), Matched(r).headers,
                       IF s = "list" THEN ListResponse(Asked(r).query, dep.rows) ELSE NoList)
      BY <2>2 DEF HandlerAnswers
    <3>2. PICK list : list = IF s = "list" THEN ListResponse(Asked(r).query, dep.rows) ELSE NoList
      OBVIOUS
    <3>3. GoodList(list)
      BY <3>2, <1>4, NoListGood
    <3>4. AnswerWith(r, i, "handler", Outcome(s), Matched(r).headers, list)
      BY <3>1, <3>2, <1>3
    <3> QED
      BY <3>3, <3>4
  <2> QED
    BY <2>1, <2>2
<1>6. PICK code, headers, list : GoodList(list) /\ AnswerWith(r, i, "handler", code, headers, list)
  BY <1>5
<1> QED
  BY <1>1, <1>2, <1>3, <1>6, AnswerMoves

LEMMA PositionFacts ==
    ASSUME Placed, NEW l, \E i \in DOMAIN stack : stack[i] = l
    PROVE  Position(l) \in 1 .. Len(stack) /\ stack[Position(l)] = l /\ Position(l) \in 1 .. Len(stack) + 1 /\ Position(l) # Len(stack) + 1
<1>1. Position(l) \in DOMAIN stack /\ stack[Position(l)] = l
  BY DEF Position
<1>2. DOMAIN stack = 1 .. Len(stack) /\ Len(stack) \in Nat
  BY DEF Placed
<1> QED
  BY <1>1, <1>2

LEMMA OuterAnswer ==
    ASSUME Placed, NEW r \in Ids, doing[r] \in Active, NEW l \in {"catch_panic", "timeout"},
           \E i \in DOMAIN stack : stack[i] = l, NEW code, AnswerFrom(r, Position(l), l, code),
           dep' = dep, stack' = stack, audited' = audited
    PROVE  Moves(r)
<1>1. PICK i : i = Position(l)
  OBVIOUS
<1>2. i \in 1 .. Len(stack) + 1 /\ i # Len(stack) + 1 /\ stack[i] = l
  BY <1>1, PositionFacts
<1>3. PICK none, list : none = {} /\ list = NoList
  OBVIOUS
<1>4. AnswerWith(r, i, l, code, none, list) /\ GoodList(list)
  BY <1>1, <1>3, NoListGood DEF AnswerFrom
<1> QED
  BY <1>2, <1>4, AnswerMoves

LEMMA PanicMoves ==
    ASSUME Placed, NEW r \in Ids, HandlerPanics(r)
    PROVE  Moves(r)
<1>1. doing[r] = "handler" /\ dep' = dep /\ stack' = stack /\ audited' = audited
  BY DEF HandlerPanics, others
<1>2. doing[r] \in Active
  BY <1>1 DEF Active
<1>3. CASE \E i \in DOMAIN stack : stack[i] = "catch_panic"
  <2>1. AnswerFrom(r, Position("catch_panic"), "catch_panic", 500)
    BY <1>3 DEF HandlerPanics
  <2> QED
    BY <1>1, <1>2, <1>3, <2>1, OuterAnswer
<1>4. CASE ~\E i \in DOMAIN stack : stack[i] = "catch_panic"
  <2>1. doing' = [doing EXCEPT ![r] = "gone"] /\ UNCHANGED <<at, held, ext, answer>>
    BY <1>4 DEF HandlerPanics
  <2>2. Leaves(r)
    BY <1>2, <2>1 DEF Leaves, Others, Placed
  <2> QED
    BY <1>1, <2>2 DEF Moves
<1> QED
  BY <1>3, <1>4

LEMMA TimeoutMoves ==
    ASSUME Placed, NEW r \in Ids, TimesOut(r)
    PROVE  Moves(r)
<1>1. /\ \E i \in DOMAIN stack : stack[i] = "timeout" /\ AnswerFrom(r, Position("timeout"), "timeout", 408)
      /\ dep' = dep /\ stack' = stack /\ audited' = audited
  BY DEF TimesOut, others
<1>2. doing[r] \in Active
  BY DEF TimesOut, Placed, Doings
<1> QED
  BY <1>1, <1>2, OuterAnswer

\* The way back.
LEMMA PassBackReturns ==
    ASSUME Placed, NEW r \in Ids, NEW l, In(r, l, "return"), PassBack(r)
    PROVE  Returns(r) /\ stack[at[r]] = l
  BY DEF Placed, In, PassBack, Returns

LEMMA BreakerMoves ==
    ASSUME Placed, NEW r \in Ids, BreakerRecords(r)
    PROVE  Moves(r)
<1>1. In(r, "circuit_breaker", "return") /\ PassBack(r) /\ dep' = dep /\ stack' = stack /\ audited' = audited
  BY DEF BreakerRecords, others
<1>2. Returns(r) /\ stack[at[r]] = "circuit_breaker"
  BY <1>1, PassBackReturns
<1> QED
  BY <1>1, <1>2 DEF Moves, ReturnsWell

LEMMA AuditMoves ==
    ASSUME Placed, NEW r \in Ids, AuditMiddleware(r)
    PROVE  Moves(r)
<1>1. In(r, "audit", "return") /\ PassBack(r) /\ dep' = dep /\ stack' = stack
  BY DEF AuditMiddleware, others
<1>2. Returns(r) /\ stack[at[r]] = "audit"
  BY <1>1, PassBackReturns
<1>3. PICK e : e = [of |-> r, status |-> answer[r].status, kind |-> "HttpRequest"]
  OBVIOUS
<1>4. audited' = IF should_audit(r) THEN audited \cup {e} ELSE audited
  BY <1>3 DEF AuditMiddleware
<1>5. e.of = r /\ e.kind = "HttpRequest" /\ e.status = answer[r].status
  BY <1>3
<1>6. dep.audit_all /\ ~starts_with_any(Asked(r).path, dep.excluded) => should_audit(r)
  BY DEF should_audit
<1>7. ReturnsWell(r)
  BY <1>2, <1>4, <1>5, <1>6 DEF ReturnsWell
<1>8. audited \subseteq audited'
  BY <1>4
<1> QED
  BY <1>1, <1>7, <1>8 DEF Moves

LEMMA ClientMoves ==
    ASSUME Placed, NEW r \in Ids, Arrive(r) \/ Disconnect(r)
    PROVE  Moves(r)
<1>1. CASE Arrive(r)
  BY <1>1 DEF Arrive, Arrives, Enters, Moves
<1>2. CASE Disconnect(r)
  <2>1. /\ doing[r] \notin {"idle", "answered", "gone"} /\ doing' = [doing EXCEPT ![r] = "gone"]
        /\ held' = [held EXCEPT ![r] = << >>] /\ UNCHANGED <<dep, stack, at, ext, answer, audited>>
    BY <1>2 DEF Disconnect, Dropped
  <2>2. doing[r] \in Active \cup {"return"}
    BY <2>1 DEF Placed, Doings
  <2>3. Others(r)
    BY <2>1 DEF Others, Placed
  <2>4. Leaves(r)
    BY <2>1, <2>2, <2>3 DEF Leaves
  <2> QED
    BY <2>1, <2>4 DEF Moves
<1> QED
  BY <1>1, <1>2

\* Everything else leaves requests alone.
Background ==
    \/ \E jti \in Jtis : revoke(jti) /\ UNCHANGED <<limitVars, cedarVars, breaker, arrived>>
    \/ \E key \in DOMAIN bucket : Replenish(key) /\ UNCHANGED <<cedarVars, breaker, arrived>>
    \/ dep.max_entries < 10 /\ cleanup_stale_limiters(dep.max_entries) /\ UNCHANGED <<cedarVars, breaker, arrived>>
    \/ \E key \in DOMAIN window : WindowEnds(key) /\ UNCHANGED <<cedarVars, breaker, arrived>>
    \/ (EditPolicies \/ reload_policies) /\ UNCHANGED <<breaker, arrived>>
    \/ \E key \in DOMAIN cache : CacheExpires(key) /\ UNCHANGED <<breaker, arrived>>
    \/ HalfOpen

LEMMA BackgroundStays ==
    ASSUME Background \/ UNCHANGED pipelineVars
    PROVE  UNCHANGED reqVars
<1>1. CASE UNCHANGED pipelineVars
  BY <1>1 DEF pipelineVars
<1>2. CASE HalfOpen
  BY <1>2 DEF HalfOpen
<1>3. ASSUME NEW jti, revoke(jti) PROVE UNCHANGED reqVars
  BY <1>3 DEF revoke
<1>4. ASSUME NEW key, Replenish(key) PROVE UNCHANGED reqVars
  BY <1>4 DEF Replenish
<1>5. ASSUME NEW key, WindowEnds(key) PROVE UNCHANGED reqVars
  BY <1>5 DEF WindowEnds
<1>6. ASSUME NEW n, cleanup_stale_limiters(n) PROVE UNCHANGED reqVars
  BY <1>6 DEF cleanup_stale_limiters
<1>7. EditPolicies \/ reload_policies => UNCHANGED reqVars
  BY DEF EditPolicies, reload_policies
<1>8. ASSUME NEW key, CacheExpires(key) PROVE UNCHANGED reqVars
  BY <1>8 DEF CacheExpires
<1> QED
  BY <1>1, <1>2, <1>3, <1>4, <1>5, <1>6, <1>7, <1>8 DEF Background

LEMMA NextMoves ==
    ASSUME Placed, [PipelineNext]_pipelineVars
    PROVE  (\E r \in Ids : Moves(r)) \/ UNCHANGED reqVars
<1>1. ASSUME NEW r \in Ids,
             \/ Arrive(r) \/ Disconnect(r) \/ CallerAuthService(r) \/ TokenStep(r) \/ LimitStep(r) \/ CedarStep(r)
             \/ Bulkhead(r) \/ CircuitBreaker(r) \/ BreakerRecords(r)
             \/ BodyLimit(r) \/ Cors(r) \/ HandlerAnswers(r) \/ HandlerPanics(r) \/ TimesOut(r)
             \/ AuditMiddleware(r)
      PROVE  Moves(r)
  BY <1>1, ClientMoves, CallerAuthMoves, TokenMoves, LimitMoves, CedarMoves, ResilienceMoves, BreakerMoves,
     HandlerMoves, PanicMoves, TimeoutMoves, AuditMoves
<1>2. (\E r \in Ids :
             \/ Arrive(r) \/ Disconnect(r) \/ CallerAuthService(r) \/ TokenStep(r) \/ LimitStep(r) \/ CedarStep(r)
             \/ Bulkhead(r) \/ CircuitBreaker(r) \/ BreakerRecords(r)
             \/ BodyLimit(r) \/ Cors(r) \/ HandlerAnswers(r) \/ HandlerPanics(r) \/ TimesOut(r)
             \/ AuditMiddleware(r))
      \/ Background \/ UNCHANGED pipelineVars
  BY DEF PipelineNext, Background
<1> QED
  BY <1>1, <1>2, BackgroundStays

LEMMA PlacedInit == PipelineInit => Placed
<1> SUFFICES ASSUME PipelineInit PROVE Placed
  OBVIOUS
<1>1. /\ dep \in Deployments /\ stack = Stack(dep)
      /\ at = [r \in Ids |-> 0] /\ doing = [r \in Ids |-> "idle"] /\ held = [r \in Ids |-> << >>]
      /\ ext = [r \in Ids |-> NoExtensions]
      /\ answer = [r \in Ids |-> [status |-> 0, by |-> "none", headers |-> {}, list |-> NoList]]
  BY DEF PipelineInit, ReqInit
<1>2. StackShape(dep, stack)
  BY <1>1, StackHasShape
<1>3. stack \in Seq(LayerNames)
  BY <1>2 DEF StackShape
<1> QED
  BY <1>1, <1>2, <1>3 DEF Placed, Doings, Active, AwaitSteps

LEMMA PlacedStep ==
    ASSUME Placed, [PipelineNext]_pipelineVars
    PROVE  Placed'
<1>1. CASE UNCHANGED reqVars
  BY <1>1, PlacedKept DEF reqVars, Stays
<1>2. ASSUME NEW r \in Ids, Moves(r) PROVE Placed'
  BY <1>2, PlacedKept DEF Moves, ReturnsWell, RepliesFrom
<1> QED
  BY <1>1, <1>2, NextMoves

-----------------------------------------------------------------------------
(* Limits.                                                                 *)

\* The requests let through in a window got different counts, each within its
\* limit.  A key that is gone does not expire.
WindowGood(w) ==
    /\ w \in [count : Nat, expires : BOOLEAN, passed : SUBSET [of : Ids, nth : Nat, limit : Nat]]
    /\ \A p \in w.passed : 1 <= p.nth /\ p.nth <= w.count /\ p.nth <= p.limit
    /\ \A p, q \in w.passed : p.nth = q.nth => p = q
    /\ w.count = 0 => ~w.expires

\* What passed a bucket and what is left in it is what there ever was.
BucketGood(b) ==
    /\ b \in [tokens : Nat, burst : Nat, added : Nat, passed : Nat]
    /\ b.tokens + b.passed = b.burst + b.added

\* Who is to set the expiry of a window got its first count, alone, and has not
\* been let through.
First(r) ==
    LET k == held[r][1] IN
    /\ k.limit \in Nat /\ k.key \in DOMAIN window
    /\ window[k.key].count # 0 /\ ~window[k.key].expires /\ \A p \in window[k.key].passed : p.nth # 1

Counts ==
    /\ \A key \in DOMAIN window : WindowGood(window[key])
    /\ \A key \in DOMAIN bucket : BucketGood(bucket[key])
    /\ \A r \in Ids : doing[r] = "expire" => First(r)
    /\ \A r, o \in Ids : doing[r] = "expire" /\ doing[o] = "expire" /\ held[r][1].key = held[o][1].key => r = o

\* One more is let through, with a count that nobody let through has.
LEMMA WindowAdmits ==
    ASSUME NEW w, WindowGood(w), NEW r \in Ids, NEW n \in Nat, NEW limit \in Nat,
           1 <= n, n <= w.count, n <= limit, \A p \in w.passed : p.nth # n,
           NEW v, v = [w EXCEPT !.passed = @ \cup {[of |-> r, nth |-> n, limit |-> limit]}]
    PROVE  /\ WindowGood(v) /\ v.count = w.count /\ v.expires = w.expires
           /\ \A p \in v.passed : p \in w.passed \/ p.nth = n
<1>1. PICK e, passed : e = [of |-> r, nth |-> n, limit |-> limit] /\ passed = w.passed \cup {e}
  OBVIOUS
<1>2. e \in [of : Ids, nth : Nat, limit : Nat] /\ e.nth = n /\ e.limit = limit
  BY <1>1
<1>3. v = [w EXCEPT !.passed = passed]
  BY <1>1
<1>4. passed \in SUBSET [of : Ids, nth : Nat, limit : Nat]
  BY <1>1, <1>2 DEF WindowGood
<1>5. /\ v \in [count : Nat, expires : BOOLEAN, passed : SUBSET [of : Ids, nth : Nat, limit : Nat]]
      /\ v.count = w.count /\ v.expires = w.expires /\ v.passed = passed
  BY <1>3, <1>4 DEF WindowGood
<1>6. \A p \in passed : p \in w.passed \/ p = e
  BY <1>1
<1>7. \A p \in passed : 1 <= p.nth /\ p.nth <= w.count /\ p.nth <= p.limit
  BY <1>2, <1>6 DEF WindowGood
<1>8. \A p, q \in passed : p.nth = q.nth => p = q
  BY <1>2, <1>6 DEF WindowGood
<1> QED
  BY <1>2, <1>5, <1>6, <1>7, <1>8 DEF WindowGood

\* Of those let through under a limit there are no more than it says: their
\* counts are different numbers up to it.
LEMMA WindowBound ==
    ASSUME NEW w, WindowGood(w), NEW p \in w.passed
    PROVE  Cardinality({q \in w.passed : q.limit <= p.limit}) <= p.limit
<1>1. PICK S, n : S = {q \in w.passed : q.limit <= p.limit} /\ n = p.limit
  OBVIOUS
<1>2. n \in Nat /\ w.passed \subseteq [of : Ids, nth : Nat, limit : Nat]
  BY <1>1 DEF WindowGood
<1>3. \A q \in S : q \in w.passed /\ q.nth \in Nat /\ 1 <= q.nth /\ q.nth <= n
  BY <1>1, <1>2 DEF WindowGood
<1>4. PICK f : f = [q \in S |-> q.nth]
  OBVIOUS
<1>5. f \in [S -> 1 .. n]
  BY <1>2, <1>3, <1>4
<1>6. \A a, b \in S : f[a] = f[b] => a = b
  BY <1>3, <1>4 DEF WindowGood
<1>7. f \in Injection(S, 1 .. n)
  BY <1>5, <1>6 DEF Injection, IsInjective
<1>8. IsFiniteSet(1 .. n) /\ Cardinality(1 .. n) = n
  <2>1. 1 \in Int /\ n \in Int
    BY <1>2
  <2>2. IsFiniteSet(1 .. n) /\ Cardinality(1 .. n) = IF 1 > n THEN 0 ELSE n - 1 + 1
    BY <2>1, FS_Interval
  <2>3. (IF 1 > n THEN 0 ELSE n - 1 + 1) = n
    BY <1>2
  <2> QED
    BY <2>2, <2>3
<1>9. Cardinality(S) <= Cardinality(1 .. n)
  BY <1>7, <1>8, FS_Injection
<1> QED
  BY <1>1, <1>8, <1>9

LEMMA BucketMoved ==
    ASSUME NEW b, BucketGood(b), NEW t \in Nat, NEW a \in Nat, NEW p \in Nat, t + p = b.burst + a,
           NEW v, v = [b EXCEPT !.tokens = t, !.added = a, !.passed = p]
    PROVE  BucketGood(v)
<1>1. v.tokens = t /\ v.burst = b.burst /\ v.added = a /\ v.passed = p
  BY DEF BucketGood
<1>2. v \in [tokens : Nat, burst : Nat, added : Nat, passed : Nat]
  BY DEF BucketGood
<1> QED
  BY <1>1, <1>2 DEF BucketGood

LEMMA RouteLimits ==
    ASSUME dep \in Deployments, NEW method, NEW path, match_route(method, path) # NoRoute
    PROVE  match_route(method, path).rpm \in Nat /\ match_route(method, path).burst \in Nat
<1>1. match_route(method, path) \in dep.routes
  <2> DEFINE exact(m) == {e \in dep.routes : ~wildcard(e.pattern) /\ e.pattern = path /\ e.method = m}
             patterns == {e \in dep.routes : /\ wildcard(e.pattern) /\ e.method \in {"any", method}
                                             /\ is_match(e.pattern, path)}
             best == {e \in patterns : \A o \in patterns :
                        calculate_specificity(o.pattern) <= calculate_specificity(e.pattern)}
  <2>1. match_route(method, path) =
          IF exact(method) # {} THEN CHOOSE e \in exact(method) : TRUE
          ELSE IF exact("any") # {} THEN CHOOSE e \in exact("any") : TRUE
          ELSE IF best # {} THEN CHOOSE e \in best : TRUE ELSE NoRoute
    BY DEF match_route
  <2>2. exact(method) \subseteq dep.routes /\ exact("any") \subseteq dep.routes /\ best \subseteq dep.routes
    OBVIOUS
  <2>3. PICK a, b, c : a = exact(method) /\ b = exact("any") /\ c = best
    OBVIOUS
  <2> HIDE DEF exact, patterns, best
  <2>4. \A S : S # {} => (CHOOSE e \in S : TRUE) \in S
    OBVIOUS
  <2> QED
    BY <2>1, <2>2, <2>3, <2>4
<1> QED
  BY <1>1, DeploymentsAssumption

LEMMA GlobalLimits ==
    ASSUME dep \in Deployments
    PROVE  dep.per_user_rpm \in Nat /\ dep.per_client_rpm \in Nat /\ \A claims : global_rpm(claims) \in Nat
<1>1. {dep.per_user_rpm, dep.per_client_rpm, dep.max_concurrent, dep.rows} \subseteq Nat
  BY DeploymentsAssumption
<1> QED
  BY <1>1 DEF global_rpm

LEMMA WindowLimit ==
    ASSUME dep \in Deployments, NEW r
    PROVE  window_key(r).limit \in Nat
<1>1. PICK route : route = match_route(Asked(r).method, normalize_path(Asked(r).path))
  OBVIOUS
<1>2. route # NoRoute => route.rpm \in Nat
  BY <1>1, RouteLimits
<1>3. PICK claims : claims = ext[r].claims
  OBVIOUS
<1>4. global_rpm(claims) \in Nat
  BY GlobalLimits
<1>5. window_key(r).limit \in {route.rpm, 0, global_rpm(claims)} /\ (window_key(r).limit = route.rpm \/ window_key(r).limit \in {0, global_rpm(claims)})
  BY <1>1, <1>3 DEF window_key, Unlimited
<1>6. CASE route # NoRoute
  <2>1. window_key(r).limit = route.rpm
    BY <1>1, <1>6 DEF window_key
  <2> QED
    BY <1>2, <1>6, <2>1
<1>7. CASE route = NoRoute
  <2>1. window_key(r).limit \in {0, global_rpm(claims)}
    BY <1>1, <1>3, <1>7 DEF window_key, Unlimited
  <2> QED
    BY <1>4, <2>1
<1> QED
  BY <1>6, <1>7

LEMMA GovernorBurst ==
    ASSUME dep \in Deployments, NEW r
    PROVE  governor_key(r).burst \in Nat
<1>1. PICK route : route = match_route(Asked(r).method, normalize_path(Asked(r).path))
  OBVIOUS
<1>2. route # NoRoute => route.burst \in Nat
  BY <1>1, RouteLimits
<1>3. PICK claims : claims = ext[r].claims
  OBVIOUS
<1>4. global_rpm(claims) \in Nat /\ dep.per_user_rpm \in Nat
  BY GlobalLimits
<1>6. CASE route # NoRoute
  <2>1. governor_key(r).burst = route.burst
    BY <1>1, <1>6 DEF governor_key
  <2> QED
    BY <1>2, <1>6, <2>1
<1>7. CASE route = NoRoute
  <2>1. governor_key(r).burst \in {global_rpm(claims) \div 10, dep.per_user_rpm \div 10}
    BY <1>1, <1>3, <1>7 DEF governor_key
  <2> QED
    BY <1>4, <2>1
<1> QED
  BY <1>6, <1>7

\* A verdict ends the request's time in the layer, and lets it through with its
\* count or leaves the window as it is.
LEMMA VerdictCounts ==
    ASSUME Placed, NEW r \in Ids, NEW k, k.limit \in Nat, NEW w, WindowGood(w), NEW n \in Nat, 1 <= n, n <= w.count,
           \A p \in w.passed : p.nth # n, Verdict(r, k, n, w)
    PROVE  /\ \E v : /\ window' = insert(window, k.key, v)
                     /\ WindowGood(v) /\ v.count = w.count /\ v.expires = w.expires
                     /\ \A p \in v.passed : p \in w.passed \/ p.nth = n
           /\ doing'[r] # "expire" /\ \A o \in Ids : o # r => doing'[o] = doing[o] /\ held'[o] = held[o]
<1>1. doing'[r] # "expire" /\ \A o \in Ids : o # r => doing'[o] = doing[o] /\ held'[o] = held[o]
  BY DEF Placed, Verdict, Refuse, AnswerFrom, AnswerWith, PassOn
<1>2. CASE n > k.limit
  <2>1. window' = insert(window, k.key, w)
    BY <1>2 DEF Verdict
  <2> QED
    BY <1>1, <2>1
<1>3. CASE ~(n > k.limit)
  <2>1. PICK limit \in Nat : limit = k.limit
    OBVIOUS
  <2>2. PICK v : v = [w EXCEPT !.passed = @ \cup {[of |-> r, nth |-> n, limit |-> limit]}]
    OBVIOUS
  <2>3. window' = insert(window, k.key, v)
    BY <1>3, <2>1, <2>2 DEF Verdict
  <2>4. n <= limit
    BY <1>3, <2>1
  <2>5. /\ WindowGood(v) /\ v.count = w.count /\ v.expires = w.expires
        /\ \A p \in v.passed : p \in w.passed \/ p.nth = n
    BY <2>1, <2>2, <2>4, WindowAdmits
  <2> QED
    BY <1>1, <2>3, <2>5
<1> QED
  BY <1>2, <1>3

\* The windows and who waits in them, once one window is another.
WindowParts(g, h, d) ==
    /\ \A key \in DOMAIN g : WindowGood(g[key])
    /\ \A r \in Ids : d[r] = "expire" =>
         /\ h[r][1].limit \in Nat /\ h[r][1].key \in DOMAIN g
         /\ g[h[r][1].key].count # 0 /\ ~g[h[r][1].key].expires /\ \A p \in g[h[r][1].key].passed : p.nth # 1
    /\ \A r, o \in Ids : d[r] = "expire" /\ d[o] = "expire" /\ h[r][1].key = h[o][1].key => r = o

LEMMA PartsOfCounts ==
    /\ Counts <=> WindowParts(window, held, doing) /\ \A key \in DOMAIN bucket : BucketGood(bucket[key])
    /\ Counts' <=> WindowParts(window', held', doing') /\ \A key \in DOMAIN bucket' : BucketGood(bucket'[key])
  BY DEF Counts, First, WindowParts

\* INCR and the count it returns: the first one is nobody's yet, any other is
\* larger than all before.
LEMMA IncrCounts ==
    ASSUME Placed, Counts, NEW r \in Ids, doing[r] = "call", NEW k, k.limit \in Nat, incr(r, k)
    PROVE  WindowParts(window', held', doing')
<1>1. PICK w : w = Keyed(window, k.key, NoCount)
  OBVIOUS
<1>2. WindowGood(w)
  <2>1. WindowGood(NoCount)
    BY DEF WindowGood, NoCount
  <2> QED
    BY <1>1, <2>1 DEF Keyed, Counts
<1>3. PICK n, c : n = w.count + 1 /\ c = [w EXCEPT !.count = n]
  OBVIOUS
<1>4. n \in Nat /\ 1 <= n /\ w.count \in Nat
  BY <1>2, <1>3 DEF WindowGood
<1>5. /\ c \in [count : Nat, expires : BOOLEAN, passed : SUBSET [of : Ids, nth : Nat, limit : Nat]]
      /\ c.count = n /\ c.expires = w.expires /\ c.passed = w.passed
  BY <1>2, <1>3, <1>4 DEF WindowGood
<1>6. \A p \in w.passed : p.nth \in Nat /\ 1 <= p.nth /\ p.nth <= w.count /\ p.nth # n
  BY <1>2, <1>3 DEF WindowGood
<1>7. WindowGood(c)
  BY <1>2, <1>3, <1>4, <1>5, <1>6 DEF WindowGood
<1>8. PICK f, key, g : f = window /\ key = k.key /\ g = window'
  OBVIOUS
<1>9. \A o \in Ids : doing[o] = "expire" => First(o) /\ o # r
  BY DEF Counts
<1>10. CASE n = 1
  <2>1. g = insert(f, key, c) /\ Await(r, "expire", <<k>>)
    BY <1>1, <1>3, <1>8, <1>10 DEF incr
  <2>2. DOMAIN g = DOMAIN f \cup {key} /\ g[key] = c /\ \A x \in DOMAIN f : x # key => g[x] = f[x]
    BY <2>1 DEF insert
  <2>3. /\ doing'[r] = "expire" /\ held'[r] = <<k>> /\ held'[r][1] = k
        /\ \A o \in Ids : o # r => doing'[o] = doing[o] /\ held'[o] = held[o]
    BY <2>1 DEF Placed, Await
  <2>4. w.count = 0 /\ w.passed = {} /\ ~w.expires
    BY <1>2, <1>3, <1>4, <1>6, <1>10 DEF WindowGood
  <2>5. ASSUME NEW o \in Ids, doing[o] = "expire" PROVE held[o][1].key # key
    <3>1. held[o][1].key \in DOMAIN window /\ window[held[o][1].key].count # 0
      BY <1>9, <2>5 DEF First
    <3>2. key \in DOMAIN window => w = window[key]
      BY <1>1, <1>8 DEF Keyed
    <3> QED
      BY <2>4, <3>1, <3>2
  <2>6. \A x \in DOMAIN g : WindowGood(g[x])
    BY <1>7, <1>8, <2>2 DEF Counts
  <2>7. ASSUME NEW o \in Ids, doing'[o] = "expire", o # r
        PROVE  /\ doing[o] = "expire" /\ held'[o] = held[o] /\ held[o][1].key # key
               /\ held[o][1].limit \in Nat /\ held[o][1].key \in DOMAIN g /\ g[held[o][1].key] = f[held[o][1].key]
    BY <1>8, <1>9, <2>2, <2>3, <2>5, <2>7 DEF First
  <2>8. \A o \in Ids : doing'[o] = "expire" =>
           /\ held'[o][1].limit \in Nat /\ held'[o][1].key \in DOMAIN g
           /\ g[held'[o][1].key].count # 0 /\ ~g[held'[o][1].key].expires
           /\ \A p \in g[held'[o][1].key].passed : p.nth # 1
    <3> SUFFICES ASSUME NEW o \in Ids, doing'[o] = "expire"
                 PROVE  /\ held'[o][1].limit \in Nat /\ held'[o][1].key \in DOMAIN g
                        /\ g[held'[o][1].key].count # 0 /\ ~g[held'[o][1].key].expires
                        /\ \A p \in g[held'[o][1].key].passed : p.nth # 1
      OBVIOUS
    <3>1. CASE o = r
      BY <1>5, <1>8, <1>10, <2>2, <2>3, <2>4, <3>1
    <3>2. CASE o # r
      BY <1>8, <1>9, <2>7, <3>2 DEF First
    <3> QED
      BY <3>1, <3>2
  <2>9. \A o, q \in Ids : doing'[o] = "expire" /\ doing'[q] = "expire" /\ held'[o][1].key = held'[q][1].key => o = q
    BY <1>8, <2>3, <2>7 DEF Counts
  <2> QED
    BY <1>8, <2>6, <2>8, <2>9 DEF WindowParts
<1>11. CASE n # 1
  <2>1. Verdict(r, k, n, c)
    BY <1>1, <1>3, <1>11 DEF incr
  <2>2. PICK v : /\ g = insert(f, key, v)
                 /\ WindowGood(v) /\ v.count = n /\ v.expires = w.expires
                 /\ \A p \in v.passed : p \in w.passed \/ p.nth = n
    BY <1>4, <1>5, <1>6, <1>7, <1>8, <2>1, VerdictCounts
  <2>3. doing'[r] # "expire" /\ \A o \in Ids : o # r => doing'[o] = doing[o] /\ held'[o] = held[o]
    BY <1>4, <1>5, <1>6, <1>7, <2>1, VerdictCounts
  <2>4. DOMAIN g = DOMAIN f \cup {key} /\ g[key] = v /\ \A x \in DOMAIN f : x # key => g[x] = f[x]
    BY <2>2 DEF insert
  <2>5. \A x \in DOMAIN g : WindowGood(g[x])
    BY <1>8, <2>2, <2>4 DEF Counts
  <2>6. \A o \in Ids : doing'[o] = "expire" => doing[o] = "expire" /\ held'[o] = held[o]
    BY <2>3
  <2>7. ASSUME NEW o \in Ids, doing'[o] = "expire"
        PROVE  /\ held[o][1].limit \in Nat /\ held[o][1].key \in DOMAIN g
               /\ g[held[o][1].key].count # 0 /\ ~g[held[o][1].key].expires
               /\ \A p \in g[held[o][1].key].passed : p.nth # 1
    <3>1. PICK x : x = held[o][1].key
      OBVIOUS
    <3>2. /\ held[o][1].limit \in Nat /\ x \in DOMAIN f /\ f[x].count # 0 /\ ~f[x].expires
          /\ \A p \in f[x].passed : p.nth # 1
      BY <1>8, <1>9, <2>6, <2>7, <3>1 DEF First
    <3>3. CASE x = key
      <4>1. w = f[x]
        BY <1>1, <1>8, <3>2, <3>3 DEF Keyed
      <4> QED
        BY <1>4, <1>11, <2>2, <2>4, <3>1, <3>2, <3>3, <4>1
    <3>4. CASE x # key
      BY <2>4, <3>1, <3>2, <3>4
    <3> QED
      BY <3>3, <3>4
  <2>8. \A o, q \in Ids : doing'[o] = "expire" /\ doing'[q] = "expire" /\ held'[o][1].key = held'[q][1].key => o = q
    BY <2>6 DEF Counts
  <2> QED
    BY <1>8, <2>5, <2>6, <2>7, <2>8 DEF WindowParts
<1> QED
  BY <1>10, <1>11

\* EXPIRE and the verdict on the first count.
LEMMA ExpireCounts ==
    ASSUME Placed, Counts, NEW r \in Ids, doing[r] = "expire", NEW k, k = held[r][1],
           Verdict(r, k, 1, [window[k.key] EXCEPT !.expires = TRUE])
    PROVE  WindowParts(window', held', doing')
<1>1. PICK f, key, g, w : f = window /\ key = k.key /\ g = window' /\ w = [f[key] EXCEPT !.expires = TRUE]
  OBVIOUS
<1>2. k.limit \in Nat /\ key \in DOMAIN f /\ f[key].count # 0 /\ \A p \in f[key].passed : p.nth # 1
  BY <1>1 DEF Counts, First
<1>3. WindowGood(f[key])
  BY <1>1, <1>2 DEF Counts
<1>4. /\ w \in [count : Nat, expires : BOOLEAN, passed : SUBSET [of : Ids, nth : Nat, limit : Nat]]
      /\ w.count = f[key].count /\ w.passed = f[key].passed
  BY <1>1, <1>3 DEF WindowGood
<1>5. WindowGood(w) /\ 1 <= w.count
  BY <1>2, <1>3, <1>4 DEF WindowGood
<1>6. Verdict(r, k, 1, w) /\ 1 \in Nat /\ \A p \in w.passed : p.nth # 1
  BY <1>1, <1>2, <1>4
<1>7. PICK v : window' = insert(window, k.key, v) /\ WindowGood(v)
  BY <1>2, <1>5, <1>6, VerdictCounts
<1>8. doing'[r] # "expire" /\ \A o \in Ids : o # r => doing'[o] = doing[o] /\ held'[o] = held[o]
  BY <1>2, <1>5, <1>6, VerdictCounts
<1>9. DOMAIN g = DOMAIN f \cup {key} /\ g[key] = v /\ \A x \in DOMAIN f : x # key => g[x] = f[x]
  BY <1>1, <1>7 DEF insert
<1>10. \A x \in DOMAIN g : WindowGood(g[x])
  BY <1>1, <1>7, <1>9 DEF Counts
<1>11. \A o \in Ids : doing'[o] = "expire" => o # r /\ doing[o] = "expire" /\ held'[o] = held[o] /\ held[o][1].key # key
  BY <1>1, <1>8 DEF Counts
<1>12. \A o \in Ids : doing'[o] = "expire" =>
         /\ held[o][1].limit \in Nat /\ held[o][1].key \in DOMAIN g /\ g[held[o][1].key] = f[held[o][1].key]
  BY <1>1, <1>9, <1>11 DEF Counts, First
<1>13. \A o \in Ids : doing'[o] = "expire" =>
           /\ held'[o][1].limit \in Nat /\ held'[o][1].key \in DOMAIN g
           /\ g[held'[o][1].key].count # 0 /\ ~g[held'[o][1].key].expires
           /\ \A p \in g[held'[o][1].key].passed : p.nth # 1
  BY <1>1, <1>11, <1>12 DEF Counts, First
<1>14. \A o, q \in Ids : doing'[o] = "expire" /\ doing'[q] = "expire" /\ held'[o][1].key = held'[q][1].key => o = q
  BY <1>11 DEF Counts
<1> QED
  BY <1>1, <1>10, <1>13, <1>14 DEF WindowParts

\* Windows stay as they are as long as nobody comes to wait in them.
LEMMA NobodyNew ==
    ASSUME Counts, window' = window,
           \A o \in Ids : doing'[o] = "expire" => doing[o] = "expire" /\ held'[o] = held[o]
    PROVE  WindowParts(window', held', doing')
<1>1. \A key \in DOMAIN window' : WindowGood(window'[key])
  BY DEF Counts
<1>2. \A o \in Ids : doing'[o] = "expire" =>
           /\ held'[o][1].limit \in Nat /\ held'[o][1].key \in DOMAIN window'
           /\ window'[held'[o][1].key].count # 0 /\ ~window'[held'[o][1].key].expires
           /\ \A p \in window'[held'[o][1].key].passed : p.nth # 1
  BY DEF Counts, First
<1>3. \A o, q \in Ids : doing'[o] = "expire" /\ doing'[q] = "expire" /\ held'[o][1].key = held'[q][1].key => o = q
  BY DEF Counts
<1> QED
  BY <1>1, <1>2, <1>3 DEF WindowParts

\* A bucket gives what it has.
LEMMA BucketCounts ==
    ASSUME Counts, NEW r, NEW k, k.burst \in Nat, check_with_limiter(r, k)
    PROVE  \A key \in DOMAIN bucket' : BucketGood(bucket'[key])
<1>1. PICK b : b = Keyed(bucket, k.key, create_limiter(k.burst))
  OBVIOUS
<1>2. BucketGood(b)
  <2>1. BucketGood(create_limiter(k.burst))
    BY DEF BucketGood, create_limiter, at_least_one
  <2> QED
    BY <1>1, <2>1 DEF Keyed, Counts
<1>3. PICK v : /\ v = (IF b.tokens > 0 THEN [b EXCEPT !.tokens = @ - 1, !.passed = @ + 1] ELSE b)
  OBVIOUS
<1>4. BucketGood(v)
  <2>1. CASE b.tokens > 0
    <3>1. PICK t, a, p : t = b.tokens - 1 /\ a = b.added /\ p = b.passed + 1
      OBVIOUS
    <3>2. t \in Nat /\ a \in Nat /\ p \in Nat /\ t + p = b.burst + a
      BY <1>2, <2>1, <3>1 DEF BucketGood
    <3>3. v = [b EXCEPT !.tokens = t, !.added = a, !.passed = p]
      BY <1>2, <1>3, <2>1, <3>1 DEF BucketGood
    <3> QED
      BY <1>2, <3>2, <3>3, BucketMoved
  <2> QED
    BY <1>2, <1>3, <2>1
<1>5. bucket' = insert(bucket, k.key, v)
  BY <1>1, <1>3 DEF check_with_limiter
<1>6. PICK f, key, g : f = bucket /\ key = k.key /\ g = bucket'
  OBVIOUS
<1>7. g = insert(f, key, v)
  BY <1>5, <1>6
<1>8. DOMAIN g = DOMAIN f \cup {key} /\ g[key] = v /\ \A x \in DOMAIN f : x # key => g[x] = f[x]
  BY <1>7 DEF insert
<1> QED
  BY <1>4, <1>6, <1>8 DEF Counts

\* Who is passed on or refused waits for no expiry.
LEMMA NotWaiting ==
    ASSUME Placed, NEW r \in Ids, PassOn(r, ext[r]) \/ \E error : Refuse(r, error)
    PROVE  \A o \in Ids : doing'[o] = "expire" => doing[o] = "expire" /\ held'[o] = held[o]
  BY DEF Placed, PassOn, Refuse, AnswerFrom, AnswerWith

LEMMA LimitCounts ==
    ASSUME Placed, Counts, NEW r \in Ids, LimitStep(r)
    PROVE  Counts'
<1>0. dep \in Deployments
  BY DEF Placed
<1>1. CASE GovernorMiddleware(r)
  <2>1. check_with_limiter(r, governor_key(r)) /\ window' = window
    BY <1>1 DEF GovernorMiddleware
  <2>2. PassOn(r, ext[r]) \/ \E error : Refuse(r, error)
    BY <2>1 DEF check_with_limiter
  <2>3. \A key \in DOMAIN bucket' : BucketGood(bucket'[key])
    BY <1>0, <2>1, GovernorBurst, BucketCounts
  <2> QED
    BY <2>1, <2>2, <2>3, NotWaiting, NobodyNew, PartsOfCounts
<1>2. CASE GrpcRateLimit(r)
  <2>1. window' = window
    BY <1>2 DEF GrpcRateLimit
  <2>2. PICK k : k = [key |-> <<"grpc">>, burst |-> dep.per_user_rpm]
    OBVIOUS
  <2>3. k.burst \in Nat
    BY <1>0, <2>2, GlobalLimits
  <2>4. bucket' = bucket \/ check_with_limiter(r, k)
    BY <1>2, <2>2 DEF GrpcRateLimit
  <2>5. PassOn(r, ext[r]) \/ \E error : Refuse(r, error)
    BY <1>2 DEF GrpcRateLimit, check_with_limiter
  <2>6. \A key \in DOMAIN bucket' : BucketGood(bucket'[key])
    BY <2>3, <2>4, BucketCounts DEF Counts
  <2> QED
    BY <2>1, <2>5, <2>6, NotWaiting, NobodyNew, PartsOfCounts
<1>3. CASE RateLimitMiddleware(r)
  <2>1. bucket' = bucket /\ doing[r] = "call"
    BY <1>3 DEF RateLimitMiddleware, Calls, In
  <2>2. \/ window' = window /\ (PassOn(r, ext[r]) \/ \E error : Refuse(r, error))
        \/ incr(r, window_key(r))
    BY <1>3 DEF RateLimitMiddleware
  <2>3. PICK k : k = window_key(r) /\ k.limit \in Nat
    BY <1>0, WindowLimit
  <2>4. WindowParts(window', held', doing')
    BY <2>1, <2>2, <2>3, NotWaiting, NobodyNew, IncrCounts
  <2> QED
    BY <2>1, <2>4, PartsOfCounts
<1>4. CASE expire(r)
  <2>1. bucket' = bucket /\ doing[r] = "expire"
    BY <1>4 DEF expire, In
  <2>2. PICK k : k = held[r][1]
    OBVIOUS
  <2>3. \/ window' = window /\ \E error : Refuse(r, error)
        \/ Verdict(r, k, 1, [window[k.key] EXCEPT !.expires = TRUE])
    BY <1>4, <2>2 DEF expire
  <2>4. WindowParts(window', held', doing')
    BY <2>1, <2>2, <2>3, NotWaiting, NobodyNew, ExpireCounts
  <2> QED
    BY <2>1, <2>4, PartsOfCounts
<1> QED
  BY <1>1, <1>2, <1>3, <1>4 DEF LimitStep

LEMMA BackgroundCounts ==
    ASSUME Placed, Counts, Background
    PROVE  Counts'
<1>0. doing' = doing /\ held' = held
  BY BackgroundStays DEF reqVars
<1>1. ASSUME NEW key \in DOMAIN bucket, Replenish(key) PROVE Counts'
  <2>1. window' = window /\ bucket' = [bucket EXCEPT ![key].tokens = @ + 1, ![key].added = @ + 1]
    BY <1>1 DEF Replenish
  <2>2. PICK b : b = bucket[key]
    OBVIOUS
  <2>3. PICK v : v = [b EXCEPT !.tokens = @ + 1, !.added = @ + 1]
    OBVIOUS
  <2>4. BucketGood(v)
    <3>0. BucketGood(b)
      BY <2>2 DEF Counts
    <3>1. PICK t, a, p : t = b.tokens + 1 /\ a = b.added + 1 /\ p = b.passed
      OBVIOUS
    <3>2. t \in Nat /\ a \in Nat /\ p \in Nat /\ t + p = b.burst + a
      BY <3>0, <3>1 DEF BucketGood
    <3>3. v = [b EXCEPT !.tokens = t, !.added = a, !.passed = p]
      BY <3>0, <2>3, <3>1 DEF BucketGood
    <3> QED
      BY <3>0, <3>2, <3>3, BucketMoved
  <2>5. DOMAIN bucket' = DOMAIN bucket /\ \A x \in DOMAIN bucket : bucket'[x] = IF x = key THEN v ELSE bucket[x]
    BY <2>1, <2>2, <2>3, <1>1
  <2>6. \A x \in DOMAIN bucket' : BucketGood(bucket'[x])
    BY <2>4, <2>5 DEF Counts
  <2> QED
    BY <1>0, <2>1, <2>6, NobodyNew, PartsOfCounts
<1>2. ASSUME NEW key \in DOMAIN window, WindowEnds(key) PROVE Counts'
  <2>1. bucket' = bucket /\ window' = [window EXCEPT ![key] = NoCount] /\ window[key].expires
    BY <1>2 DEF WindowEnds
  <2>2. WindowGood(NoCount)
    BY DEF WindowGood, NoCount
  <2>3. PICK f, g : f = window /\ g = window'
    OBVIOUS
  <2>4. DOMAIN g = DOMAIN f /\ g[key] = NoCount /\ \A x \in DOMAIN f : x # key => g[x] = f[x]
    BY <1>2, <2>1, <2>3
  <2>5. \A x \in DOMAIN g : WindowGood(g[x])
    BY <2>2, <2>3, <2>4 DEF Counts
  <2>6. \A o \in Ids : doing[o] = "expire" => held[o][1].key # key
    BY <2>1 DEF Counts, First
  <2>7. \A o \in Ids : doing[o] = "expire" =>
           /\ held[o][1].limit \in Nat /\ held[o][1].key \in DOMAIN g /\ g[held[o][1].key] = f[held[o][1].key]
    BY <2>3, <2>4, <2>6 DEF Counts, First
  <2>8. \A o \in Ids : doing[o] = "expire" =>
           /\ held[o][1].limit \in Nat /\ held[o][1].key \in DOMAIN g
           /\ g[held[o][1].key].count # 0 /\ ~g[held[o][1].key].expires
           /\ \A p \in g[held[o][1].key].passed : p.nth # 1
    BY <2>3, <2>7 DEF Counts, First
  <2>9. WindowParts(window', held', doing')
    BY <1>0, <2>3, <2>5, <2>8 DEF Counts, WindowParts
  <2> QED
    BY <2>1, <2>9, PartsOfCounts DEF Counts
<1>3. ASSUME NEW n, cleanup_stale_limiters(n) PROVE Counts'
  <2>1. PICK kept \in SUBSET DOMAIN bucket : bucket' = [key \in kept |-> bucket[key]]
    BY <1>3 DEF cleanup_stale_limiters
  <2>2. window' = window
    BY <1>3 DEF cleanup_stale_limiters
  <2>3. \A key \in DOMAIN bucket' : BucketGood(bucket'[key])
    BY <2>1 DEF Counts
  <2> QED
    BY <1>0, <2>2, <2>3, NobodyNew, PartsOfCounts
<1>4. CASE (\E jti \in Jtis : revoke(jti) /\ UNCHANGED <<limitVars, cedarVars, breaker, arrived>>) \/ HalfOpen
           \/ EditPolicies \/ reload_policies \/ \E key \in DOMAIN cache : CacheExpires(key)
  <2>1. UNCHANGED limitVars
    BY <1>4 DEF HalfOpen, EditPolicies, reload_policies, CacheExpires
  <2> QED
    BY <1>0, <2>1, NobodyNew, PartsOfCounts DEF Counts, limitVars
<1> QED
  BY <1>1, <1>2, <1>3, <1>4 DEF Background

\* Only a limiter lets a request wait for an expiry.
LEMMA NobodyWaits ==
    ASSUME Placed, NEW r \in Ids, Moves(r), ~LimitStep(r)
    PROVE  \A o \in Ids : doing'[o] = "expire" => doing[o] = "expire" /\ held'[o] = held[o]
  BY DEF Placed, Moves, Enters, Passes, Waits, ReturnsWell, Returns, Leaves, RepliesFrom, Replies, Others

LEMMA CountsStep ==
    ASSUME Placed, Counts, [PipelineNext]_pipelineVars
    PROVE  Counts'
<1>1. CASE \E r \in Ids : LimitStep(r)
  BY <1>1, LimitCounts
<1>2. CASE Background
  BY <1>2, BackgroundCounts
<1>3. CASE ~(\E r \in Ids : LimitStep(r)) /\ ~Background
  <2>1. UNCHANGED limitVars
    <3>1. ASSUME NEW r \in Ids,
                 \/ Arrive(r) \/ Disconnect(r)
                 \/ CallerAuthService(r) /\ UNCHANGED <<revoked, limitVars, cedarVars, breaker, arrived>>
                 \/ TokenStep(r) /\ UNCHANGED <<limitVars, cedarVars, breaker, arrived>>
                 \/ CedarStep(r)
                 \/ Bulkhead(r) \/ CircuitBreaker(r) \/ BreakerRecords(r)
                 \/ BodyLimit(r) \/ Cors(r) \/ HandlerAnswers(r) \/ HandlerPanics(r) \/ TimesOut(r)
                 \/ AuditMiddleware(r)
          PROVE  UNCHANGED limitVars
      BY <3>1 DEF Arrive, Disconnect, CedarStep, CedarMiddleware, cache_get, evaluate, cache_set, Bulkhead, CircuitBreaker,
         BreakerRecords, BodyLimit, Cors, HandlerAnswers, HandlerPanics, TimesOut, AuditMiddleware, others
    <3>2. CASE UNCHANGED pipelineVars
      BY <3>2 DEF pipelineVars
    <3> QED
      BY <1>3, <3>1, <3>2 DEF PipelineNext, Background
  <2>2. \A o \in Ids : doing'[o] = "expire" => doing[o] = "expire" /\ held'[o] = held[o]
    <3>1. CASE UNCHANGED reqVars
      BY <3>1 DEF reqVars
    <3>2. ASSUME NEW r \in Ids, Moves(r)
          PROVE  \A o \in Ids : doing'[o] = "expire" => doing[o] = "expire" /\ held'[o] = held[o]
      BY <1>3, <3>2, NobodyWaits
    <3> QED
      BY <3>1, <3>2, NextMoves
  <2> QED
    BY <2>1, <2>2, NobodyNew, PartsOfCounts DEF Counts, limitVars
<1> QED
  BY <1>1, <1>2, <1>3

\* The listings that were sent.
Listings == \A r \in Ids : GoodList(answer[r].list)

LEMMA ListingsMove ==
    ASSUME Placed, Listings, NEW r \in Ids, Moves(r)
    PROVE  Listings'
<1>1. ASSUME NEW o \in Ids PROVE answer'[o] = answer[o] \/ GoodList(answer'[o].list)
  BY DEF Placed, Moves, Enters, Passes, Waits, ReturnsWell, Returns, Leaves, RepliesFrom, Replies, Others
<1> QED
  BY <1>1 DEF Listings, GoodList

LimitInv == Placed /\ Counts /\ Listings

\* However requests interleave, are cancelled or time out: a window of the Redis
\* limiter lets through no more requests than the limit each was under, routes
\* that share a key included, a bucket of the governor no more than it ever held,
\* and every listing keeps to its page; for any number of requests, any
\* deployment and any setting of the limits.
THEOREM LimitsAlwaysHold == PipelineSpec => []LimitsHold
<1>1. PipelineInit => LimitInv
  <2> SUFFICES ASSUME PipelineInit PROVE LimitInv
    OBVIOUS
  <2>1. Placed
    BY PlacedInit
  <2>2. Counts
    BY DEF PipelineInit, LimitInit, ReqInit, Counts
  <2>4. Listings
    <3>1. answer = [r \in Ids |-> [status |-> 0, by |-> "none", headers |-> {}, list |-> NoList]]
      BY DEF PipelineInit, ReqInit
    <3> QED
      BY <3>1, NoListGood DEF Listings
  <2> QED
    BY <2>1, <2>2, <2>4 DEF LimitInv
<1>2. LimitInv /\ [PipelineNext]_pipelineVars => LimitInv'
  <2> SUFFICES ASSUME LimitInv, [PipelineNext]_pipelineVars PROVE LimitInv'
    OBVIOUS
  <2>1. Placed' /\ Counts'
    BY PlacedStep, CountsStep DEF LimitInv
  <2>2. CASE \E r \in Ids : Moves(r)
    BY <2>1, <2>2, ListingsMove DEF LimitInv
  <2>3. CASE UNCHANGED reqVars
    <3>1. answer' = answer
      BY <2>3 DEF reqVars
    <3> QED
      BY <2>1, <3>1 DEF LimitInv, Listings
  <2> QED
    BY <2>2, <2>3, NextMoves DEF LimitInv
<1>3. LimitInv => LimitsHold
  <2> SUFFICES ASSUME LimitInv PROVE LimitsHold
    OBVIOUS
  <2>1. \A key \in DOMAIN window : \A p \in window[key].passed :
          Cardinality({q \in window[key].passed : q.limit <= p.limit}) <= p.limit
    BY WindowBound DEF LimitInv, Counts
  <2>2. ASSUME NEW key \in DOMAIN bucket PROVE bucket[key].passed <= bucket[key].burst + bucket[key].added
    <3>1. BucketGood(bucket[key])
      BY DEF LimitInv, Counts
    <3> QED
      BY <3>1 DEF BucketGood
  <2> QED
    BY <2>1, <2>2 DEF LimitInv, Listings, GoodList, LimitsHold
<1> QED
  BY <1>1, <1>2, <1>3, PTL DEF PipelineSpec

-----------------------------------------------------------------------------
(* Traces.                                                                 *)

\* Requests whose answers are to be logged, and the trace of one.
Watched(r) == Heard /\ dep.audit_all /\ ~starts_with_any(Asked(r).path, dep.excluded)
Trace(r) ==
    \E e \in audited :
        /\ e.of = r
        /\ IF answer[r].by \in {"token", "governor"} THEN e.kind \in Denials
           ELSE e.kind = "HttpRequest" /\ e.status = answer[r].status

\* An answer on its way back meets the audit layer and no other, and is none
\* of those the layers around it make.
Traced ==
    \A r \in Ids : Watched(r) =>
        /\ doing[r] = "return" => stack[at[r]] = "audit" /\ answer[r].by \notin OutsideAudit
        /\ doing[r] = "answered" => answer[r].by = "caller_auth" \/ Unheard(answer[r]) \/ Trace(r)

\* Where an answer goes next, from outside and from inside the audit layer.
LEMMA WayBack ==
    ASSUME stack \in Seq(LayerNames), NEW a, AuditMet(stack, a), NEW i \in 1 .. Len(stack) + 1
    PROVE  (i <= a => Outer(i) = 0) /\ (i > a => Outer(i) = a)
<1>1. PICK n : n = Outer(i)
  OBVIOUS
<1>2. /\ n \in Nat /\ n < i /\ n <= Len(stack) /\ (n # 0 => stack[n] \in Returning)
      /\ \A j \in 1 .. Len(stack) : n < j /\ j < i => stack[j] \notin Returning
  BY <1>1, OuterFacts
<1>3. Len(stack) \in Nat /\ a \in 1 .. Len(stack) /\ stack[a] \in Returning
  BY DEF AuditMet, Returning
<1>4. \A j \in 1 .. Len(stack) : j # a => stack[j] \notin Returning
  BY <1>3 DEF AuditMet, Returning, InsideAudit, OutsideAudit
<1>5. n = 0 \/ n = a
  BY <1>2, <1>3, <1>4
<1> QED
  BY <1>1, <1>2, <1>3, <1>5

LEMMA TracedMove ==
    ASSUME Placed, Traced, NEW r \in Ids, Moves(r)
    PROVE  Traced'
<1>0. dep' = dep /\ stack' = stack /\ audited \subseteq audited'
  BY DEF Moves
<1>1. \A o : Watched(o)' <=> Watched(o)
  BY <1>0 DEF Watched, Heard, Asked
<1>2. ASSUME NEW o \in Ids, Watched(o)
      PROVE  /\ doing'[o] = "return" => stack[at'[o]] = "audit" /\ answer'[o].by \notin OutsideAudit
             /\ doing'[o] = "answered" => answer'[o].by = "caller_auth" \/ Unheard(answer'[o]) \/ Trace(o)'
  <2>0. /\ doing[o] = "return" => stack[at[o]] = "audit" /\ answer[o].by \notin OutsideAudit
        /\ doing[o] = "answered" => answer[o].by = "caller_auth" \/ Unheard(answer[o]) \/ Trace(o)
    BY <1>2 DEF Traced
  <2>1. CASE at'[o] = at[o] /\ doing'[o] = doing[o] /\ answer'[o] = answer[o]
    BY <1>0, <2>0, <2>1 DEF Trace
  <2>2. CASE doing'[o] \notin {"return", "answered"}
    BY <2>2
  <2>3. o # r => at'[o] = at[o] /\ doing'[o] = doing[o] /\ answer'[o] = answer[o]
    BY DEF Placed, Moves, Enters, Passes, Waits, ReturnsWell, Returns, Leaves, RepliesFrom, Replies, Others
  <2>4. PICK a : AuditMet(stack, a)
    BY <1>2 DEF Placed, StackShape, Watched, Heard
  <2>5. Len(stack) \in Nat /\ stack \in Seq(LayerNames) /\ a \in 1 .. Len(stack)
    BY <2>4 DEF Placed, AuditMet
  <2>6. CASE o = r /\ (Enters(r) \/ Passes(r) \/ Waits(r) \/ Leaves(r))
    <3>1. doing'[r] \notin {"return", "answered"}
      BY <2>6 DEF Placed, Enters, Passes, Waits, Leaves, AwaitSteps
    <3> QED
      BY <2>2, <2>6, <3>1
  <2>7. CASE o = r /\ ReturnsWell(r)
    <3>1. /\ doing[r] = "return" /\ at[r] \in 1 .. Len(stack) /\ answer' = answer
          /\ doing'[r] = IF Outer(at[r]) = 0 THEN "answered" ELSE "return"
      BY <2>7 DEF Placed, ReturnsWell, Returns
    <3>2. stack[at[r]] = "audit" /\ answer[r].by \notin OutsideAudit
      BY <2>0, <2>7, <3>1
    <3>3. at[r] = a
      BY <2>4, <2>5, <3>1, <3>2 DEF AuditMet, InsideAudit, OutsideAudit
    <3>4. doing'[r] = "answered"
      BY <2>4, <2>5, <3>1, <3>3, WayBack
    <3>5. PICK e \in audited' : e.of = r /\ e.kind = "HttpRequest" /\ e.status = answer[r].status
      BY <1>2, <2>7, <3>2 DEF ReturnsWell, Watched
    <3>6. answer[r].by \notin {"token", "governor"}
      BY <3>2 DEF OutsideAudit
    <3>7. Trace(r)'
      BY <3>1, <3>5, <3>6 DEF Trace
    <3> QED
      BY <2>7, <3>4, <3>7
  <2>8. ASSUME o = r, NEW i \in 1 .. Len(stack) + 1, RepliesFrom(r, i)
        PROVE  /\ doing'[o] = "return" => stack[at'[o]] = "audit" /\ answer'[o].by \notin OutsideAudit
               /\ doing'[o] = "answered" => answer'[o].by = "caller_auth" \/ Unheard(answer'[o]) \/ Trace(o)'
    <3>1. at'[r] = Outer(i) /\ doing'[r] = IF Outer(i) = 0 THEN "answered" ELSE "return"
      BY <2>8 DEF Placed, RepliesFrom, Replies
    <3>2. PICK by : by = answer'[r].by
      OBVIOUS
    <3>3. by = (IF i = Len(stack) + 1 THEN "handler" ELSE stack[i]) /\ by \notin {"audit", "audit_extension"}
      BY <2>8, <3>2 DEF RepliesFrom
    <3>4. CASE i <= a
      <4>1. doing'[r] = "answered"
        BY <2>4, <2>5, <3>1, <3>4, WayBack
      <4>2. by = stack[i] /\ i # a
        BY <2>4, <2>5, <3>3, <3>4 DEF AuditMet
      <4>3. by \in OutsideAudit
        BY <2>4, <2>5, <3>4, <4>2 DEF AuditMet
      <4>4. by \in {"token", "governor", "caller_auth"}
        BY <3>3, <4>3 DEF OutsideAudit
      <4>5. by \in {"token", "governor"} /\ ~Unheard(answer'[r]) => Told(r)
        BY <1>2, <2>8, <3>2 DEF RepliesFrom, Watched
      <4>6. by \in {"token", "governor"} /\ Told(r) => Trace(r)'
        BY <3>2 DEF Told, Trace
      <4> QED
        BY <2>8, <3>2, <4>1, <4>4, <4>5, <4>6
    <3>5. CASE i > a
      <4>1. Outer(i) = a
        BY <2>4, <2>5, <3>5, WayBack
      <4>2. by = "handler" \/ by \in InsideAudit
        BY <2>4, <2>5, <3>3, <3>5 DEF AuditMet
      <4>3. by \notin OutsideAudit
        BY <4>2 DEF InsideAudit, OutsideAudit
      <4> QED
        BY <2>4, <2>5, <2>8, <3>1, <3>2, <4>1, <4>3 DEF AuditMet
    <3> QED
      BY <2>5, <3>4, <3>5
  <2> QED
    BY <2>1, <2>3, <2>6, <2>7, <2>8 DEF Moves
<1> QED
  BY <1>0, <1>1, <1>2 DEF Traced, Unheard

\* With everything audited no answer from behind the certificate check goes
\* unrecorded, for any number of requests and any deployment: audit_middleware
\* and the events of the token layer and the governor leave no gap between them.
THEOREM AnswersLeaveTraces == PipelineSpec => []AnswersAreLogged
<1>1. PipelineInit => Placed /\ Traced
  <2> SUFFICES ASSUME PipelineInit PROVE Placed /\ Traced
    OBVIOUS
  <2>1. doing = [r \in Ids |-> "idle"]
    BY DEF PipelineInit, ReqInit
  <2> QED
    BY <2>1, PlacedInit DEF Traced
<1>2. Placed /\ Traced /\ [PipelineNext]_pipelineVars => Placed' /\ Traced'
  <2> SUFFICES ASSUME Placed, Traced, [PipelineNext]_pipelineVars PROVE Placed' /\ Traced'
    OBVIOUS
  <2>1. Placed'
    BY PlacedStep
  <2>2. CASE UNCHANGED reqVars
    BY <2>1, <2>2 DEF reqVars, Traced, Watched, Heard, Asked, Unheard, Trace
  <2> QED
    BY <2>1, <2>2, NextMoves, TracedMove
<1>3. Traced => AnswersAreLogged
  BY DEF Traced, Watched, Heard, Unheard, Trace, Denials, AnswersAreLogged
<1> QED
  BY <1>1, <1>2, <1>3, PTL DEF PipelineSpec

-----------------------------------------------------------------------------
(* Authority.                                                              *)

\* What a good token is, and what needs none.
Verified(r) ==
    /\ extract_token(r) /\ validate_token(Asked(r).token)
    /\ dep.revocation => claims_of(r).jti \notin arrived[r].revoked
Unasked(r) ==
    \/ dep.listener # "grpc" /\ Asked(r).method = "OPTIONS"
    \/ IF dep.listener = "grpc" THEN is_grpc_infra_path(Asked(r).path)
       ELSE Asked(r).path \in {<<"/health">>, <<"/ready">>}
              \/ starts_with_any(Asked(r).path, {<<"/swagger-ui">>, <<"/api-docs">>})
    \/ starts_with_any(Asked(r).path, dep.token_public)

\* The policies that count for a request permit it.
Granted(r) ==
    IF dep.cached
    THEN \E v \in 1 .. policy_set : \E o \in DOMAIN dep.asks :
            claims_of(o).sub = claims_of(r).sub /\ is_authorized(v, claims_of(o), build_action(r))
    ELSE \E v \in arrived[r].policy_set .. policy_set : is_authorized(v, claims_of(r), build_action(r))

\* What each layer has seen to once a request with these claims is past it.
Checked(r, l, claims) ==
    /\ l = "caller_auth" /\ Certified(dep) =>
         is_exempt(Asked(r).path) \/ BringsCertificate(r) \/ (dep.caller = "mtls-or-bearer" /\ has_bearer_credential(r))
    /\ l = "token" => Unasked(r) \/ Verified(r) \/ (dep.caller = "mtls-or-bearer" /\ BringsCertificate(r))
    /\ l = "cors" => Asked(r).method # "OPTIONS"
    /\ l = "cedar" => skips_authorization(r) \/ (claims # NoClaims /\ (dep.fail_open \/ Granted(r)))

\* The extensions are true of the request.
Vouched(r, e) ==
    /\ e = [claims |-> e.claims, identity |-> e.identity]
    /\ e.claims # NoClaims => e.claims = claims_of(r) /\ Verified(r)
    /\ e.identity = "waives" => dep.caller = "mtls-or-bearer" /\ BringsCertificate(r)

\* What was checked before an await holds in it.
Meanwhile(r) ==
    /\ doing[r] = "idle" => ext[r] = NoExtensions
    /\ doing[r] = "is_revoked" => extract_token(r) /\ validate_token(Asked(r).token)
    /\ doing[r] \in {"cache_get", "evaluate", "cache_set"} => ext[r].claims # NoClaims
    /\ doing[r] \in {"cache_get", "cache_set"} => dep.cached
    /\ doing[r] = "cache_set" /\ held[r][1] => Granted(r)

PassedAll(r) == doing[r] \in Active => \A i \in 1 .. Len(stack) : i < at[r] => Checked(r, stack[i], ext[r].claims)

InForce(r) ==
    /\ arrived[r].revoked \subseteq revoked
    /\ arrived[r].policy_set \in Nat /\ arrived[r].policy_set <= policy_set

Authorized(r) == Vouched(r, ext[r]) /\ Meanwhile(r) /\ PassedAll(r) /\ InForce(r)

\* Versions only grow, and a decision in the cache was made by one of them.
Versions ==
    /\ policy_set \in Nat /\ file \in Nat /\ 1 <= policy_set /\ policy_set <= file
    /\ "none" \notin revoked /\ DOMAIN arrived = Ids
Remembered(key) ==
    \E v \in 1 .. policy_set : \E o \in DOMAIN dep.asks :
        claims_of(o).sub = key[1][2] /\ is_authorized(v, claims_of(o), key[2])
CacheSound == \A key \in DOMAIN cache : cache[key] => Remembered(key)

AuthInv == Versions /\ CacheSound /\ \A r \in Ids : Authorized(r)

\* What stays of a request's standing whoever else moves.
SameTerms(r) == dep' = dep /\ stack' = stack /\ arrived'[r] = arrived[r]
Later == revoked \subseteq revoked' /\ policy_set' \in Nat /\ policy_set <= policy_set'

LEMMA VerifiedStays ==
    ASSUME NEW r, SameTerms(r)
    PROVE  /\ Verified(r)' <=> Verified(r)
           /\ (extract_token(r) /\ validate_token(Asked(r).token))' <=> extract_token(r) /\ validate_token(Asked(r).token)
           /\ BringsCertificate(r)' <=> BringsCertificate(r)
           /\ has_bearer_credential(r)' <=> has_bearer_credential(r)
           /\ Unasked(r)' <=> Unasked(r)
           /\ skips_authorization(r)' <=> skips_authorization(r)
           /\ is_exempt(Asked(r).path)' <=> is_exempt(Asked(r).path)
<1>1. (extract_token(r) /\ validate_token(Asked(r).token))' <=> extract_token(r) /\ validate_token(Asked(r).token)
  BY DEF SameTerms, extract_token, validate_token, validate_jwt, validate_paseto, validate_with, Asked
<1>2. claims_of(r)' = claims_of(r)
  BY DEF SameTerms, claims_of, Asked
<1>3. Verified(r)' <=> Verified(r)
  BY <1>1, <1>2 DEF SameTerms, Verified
<1> QED
  BY <1>1, <1>3 DEF SameTerms, BringsCertificate, has_bearer_credential, Unasked, skips_authorization,
     is_exempt, Asked

LEMMA GrantedStays ==
    ASSUME NEW r, SameTerms(r), Later, policy_set \in Nat, InForce(r), Granted(r)
    PROVE  Granted(r)'
<1>1. \A o : claims_of(o)' = claims_of(o)
  BY DEF SameTerms, claims_of, Asked
<1>2. \A v, c, a : is_authorized(v, c, a)' <=> is_authorized(v, c, a)
  BY DEF SameTerms, is_authorized
<1>3. build_action(r)' = build_action(r)
  BY DEF SameTerms, build_action, Asked
<1>4. PICK n \in Nat, m \in Nat, lo \in Nat : n = policy_set /\ m = policy_set' /\ n <= m /\ lo = arrived[r].policy_set /\ arrived'[r].policy_set = lo
  BY DEF Later, InForce, SameTerms
<1>5. \A v : (v \in 1 .. n => v \in 1 .. m) /\ (v \in lo .. n => v \in lo .. m)
  BY <1>4
<1>6. CASE dep.cached
  <2>1. PICK v \in 1 .. n : \E o \in DOMAIN dep.asks :
            claims_of(o).sub = claims_of(r).sub /\ is_authorized(v, claims_of(o), build_action(r))
    BY <1>4, <1>6 DEF Granted
  <2>2. PICK o \in DOMAIN dep.asks :
            claims_of(o).sub = claims_of(r).sub /\ is_authorized(v, claims_of(o), build_action(r))
    BY <2>1
  <2>3. dep'.cached /\ o \in DOMAIN dep'.asks /\ v \in 1 .. policy_set'
    BY <1>4, <1>5, <1>6, <2>1, <2>2 DEF SameTerms
  <2>4. claims_of(o)'.sub = claims_of(r)'.sub /\ is_authorized(v, claims_of(o), build_action(r))'
    BY <1>1, <1>2, <1>3, <2>2 DEF SameTerms, is_authorized
  <2> QED
    BY <2>3, <2>4 DEF Granted
<1>7. CASE ~dep.cached
  <2>1. PICK v \in lo .. n : is_authorized(v, claims_of(r), build_action(r))
    BY <1>4, <1>7 DEF Granted
  <2>2. ~dep'.cached /\ v \in lo .. m
    BY <1>5, <1>7, <2>1 DEF SameTerms
  <2>3. is_authorized(v, claims_of(r), build_action(r))'
    BY <1>1, <1>3, <2>1 DEF SameTerms, is_authorized
  <2> QED
    BY <1>4, <2>2, <2>3 DEF Granted
<1> QED
  BY <1>6, <1>7

LEMMA CheckedStays ==
    ASSUME NEW r, SameTerms(r), Later, policy_set \in Nat, InForce(r), NEW l, NEW claims, Checked(r, l, claims)
    PROVE  Checked(r, l, claims)'
<1>1. Granted(r) => Granted(r)'
  BY GrantedStays
<1>2. dep' = dep /\ Asked(r)' = Asked(r)
  BY DEF SameTerms, Asked
<1> QED
  BY <1>1, <1>2, VerifiedStays DEF Checked, Certified

LEMMA VouchedStays ==
    ASSUME NEW r, SameTerms(r), NEW e, Vouched(r, e)
    PROVE  Vouched(r, e)'
<1>1. dep' = dep /\ claims_of(r)' = claims_of(r)
  BY DEF SameTerms, Asked, claims_of
<1> QED
  BY <1>1, VerifiedStays DEF Vouched

\* A request that does nothing keeps its standing.
LEMMA StillAuthorized ==
    ASSUME NEW r, SameTerms(r), Later, policy_set \in Nat, Authorized(r),
           at'[r] = at[r], doing'[r] = doing[r], held'[r] = held[r], ext'[r] = ext[r]
    PROVE  Authorized(r)'
<1>1. Vouched(r, ext[r])'
  <2>1. PICK e : e = ext[r]
    OBVIOUS
  <2>2. Vouched(r, e)'
    BY <2>1, VouchedStays DEF Authorized
  <2> QED
    BY <2>1, <2>2 DEF Vouched
<1>2. Meanwhile(r)'
  <2>1. Granted(r) => Granted(r)'
    BY GrantedStays DEF Authorized
  <2>2. dep' = dep
    BY DEF SameTerms
  <2> QED
    BY <2>1, <2>2, VerifiedStays DEF Authorized, Meanwhile
<1>3. PassedAll(r)'
  <2>1. ASSUME doing[r] \in Active, NEW i \in 1 .. Len(stack), i < at[r] PROVE Checked(r, stack[i], ext[r].claims)'
    <3>1. PICK l, claims : l = stack[i] /\ claims = ext[r].claims
      OBVIOUS
    <3>2. Checked(r, l, claims)
      BY <2>1, <3>1 DEF Authorized, PassedAll
    <3>3. Checked(r, l, claims)'
      BY <3>2, CheckedStays DEF Authorized
    <3> QED
      BY <3>1, <3>3 DEF SameTerms, Checked, Certified
  <2> QED
    BY <2>1 DEF PassedAll, SameTerms
<1>4. InForce(r)'
  BY DEF Authorized, InForce, SameTerms, Later
<1> QED
  BY <1>1, <1>2, <1>3, <1>4 DEF Authorized

\* The steps of a request, as far as its standing goes.
Terms == /\ dep' = dep /\ stack' = stack /\ revoked' = revoked /\ arrived' = arrived
         /\ policy_set' = policy_set /\ file' = file
Quits(r) == doing'[r] \in {"return", "answered", "gone"} /\ ext'[r] = ext[r]
Goes(r) ==
    /\ doing[r] \in Active /\ at[r] \in 1 .. Len(stack)
    /\ at'[r] = Inner(at[r]) /\ doing'[r] \in {"call", "handler"}
    /\ Vouched(r, ext'[r]) /\ (ext[r].claims # NoClaims => ext'[r].claims = ext[r].claims)
    /\ Checked(r, stack[at[r]], ext'[r].claims)
Asks(r) ==
    /\ doing[r] \in Active /\ at'[r] = at[r] /\ ext'[r] = ext[r] /\ doing'[r] \in AwaitSteps
    /\ doing'[r] = "is_revoked" => extract_token(r) /\ validate_token(Asked(r).token)
    /\ doing'[r] \in {"cache_get", "evaluate", "cache_set"} => ext[r].claims # NoClaims
    /\ doing'[r] \in {"cache_get", "cache_set"} => dep.cached
    /\ doing'[r] = "cache_set" /\ held'[r][1] => Granted(r)

LEMMA StepAuthorized ==
    ASSUME Placed, Versions, NEW r \in Ids, Authorized(r), Terms, Quits(r) \/ Goes(r) \/ Asks(r)
    PROVE  Authorized(r)'
<1>0. SameTerms(r) /\ Later /\ policy_set \in Nat /\ InForce(r)
  BY DEF Terms, SameTerms, Later, Versions, Authorized
<1>1. PICK e : e = ext'[r]
  OBVIOUS
<1>2. Vouched(r, e)
  BY <1>1 DEF Quits, Goes, Asks, Authorized
<1>3. Vouched(r, ext[r])'
  BY <1>0, <1>1, <1>2, VouchedStays DEF Vouched
<1>4. InForce(r)'
  BY DEF Authorized, InForce, Terms
<1>5. Granted(r) => Granted(r)'
  BY <1>0, GrantedStays
<1>6. (extract_token(r) /\ validate_token(Asked(r).token))' <=> extract_token(r) /\ validate_token(Asked(r).token)
  BY <1>0, VerifiedStays
<1>7. Meanwhile(r)'
  BY <1>5, <1>6 DEF Meanwhile, Quits, Goes, Asks, Terms, AwaitSteps
<1>8. PassedAll(r)'
  <2>1. SUFFICES ASSUME doing'[r] \in Active, NEW i \in 1 .. Len(stack), i < at'[r]
                 PROVE  Checked(r, stack[i], e.claims)'
    BY <1>1 DEF PassedAll, Terms, Checked
  <2>2. PICK l, c : l = stack[i] /\ c = e.claims
    OBVIOUS
  <2>3. doing[r] \in Active /\ at[r] \in Nat /\ stack \in Seq(LayerNames) /\ (Goes(r) \/ Asks(r))
    BY <2>1 DEF Placed, Quits, Goes, Asks, Active, AwaitSteps
  <2>4. CASE i < at[r]
    <3>1. Checked(r, l, ext[r].claims)
      BY <2>2, <2>3, <2>4 DEF Authorized, PassedAll
    <3>2. ext[r].claims # NoClaims => c = ext[r].claims
      BY <1>1, <2>2, <2>3 DEF Goes, Asks
    <3>3. Checked(r, l, c)
      BY <3>1, <3>2 DEF Checked
    <3>4. Checked(r, l, c)'
      BY <1>0, <3>3, CheckedStays
    <3> QED
      BY <2>2, <3>4 DEF Checked, Terms
  <2>5. CASE ~(i < at[r])
    <3>1. Goes(r)
      BY <2>1, <2>3, <2>5 DEF Asks
    <3>2. CASE i = at[r]
      <4>1. Checked(r, l, c)
        BY <1>1, <2>2, <3>1, <3>2 DEF Goes
      <4>2. Checked(r, l, c)'
        BY <1>0, <4>1, CheckedStays
      <4> QED
        BY <2>2, <4>2 DEF Checked, Terms
    <3>3. CASE i # at[r]
      <4>1. PICK q \in Nat : q = at[r]
        BY <2>3
      <4>2. PICK n : n = Inner(q) /\ \A j \in 1 .. Len(stack) : q < j /\ j < n => stack[j] \notin Acting
        BY <2>3, <4>1, InnerFacts
      <4>3. at'[r] = n
        BY <3>1, <4>1, <4>2 DEF Goes
      <4>4. q < i /\ i < n
        BY <2>1, <2>5, <3>3, <4>1, <4>3
      <4>5. l \notin Acting
        BY <2>2, <4>2, <4>4
      <4> QED
        BY <2>2, <4>5 DEF Checked, Acting, Terms
    <3> QED
      BY <3>2, <3>3
  <2> QED
    BY <2>4, <2>5
<1> QED
  BY <1>1, <1>3, <1>4, <1>7, <1>8 DEF Authorized

LEMMA AnswerQuits ==
    ASSUME Placed, NEW r \in Ids, NEW i, NEW by, NEW code, AnswerFrom(r, i, by, code)
    PROVE  Quits(r)
  BY DEF Placed, AnswerFrom, AnswerWith, Quits

LEMMA RefuseQuits ==
    ASSUME Placed, NEW r \in Ids, NEW error, Refuse(r, error)
    PROVE  Quits(r)
  BY DEF Placed, Refuse, AnswerFrom, AnswerWith, Quits

LEMMA PassOnGoes ==
    ASSUME Placed, NEW r \in Ids, NEW l, NEW w \in Active, In(r, l, w), NEW e, PassOn(r, e), Vouched(r, e),
           ext[r].claims # NoClaims => e.claims = ext[r].claims, Checked(r, l, e.claims)
    PROVE  Goes(r)
<1>1. doing[r] = w /\ at[r] \in 1 .. Len(stack) /\ stack[at[r]] = l
  BY InFacts
<1>2. at'[r] = Inner(at[r]) /\ doing'[r] \in {"call", "handler"} /\ ext'[r] = e
  BY DEF Placed, PassOn
<1> QED
  BY <1>1, <1>2 DEF Goes

Examining == {"caller_auth", "token", "cors", "cedar"}

\* A layer that examines nothing.
LEMMA PassOnGoesAlong ==
    ASSUME Placed, NEW r \in Ids, Authorized(r), NEW l, l \notin Examining, NEW w \in Active, In(r, l, w), PassOn(r, ext[r])
    PROVE  Goes(r)
<1>1. PICK e : e = ext[r]
  OBVIOUS
<1>2. Checked(r, l, e.claims)
  BY DEF Checked, Examining
<1> QED
  BY <1>1, <1>2, PassOnGoes DEF Authorized

LEMMA CallerAuthGoes ==
    ASSUME Placed, NEW r \in Ids, Authorized(r), CallerAuthService(r)
    PROVE  Quits(r) \/ Goes(r)
<1> DEFINE cert == Asked(r).cert
           verdict == authorize(cert, has_bearer_credential(r))
<1>0. In(r, "caller_auth", "call") /\ "call" \in Active
  BY CallIsActive DEF CallerAuthService, Calls
<1>1. CASE is_exempt(Asked(r).path) \/ verdict = "BearerDeferred"
  <2>1. PICK e : e = ext[r] /\ PassOn(r, e)
    BY <1>1 DEF CallerAuthService
  <2>2. verdict = "BearerDeferred" => dep.caller # "mtls" /\ has_bearer_credential(r)
    BY DEF authorize, authorize_certificate
  <2>3. Checked(r, "caller_auth", e.claims)
    BY <1>1, <2>2 DEF Checked, Certified
  <2> QED
    BY <1>0, <2>1, <2>3, PassOnGoes DEF Authorized
<1>2. CASE ~(is_exempt(Asked(r).path) \/ verdict = "BearerDeferred") /\ verdict \in CallerAuthError
  <2>1. AnswerFrom(r, at[r], "caller_auth", status(verdict))
    BY <1>2 DEF CallerAuthService
  <2> QED
    BY <2>1, AnswerQuits
<1>3. CASE ~(is_exempt(Asked(r).path) \/ verdict = "BearerDeferred") /\ verdict \notin CallerAuthError
  <2>1. PICK e : e = [ext[r] EXCEPT !.identity = IF waives_bearer THEN "waives" ELSE "proven"] /\ PassOn(r, e)
    BY <1>3 DEF CallerAuthService
  <2>2. verdict \in {"Certificate", "BearerDeferred"} \cup CallerAuthError
    BY DEF authorize, authorize_certificate, CallerAuthError
  <2>3. verdict = "Certificate"
    BY <1>3, <2>2
  <2>4. cert.parses /\ subject_alt_names(cert) \cap dep.allowlist # {}
    BY <2>3 DEF authorize, authorize_certificate
  <2>5. BringsCertificate(r)
    BY <2>4 DEF BringsCertificate, subject_alt_names, Range
  <2>6. e.claims = ext[r].claims /\ e.identity = (IF waives_bearer THEN "waives" ELSE "proven")
        /\ e = [claims |-> e.claims, identity |-> e.identity]
    BY <2>1 DEF Authorized, Vouched
  <2>7. Vouched(r, e)
    BY <2>5, <2>6 DEF Authorized, Vouched, waives_bearer
  <2>8. Checked(r, "caller_auth", e.claims)
    BY <2>5 DEF Checked
  <2> QED
    BY <1>0, <2>1, <2>6, <2>7, <2>8, PassOnGoes
<1> QED
  BY <1>1, <1>2, <1>3

\* The claims of a token that was verified become the request's.
LEMMA AuthenticatedGoes ==
    ASSUME Placed, NEW r \in Ids, Authorized(r), NEW w \in Active, In(r, "token", w), Verified(r), Authenticated(r)
    PROVE  Goes(r)
<1>1. PICK e : e = [ext[r] EXCEPT !.claims = claims_of(r)] /\ PassOn(r, e)
  BY DEF Authenticated
<1>2. e.claims = claims_of(r) /\ e.identity = ext[r].identity /\ e = [claims |-> e.claims, identity |-> e.identity]
  BY <1>1 DEF Authorized, Vouched
<1>3. Vouched(r, e) /\ (ext[r].claims # NoClaims => e.claims = ext[r].claims)
  BY <1>2 DEF Authorized, Vouched
<1>4. Checked(r, "token", e.claims)
  BY DEF Checked
<1> QED
  BY <1>1, <1>3, <1>4, PassOnGoes

LEMMA TokenGoes ==
    ASSUME Placed, Versions, NEW r \in Ids, Authorized(r), TokenStep(r)
    PROVE  Quits(r) \/ Goes(r) \/ Asks(r)
<1>0. arrived[r].revoked \subseteq revoked /\ "none" \notin revoked
  BY DEF Authorized, InForce, Versions
<1>1. CASE TokenMiddleware(r)
  <2>0. In(r, "token", "call") /\ "call" \in Active /\ doing[r] = "call"
    BY <1>1, CallIsActive DEF TokenMiddleware, Calls, In
  <2>1. CASE skips_authentication(r)
    <3>1. PICK e : e = ext[r] /\ PassOn(r, e)
      BY <1>1, <2>1 DEF TokenMiddleware
    <3>2. Unasked(r) \/ bearer_waived(r)
      BY <2>1 DEF skips_authentication, Unasked
    <3>3. bearer_waived(r) => dep.caller = "mtls-or-bearer" /\ BringsCertificate(r)
      BY DEF bearer_waived, Authorized, Vouched
    <3>4. Checked(r, "token", e.claims)
      BY <3>2, <3>3 DEF Checked
    <3> QED
      BY <2>0, <3>1, <3>4, PassOnGoes DEF Authorized
  <2>2. CASE ~skips_authentication(r) /\ (~extract_token(r) \/ ~validate_token(Asked(r).token))
    <3>1. \E error : Refuse(r, error)
      BY <1>1, <2>2 DEF TokenMiddleware, TokenRefused
    <3> QED
      BY <3>1, RefuseQuits
  <2>3. CASE ~skips_authentication(r) /\ extract_token(r) /\ validate_token(Asked(r).token)
    <3>1. CASE dep.revocation /\ claims_of(r).jti # "none"
      <4>1. Await(r, "is_revoked", << >>)
        BY <1>1, <2>3, <3>1 DEF TokenMiddleware
      <4>2. at' = at /\ ext' = ext /\ doing'[r] = "is_revoked"
        BY <4>1 DEF Placed, Await
      <4> QED
        BY <2>0, <2>3, <4>2 DEF Asks, AwaitSteps
    <3>2. CASE ~(dep.revocation /\ claims_of(r).jti # "none")
      <4>1. Authenticated(r)
        BY <1>1, <2>3, <3>2 DEF TokenMiddleware
      <4>2. Verified(r)
        BY <1>0, <2>3, <3>2 DEF Verified
      <4> QED
        BY <2>0, <4>1, <4>2, AuthenticatedGoes
    <3> QED
      BY <3>1, <3>2
  <2> QED
    BY <2>1, <2>2, <2>3
<1>2. CASE is_revoked(r)
  <2>0. In(r, "token", "is_revoked") /\ "is_revoked" \in Active /\ doing[r] = "is_revoked"
    BY <1>2, CallIsActive DEF is_revoked, In
  <2>1. (\E error : Refuse(r, error)) \/ (claims_of(r).jti \notin revoked /\ Authenticated(r))
    BY <1>2 DEF is_revoked, TokenRefused
  <2>2. claims_of(r).jti \notin revoked => Verified(r)
    BY <1>0, <2>0 DEF Authorized, Meanwhile, Verified
  <2> QED
    BY <2>0, <2>1, <2>2, AuthenticatedGoes, RefuseQuits
<1> QED
  BY <1>1, <1>2 DEF TokenStep

\* A limiter passes a request on as it is, or not at all.
LEMMA LimitGoes ==
    ASSUME Placed, NEW r \in Ids, Authorized(r), LimitStep(r)
    PROVE  Quits(r) \/ Goes(r) \/ Asks(r)
<1>1. PICK l, w : l \in {"governor", "grpc_rate_limit", "rate_limit"} /\ w \in {"call", "expire"} /\ In(r, l, w)
  BY DEF LimitStep, GovernorMiddleware, GrpcRateLimit, RateLimitMiddleware, expire, Calls
<1>2. w \in Active /\ doing[r] = w /\ l \notin Examining
  BY <1>1, CallIsActive DEF In, Examining
<1>3. \/ PassOn(r, ext[r]) \/ (\E error : Refuse(r, error)) \/ (\E v : Await(r, "expire", v))
  <2>1. CASE GovernorMiddleware(r)
    BY <2>1 DEF GovernorMiddleware, check_with_limiter
  <2>2. CASE GrpcRateLimit(r)
    BY <2>2 DEF GrpcRateLimit, check_with_limiter
  <2>3. CASE RateLimitMiddleware(r)
    BY <2>3 DEF RateLimitMiddleware, incr, Verdict
  <2>4. CASE expire(r)
    BY <2>4 DEF expire, Verdict
  <2> QED
    BY <2>1, <2>2, <2>3, <2>4 DEF LimitStep
<1>4. CASE PassOn(r, ext[r])
  BY <1>1, <1>2, <1>4, PassOnGoesAlong
<1>5. ASSUME NEW v, Await(r, "expire", v) PROVE Asks(r)
  <2>1. at' = at /\ ext' = ext /\ doing'[r] = "expire"
    BY <1>5 DEF Placed, Await
  <2> QED
    BY <1>2, <2>1 DEF Asks, AwaitSteps
<1> QED
  BY <1>3, <1>4, <1>5, RefuseQuits

\* A decision that permits, or fail_open, and the request goes on.
LEMMA DecideGoes ==
    ASSUME Placed, NEW r \in Ids, Authorized(r), ext[r].claims # NoClaims, NEW w \in Active, In(r, "cedar", w),
           NEW decision, Decide(r, decision), decision => Granted(r)
    PROVE  Quits(r) \/ Goes(r)
<1>1. CASE decision \/ dep.fail_open
  <2>1. PICK e : e = ext[r] /\ PassOn(r, e)
    BY <1>1 DEF Decide, apply_fail_open
  <2>2. Checked(r, "cedar", e.claims)
    BY <1>1, <2>1 DEF Checked
  <2> QED
    BY <2>1, <2>2, PassOnGoes DEF Authorized
<1>2. CASE ~(decision \/ dep.fail_open)
  <2>1. Refuse(r, "Forbidden")
    BY <1>2 DEF Decide, apply_fail_open
  <2> QED
    BY <2>1, RefuseQuits
<1> QED
  BY <1>1, <1>2

\* What the policies in force say now counts.
LEMMA NowGranted ==
    ASSUME Placed, Versions, NEW r \in Ids, Authorized(r), ext[r].claims # NoClaims, doing[r] # "idle",
           is_authorized(policy_set, ext[r].claims, build_action(r))
    PROVE  Granted(r)
<1>1. ext[r].claims = claims_of(r)
  BY DEF Authorized, Vouched
<1>2. is_authorized(policy_set, claims_of(r), build_action(r))
  BY <1>1
<1>3. policy_set \in 1 .. policy_set /\ policy_set \in arrived[r].policy_set .. policy_set
  BY DEF Versions, Authorized, InForce
<1>4. r \in DOMAIN dep.asks
  BY DEF Placed
<1> QED
  BY <1>2, <1>3, <1>4 DEF Granted

\* A decision for the same principal and action was made for its subject.
LEMMA CacheGranted ==
    ASSUME NEW r \in Ids, Authorized(r), ext[r].claims # NoClaims, dep.cached, Remembered(cache_key(r))
    PROVE  Granted(r)
<1>1. ext[r].claims = claims_of(r)
  BY DEF Authorized, Vouched
<1>2. cache_key(r)[1][2] = claims_of(r).sub /\ cache_key(r)[2] = build_action(r)
  BY <1>1 DEF cache_key, build_principal
<1> QED
  BY <1>2 DEF Remembered, Granted

LEMMA CedarGoes ==
    ASSUME Placed, Versions, CacheSound, NEW r \in Ids, Authorized(r), CedarStep(r)
    PROVE  Quits(r) \/ Goes(r) \/ Asks(r)
<1>1. CASE CedarMiddleware(r)
  <2>0. In(r, "cedar", "call") /\ "call" \in Active /\ doing[r] = "call"
    BY <1>1, CallIsActive DEF CedarMiddleware, Calls, In
  <2>1. CASE skips_authorization(r)
    <3>1. PICK e : e = ext[r] /\ PassOn(r, e)
      BY <1>1, <2>1 DEF CedarMiddleware
    <3>2. Checked(r, "cedar", e.claims)
      BY <2>1 DEF Checked
    <3> QED
      BY <2>0, <3>1, <3>2, PassOnGoes DEF Authorized
  <2>2. CASE ~skips_authorization(r) /\ ext[r].claims = NoClaims
    BY <1>1, <2>2, RefuseQuits DEF CedarMiddleware
  <2>3. CASE ~skips_authorization(r) /\ ext[r].claims # NoClaims
    <3>1. Await(r, IF dep.cached THEN "cache_get" ELSE "evaluate", << >>)
      BY <1>1, <2>3 DEF CedarMiddleware
    <3>2. at' = at /\ ext' = ext /\ doing'[r] = IF dep.cached THEN "cache_get" ELSE "evaluate"
      BY <3>1 DEF Placed, Await
    <3> QED
      BY <2>0, <2>3, <3>2 DEF Asks, AwaitSteps
  <2> QED
    BY <2>1, <2>2, <2>3
<1>2. CASE cache_get(r)
  <2>0. /\ In(r, "cedar", "cache_get") /\ "cache_get" \in Active /\ doing[r] = "cache_get"
        /\ ext[r].claims # NoClaims /\ dep.cached
    BY <1>2, CallIsActive DEF cache_get, In, Authorized, Meanwhile
  <2>1. \/ \E error : Refuse(r, error)
        \/ cache_key(r) \in DOMAIN cache /\ Decide(r, cache[cache_key(r)])
        \/ Await(r, "evaluate", << >>)
    BY <1>2 DEF cache_get
  <2>2. CASE cache_key(r) \in DOMAIN cache /\ Decide(r, cache[cache_key(r)])
    <3>1. PICK decision : decision = cache[cache_key(r)]
      OBVIOUS
    <3>2. decision => Remembered(cache_key(r))
      BY <2>2, <3>1 DEF CacheSound
    <3>3. decision => Granted(r)
      BY <2>0, <3>2, CacheGranted
    <3>4. Decide(r, decision)
      BY <2>2, <3>1
    <3> QED
      BY <2>0, <3>3, <3>4, DecideGoes
  <2>3. CASE Await(r, "evaluate", << >>)
    <3>1. at' = at /\ ext' = ext /\ doing'[r] = "evaluate"
      BY <2>3 DEF Placed, Await
    <3> QED
      BY <2>0, <3>1 DEF Asks, AwaitSteps
  <2> QED
    BY <2>1, <2>2, <2>3, RefuseQuits
<1>3. CASE evaluate(r)
  <2>0. /\ In(r, "cedar", "evaluate") /\ "evaluate" \in Active /\ doing[r] = "evaluate"
        /\ ext[r].claims # NoClaims
    BY <1>3, CallIsActive DEF evaluate, In, Authorized, Meanwhile
  <2>1. PICK decision : decision = is_authorized(policy_set, ext[r].claims, build_action(r))
    OBVIOUS
  <2>2. decision => Granted(r)
    BY <2>0, <2>1, NowGranted
  <2>3. CASE dep.cached
    <3>1. Await(r, "cache_set", <<decision>>)
      BY <1>3, <2>1, <2>3 DEF evaluate
    <3>2. at' = at /\ ext' = ext /\ doing'[r] = "cache_set" /\ held'[r] = <<decision>>
      BY <3>1 DEF Placed, Await
    <3> QED
      BY <2>0, <2>2, <2>3, <3>2 DEF Asks, AwaitSteps
  <2>4. CASE ~dep.cached
    <3>1. Decide(r, decision)
      BY <1>3, <2>1, <2>4 DEF evaluate
    <3> QED
      BY <2>0, <2>2, <3>1, DecideGoes
  <2> QED
    BY <2>3, <2>4
<1>4. CASE cache_set(r)
  <2>0. /\ In(r, "cedar", "cache_set") /\ "cache_set" \in Active /\ doing[r] = "cache_set"
        /\ ext[r].claims # NoClaims /\ (held[r][1] => Granted(r))
    BY <1>4, CallIsActive DEF cache_set, In, Authorized, Meanwhile
  <2>1. PICK decision : decision = held[r][1]
    OBVIOUS
  <2>2. Decide(r, decision) /\ (decision => Granted(r))
    BY <1>4, <2>0, <2>1 DEF cache_set
  <2> QED
    BY <2>0, <2>2, DecideGoes
<1> QED
  BY <1>1, <1>2, <1>3, <1>4 DEF CedarStep

\* The other layers, the handler, the client and the way back.
LEMMA OtherGoes ==
    ASSUME Placed, NEW r \in Ids, Authorized(r),
           \/ Bulkhead(r) \/ CircuitBreaker(r) \/ BodyLimit(r) \/ Cors(r) \/ BreakerRecords(r) \/ AuditMiddleware(r)
           \/ HandlerAnswers(r) \/ HandlerPanics(r) \/ TimesOut(r) \/ Disconnect(r)
    PROVE  Quits(r) \/ Goes(r)
<1>1. ASSUME NEW l, l \notin Examining, In(r, l, "call"), PassOn(r, ext[r]) \/ \E code : AnswerFrom(r, at[r], l, code)
      PROVE  Quits(r) \/ Goes(r)
  BY <1>1, PassOnGoesAlong, AnswerQuits, CallIsActive
<1>2. CASE Bulkhead(r)
  <2>1. In(r, "bulkhead", "call") /\ (PassOn(r, ext[r]) \/ \E code : AnswerFrom(r, at[r], "bulkhead", code))
    BY <1>2 DEF Bulkhead, Calls
  <2> QED
    BY <1>1, <2>1 DEF Examining
<1>3. CASE CircuitBreaker(r)
  <2>1. In(r, "circuit_breaker", "call") /\ (PassOn(r, ext[r]) \/ \E code : AnswerFrom(r, at[r], "circuit_breaker", code))
    BY <1>3 DEF CircuitBreaker, Calls
  <2> QED
    BY <1>1, <2>1 DEF Examining
<1>4. CASE BodyLimit(r)
  <2>1. In(r, "body_limit", "call") /\ (PassOn(r, ext[r]) \/ \E code : AnswerFrom(r, at[r], "body_limit", code))
    BY <1>4 DEF BodyLimit, Calls
  <2> QED
    BY <1>1, <2>1 DEF Examining
<1>5. CASE Cors(r)
  <2>0. In(r, "cors", "call") /\ "call" \in Active
    BY <1>5, CallIsActive DEF Cors, Calls
  <2>1. CASE Asked(r).method = "OPTIONS"
    BY <1>5, <2>1, AnswerQuits DEF Cors
  <2>2. CASE Asked(r).method # "OPTIONS"
    <3>1. PICK e : e = ext[r] /\ PassOn(r, e)
      BY <1>5, <2>2 DEF Cors
    <3>2. Checked(r, "cors", e.claims)
      BY <2>2 DEF Checked
    <3> QED
      BY <2>0, <3>1, <3>2, PassOnGoes DEF Authorized
  <2> QED
    BY <2>1, <2>2
<1>6. CASE BreakerRecords(r) \/ AuditMiddleware(r)
  <2>1. PassBack(r)
    BY <1>6 DEF BreakerRecords, AuditMiddleware
  <2> QED
    BY <2>1 DEF Placed, PassBack, Quits
<1>7. CASE HandlerAnswers(r)
  <2>1. \E i, by, code, headers, list : AnswerWith(r, i, by, code, headers, list)
    BY <1>7 DEF HandlerAnswers, AnswerFrom
  <2> QED
    BY <2>1 DEF Placed, AnswerWith, Quits
<1>8. CASE HandlerPanics(r) \/ TimesOut(r)
  <2>1. (\E i, by, code : AnswerFrom(r, i, by, code)) \/ (doing' = [doing EXCEPT ![r] = "gone"] /\ ext' = ext)
    BY <1>8 DEF HandlerPanics, TimesOut
  <2> QED
    BY <2>1, AnswerQuits DEF Placed, Quits
<1>9. CASE Disconnect(r)
  BY <1>9 DEF Disconnect, Dropped, Placed, Quits
<1> QED
  BY <1>2, <1>3, <1>4, <1>5, <1>6, <1>7, <1>8, <1>9

\* A step is a request's arrival, a request's step under the same terms, or
\* changes the terms for the requests to come.
LEMMA NextGoes ==
    ASSUME Placed, AuthInv, [PipelineNext]_pipelineVars
    PROVE  \/ \E r \in Ids : Arrive(r)
           \/ \E r \in Ids : Moves(r) /\ Terms /\ (Quits(r) \/ Goes(r) \/ Asks(r))
           \/ (Background \/ UNCHANGED pipelineVars) /\ UNCHANGED reqVars /\ arrived' = arrived
<1>0. Versions /\ CacheSound /\ \A r \in Ids : Authorized(r)
  BY DEF AuthInv
<1>1. ASSUME NEW r \in Ids,
             \/ CallerAuthService(r) /\ UNCHANGED <<revoked, limitVars, cedarVars, breaker, arrived>>
             \/ TokenStep(r) /\ UNCHANGED <<limitVars, cedarVars, breaker, arrived>>
             \/ LimitStep(r) /\ UNCHANGED <<cedarVars, breaker, arrived>>
             \/ CedarStep(r) /\ UNCHANGED <<breaker, arrived>>
      PROVE  Moves(r) /\ Terms /\ (Quits(r) \/ Goes(r) \/ Asks(r))
  <2>1. Moves(r)
    BY <1>1, CallerAuthMoves, TokenMoves, LimitMoves, CedarMoves
  <2>2. Quits(r) \/ Goes(r) \/ Asks(r)
    BY <1>0, <1>1, CallerAuthGoes, TokenGoes, LimitGoes, CedarGoes
  <2>3. dep' = dep /\ stack' = stack /\ arrived' = arrived
    BY <1>1, <2>1 DEF Moves
  <2>4. revoked' = revoked
    BY <1>1 DEF TokenStep, TokenMiddleware, is_revoked, LimitStep, GovernorMiddleware, GrpcRateLimit,
       RateLimitMiddleware, expire, CedarStep, CedarMiddleware, cache_get, evaluate, cache_set
  <2>5. policy_set' = policy_set /\ file' = file
    BY <1>1 DEF cedarVars, CedarStep, CedarMiddleware, cache_get, evaluate, cache_set
  <2> QED
    BY <2>1, <2>2, <2>3, <2>4, <2>5 DEF Terms
<1>2. ASSUME NEW r \in Ids,
             \/ Bulkhead(r) \/ CircuitBreaker(r) \/ BreakerRecords(r)
             \/ BodyLimit(r) \/ Cors(r) \/ HandlerAnswers(r) \/ HandlerPanics(r) \/ TimesOut(r)
             \/ AuditMiddleware(r) \/ Disconnect(r)
      PROVE  Moves(r) /\ Terms /\ (Quits(r) \/ Goes(r) \/ Asks(r))
  <2>1. Moves(r)
    BY <1>2, ResilienceMoves, BreakerMoves, HandlerMoves, PanicMoves, TimeoutMoves, AuditMoves, ClientMoves
  <2>2. Quits(r) \/ Goes(r)
    BY <1>0, <1>2, OtherGoes
  <2>3. Terms
    BY <1>2 DEF Terms, Bulkhead, CircuitBreaker, BreakerRecords, BodyLimit, Cors, HandlerAnswers, HandlerPanics,
       TimesOut, AuditMiddleware, Disconnect, Dropped, others, cedarVars
  <2> QED
    BY <2>1, <2>2, <2>3
<1>3. CASE Background
  <2>1. arrived' = arrived
    BY <1>3 DEF Background, HalfOpen
  <2> QED
    BY <1>3, <2>1, BackgroundStays
<1>4. CASE UNCHANGED pipelineVars
  BY <1>4, BackgroundStays DEF pipelineVars
<1> QED
  BY <1>1, <1>2, <1>3, <1>4 DEF PipelineNext, Background

-----------------------------------------------------------------------------
(* What is signed is what is read.                                         *)

\* The payload says who it was made for, in this form.
Says(p, claims, roles) ==
    /\ DOMAIN p \ known_keys = DOMAIN claims.custom
    /\ "sub" \in DOMAIN p /\ p["sub"] = Text(claims.sub)
    /\ "roles" \in DOMAIN p <=> claims.role # "none"
    /\ claims.role # "none" => p["roles"] = roles

LEMMA PayloadSays ==
    ASSUME NEW g, NEW claims, NEW e, OwnNames(claims), NEW p, p = payload_of(g, claims, e)
    PROVE  Says(p, claims, Json(claims.role)) /\ \A k \in DOMAIN claims.custom : p[k] = claims.custom[k]
<1> DEFINE jti == IF g.include_jti THEN g.id ELSE claims.jti
           iss == IF g.issuer # "none" THEN g.issuer ELSE claims.iss
           first == [sub |-> Text(claims.sub), exp |-> Text(e)]
           with_roles == IF claims.role = "none" THEN first ELSE insert(first, "roles", Json(claims.role))
           with_id == IF jti = "none" THEN with_roles ELSE insert(with_roles, "jti", Text(jti))
           with_own == extend(with_id, claims.custom)
<1>0. p = IF iss = "none" THEN with_own ELSE insert(with_own, "iss", Text(iss))
  BY DEF payload_of
<1>1. DOMAIN first = {"sub", "exp"} /\ first["sub"] = Text(claims.sub)
  OBVIOUS
<1>2. /\ DOMAIN with_roles = DOMAIN first \cup (IF claims.role = "none" THEN {} ELSE {"roles"})
      /\ with_roles["sub"] = Text(claims.sub) /\ (claims.role # "none" => with_roles["roles"] = Json(claims.role))
  <2> HIDE DEF first
  <2> QED
    BY <1>1 DEF insert
<1> HIDE DEF first, with_roles
<1>3. /\ DOMAIN with_id = DOMAIN with_roles \cup (IF jti = "none" THEN {} ELSE {"jti"})
      /\ with_id["sub"] = Text(claims.sub) /\ (claims.role # "none" => with_id["roles"] = Json(claims.role))
  <2> HIDE DEF jti
  <2> QED
    BY <1>1, <1>2 DEF insert
<1> HIDE DEF with_id, jti
<1>4. PICK own : own = claims.custom
  OBVIOUS
<1>5. \A k \in DOMAIN own : k \notin known_keys
  BY <1>4 DEF OwnNames
<1>6. {"sub", "exp", "roles", "jti", "iss"} \subseteq known_keys
  BY DEF known_keys, standard_keys
<1>7. /\ DOMAIN with_own = DOMAIN with_id \cup DOMAIN own
      /\ \A k \in DOMAIN own : with_own[k] = own[k]
      /\ \A k \in DOMAIN with_id : k \in known_keys => with_own[k] = with_id[k]
  BY <1>4, <1>5 DEF extend
<1> HIDE DEF with_own
<1>8. "sub" \in DOMAIN with_id /\ ("roles" \in DOMAIN with_id <=> claims.role # "none")
      /\ DOMAIN with_id \subseteq known_keys
  BY <1>1, <1>2, <1>3, <1>6
<1>9. /\ with_own["sub"] = Text(claims.sub) /\ (claims.role # "none" => with_own["roles"] = Json(claims.role))
      /\ "sub" \in DOMAIN with_own /\ ("roles" \in DOMAIN with_own <=> claims.role # "none")
      /\ DOMAIN with_own \ known_keys = DOMAIN own
  BY <1>3, <1>5, <1>6, <1>7, <1>8
<1>10. /\ DOMAIN p = DOMAIN with_own \cup (IF iss = "none" THEN {} ELSE {"iss"})
       /\ \A k \in DOMAIN with_own : k # "iss" => p[k] = with_own[k]
  <2> HIDE DEF iss
  <2> QED
    BY <1>0 DEF insert
<1> HIDE DEF iss
<1>11. \A k \in DOMAIN own : p[k] = own[k]
  BY <1>5, <1>6, <1>7, <1>10
<1>12. /\ p["sub"] = Text(claims.sub) /\ (claims.role # "none" => p["roles"] = Json(claims.role))
       /\ "sub" \in DOMAIN p /\ ("roles" \in DOMAIN p <=> claims.role # "none")
  BY <1>9, <1>10
<1>13. DOMAIN p \ known_keys = DOMAIN own
  BY <1>6, <1>9, <1>10
<1> QED
  BY <1>4, <1>11, <1>12, <1>13 DEF Says

LEMMA Forms ==
    ASSUME NEW v
    PROVE  /\ Text(v).form = "text" /\ Text(v).of = v /\ Json(v).form = "json" /\ Json(v).of = v
           /\ Stringified(v).form = "stringified" /\ Stringified(v).of = v
  BY DEF Text, Json, Stringified

\* PASETO turns JSON into text, and keeps what is not standard.
LEMMA NormalizedSays ==
    ASSUME NEW p, NEW claims, OwnNames(claims), Says(p, claims, Json(claims.role)),
           \A k \in DOMAIN claims.custom : p[k] = claims.custom[k],
           NEW q, q = populate_builder_claims(normalize_custom_claims(p))
    PROVE  /\ Says(q, claims, Stringified(claims.role))
           /\ \A k \in DOMAIN claims.custom :
                q[k] = IF claims.custom[k].form = "json" THEN Stringified(claims.custom[k].of) ELSE claims.custom[k]
<1>1. PICK n : n = normalize_custom_claims(p)
  OBVIOUS
<1>2. /\ DOMAIN n = DOMAIN p
      /\ \A k \in DOMAIN p :
           n[k] = IF k \in standard_keys \/ p[k].form # "json" THEN p[k] ELSE Stringified(p[k].of)
  BY <1>1 DEF normalize_custom_claims
<1>3. /\ DOMAIN q = {x \in DOMAIN n : x \notin standard_keys \/ n[x].form = "text"}
      /\ \A k \in DOMAIN q : q[k] = n[k]
  BY <1>1 DEF populate_builder_claims
<1>4. standard_keys \subseteq known_keys /\ "sub" \in standard_keys /\ "roles" \notin standard_keys /\ "roles" \in known_keys
  BY DEF standard_keys, known_keys
<1>5. "sub" \in DOMAIN p /\ p["sub"] = Text(claims.sub) /\ Text(claims.sub).form = "text"
  BY Forms DEF Says
<1>6. "sub" \in DOMAIN q /\ q["sub"] = Text(claims.sub)
  BY <1>2, <1>3, <1>4, <1>5
<1>7. "roles" \in DOMAIN q <=> claims.role # "none"
  BY <1>2, <1>3, <1>4 DEF Says
<1>8. ASSUME claims.role # "none" PROVE q["roles"] = Stringified(claims.role)
  <2>1. p["roles"].form = "json" /\ p["roles"].of = claims.role
    BY <1>8, Forms DEF Says
  <2> QED
    BY <1>2, <1>3, <1>4, <1>7, <1>8, <2>1
<1>9. DOMAIN q \ known_keys = DOMAIN p \ known_keys
  BY <1>2, <1>3, <1>4
<1>10. ASSUME NEW k \in DOMAIN claims.custom
       PROVE  q[k] = IF claims.custom[k].form = "json" THEN Stringified(claims.custom[k].of) ELSE claims.custom[k]
  <2>1. k \in DOMAIN p /\ k \notin known_keys
    BY <1>10 DEF Says
  <2>2. k \in DOMAIN q /\ k \notin standard_keys /\ p[k] = claims.custom[k]
    BY <1>2, <1>3, <1>4, <2>1
  <2> QED
    BY <1>2, <1>3, <2>1, <2>2
<1> QED
  BY <1>6, <1>7, <1>8, <1>9, <1>10 DEF Says

\* Either format reads back what its generator wrote.
LEMMA ReadBack ==
    ASSUME NEW format, NEW p, NEW claims, OwnNames(claims),
           Says(p, claims, IF format = "paseto" THEN Stringified(claims.role) ELSE Json(claims.role)),
           \A k \in DOMAIN claims.custom :
              p[k] = IF format = "paseto" /\ claims.custom[k].form = "json" THEN Stringified(claims.custom[k].of)
                     ELSE claims.custom[k]
    PROVE  /\ json_to_claims(format, p).sub = claims.sub /\ json_to_claims(format, p).role = claims.role
           /\ json_to_claims(format, p).custom = [k \in DOMAIN claims.custom |-> parsed(format, claims.custom[k])]
<1>1. json_to_claims(format, p).sub = claims.sub
  BY Forms DEF json_to_claims, Says
<1>2. json_to_claims(format, p).role = claims.role
  <2>1. json_to_claims(format, p).role = parse_string_or_array(format, p)
    BY DEF json_to_claims
  <2>2. CASE claims.role = "none"
    BY <2>1, <2>2 DEF parse_string_or_array, Has, Says
  <2>3. CASE claims.role # "none"
    <3>1. /\ "roles" \in DOMAIN p /\ p["roles"].of = claims.role
          /\ p["roles"].form = IF format = "paseto" THEN "stringified" ELSE "json"
      BY <2>3, Forms DEF Says
    <3>2. parsed(format, p["roles"]).form = "json"
      BY <3>1, Forms DEF parsed
    <3> QED
      BY <2>1, <3>1, <3>2 DEF parse_string_or_array, Has
  <2> QED
    BY <2>2, <2>3
<1>3. json_to_claims(format, p).custom = [k \in DOMAIN claims.custom |-> parsed(format, claims.custom[k])]
  <2>1. PICK own : own = claims.custom
    OBVIOUS
  <2>2. json_to_claims(format, p).custom = [k \in DOMAIN p \ known_keys |-> parsed(format, p[k])]
    BY DEF json_to_claims
  <2>3. DOMAIN p \ known_keys = DOMAIN own
    BY <2>1 DEF Says
  <2>4. ASSUME NEW k \in DOMAIN own PROVE parsed(format, p[k]) = parsed(format, own[k])
    <3>1. own[k] \in {Json(own[k].of), Text(own[k].of), Stringified(own[k].of)}
      BY <2>1 DEF OwnNames
    <3>2. own[k].form = "json" => own[k] = Json(own[k].of)
      BY <3>1, Forms
    <3>3. CASE p[k] = own[k]
      BY <3>3
    <3>4. CASE format = "paseto" /\ own[k].form = "json" /\ p[k] = Stringified(own[k].of)
      <4>1. parsed(format, p[k]) = Json(own[k].of)
        BY <3>4, Forms DEF parsed
      <4>2. parsed(format, own[k]) = own[k]
        BY <3>4 DEF parsed
      <4> QED
        BY <3>2, <3>4, <4>1, <4>2
    <3> QED
      BY <2>1, <3>3, <3>4
  <2> QED
    BY <2>1, <2>2, <2>3, <2>4
<1> QED
  BY <1>1, <1>2, <1>3

\* Subject and roles survive the way through either generator and its validator,
\* whatever generate_internal writes over and turns into text, for every key and
\* every set of claims whose own names are not the standard ones.  Of those own
\* claims a JWT gives every value back.  A PASETO gives every value back but one
\* kind, a string that is itself JSON text, which json_to_claims makes what it
\* spells: "42" comes back as the number.
THEOREM RoundTrip ==
    ASSUME NEW g, NEW claims, NEW e, OwnNames(claims), NEW p, p = generate_token(g, claims, e).payload, complete(p)
    PROVE  LET read == json_to_claims(g.format, p)
               spelled(v) == g.format = "paseto" /\ v = Stringified(v.of)
           IN  /\ read.sub = claims.sub /\ read.role = claims.role
               /\ DOMAIN read.custom = DOMAIN claims.custom
               /\ \A k \in DOMAIN claims.custom :
                    read.custom[k] = IF spelled(claims.custom[k]) THEN Json(claims.custom[k].of) ELSE claims.custom[k]
<1>1. PICK made : made = payload_of(g, claims, e)
  OBVIOUS
<1>2. Says(made, claims, Json(claims.role)) /\ \A k \in DOMAIN claims.custom : made[k] = claims.custom[k]
  BY <1>1, PayloadSays
<1>3. p = (IF g.format = "paseto" THEN populate_builder_claims(normalize_custom_claims(made)) ELSE made) \/ p = << >>
  BY <1>1 DEF generate_token, Unsigned
<1>4. p # << >>
  BY DEF complete, Has
<1>5. /\ Says(p, claims, IF g.format = "paseto" THEN Stringified(claims.role) ELSE Json(claims.role))
      /\ \A k \in DOMAIN claims.custom :
            p[k] = IF g.format = "paseto" /\ claims.custom[k].form = "json" THEN Stringified(claims.custom[k].of)
                   ELSE claims.custom[k]
  <2>1. CASE g.format = "paseto"
    <3>1. p = populate_builder_claims(normalize_custom_claims(made))
      BY <1>3, <1>4, <2>1
    <3> QED
      BY <1>2, <2>1, <3>1, NormalizedSays
  <2>2. CASE g.format # "paseto"
    BY <1>2, <1>3, <1>4, <2>2
  <2> QED
    BY <2>1, <2>2
<1>6. PICK read : read = json_to_claims(g.format, p)
  OBVIOUS
<1>7. /\ read.sub = claims.sub /\ read.role = claims.role
      /\ read.custom = [k \in DOMAIN claims.custom |-> parsed(g.format, claims.custom[k])]
  BY <1>5, <1>6, ReadBack
<1>8. ASSUME NEW k \in DOMAIN claims.custom
      PROVE  read.custom[k] = IF g.format = "paseto" /\ claims.custom[k] = Stringified(claims.custom[k].of)
                              THEN Json(claims.custom[k].of) ELSE claims.custom[k]
  <2>1. PICK v : v = claims.custom[k] /\ v \in {Json(v.of), Text(v.of), Stringified(v.of)}
    BY DEF OwnNames
  <2>2. v.form = "stringified" <=> v = Stringified(v.of)
    BY <2>1, Forms
  <2>3. read.custom[k] = parsed(g.format, v)
    BY <1>7, <2>1
  <2> QED
    BY <2>1, <2>2, <2>3 DEF parsed
<1> QED
  BY <1>6, <1>7, <1>8

-----------------------------------------------------------------------------
(* Nobody gets through without authority.                                  *)

\* A decision once made for a subject stays made.
LEMMA RememberedStays ==
    ASSUME NEW key, Remembered(key), dep' = dep, Later, policy_set \in Nat
    PROVE  Remembered(key)'
<1>1. PICK v \in 1 .. policy_set : \E o \in DOMAIN dep.asks :
          claims_of(o).sub = key[1][2] /\ is_authorized(v, claims_of(o), key[2])
  BY DEF Remembered
<1>2. PICK o \in DOMAIN dep.asks : claims_of(o).sub = key[1][2] /\ is_authorized(v, claims_of(o), key[2])
  BY <1>1
<1>3. v \in 1 .. policy_set'
  BY DEF Later
<1>4. claims_of(o)' = claims_of(o)
  BY DEF claims_of, Asked
<1>5. is_authorized(v, claims_of(o), key[2])'
  BY <1>2, <1>4 DEF is_authorized
<1> QED
  BY <1>2, <1>3, <1>4, <1>5 DEF Remembered

LEMMA GrantedRemembered ==
    ASSUME NEW r \in Ids, Authorized(r), ext[r].claims # NoClaims, dep.cached, Granted(r)
    PROVE  Remembered(cache_key(r))
<1>1. ext[r].claims = claims_of(r)
  BY DEF Authorized, Vouched
<1>2. cache_key(r)[1][2] = claims_of(r).sub /\ cache_key(r)[2] = build_action(r)
  BY <1>1 DEF cache_key, build_principal
<1> QED
  BY <1>2 DEF Remembered, Granted

LEMMA VersionsStep ==
    ASSUME Placed, AuthInv, [PipelineNext]_pipelineVars
    PROVE  Versions' /\ Later
<1>0. Versions
  BY DEF AuthInv
<1>1. CASE \E r \in Ids : Arrive(r)
  BY <1>0, <1>1 DEF Arrive, cedarVars, Versions, Later
<1>2. CASE \E r \in Ids : Moves(r) /\ Terms /\ (Quits(r) \/ Goes(r) \/ Asks(r))
  BY <1>0, <1>2 DEF Terms, Versions, Later
<1>3. CASE UNCHANGED pipelineVars
  BY <1>0, <1>3 DEF pipelineVars, cedarVars, Versions, Later
<1>4. CASE Background
  <2>1. ASSUME NEW jti \in Jtis, revoke(jti), UNCHANGED <<limitVars, cedarVars, breaker, arrived>> PROVE Versions' /\ Later
    <3>1. jti # "none"
      BY DEF Jtis
    <3> QED
      BY <1>0, <2>1, <3>1 DEF revoke, cedarVars, Versions, Later
  <2>2. CASE EditPolicies /\ arrived' = arrived
    BY <1>0, <2>2 DEF EditPolicies, Versions, Later
  <2>3. CASE reload_policies /\ arrived' = arrived
    BY <1>0, <2>3 DEF reload_policies, Versions, Later
  <2>4. ASSUME UNCHANGED <<revoked, file, policy_set, arrived>> PROVE Versions' /\ Later
    BY <1>0, <2>4 DEF Versions, Later
  <2>5. \/ \E jti \in Jtis : revoke(jti) /\ UNCHANGED <<limitVars, cedarVars, breaker, arrived>>
        \/ EditPolicies /\ arrived' = arrived
        \/ reload_policies /\ arrived' = arrived
        \/ UNCHANGED <<revoked, file, policy_set, arrived>>
    BY <1>4 DEF Background, Replenish, cleanup_stale_limiters, WindowEnds, CacheExpires, HalfOpen, cedarVars
  <2> QED
    BY <2>1, <2>2, <2>3, <2>4, <2>5
<1> QED
  BY <1>1, <1>2, <1>3, <1>4, NextGoes

LEMMA CacheStep ==
    ASSUME Placed, AuthInv, [PipelineNext]_pipelineVars
    PROVE  CacheSound'
<1>0. Versions /\ CacheSound /\ Later /\ dep' = dep /\ policy_set \in Nat /\ \A r \in Ids : Authorized(r)
  <2>1. dep' = dep
    BY NextMoves DEF Moves, reqVars
  <2> QED
    BY <2>1, VersionsStep DEF AuthInv, Versions
<1>1. ASSUME \A key \in DOMAIN cache' : (key \in DOMAIN cache /\ cache'[key] = cache[key]) \/ (cache'[key] => Remembered(key))
      PROVE  CacheSound'
  <2>1. ASSUME NEW key \in DOMAIN cache', cache'[key] PROVE Remembered(key)'
    <3>1. Remembered(key)
      BY <1>0, <1>1, <2>1 DEF CacheSound
    <3> QED
      BY <1>0, <3>1, RememberedStays
  <2> QED
    BY <2>1 DEF CacheSound
<1>2. ASSUME NEW r \in Ids, cache_set(r) PROVE CacheSound'
  <2>1. /\ doing[r] = "cache_set" /\ (cache' = cache \/ cache' = insert(cache, cache_key(r), held[r][1]))
    BY <1>2 DEF cache_set, In
  <2>2. ext[r].claims # NoClaims /\ dep.cached /\ (held[r][1] => Granted(r))
    BY <1>0, <2>1 DEF Authorized, Meanwhile
  <2>3. held[r][1] => Remembered(cache_key(r))
    BY <1>0, <2>2, GrantedRemembered
  <2>4. CASE cache' = cache
    BY <1>1, <2>4
  <2>5. CASE cache' = insert(cache, cache_key(r), held[r][1])
    <3>1. PICK k, d : k = cache_key(r) /\ d = held[r][1]
      OBVIOUS
    <3>2. cache' = insert(cache, k, d)
      BY <2>5, <3>1
    <3>3. \A key \in DOMAIN cache' : (key \in DOMAIN cache /\ cache'[key] = cache[key]) \/ (key = k /\ cache'[key] = d)
      BY <3>2 DEF insert
    <3>4. d => Remembered(k)
      BY <2>3, <3>1
    <3> QED
      BY <1>1, <3>3, <3>4
  <2> QED
    BY <2>1, <2>4, <2>5
<1>3. ASSUME NEW key, CacheExpires(key) PROVE CacheSound'
  <2>1. cache' = [k \in DOMAIN cache \ {key} |-> cache[k]]
    BY <1>3 DEF CacheExpires
  <2>2. \A k \in DOMAIN cache' : k \in DOMAIN cache /\ cache'[k] = cache[k]
    BY <2>1
  <2> QED
    BY <1>1, <2>2
<1>4. ASSUME cache' = cache PROVE CacheSound'
  BY <1>1, <1>4
<1>5. (\E r \in Ids : cache_set(r)) \/ (\E key : CacheExpires(key)) \/ cache' = cache
  <2>1. CASE UNCHANGED pipelineVars
    BY <2>1 DEF pipelineVars, cedarVars
  <2>2. CASE Background
    BY <2>2 DEF Background, HalfOpen, EditPolicies, reload_policies, cedarVars
  <2>3. ASSUME NEW r \in Ids, CedarStep(r) PROVE cache_set(r) \/ cache' = cache
    BY <2>3 DEF CedarStep, CedarMiddleware, cache_get, evaluate, cedarVars
  <2>4. ASSUME NEW r \in Ids,
             \/ Arrive(r) \/ Disconnect(r)
             \/ CallerAuthService(r) /\ UNCHANGED <<revoked, limitVars, cedarVars, breaker, arrived>>
             \/ TokenStep(r) /\ UNCHANGED <<limitVars, cedarVars, breaker, arrived>>
             \/ LimitStep(r) /\ UNCHANGED <<cedarVars, breaker, arrived>>
             \/ Bulkhead(r) \/ CircuitBreaker(r) \/ BreakerRecords(r)
             \/ BodyLimit(r) \/ Cors(r) \/ HandlerAnswers(r) \/ HandlerPanics(r) \/ TimesOut(r)
             \/ AuditMiddleware(r)
        PROVE cache' = cache
    BY <2>4 DEF Arrive, Disconnect, Bulkhead, CircuitBreaker, BreakerRecords, BodyLimit, Cors, HandlerAnswers,
       HandlerPanics, TimesOut, AuditMiddleware, others, cedarVars
  <2> QED
    BY <2>1, <2>2, <2>3, <2>4 DEF PipelineNext, Background
<1> QED
  BY <1>2, <1>3, <1>4, <1>5

\* A request that comes has shown nothing and passed nothing.
LEMMA ArrivalAuthorized ==
    ASSUME Placed, Versions, NEW r \in Ids, Authorized(r), Arrive(r)
    PROVE  Authorized(r)'
<1>1. /\ doing[r] = "idle" /\ dep' = dep /\ stack' = stack /\ ext' = ext /\ policy_set' = policy_set /\ revoked' = revoked
      /\ arrived'[r] = [policy_set |-> policy_set, revoked |-> revoked]
      /\ at'[r] = Inner(0) /\ doing'[r] \in {"call", "handler"}
  BY DEF Placed, Versions, Arrive, Arrives, cedarVars
<1>2. ext[r] = NoExtensions
  BY <1>1 DEF Authorized, Meanwhile
<1>3. ext'[r].claims = NoClaims /\ ext'[r].identity = "none" /\ ext'[r] = [claims |-> ext'[r].claims, identity |-> ext'[r].identity]
  BY <1>1, <1>2 DEF NoExtensions
<1>4. Vouched(r, ext[r])'
  BY <1>3 DEF Vouched
<1>5. Meanwhile(r)'
  BY <1>1 DEF Meanwhile
<1>6. InForce(r)'
  BY <1>1 DEF InForce, Versions
<1>7. PassedAll(r)'
  <2>1. SUFFICES ASSUME NEW i \in 1 .. Len(stack), i < at'[r] PROVE Checked(r, stack[i], ext[r].claims)'
    BY <1>1 DEF PassedAll
  <2>2. PICK n : n = Inner(0) /\ \A j \in 1 .. Len(stack) : 0 < j /\ j < n => stack[j] \notin Acting
    BY InnerFacts DEF Placed
  <2>3. stack'[i] \notin Acting
    BY <1>1, <2>1, <2>2
  <2> QED
    BY <2>3 DEF Checked, Acting
<1> QED
  BY <1>4, <1>5, <1>6, <1>7 DEF Authorized

LEMMA AuthStep ==
    ASSUME Placed, AuthInv, [PipelineNext]_pipelineVars
    PROVE  AuthInv'
<1>0. Versions /\ Versions' /\ Later /\ CacheSound' /\ policy_set \in Nat /\ \A r \in Ids : Authorized(r)
  BY VersionsStep, CacheStep DEF AuthInv, Versions
<1>1. ASSUME NEW r \in Ids, Moves(r), NEW o \in Ids, o # r
      PROVE  /\ dep' = dep /\ stack' = stack /\ at'[o] = at[o] /\ doing'[o] = doing[o]
             /\ held'[o] = held[o] /\ ext'[o] = ext[o]
  BY <1>1 DEF Placed, Moves, Enters, Passes, Waits, ReturnsWell, Returns, Leaves, RepliesFrom, Replies, Others
<1>2. ASSUME NEW r \in Ids, Arrive(r) PROVE \A o \in Ids : Authorized(o)'
  <2>1. Moves(r) /\ \A o \in Ids : o # r => arrived'[o] = arrived[o]
    BY <1>0, <1>2, ClientMoves DEF Arrive, Versions
  <2>2. ASSUME NEW o \in Ids, o # r PROVE Authorized(o)'
    BY <1>0, <1>1, <2>1, <2>2, StillAuthorized DEF SameTerms
  <2> QED
    BY <1>0, <1>2, <2>2, ArrivalAuthorized
<1>3. ASSUME NEW r \in Ids, Moves(r), Terms, Quits(r) \/ Goes(r) \/ Asks(r) PROVE \A o \in Ids : Authorized(o)'
  <2>1. ASSUME NEW o \in Ids, o # r PROVE Authorized(o)'
    BY <1>0, <1>1, <1>3, <2>1, StillAuthorized DEF SameTerms, Terms
  <2> QED
    BY <1>0, <1>3, <2>1, StepAuthorized
<1>4. CASE UNCHANGED reqVars /\ arrived' = arrived
  <2>1. ASSUME NEW o \in Ids PROVE Authorized(o)'
    BY <1>0, <1>4, StillAuthorized DEF SameTerms, reqVars
  <2> QED
    BY <1>0, <2>1 DEF AuthInv
<1> QED
  BY <1>0, <1>2, <1>3, <1>4, NextGoes DEF AuthInv

LEMMA AuthInit == PipelineInit => AuthInv
<1> SUFFICES ASSUME PipelineInit PROVE AuthInv
  OBVIOUS
<1>1. /\ doing = [r \in Ids |-> "idle"] /\ ext = [r \in Ids |-> NoExtensions]
      /\ file = 1 /\ policy_set = 1 /\ cache = << >> /\ revoked = {}
      /\ arrived = [r \in Ids |-> [policy_set |-> 0, revoked |-> {}]]
  BY DEF PipelineInit, ReqInit, TokenInit, CedarInit
<1>2. Versions
  BY <1>1 DEF Versions
<1>3. CacheSound
  BY <1>1 DEF CacheSound
<1>4. ASSUME NEW r \in Ids PROVE Authorized(r)
  <2>1. /\ doing[r] = "idle" /\ ext[r] = [claims |-> NoClaims, identity |-> "none"]
        /\ arrived[r] = [policy_set |-> 0, revoked |-> {}]
    BY <1>1 DEF NoExtensions
  <2>2. Vouched(r, ext[r])
    BY <2>1 DEF Vouched
  <2>3. Meanwhile(r)
    BY <2>1 DEF Meanwhile, NoExtensions
  <2>4. PassedAll(r)
    BY <2>1 DEF PassedAll, Active, AwaitSteps
  <2>5. InForce(r)
    BY <1>1, <2>1 DEF InForce
  <2> QED
    BY <2>2, <2>3, <2>4, <2>5 DEF Authorized
<1> QED
  BY <1>2, <1>3, <1>4 DEF AuthInv

\* A verified token is one the deployment asks for.
LEMMA VerifiedBrings ==
    ASSUME NEW r, Verified(r)
    PROVE  /\ BringsToken(r) /\ complete(Asked(r).token.payload)
           /\ Asked(r).token.key \in {"static", "rotated"} /\ Asked(r).token.format = dep.token
<1>1. PICK t : t = Asked(r).token
  OBVIOUS
<1>2. \/ validate_with(t, "static")
      \/ dep.key_manager /\ validate_with(t, "rotated")
  BY <1>1 DEF Verified, validate_token, validate_jwt, validate_paseto
<1>6. t.format = dep.token
  BY <1>1 DEF Verified, validate_token
<1>3. acceptable(t.payload, dep.issuer) /\ t.key \in (IF dep.key_manager THEN {"static", "rotated"} ELSE {"static"})
  BY <1>2 DEF validate_with
<1>4. claims_of(r).iss = as_str(t.payload, "iss")
  BY <1>1 DEF claims_of, json_to_claims
<1>5. Asked(r).header = "Bearer" /\ (dep.revocation => claims_of(r).jti \notin arrived[r].revoked)
  BY DEF Verified, extract_token
<1> QED
  BY <1>1, <1>3, <1>4, <1>5, <1>6 DEF BringsToken, acceptable

\* Whoever made the token, what is read is what was issued, PASETO's way.
LEMMA VerifiedIssued ==
    ASSUME dep \in Deployments, NEW r \in DOMAIN dep.asks, Verified(r), ext[r].claims = claims_of(r)
    PROVE  ActsAsIssued(r)
<1>1. PICK p, g, claims : p = Asked(r).token.payload /\ g = Asked(r).generator /\ claims = Asked(r).issued
  OBVIOUS
<1>2. complete(p) /\ dep.asks[r].token.key \in {"static", "rotated"} /\ Asked(r).token.format = dep.token
  BY <1>1, VerifiedBrings DEF Asked
<1>3. /\ OwnNames(claims) /\ Asked(r).token.format = g.format
      /\ \E e \in {"past", "future"} : p = generate_token(g, claims, e).payload
  BY <1>1, <1>2, SignaturesAssumption DEF Asked
<1>4. PICK e : p = generate_token(g, claims, e).payload
  BY <1>3
<1>5. PICK read : read = json_to_claims(g.format, p)
  OBVIOUS
<1>6. /\ read.sub = claims.sub /\ read.role = claims.role
      /\ DOMAIN read.custom = DOMAIN claims.custom
      /\ \A k \in DOMAIN claims.custom :
           read.custom[k] = IF g.format = "paseto" /\ claims.custom[k] = Stringified(claims.custom[k].of)
                            THEN Json(claims.custom[k].of) ELSE claims.custom[k]
  BY <1>2, <1>3, <1>4, <1>5, RoundTrip
<1>7. ext[r].claims = read /\ g.format = dep.token
  BY <1>1, <1>2, <1>3, <1>5 DEF claims_of
<1> QED
  BY <1>1, <1>6, <1>7 DEF ActsAsIssued

\* At the handler every layer of the stack is behind the request.
LEMMA ReachedChecked ==
    ASSUME Placed, AuthInv, NEW r \in Ids, doing[r] = "handler", NEW l, Holds(stack, l)
    PROVE  Checked(r, l, ext[r].claims)
<1>1. PICK i \in 1 .. Len(stack) : stack[i] = l
  BY DEF Holds
<1>2. at[r] = Len(stack) + 1 /\ Len(stack) \in Nat /\ doing[r] \in Active
  BY DEF Placed, Active
<1>3. i < at[r]
  BY <1>2
<1> QED
  BY <1>1, <1>2, <1>3 DEF AuthInv, Authorized, PassedAll

\* What the layers exempt by its path is no handler of a version.
LEMMA ExemptPaths ==
    ASSUME Placed, NEW r \in DOMAIN dep.asks, ~Infrastructure(r)
    PROVE  /\ dep.listener = "grpc" => ~is_grpc_infra_path(Asked(r).path)
           /\ dep.listener # "grpc" => /\ Asked(r).path \notin {<<"/health">>, <<"/ready">>}
                                       /\ ~starts_with_any(Asked(r).path, {<<"/swagger-ui">>, <<"/api-docs">>})
<1>1. CASE dep.listener = "grpc"
  <2>1. Matched(r) = [kind |-> IF is_grpc_infra_path(Asked(r).path) THEN "probe" ELSE "version", routes |-> {}, headers |-> {}]
    BY <1>1 DEF Matched
  <2>2. is_grpc_infra_path(Asked(r).path) => Matched(r).kind = "probe"
    BY <2>1
  <2> QED
    BY <1>1, <2>2 DEF Infrastructure
<1>2. CASE dep.listener # "grpc"
  <2>1. Matched(r) = dispatch(dep.api, dep.asks[r].path) /\ Asked(r) = dep.asks[r]
    BY <1>2 DEF Matched, Asked
  <2>2. /\ dep.asks[r].path \in HTTP_PROBE_PATHS => dispatch(dep.api, dep.asks[r].path).kind = "probe"
        /\ starts_with_any(dep.asks[r].path, HTTP_DOC_PATH_PREFIXES) => dispatch(dep.api, dep.asks[r].path).kind # "version"
    BY <1>2, RoutesAssumption DEF Placed
  <2>3. /\ Asked(r).path \in {<<"/health">>, <<"/ready">>} => Matched(r).kind = "probe"
        /\ starts_with_any(Asked(r).path, {<<"/swagger-ui">>, <<"/api-docs">>}) => Matched(r).kind # "version"
    BY <2>1, <2>2 DEF HTTP_PROBE_PATHS, HTTP_DOC_PATH_PREFIXES
  <2> QED
    BY <1>2, <2>3 DEF Infrastructure
<1> QED
  BY <1>1, <1>2

\* Whatever the order of layers, interleaving of requests, revocations, reloads
\* of the policies and entries of the cache: a handler outside the exempt paths
\* runs only for a request with the certificate, token and permission that its
\* deployment asks for, under the claims its token was issued with as RoundTrip
\* has them; for every deployment, every route table and any number of requests.
\* Under mtls-or-bearer without a token layer some bearer credential is all that
\* is shown, and with the cache a permission may be one that was since withdrawn.
THEOREM HandlersAreGuarded == PipelineSpec => []OnlyAuthorizedReach
<1>1. PipelineInit => Placed /\ AuthInv
  BY PlacedInit, AuthInit
<1>2. Placed /\ AuthInv /\ [PipelineNext]_pipelineVars => Placed' /\ AuthInv'
  BY PlacedStep, AuthStep
<1>3. Placed /\ AuthInv => OnlyAuthorizedReach
  <2> SUFFICES ASSUME Placed, AuthInv, NEW r \in Ids, doing[r] = "handler", ~Infrastructure(r)
               PROVE  /\ Certified(dep) /\ ~starts_with_any(Asked(r).path, dep.caller_public) =>
                           BringsCertificate(r) \/ (dep.caller = "mtls-or-bearer" /\ has_bearer_credential(r))
                      /\ dep.token # "off" /\ ~starts_with_any(Asked(r).path, dep.token_public) =>
                           BringsToken(r) \/ (dep.caller = "mtls-or-bearer" /\ BringsCertificate(r))
                      /\ dep.cedar = "enabled" => BringsToken(r) /\ (dep.fail_open \/ Permitted(r))
                      /\ ext[r].claims # NoClaims => ActsAsIssued(r)
    BY DEF OnlyAuthorizedReach
  <2>0. r \in DOMAIN dep.asks /\ dep \in Deployments /\ StackShape(dep, stack)
    BY DEF Placed
  <2>1. /\ dep.listener = "grpc" => ~is_grpc_infra_path(Asked(r).path)
        /\ dep.listener # "grpc" => /\ Asked(r).path \notin {<<"/health">>, <<"/ready">>}
                                    /\ ~starts_with_any(Asked(r).path, {<<"/swagger-ui">>, <<"/api-docs">>})
    BY <2>0, ExemptPaths
  <2>2. dep.listener = "server" => dep.caller = "off" /\ dep.cedar = "absent"
    BY <2>0, DeploymentsAssumption
  <2>3. Vouched(r, ext[r])
    BY DEF AuthInv, Authorized
  <2>4. ASSUME Certified(dep), ~starts_with_any(Asked(r).path, dep.caller_public)
        PROVE  BringsCertificate(r) \/ (dep.caller = "mtls-or-bearer" /\ has_bearer_credential(r))
    <3>1. Holds(stack, "caller_auth")
      BY <2>0, <2>2, <2>4 DEF StackShape, Certified
    <3>2. Checked(r, "caller_auth", ext[r].claims)
      BY <3>1, ReachedChecked
    <3>3. ~is_exempt(Asked(r).path)
      BY <2>1, <2>4 DEF is_exempt, HTTP_PROBE_PATHS, HTTP_DOC_PATH_PREFIXES
    <3> QED
      BY <2>4, <3>2, <3>3 DEF Checked
  <2>5. ASSUME dep.token # "off", ~starts_with_any(Asked(r).path, dep.token_public)
        PROVE  BringsToken(r) \/ (dep.caller = "mtls-or-bearer" /\ BringsCertificate(r))
    <3>1. Holds(stack, "token") /\ (dep.listener # "grpc" => Holds(stack, "cors"))
      BY <2>0, <2>5 DEF StackShape
    <3>2. Checked(r, "token", ext[r].claims) /\ (dep.listener # "grpc" => Checked(r, "cors", ext[r].claims))
      BY <3>1, ReachedChecked
    <3>3. dep.listener # "grpc" => Asked(r).method # "OPTIONS"
      BY <3>2 DEF Checked
    <3>4. ~Unasked(r)
      BY <2>1, <2>5, <3>3 DEF Unasked
    <3> QED
      BY <3>2, <3>4, VerifiedBrings DEF Checked
  <2>6. ASSUME dep.cedar = "enabled" PROVE BringsToken(r) /\ (dep.fail_open \/ Permitted(r))
    <3>1. Holds(stack, "cedar")
      BY <2>0, <2>2, <2>6 DEF StackShape
    <3>2. Checked(r, "cedar", ext[r].claims)
      BY <3>1, ReachedChecked
    <3>3. ~skips_authorization(r)
      BY <2>1, <2>6 DEF skips_authorization
    <3>4. ext[r].claims # NoClaims /\ (dep.fail_open \/ Granted(r))
      BY <3>2, <3>3 DEF Checked
    <3>5. ext[r].claims = claims_of(r) /\ Verified(r)
      BY <2>3, <3>4 DEF Vouched
    <3>6. Granted(r) => Permitted(r)
      BY <3>5 DEF Granted, Permitted
    <3> QED
      BY <3>4, <3>5, <3>6, VerifiedBrings
  <2>7. ASSUME ext[r].claims # NoClaims PROVE ActsAsIssued(r)
    <3>1. ext[r].claims = claims_of(r) /\ Verified(r)
      BY <2>3, <2>7 DEF Vouched
    <3> QED
      BY <2>0, <3>1, VerifiedIssued
  <2> QED
    BY <2>4, <2>5, <2>6, <2>7
<1> QED
  BY <1>1, <1>2, <1>3, PTL DEF PipelineSpec

=============================================================================
