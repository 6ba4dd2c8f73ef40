-------------------------------- MODULE Calls --------------------------------
(***************************************************************************)
(* Concurrent callers of the authentication services.  Each client makes   *)
(* the calls of its list one after the other; a call is a sequence of      *)
(* steps, one per command it awaits from the store, and holds what it read *)
(* between them.  A call may be abandoned between two steps: its future is *)
(* dropped when the caller goes away, or a command of it fails.            *)
(***************************************************************************)
EXTENDS Naturals, Sequences, FiniteSets

CONSTANTS
    Clients,        \* tasks of the service that handle requests
    Workloads       \* [backend, calls, aborts]: the storage, the calls of each client,
                    \* and the bound on abandoned calls

ASSUME CallsAssumption == IsFiniteSet(Clients) /\ \A w \in Workloads : w.aborts \in Nat

VARIABLES
    load,           \* the workload of this behaviour
    call,           \* of each client: the calls left, where it is and what it has read
    aborts          \* calls that may still be abandoned

callVars == <<load, call, aborts>>

\* What a call holds before it has read anything.
Unread == [row |-> << >>]

CallInit(w) ==
    /\ load = w
    /\ call = [c \in Clients |-> [todo |-> w.calls[c], at |-> "idle", seen |-> Unread, out |-> "none"]]
    /\ aborts = w.aborts

\* Client c is at this step of a call of this operation; Arg(c) is the call.
Doing(c, op, at) == call[c].todo # << >> /\ Head(call[c].todo).op = op /\ call[c].at = at
Arg(c) == Head(call[c].todo)
Seen(c) == call[c].seen

\* The call awaits its next command, having read what.
Proceed(c, at, what) ==
    /\ call' = [call EXCEPT ![c].at = at, ![c].seen = what]
    /\ UNCHANGED <<load, aborts>>

Return(c, out) ==
    /\ call' = [call EXCEPT ![c] = [todo |-> Tail(@.todo), at |-> "idle", seen |-> Unread, out |-> out]]
    /\ UNCHANGED <<load, aborts>>

Abandon(c) ==
    /\ call[c].at # "idle" /\ aborts > 0
    /\ aborts' = aborts - 1
    /\ call' = [call EXCEPT ![c] = [todo |-> Tail(@.todo), at |-> "idle", seen |-> Unread, out |-> "aborted"]]
    /\ UNCHANGED load

\* Clients other than c that are between the read and the write of this record.
Holding(c, steps, id) ==
    {d \in Clients \ {c} : call[d].todo # << >> /\ call[d].at \in steps /\ Arg(d).id = id}

=============================================================================
