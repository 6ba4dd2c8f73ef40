-------------------------- MODULE BackgroundWorker --------------------------
(***************************************************************************)
(* The background worker of agents/background_worker.rs: submit(), which   *)
(* takes a permit, announces the task to the agent and spawns it; the      *)
(* spawned tasks, which report back by message; the agent, which owns the  *)
(* registry and the parked waiters and reads one FIFO mailbox; callers of  *)
(* wait_for_task and cancel; and shutdown (before_stop).                   *)
(***************************************************************************)
EXTENDS Integers, Sequences, FiniteSets

CONSTANTS
    NoTask,         \* what a call that has not been made asks about
    Tasks,          \* task ids; each is submitted once
    Callers,        \* calls of wait_for_task and cancel; each asks once
    MaxConcurrent,  \* max_concurrent_tasks (0: unlimited)
    MaxPanics,      \* bound: tasks that panic
    MaxCleanups     \* bound: CleanupFinishedTasks messages

ASSUME WorkerAssumption ==
    /\ NoTask \notin Tasks
    /\ MaxConcurrent \in Nat /\ MaxPanics \in Nat /\ MaxCleanups \in Nat

Terminal == {"completed", "failed", "cancelled"}
TaskStatus == {"running"} \cup Terminal

\* Answer to a caller: none yet, AskError, task unknown, or its status.
Answers == {"none", "error", "unknown"} \cup TaskStatus

Messages ==
    [kind : {"RegisterTask", "CancelTask"}, task : Tasks]
      \cup [kind : {"TaskCompleted"}, task : Tasks, status : Terminal]
      \cup [kind : {"WaitForTask"}, task : Tasks, caller : Callers]
      \cup [kind : {"CleanupFinishedTasks"}]

VARIABLES
    mailbox,        \* of the agent
    agent,          \* "up", "stopping" (before_stop is waiting), "stopped",
                    \* "abandoned" (stopped, the wait having timed out)
    tasks,          \* registry: id -> status, for the tracked ids
    waiters,        \* id -> callers parked on it
    token,          \* ids whose own cancellation token is cancelled
    root,           \* the root token is cancelled
    permits,        \* ids holding a semaphore permit
    submit,         \* progress of each submit: "new", "permit", "announced", "spawned"
    work,           \* spawned future: "none", "running", "ended" (to report), "gone", "panicked"
    outcome,        \* status the future ended with
    caller,         \* progress of each call: "new", "cancelling", "waiting", "done"
    target,         \* task each caller asked about
    answer,         \* what it was told
    panics, cleanups

taskVars == <<permits, submit, work, outcome>>
callerVars == <<caller, target, answer>>
agentVars == <<agent, tasks, waiters, token, root>>
vars == <<mailbox, agentVars, taskVars, callerVars, panics, cleanups>>

Init ==
    /\ mailbox = <<>> /\ agent = "up"
    /\ tasks = <<>> /\ waiters = [t \in Tasks |-> {}]
    /\ token = {} /\ root = FALSE
    /\ permits = {} /\ submit = [t \in Tasks |-> "new"]
    /\ work = [t \in Tasks |-> "none"] /\ outcome = [t \in Tasks |-> "running"]
    /\ caller = [c \in Callers |-> "new"]
    /\ target = [c \in Callers |-> NoTask]
    /\ answer = [c \in Callers |-> "none"]
    /\ panics = 0 /\ cleanups = 0

Stopped == agent \in {"stopped", "abandoned"}

\* ActorHandle::send; a stopped agent's mailbox drops the message.
Send(m) == mailbox' = IF Stopped THEN mailbox ELSE Append(mailbox, m)

-----------------------------------------------------------------------------
(* BackgroundWorker::submit and the spawned task.                          *)

acquire(t) ==
    /\ submit[t] = "new"
    /\ MaxConcurrent = 0 \/ Cardinality(permits) < MaxConcurrent
    /\ permits' = permits \cup {t}
    /\ submit' = [submit EXCEPT ![t] = "permit"]
    /\ UNCHANGED <<mailbox, agentVars, work, outcome, callerVars, panics, cleanups>>

\* RegisterTask is sent ...
announce(t) ==
    /\ submit[t] = "permit"
    /\ Send([kind |-> "RegisterTask", task |-> t])
    /\ submit' = [submit EXCEPT ![t] = "announced"]
    /\ UNCHANGED <<agentVars, permits, work, outcome, callerVars, panics, cleanups>>

\* ... before tracker.spawn.
spawn(t) ==
    /\ submit[t] = "announced"
    /\ submit' = [submit EXCEPT ![t] = "spawned"]
    /\ work' = [work EXCEPT ![t] = "running"]
    /\ UNCHANGED <<mailbox, agentVars, permits, outcome, callerVars, panics, cleanups>>

Cancelled(t) == root \/ t \in token

\* tokio::select! of the token and the work: cancellation is noticed first.
finish(t) ==
    /\ work[t] = "running"
    /\ work' = [work EXCEPT ![t] = "ended"]
    /\ \/ Cancelled(t) /\ outcome' = [outcome EXCEPT ![t] = "cancelled"]
       \/ ~Cancelled(t) /\ \E s \in {"completed", "failed"} : outcome' = [outcome EXCEPT ![t] = s]
    /\ UNCHANGED <<mailbox, agentVars, permits, submit, callerVars, panics, cleanups>>

\* Mutant of report: the permit is released when the task is spawned.
report_EarlyRelease(t) ==
    \/ /\ work[t] = "running" /\ t \in permits
       /\ permits' = permits \ {t}
       /\ UNCHANGED <<mailbox, agentVars, submit, work, outcome, callerVars, panics, cleanups>>
    \/ /\ work[t] = "ended"
       /\ Send([kind |-> "TaskCompleted", task |-> t, status |-> outcome[t]])
       /\ work' = [work EXCEPT ![t] = "gone"]
       /\ permits' = permits \ {t}
       /\ UNCHANGED <<agentVars, submit, outcome, callerVars, panics, cleanups>>

\* TaskCompleted; the future ends and drops its permit.
report(t) ==
    /\ work[t] = "ended"
    /\ Send([kind |-> "TaskCompleted", task |-> t, status |-> outcome[t]])
    /\ work' = [work EXCEPT ![t] = "gone"]
    /\ permits' = permits \ {t}
    /\ UNCHANGED <<agentVars, submit, outcome, callerVars, panics, cleanups>>

\* A panic unwinds the future: nothing is reported.
panic(t) ==
    /\ work[t] = "running" /\ panics < MaxPanics
    /\ panics' = panics + 1
    /\ work' = [work EXCEPT ![t] = "panicked"]
    /\ permits' = permits \ {t}
    /\ UNCHANGED <<mailbox, agentVars, submit, outcome, callerVars, cleanups>>

-----------------------------------------------------------------------------
(* Callers.                                                                *)

\* wait_for_task asks at once ...
wait_for_task(c, t) ==
    /\ caller[c] = "new"
    /\ target' = [target EXCEPT ![c] = t]
    /\ caller' = [caller EXCEPT ![c] = "waiting"]
    /\ Send([kind |-> "WaitForTask", task |-> t, caller |-> c])
    /\ UNCHANGED <<agentVars, taskVars, answer, panics, cleanups>>

\* ... cancel sends CancelTask and then asks.
cancel(c, t) ==
    /\ caller[c] = "new"
    /\ target' = [target EXCEPT ![c] = t]
    /\ caller' = [caller EXCEPT ![c] = "cancelling"]
    /\ Send([kind |-> "CancelTask", task |-> t])
    /\ UNCHANGED <<agentVars, taskVars, answer, panics, cleanups>>

cancel_wait(c) ==
    /\ caller[c] = "cancelling"
    /\ caller' = [caller EXCEPT ![c] = "waiting"]
    /\ Send([kind |-> "WaitForTask", task |-> target[c], caller |-> c])
    /\ UNCHANGED <<agentVars, taskVars, target, answer, panics, cleanups>>

AskError(c) ==
    /\ caller[c] = "waiting"
    /\ caller' = [caller EXCEPT ![c] = "done"]
    /\ answer' = [answer EXCEPT ![c] = "error"]
    /\ UNCHANGED <<mailbox, agentVars, taskVars, target, panics, cleanups>>

\* ask to a stopped agent, or to one that stops with the question, fails.
ask_fails(c) == Stopped /\ AskError(c)

\* The ask gives up before the agent answers; its envelope stays parked.
ask_times_out(c) == ~Stopped /\ AskError(c)

\* cleanup_finished_tasks or the periodic ticker.
request_cleanup ==
    /\ cleanups < MaxCleanups /\ ~root
    /\ cleanups' = cleanups + 1
    /\ Send([kind |-> "CleanupFinishedTasks"])
    /\ UNCHANGED <<agentVars, taskVars, callerVars, panics>>

-----------------------------------------------------------------------------
(* The agent's handlers, on the message at the head of the mailbox.        *)

Receive(kind) ==
    /\ agent = "up" /\ mailbox # <<>>
    /\ Head(mailbox).kind = kind
    /\ mailbox' = Tail(mailbox)

\* Replies to the calls cs; those that have given up do not hear it.
Tell(cs, s) ==
    LET hears == {c \in cs : caller[c] = "waiting"} IN
    /\ answer' = [c \in Callers |-> IF c \in hears THEN s ELSE answer[c]]
    /\ caller' = [c \in Callers |-> IF c \in hears THEN "done" ELSE caller[c]]

Tracked(t) == t \in DOMAIN tasks

HandleRegisterTask ==
    /\ Receive("RegisterTask")
    /\ LET t == Head(mailbox).task IN
       tasks' = [u \in DOMAIN tasks \cup {t} |-> IF u = t THEN "running" ELSE tasks[u]]
    /\ UNCHANGED <<agent, waiters, token, root, taskVars, callerVars, panics, cleanups>>

\* Mutant of HandleTaskCompleted: the waiters stay parked.
HandleTaskCompleted_KeepsWaiters ==
    /\ Receive("TaskCompleted")
    /\ LET m == Head(mailbox) IN
       tasks' = [u \in DOMAIN tasks |-> IF u = m.task THEN m.status ELSE tasks[u]]
    /\ UNCHANGED <<agent, waiters, token, root, taskVars, callerVars, panics, cleanups>>

HandleTaskCompleted ==
    /\ Receive("TaskCompleted")
    /\ LET m == Head(mailbox) IN
       /\ tasks' = [u \in DOMAIN tasks |-> IF u = m.task THEN m.status ELSE tasks[u]]
       /\ waiters' = [waiters EXCEPT ![m.task] = {}]
       /\ Tell(waiters[m.task], m.status)
    /\ UNCHANGED <<agent, token, root, taskVars, target, panics, cleanups>>

\* Mutant of HandleCancelTask: the record is marked before the task has stopped.
HandleCancelTask_Marks ==
    /\ Receive("CancelTask")
    /\ LET t == Head(mailbox).task IN
       /\ token' = IF Tracked(t) THEN token \cup {t} ELSE token
       /\ tasks' = [u \in DOMAIN tasks |-> IF u = t THEN "cancelled" ELSE tasks[u]]
    /\ UNCHANGED <<agent, waiters, root, taskVars, callerVars, panics, cleanups>>

HandleCancelTask ==
    /\ Receive("CancelTask")
    /\ LET t == Head(mailbox).task IN token' = IF Tracked(t) THEN token \cup {t} ELSE token
    /\ UNCHANGED <<agent, tasks, waiters, root, taskVars, callerVars, panics, cleanups>>

\* Unknown and finished tasks are answered now, others when they finish.
HandleWaitForTask ==
    /\ Receive("WaitForTask")
    /\ LET m == Head(mailbox) IN
       \/ /\ ~Tracked(m.task)
          /\ Tell({m.caller}, "unknown")
          /\ UNCHANGED waiters
       \/ /\ Tracked(m.task) /\ tasks[m.task] \in Terminal
          /\ Tell({m.caller}, tasks[m.task])
          /\ UNCHANGED waiters
       \/ /\ Tracked(m.task) /\ tasks[m.task] \notin Terminal
          /\ waiters' = [waiters EXCEPT ![m.task] = @ \cup {m.caller}]
          /\ UNCHANGED <<answer, caller>>
    /\ UNCHANGED <<agent, tasks, token, root, taskVars, target, panics, cleanups>>

\* Mutant of HandleCleanup: every record is dropped.
HandleCleanup_All ==
    /\ Receive("CleanupFinishedTasks")
    /\ tasks' = <<>>
    /\ UNCHANGED <<agent, waiters, token, root, taskVars, callerVars, panics, cleanups>>

HandleCleanup ==
    /\ Receive("CleanupFinishedTasks")
    /\ tasks' = [t \in {u \in DOMAIN tasks : tasks[u] \notin Terminal} |-> tasks[t]]
    /\ UNCHANGED <<agent, waiters, token, root, taskVars, callerVars, panics, cleanups>>

-----------------------------------------------------------------------------
(* Shutdown.                                                               *)

\* Tasks the TaskTracker counts.
Alive == {t \in Tasks : work[t] \in {"running", "ended"}}

\* before_stop: with no task known and none spawned nothing is cancelled.
before_stop ==
    /\ agent = "up"
    /\ \/ /\ tasks = <<>> /\ Alive = {}
          /\ agent' = "stopped" /\ mailbox' = <<>>
          /\ UNCHANGED root
       \/ /\ tasks # <<>> \/ Alive # {}
          /\ agent' = "stopping" /\ root' = TRUE
          /\ UNCHANGED mailbox
    /\ UNCHANGED <<tasks, waiters, token, taskVars, callerVars, panics, cleanups>>

\* tracker.wait() under the shutdown timeout.
await_tasks ==
    /\ agent = "stopping"
    /\ agent' = IF Alive = {} THEN "stopped" ELSE "abandoned"
    /\ mailbox' = <<>>
    /\ UNCHANGED <<tasks, waiters, token, root, taskVars, callerVars, panics, cleanups>>

-----------------------------------------------------------------------------

TaskStep(t) == acquire(t) \/ announce(t) \/ spawn(t) \/ finish(t) \/ report(t)

AgentStep ==
    \/ HandleRegisterTask \/ HandleTaskCompleted \/ HandleCancelTask
    \/ HandleWaitForTask \/ HandleCleanup \/ await_tasks

Next ==
    \/ \E t \in Tasks : TaskStep(t) \/ panic(t)
    \/ \E c \in Callers :
         \/ \E t \in Tasks : wait_for_task(c, t) \/ cancel(c, t)
         \/ cancel_wait(c) \/ ask_fails(c) \/ ask_times_out(c)
    \/ AgentStep \/ request_cleanup \/ before_stop

\* Work ends or notices its token, futures and callers are polled, and the
\* agent's loop runs.  Nobody has to panic, ask, clean up or stop.
Fairness ==
    /\ \A t \in Tasks : WF_vars(announce(t) \/ spawn(t) \/ finish(t) \/ report(t))
    /\ \A t \in Tasks : SF_vars(acquire(t))
    /\ \A c \in Callers : WF_vars(cancel_wait(c) \/ ask_fails(c))
    /\ WF_vars(AgentStep)

Spec == Init /\ [][Next]_vars /\ Fairness

-----------------------------------------------------------------------------
(* Properties.                                                             *)

\* The worker's state keeps its types.
TypeOK ==
    /\ mailbox \in Seq(Messages) /\ agent \in {"up", "stopping", "stopped", "abandoned"}
    /\ DOMAIN tasks \subseteq Tasks /\ \A t \in DOMAIN tasks : tasks[t] \in TaskStatus
    /\ waiters \in [Tasks -> SUBSET Callers]
    /\ token \subseteq Tasks /\ root \in BOOLEAN /\ permits \subseteq Tasks
    /\ submit \in [Tasks -> {"new", "permit", "announced", "spawned"}]
    /\ work \in [Tasks -> {"none", "running", "ended", "gone", "panicked"}]
    /\ outcome \in [Tasks -> TaskStatus]
    /\ caller \in [Callers -> {"new", "cancelling", "waiting", "done"}]
    /\ target \in [Callers -> Tasks \cup {NoTask}]
    /\ answer \in [Callers -> Answers]
    /\ panics \in 0 .. MaxPanics /\ cleanups \in 0 .. MaxCleanups

\* Never more spawned tasks alive than max_concurrent_tasks (the permit lives
\* as long as the future).
ConcurrencyLimited == MaxConcurrent > 0 => Cardinality(Alive) <= MaxConcurrent

\* What a caller is told is how the task it asked about ended.
AnswersAreTrue ==
    \A c \in Callers : answer[c] \in Terminal => answer[c] = outcome[target[c]]

\* Graceful shutdown as the module's documentation has it: once the agent has
\* stopped, a task still at work has been cancelled.
ShutdownCancelsEverything == Stopped => \A t \in Tasks : work[t] = "running" => Cancelled(t)

\* Every question is answered, by the task's end, by its absence from the
\* registry or by the agent's stop, without waiting for the ask to time out.
\* Only a task that panics never answers.
QuestionsAnswered ==
    \A c \in Callers :
        caller[c] = "waiting" ~> (caller[c] = "done" \/ \E t \in Tasks : work[t] = "panicked")

=============================================================================
