----------------------- MODULE BackgroundWorkerProofs -----------------------
(***************************************************************************)
(* Proofs about BackgroundWorker for any number of tasks and callers, any  *)
(* limit and any bounds: the concurrency limit, and that a caller is told  *)
(* how its task ended.                                                     *)
(***************************************************************************)
EXTENDS BackgroundWorker, FiniteSetTheorems, SequenceTheorems, TLAPS

-----------------------------------------------------------------------------
(* Types.                                                                  *)

\* The messages the worker, its tasks and its callers send are Messages.
LEMMA SentMessages ==
    /\ \A t \in Tasks : [kind |-> "RegisterTask", task |-> t] \in Messages
    /\ \A t \in Tasks : [kind |-> "CancelTask", task |-> t] \in Messages
    /\ \A t \in Tasks, s \in Terminal :
           [kind |-> "TaskCompleted", task |-> t, status |-> s] \in Messages
    /\ \A t \in Tasks, c \in Callers :
           [kind |-> "WaitForTask", task |-> t, caller |-> c] \in Messages
    /\ [kind |-> "CleanupFinishedTasks"] \in Messages
BY DEF Messages

\* What the fields of a message of each kind are.
LEMMA MessageFields ==
    ASSUME NEW m \in Messages
    PROVE  /\ m.kind = "RegisterTask" => m.task \in Tasks
           /\ m.kind = "CancelTask" => m.task \in Tasks
           /\ m.kind = "TaskCompleted" => m.task \in Tasks /\ m.status \in Terminal
           /\ m.kind = "WaitForTask" => m.task \in Tasks /\ m.caller \in Callers
BY DEF Messages

\* A mailbox stays a sequence of messages when one is sent or handled.
LEMMA MailboxSteps ==
    ASSUME mailbox \in Seq(Messages)
    PROVE  /\ \A m \in Messages : Send(m) => mailbox' \in Seq(Messages)
           /\ \A k : Receive(k) => Head(mailbox) \in Messages /\ mailbox' \in Seq(Messages)
BY DEF Send, Receive

\* The parts of TypeOK that the tasks and their submitters change.
TaskTypes ==
    /\ permits \subseteq Tasks
    /\ submit \in [Tasks -> {"new", "permit", "announced", "spawned"}]
    /\ work \in [Tasks -> {"none", "running", "ended", "gone", "panicked"}]
    /\ outcome \in [Tasks -> TaskStatus]
    /\ panics \in 0 .. MaxPanics

\* The parts that callers change, by asking or by hearing an answer.
CallTypes ==
    /\ caller \in [Callers -> {"new", "cancelling", "waiting", "done"}]
    /\ target \in [Callers -> Tasks \cup {NoTask}]
    /\ answer \in [Callers -> Answers]

\* The parts the agent changes.
AgentTypes ==
    /\ agent \in {"up", "stopping", "stopped", "abandoned"}
    /\ DOMAIN tasks \subseteq Tasks /\ \A t \in DOMAIN tasks : tasks[t] \in TaskStatus
    /\ waiters \in [Tasks -> SUBSET Callers]
    /\ token \subseteq Tasks /\ root \in BOOLEAN

\* A future that has ended has ended in a terminal status: what report sends.
Ended == \A t \in Tasks : work[t] \in {"ended", "gone"} => outcome[t] \in Terminal

\* A caller that has asked has asked about a task.
Asked == \A c \in Callers : caller[c] # "new" => target[c] \in Tasks

\* The parts as they are after a step that leaves them alone.
LEMMA TypesFrame ==
    /\ TaskTypes /\ UNCHANGED <<taskVars, panics>> => TaskTypes'
    /\ CallTypes /\ UNCHANGED callerVars => CallTypes'
    /\ AgentTypes /\ UNCHANGED agentVars => AgentTypes'
    /\ Ended /\ UNCHANGED taskVars => Ended'
    /\ Asked /\ UNCHANGED callerVars => Asked'
BY DEF TaskTypes, CallTypes, AgentTypes, taskVars, callerVars, agentVars, Ended, Asked

\* Types with the two facts report and cancel_wait need.
Typed ==
    /\ TaskTypes /\ CallTypes /\ AgentTypes /\ Ended /\ Asked
    /\ mailbox \in Seq(Messages) /\ cleanups \in 0 .. MaxCleanups

\* The steps of a task keep the types.
LEMMA TaskTypesKept ==
    ASSUME Typed, NEW t \in Tasks, TaskStep(t) \/ panic(t)
    PROVE  Typed'
<1> USE DEF Typed
<1>1. /\ TaskTypes /\ CallTypes /\ AgentTypes /\ Ended /\ Asked
      /\ mailbox \in Seq(Messages) /\ cleanups \in 0 .. MaxCleanups
  OBVIOUS
<1>2. TypesFrame!2 /\ TypesFrame!3 /\ TypesFrame!5
  BY TypesFrame
<1>3. UNCHANGED <<agentVars, callerVars, cleanups>>
  BY DEF TaskStep, acquire, announce, spawn, finish, report, panic
<1>4. TaskTypes' /\ Ended'
  <2> USE WorkerAssumption DEF TaskTypes, Ended, TaskStatus, Terminal
  <2>1. CASE acquire(t)  BY <1>1, <2>1 DEF acquire
  <2>2. CASE announce(t)  BY <1>1, <2>2 DEF announce
  <2>3. CASE spawn(t)  BY <1>1, <2>3 DEF spawn
  <2>4. CASE finish(t)  BY <1>1, <2>4 DEF finish
  <2>5. CASE report(t)  BY <1>1, <2>5 DEF report
  <2>6. CASE panic(t)  BY <1>1, <2>6 DEF panic
  <2> QED  BY <2>1, <2>2, <2>3, <2>4, <2>5, <2>6 DEF TaskStep
<1>5. mailbox' \in Seq(Messages)
  <2>1. CASE announce(t)  BY <1>1, <2>1, SentMessages, MailboxSteps DEF announce
  <2>2. CASE report(t)  BY <1>1, <2>2, SentMessages, MailboxSteps DEF report, Ended
  <2>3. CASE UNCHANGED mailbox  BY <1>1, <2>3
  <2> QED  BY <2>1, <2>2, <2>3 DEF TaskStep, acquire, spawn, finish, panic
<1> QED  BY <1>1, <1>2, <1>3, <1>4, <1>5

\* What a caller does of itself.
CallStep(c) ==
    \/ \E t \in Tasks : wait_for_task(c, t) \/ cancel(c, t)
    \/ cancel_wait(c) \/ ask_fails(c) \/ ask_times_out(c)

\* The steps of a caller keep the types.
LEMMA CallTypesKept ==
    ASSUME Typed, NEW c \in Callers, CallStep(c)
    PROVE  Typed'
<1> USE DEF Typed
<1>1. /\ TaskTypes /\ CallTypes /\ AgentTypes /\ Ended /\ Asked
      /\ mailbox \in Seq(Messages) /\ cleanups \in 0 .. MaxCleanups
  OBVIOUS
<1>2. TypesFrame!1 /\ TypesFrame!3 /\ TypesFrame!4
  BY TypesFrame
<1>3. UNCHANGED <<agentVars, taskVars, panics, cleanups>>
  BY DEF CallStep, wait_for_task, cancel, cancel_wait, ask_fails, ask_times_out, AskError
<1>4. CallTypes' /\ Asked' /\ mailbox' \in Seq(Messages)
  <2>1. ASSUME NEW t \in Tasks, wait_for_task(c, t)  PROVE <1>4
    BY <1>1, <2>1, SentMessages, MailboxSteps DEF wait_for_task, CallTypes, Asked
  <2>2. ASSUME NEW t \in Tasks, cancel(c, t)  PROVE <1>4
    BY <1>1, <2>2, SentMessages, MailboxSteps DEF cancel, CallTypes, Asked
  <2>3. CASE cancel_wait(c)
    BY <1>1, <2>3, SentMessages, MailboxSteps DEF cancel_wait, CallTypes, Asked
  <2>4. CASE AskError(c)
    BY <1>1, <2>4 DEF AskError, CallTypes, Asked, Answers
  <2> QED  BY <2>1, <2>2, <2>3, <2>4 DEF CallStep, ask_fails, ask_times_out
<1> QED  BY <1>1, <1>2, <1>3, <1>4

\* An answer is heard by some of the calls it is for.
LEMMA TellTypes ==
    ASSUME CallTypes, Asked, NEW cs, NEW s \in Answers, Tell(cs, s), UNCHANGED target
    PROVE  CallTypes' /\ Asked'
BY DEF CallTypes, Asked, Tell

\* The agent's handlers keep the types.
LEMMA AgentTypesKept ==
    ASSUME Typed, AgentStep \/ request_cleanup \/ before_stop
    PROVE  Typed'
<1> USE DEF Typed
<1>1. /\ TaskTypes /\ CallTypes /\ AgentTypes /\ Ended /\ Asked
      /\ mailbox \in Seq(Messages) /\ cleanups \in 0 .. MaxCleanups
  OBVIOUS
<1>2. TypesFrame!1 /\ TypesFrame!2 /\ TypesFrame!3 /\ TypesFrame!4 /\ TypesFrame!5
  BY TypesFrame
<1>3. UNCHANGED <<taskVars, panics>>
  BY DEF AgentStep, HandleRegisterTask, HandleTaskCompleted, HandleCancelTask, HandleWaitForTask,
         HandleCleanup, await_tasks, request_cleanup, before_stop
<1>4. CASE HandleRegisterTask
  <2>1. Head(mailbox) \in Messages /\ mailbox' \in Seq(Messages) /\ Head(mailbox).task \in Tasks
    BY <1>1, <1>4, MailboxSteps, MessageFields DEF HandleRegisterTask, Receive
  <2>2. AgentTypes'
    BY <1>1, <1>4, <2>1 DEF HandleRegisterTask, AgentTypes, TaskStatus
  <2> QED  BY <1>1, <1>2, <1>3, <1>4, <2>1, <2>2 DEF HandleRegisterTask
<1>5. CASE HandleTaskCompleted
  <2>1. PICK m : m = Head(mailbox)
    OBVIOUS
  <2>2. /\ m \in Messages /\ mailbox' \in Seq(Messages) /\ m.task \in Tasks /\ m.status \in Terminal
    BY <1>1, <1>5, <2>1, MailboxSteps, MessageFields DEF HandleTaskCompleted, Receive
  <2>3. AgentTypes'
    BY <1>1, <1>5, <2>1, <2>2 DEF HandleTaskCompleted, AgentTypes, TaskStatus
  <2>4. CallTypes' /\ Asked'
    BY <1>1, <1>5, <2>1, <2>2, TellTypes DEF HandleTaskCompleted, Answers, TaskStatus
  <2> QED  BY <1>1, <1>2, <1>3, <1>5, <2>2, <2>3, <2>4 DEF HandleTaskCompleted
<1>6. CASE HandleCancelTask
  <2>1. Head(mailbox) \in Messages /\ mailbox' \in Seq(Messages) /\ Head(mailbox).task \in Tasks
    BY <1>1, <1>6, MailboxSteps, MessageFields DEF HandleCancelTask, Receive
  <2>2. AgentTypes'
    BY <1>1, <1>6, <2>1 DEF HandleCancelTask, AgentTypes
  <2> QED  BY <1>1, <1>2, <1>3, <1>6, <2>1, <2>2 DEF HandleCancelTask
<1>7. CASE HandleWaitForTask
  <2>1. PICK m : m = Head(mailbox)
    OBVIOUS
  <2>2. /\ m \in Messages /\ mailbox' \in Seq(Messages) /\ m.task \in Tasks /\ m.caller \in Callers
    BY <1>1, <1>7, <2>1, MailboxSteps, MessageFields DEF HandleWaitForTask, Receive
  <2>3. AgentTypes'
    BY <1>1, <1>7, <2>1, <2>2 DEF HandleWaitForTask, AgentTypes
  <2>4. CallTypes' /\ Asked'
    <3>1. CASE Tell({m.caller}, "unknown")
      BY <1>1, <1>7, <3>1, TellTypes DEF HandleWaitForTask, Answers
    <3>2. CASE Tracked(m.task) /\ Tell({m.caller}, tasks[m.task])
      BY <1>1, <1>7, <3>2, TellTypes DEF HandleWaitForTask, Answers, Tracked, AgentTypes
    <3>3. CASE UNCHANGED <<answer, caller>>
      BY <1>1, <1>2, <1>7, <3>3 DEF HandleWaitForTask, callerVars
    <3> QED  BY <1>7, <2>1, <3>1, <3>2, <3>3 DEF HandleWaitForTask
  <2> QED  BY <1>1, <1>2, <1>3, <1>7, <2>2, <2>3, <2>4 DEF HandleWaitForTask
<1>8. CASE HandleCleanup
  <2>1. mailbox' \in Seq(Messages)
    BY <1>1, <1>8, MailboxSteps DEF HandleCleanup
  <2>2. AgentTypes'
    BY <1>1, <1>8 DEF HandleCleanup, AgentTypes
  <2> QED  BY <1>1, <1>2, <1>3, <1>8, <2>1, <2>2 DEF HandleCleanup
<1>9. CASE await_tasks \/ before_stop
  <2>0. root' \in BOOLEAN
    BY <1>1, <1>9, Zenon DEF await_tasks, before_stop, AgentTypes
  <2>3. UNCHANGED <<tasks, waiters, token>> /\ mailbox' \in {mailbox, << >>}
    BY <1>9, Zenon DEF await_tasks, before_stop
  <2>4. agent' \in {"up", "stopping", "stopped", "abandoned"}
    BY <1>9, Zenon DEF await_tasks, before_stop
  <2>5. mailbox' \in Seq(Messages)
    <3>1. mailbox' = mailbox \/ mailbox' = << >>
      BY <2>3
    <3>2. << >> \in Seq(Messages)
      OBVIOUS
    <3> QED  BY <1>1, <3>1, <3>2, Zenon
  <2>6. AgentTypes'
    BY <1>1, <2>0, <2>3, <2>4, Zenon DEF AgentTypes
  <2>1. AgentTypes' /\ mailbox' \in Seq(Messages)
    BY <2>5, <2>6
  <2> QED  BY <1>1, <1>2, <1>3, <1>9, <2>1 DEF await_tasks, before_stop
<1>10. CASE request_cleanup
  <2>1. mailbox' \in Seq(Messages)
    BY <1>1, <1>10, SentMessages, MailboxSteps DEF request_cleanup
  <2>2. cleanups' \in 0 .. MaxCleanups
    BY <1>1, <1>10, WorkerAssumption DEF request_cleanup
  <2> QED  BY <1>1, <1>2, <1>3, <1>10, <2>1, <2>2 DEF request_cleanup
<1> QED  BY <1>4, <1>5, <1>6, <1>7, <1>8, <1>9, <1>10 DEF AgentStep

\* Next, by who takes the step.
LEMMA NextSteps ==
    ASSUME Next
    PROVE  \/ \E t \in Tasks : TaskStep(t) \/ panic(t)
           \/ \E c \in Callers : CallStep(c)
           \/ AgentStep \/ request_cleanup \/ before_stop
BY DEF Next, CallStep

\* The types and the two facts hold initially and are kept by every step.
LEMMA TypedInductive ==
    /\ Init => Typed
    /\ Typed /\ [Next]_vars => Typed'
<1>1. ASSUME Init  PROVE Typed
  <2>1. root \in BOOLEAN
    BY <1>1, Zenon DEF Init
  <2>2. TaskTypes /\ Ended
    BY <1>1, WorkerAssumption DEF Init, TaskTypes, Ended, TaskStatus
  <2>3. CallTypes /\ Asked
    BY <1>1 DEF Init, CallTypes, Asked, Answers
  <2>4. AgentTypes
    BY <1>1, <2>1 DEF Init, AgentTypes
  <2> QED  BY <1>1, <2>2, <2>3, <2>4, WorkerAssumption DEF Init, Typed
<1>2. ASSUME Typed, UNCHANGED vars  PROVE Typed'
  BY <1>2, TypesFrame DEF vars, agentVars, taskVars, callerVars, Typed
<1>3. ASSUME Typed, Next  PROVE Typed'
  BY <1>3, NextSteps, TaskTypesKept, CallTypesKept, AgentTypesKept
<1> QED  BY <1>1, <1>2, <1>3

\* The worker's state keeps its types, whatever tasks, callers and the agent do.
THEOREM TypeCorrect == Spec => []TypeOK
<1>1. Typed => TypeOK
  BY DEF Typed, TypeOK, TaskTypes, CallTypes, AgentTypes
<1> QED  BY <1>1, TypedInductive, PTL DEF Spec

-----------------------------------------------------------------------------
(* The concurrency limit.                                                  *)

\* Who holds a permit: a submit between acquire and spawn, and a live future.
Holders ==
    \A t \in Tasks :
        /\ submit[t] \in {"permit", "announced"} => t \in permits
        /\ work[t] \in {"running", "ended"} => t \in permits
        /\ work[t] # "none" => submit[t] = "spawned"

\* The semaphore: no more permits are out than it has.
Semaphore ==
    IsFiniteSet(permits) /\ (MaxConcurrent > 0 => Cardinality(permits) <= MaxConcurrent)

\* Permits are taken and given back one at a time, by the task they belong to.
LEMMA PermitsInductive ==
    /\ Init => Holders /\ Semaphore
    /\ Typed /\ Holders /\ Semaphore /\ [Next]_vars => Holders' /\ Semaphore'
<1>1. Init => Holders /\ Semaphore
  BY FS_EmptySet, WorkerAssumption DEF Init, Holders, Semaphore
<1>2. ASSUME Typed, Holders, Semaphore, NEW t \in Tasks, TaskStep(t) \/ panic(t)
      PROVE  Holders' /\ Semaphore'
  <2> USE DEF Typed, TaskTypes
  <2>1. CASE acquire(t)
    <3>1. Holders'
      BY <1>2, <2>1 DEF acquire, Holders
    <3>2. IsFiniteSet(permits') /\ Cardinality(permits') <= Cardinality(permits) + 1
      <4>1. IsFiniteSet(permits) /\ permits' = permits \cup {t}
        BY <1>2, <2>1 DEF acquire, Semaphore
      <4> QED  BY <4>1, FS_AddElement, FS_CardinalityType
    <3> QED
      BY <1>2, <2>1, <3>1, <3>2, FS_CardinalityType, WorkerAssumption DEF acquire, Semaphore
  <2>2. CASE announce(t) \/ spawn(t) \/ finish(t)
    <3>1. Holders'
      BY <1>2, <2>2 DEF announce, spawn, finish, Holders
    <3> QED  BY <1>2, <2>2, <3>1 DEF announce, spawn, finish, Semaphore
  <2>3. CASE report(t) \/ panic(t)
    <3>1. Holders'
      BY <1>2, <2>3 DEF report, panic, Holders
    <3>2. IsFiniteSet(permits') /\ Cardinality(permits') <= Cardinality(permits)
      <4>1. permits' \subseteq permits
        BY <2>3 DEF report, panic
      <4> QED  BY <1>2, <4>1, FS_Subset DEF Semaphore
    <3> QED
      BY <1>2, <3>1, <3>2, FS_CardinalityType, WorkerAssumption DEF Semaphore
  <2> QED  BY <1>2, <2>1, <2>2, <2>3 DEF TaskStep
<1>3. ASSUME Holders, Semaphore, UNCHANGED taskVars  PROVE Holders' /\ Semaphore'
  BY <1>3 DEF taskVars, Holders, Semaphore
<1>4. ASSUME NEW c \in Callers, CallStep(c)  PROVE UNCHANGED taskVars
  BY <1>4 DEF CallStep, wait_for_task, cancel, cancel_wait, ask_fails, ask_times_out, AskError
<1>5. ASSUME AgentStep \/ request_cleanup \/ before_stop  PROVE UNCHANGED taskVars
  BY <1>5 DEF AgentStep, HandleRegisterTask, HandleTaskCompleted, HandleCancelTask,
              HandleWaitForTask, HandleCleanup, await_tasks, request_cleanup, before_stop
<1>6. UNCHANGED vars => UNCHANGED taskVars
  BY DEF vars
<1> QED  BY <1>1, <1>2, <1>3, <1>4, <1>5, <1>6, NextSteps

\* max_concurrent_tasks bounds the spawned futures that are alive at any time,
\* for any number of tasks: submit takes the permit before it spawns, and the
\* future gives it back only when it has reported or unwound.
THEOREM LimitHolds == Spec => []ConcurrencyLimited
<1>1. Typed /\ Holders /\ Semaphore => ConcurrencyLimited
  <2> SUFFICES ASSUME Holders, Semaphore, MaxConcurrent > 0
               PROVE  Cardinality(Alive) <= MaxConcurrent
    BY DEF ConcurrencyLimited
  <2>1. Alive \subseteq permits
    BY DEF Alive, Holders
  <2>2. IsFiniteSet(Alive) /\ Cardinality(Alive) <= Cardinality(permits)
    BY <2>1, FS_Subset DEF Semaphore
  <2> QED  BY <2>2, FS_CardinalityType, WorkerAssumption DEF Semaphore
<1> QED  BY <1>1, TypedInductive, PermitsInductive, PTL DEF Spec

-----------------------------------------------------------------------------
(* What a caller is told.                                                  *)

\* The task is over and ended in status s.
EndedAs(t, s) == work[t] = "gone" /\ outcome[t] = s

\* The caller has put its question, which is about t.
AsksAbout(c, t) == caller[c] \in {"waiting", "done"} /\ target[c] = t

\* What a message may say.
Truthful(m) ==
    /\ m.kind = "TaskCompleted" => EndedAs(m.task, m.status)
    /\ m.kind = "WaitForTask" => AsksAbout(m.caller, m.task)

\* Every message on its way is truthful ...
MailTruthful == \A i \in 1 .. Len(mailbox) : Truthful(mailbox[i])

\* ... the registry shows only ends that have happened, who is parked on a
\* task has asked about it, and so is every answer given.
RegistryTruthful == \A t \in DOMAIN tasks : tasks[t] \in Terminal => EndedAs(t, tasks[t])
ParkedRightly == \A t \in Tasks : \A c \in waiters[t] : AsksAbout(c, t)
AnswersTruthful ==
    \A c \in Callers :
        /\ answer[c] \in Terminal => EndedAs(target[c], answer[c])
        /\ caller[c] \in {"new", "cancelling"} => answer[c] = "none"

Truth == MailTruthful /\ RegistryTruthful /\ ParkedRightly /\ AnswersTruthful

\* What no step undoes: a task that is over stays so, with its status, and a
\* question that was put stays the same question.
Undone ==
    /\ \A t \in Tasks : work[t] = "gone" => work'[t] = "gone" /\ outcome'[t] = outcome[t]
    /\ \A c \in Callers : caller[c] \in {"waiting", "done"} =>
           caller'[c] \in {"waiting", "done"} /\ target'[c] = target[c]

\* Facts that stand, stand after the step.
LEMMA FactsStand ==
    ASSUME Undone
    PROVE  /\ \A t \in Tasks : \A s : EndedAs(t, s) => EndedAs(t, s)'
           /\ \A c \in Callers : \A t : AsksAbout(c, t) => AsksAbout(c, t)'
           /\ \A m \in Messages : Truthful(m) => Truthful(m)'
<1>1. \A t \in Tasks : \A s : EndedAs(t, s) => EndedAs(t, s)'
  BY DEF Undone, EndedAs
<1>2. \A c \in Callers : \A t : AsksAbout(c, t) => AsksAbout(c, t)'
  BY DEF Undone, AsksAbout
<1>3. ASSUME NEW m \in Messages, Truthful(m)  PROVE Truthful(m)'
  BY <1>1, <1>2, <1>3, MessageFields DEF Truthful
<1> QED  BY <1>1, <1>2, <1>3

\* Every step takes back nothing.
LEMMA NothingUndone == Typed /\ Holders /\ [Next]_vars => Undone
<1> SUFFICES ASSUME Typed, Holders, [Next]_vars  PROVE Undone
  OBVIOUS
<1> USE DEF Typed, TaskTypes, CallTypes
<1>1. ASSUME NEW t \in Tasks, TaskStep(t) \/ panic(t)  PROVE Undone
  <2>1. UNCHANGED callerVars
    BY <1>1 DEF TaskStep, acquire, announce, spawn, finish, report, panic
  <2>2. CASE acquire(t) \/ announce(t)  BY <2>1, <2>2 DEF acquire, announce, callerVars, Undone
  <2>3. CASE spawn(t)
    <3>1. work[t] = "none"
      BY <2>3 DEF spawn, Holders
    <3> QED  BY <2>1, <2>3, <3>1 DEF spawn, callerVars, Undone
  <2>4. CASE finish(t)  BY <2>1, <2>4 DEF finish, callerVars, Undone
  <2>5. CASE report(t)  BY <2>1, <2>5 DEF report, callerVars, Undone
  <2>6. CASE panic(t)  BY <2>1, <2>6 DEF panic, callerVars, Undone
  <2> QED  BY <1>1, <2>2, <2>3, <2>4, <2>5, <2>6 DEF TaskStep
<1>2. ASSUME NEW c \in Callers, CallStep(c)  PROVE Undone
  BY <1>2 DEF CallStep, wait_for_task, cancel, cancel_wait, ask_fails, ask_times_out, AskError,
              taskVars, Undone
<1>3. ASSUME UNCHANGED <<taskVars, target>>, UNCHANGED caller \/ \E cs, s : Tell(cs, s)
      PROVE  Undone
  BY <1>3 DEF taskVars, Tell, Undone
<1>4. ASSUME AgentStep \/ request_cleanup \/ before_stop  PROVE Undone
  <2>1. UNCHANGED <<taskVars, target>>
    BY <1>4 DEF AgentStep, HandleRegisterTask, HandleTaskCompleted, HandleCancelTask, callerVars,
                HandleWaitForTask, HandleCleanup, await_tasks, request_cleanup, before_stop
  <2>2. UNCHANGED caller \/ \E cs, s : Tell(cs, s)
    <3>1. CASE HandleTaskCompleted  BY <3>1, Zenon DEF HandleTaskCompleted
    <3>2. CASE HandleWaitForTask  BY <3>2, Zenon DEF HandleWaitForTask
    <3>3. CASE UNCHANGED caller  BY <3>3
    <3> QED  BY <1>4, <3>1, <3>2, <3>3 DEF AgentStep, HandleRegisterTask, HandleCancelTask,
               callerVars, HandleCleanup, await_tasks, request_cleanup, before_stop
  <2> QED  BY <1>3, <2>1, <2>2
<1>5. UNCHANGED vars => Undone
  BY DEF vars, taskVars, callerVars, Undone
<1> QED  BY <1>1, <1>2, <1>4, <1>5, NextSteps

\* The mailbox stays truthful when it is left alone, emptied or read, and when
\* what is sent is true.
LEMMA MailStaysTruthful ==
    ASSUME Typed, MailTruthful, Undone,
           \/ UNCHANGED mailbox
           \/ mailbox' = << >>
           \/ \E k : Receive(k)
           \/ \E m \in Messages : Send(m) /\ Truthful(m)'
    PROVE  MailTruthful'
<1>1. mailbox \in Seq(Messages) /\ \A m \in Messages : Truthful(m) => Truthful(m)'
  BY FactsStand DEF Typed
<1>2. \A i \in 1 .. Len(mailbox) : mailbox[i] \in Messages /\ Truthful(mailbox[i])
  BY <1>1 DEF MailTruthful
<1>3. \A i \in 1 .. Len(mailbox') : \A m : m = mailbox'[i] => Truthful(m)'
  <2>1. CASE UNCHANGED mailbox  BY <1>1, <1>2, <2>1
  <2>2. CASE mailbox' = << >>  BY <2>2
  <2>3. CASE \E k : Receive(k)
    <3>1. mailbox # << >> /\ mailbox' = Tail(mailbox)
      BY <2>3 DEF Receive
    <3>2. \A i \in 1 .. Len(mailbox') : i + 1 \in 1 .. Len(mailbox) /\ mailbox'[i] = mailbox[i + 1]
      BY <1>1, <3>1
    <3> QED  BY <1>1, <1>2, <3>2
  <2>4. CASE \E m \in Messages : Send(m) /\ Truthful(m)'
    <3>1. PICK m \in Messages : Send(m) /\ Truthful(m)'
      BY <2>4
    <3>2. mailbox' = mailbox \/ mailbox' = Append(mailbox, m)
      BY <3>1 DEF Send
    <3>3. \A i \in 1 .. Len(mailbox') :
            \/ mailbox'[i] = m
            \/ i \in 1 .. Len(mailbox) /\ mailbox'[i] = mailbox[i]
      BY <1>1, <3>2
    <3> QED  BY <1>1, <1>2, <3>1, <3>3
  <2> QED  BY <2>1, <2>2, <2>3, <2>4
<1> QED  BY <1>3 DEF MailTruthful, Truthful, EndedAs, AsksAbout

\* A handler that answers the calls cs, which all ask about t, with the status
\* of t leaves every answer true.
LEMMA AnswersStayTruthful ==
    ASSUME Typed, AnswersTruthful, Undone, UNCHANGED target,
           NEW cs, NEW s, Tell(cs, s),
           s \in Terminal => \E t \in Tasks : EndedAs(t, s)' /\ \A c \in cs : target[c] = t,
           s # "none"
    PROVE  AnswersTruthful'
<1> SUFFICES ASSUME NEW c \in Callers
             PROVE  /\ answer'[c] \in Terminal =>
                          work'[target[c]] = "gone" /\ outcome'[target[c]] = answer'[c]
                    /\ caller'[c] \in {"new", "cancelling"} => answer'[c] = "none"
  BY DEF AnswersTruthful, EndedAs
<1>1. CASE c \in cs /\ caller[c] = "waiting"
  BY <1>1 DEF Tell, EndedAs
<1>2. CASE ~(c \in cs /\ caller[c] = "waiting")
  <2>1. answer'[c] = answer[c] /\ caller'[c] = caller[c]
    BY <1>2 DEF Tell
  <2>2. answer[c] \in Terminal => target[c] \in Tasks
    BY DEF AnswersTruthful, Typed, Asked, CallTypes, Terminal
  <2> QED  BY <2>1, <2>2 DEF EndedAs, AnswersTruthful, Undone
<1> QED  BY <1>1, <1>2

\* A step that answers nobody, though an ask may fail.
Unanswered ==
    \A c \in Callers :
        /\ \/ answer'[c] = answer[c]
           \/ answer'[c] = "error" /\ caller'[c] = "done"
        /\ caller'[c] \in {"new", "cancelling"} => caller[c] \in {"new", "cancelling"}

\* It leaves the answers true.
LEMMA NoAnswer ==
    ASSUME Typed, AnswersTruthful, Undone, Unanswered
    PROVE  AnswersTruthful'
<1> SUFFICES ASSUME NEW c \in Callers
             PROVE  /\ answer'[c] \in Terminal =>
                          work'[target'[c]] = "gone" /\ outcome'[target'[c]] = answer'[c]
                    /\ caller'[c] \in {"new", "cancelling"} => answer'[c] = "none"
  BY DEF AnswersTruthful, EndedAs
<1>1. answer[c] \in Terminal => target[c] \in Tasks /\ caller[c] \in {"waiting", "done"}
  BY DEF AnswersTruthful, Typed, Asked, CallTypes, Terminal
<1> QED  BY <1>1 DEF EndedAs, AnswersTruthful, Undone, Unanswered, Terminal

\* The steps of a task keep the truth.
LEMMA TaskKeepsTruth ==
    ASSUME Typed, Holders, Truth, Undone, NEW t \in Tasks, TaskStep(t) \/ panic(t)
    PROVE  Truth'
<1>1. UNCHANGED <<agentVars, callerVars>>
  BY DEF TaskStep, acquire, announce, spawn, finish, report, panic
<1>2. RegistryTruthful'
  BY <1>1 DEF agentVars, RegistryTruthful, EndedAs, Undone, Truth, Typed, AgentTypes
<1>3. ParkedRightly'
  BY <1>1 DEF agentVars, callerVars, ParkedRightly, AsksAbout, Truth
<1>4. AnswersTruthful'
  <2>1. Unanswered
    BY <1>1 DEF callerVars, Unanswered
  <2> QED  BY <2>1, NoAnswer DEF Truth
<1>5. MailTruthful'
  <2>1. CASE announce(t)
    <3>1. PICK m : m = [kind |-> "RegisterTask", task |-> t]
      OBVIOUS
    <3>2. m \in Messages /\ Send(m) /\ Truthful(m)'
      BY <2>1, <3>1, SentMessages DEF announce, Truthful
    <3> QED  BY <3>2, MailStaysTruthful DEF Truth
  <2>2. CASE report(t)
    <3>1. PICK m : m = [kind |-> "TaskCompleted", task |-> t, status |-> outcome[t]]
      OBVIOUS
    <3>2. m \in Messages /\ Send(m)
      BY <2>2, <3>1, SentMessages DEF report, Typed, Ended
    <3>3. work'[t] = "gone" /\ outcome'[t] = outcome[t]
      BY <2>2 DEF report, Typed, TaskTypes
    <3>4. Truthful(m)'
      BY <3>1, <3>3 DEF Truthful, EndedAs
    <3> QED  BY <3>2, <3>4, MailStaysTruthful DEF Truth
  <2>3. CASE UNCHANGED mailbox  BY <2>3, MailStaysTruthful DEF Truth
  <2> QED  BY <2>1, <2>2, <2>3 DEF TaskStep, acquire, spawn, finish, panic
<1> QED  BY <1>2, <1>3, <1>4, <1>5 DEF Truth

\* The steps of a caller keep the truth.
LEMMA CallKeepsTruth ==
    ASSUME Typed, Truth, Undone, NEW c \in Callers, CallStep(c)
    PROVE  Truth'
<1>1. UNCHANGED <<agentVars, taskVars>>
  BY DEF CallStep, wait_for_task, cancel, cancel_wait, ask_fails, ask_times_out, AskError
<1>2. RegistryTruthful'
  BY <1>1 DEF agentVars, taskVars, RegistryTruthful, EndedAs, Truth
<1>3. ParkedRightly'
  BY <1>1 DEF agentVars, ParkedRightly, AsksAbout, Truth, Undone, Typed, AgentTypes
<1>4. AnswersTruthful'
  <2>1. Unanswered
    BY DEF CallStep, wait_for_task, cancel, cancel_wait, ask_fails, ask_times_out, AskError,
           Typed, CallTypes, Unanswered
  <2> QED  BY <2>1, NoAnswer DEF Truth
<1>5. MailTruthful'
  <2>1. ASSUME NEW t \in Tasks, wait_for_task(c, t)  PROVE MailTruthful'
    <3>1. PICK m : m = [kind |-> "WaitForTask", task |-> t, caller |-> c]
      OBVIOUS
    <3>2. m \in Messages /\ Send(m)
      BY <2>1, <3>1, SentMessages DEF wait_for_task
    <3>3. target'[c] = t /\ caller'[c] = "waiting"
      BY <2>1 DEF wait_for_task, Typed, CallTypes
    <3>4. Truthful(m)'
      BY <3>1, <3>3 DEF Truthful, AsksAbout
    <3> QED  BY <3>2, <3>4, MailStaysTruthful DEF Truth
  <2>2. ASSUME NEW t \in Tasks, cancel(c, t)  PROVE MailTruthful'
    <3>1. PICK m : m = [kind |-> "CancelTask", task |-> t]
      OBVIOUS
    <3>2. m \in Messages /\ Send(m) /\ Truthful(m)'
      BY <2>2, <3>1, SentMessages DEF cancel, Truthful
    <3> QED  BY <3>2, MailStaysTruthful DEF Truth
  <2>3. CASE cancel_wait(c)
    <3>0. target[c] \in Tasks
      BY <2>3 DEF cancel_wait, Typed, Asked
    <3>1. PICK m : m = [kind |-> "WaitForTask", task |-> target[c], caller |-> c]
      OBVIOUS
    <3>2. m \in Messages /\ Send(m)
      BY <2>3, <3>0, <3>1, SentMessages DEF cancel_wait
    <3>3. target'[c] = target[c] /\ caller'[c] = "waiting"
      BY <2>3 DEF cancel_wait, Typed, CallTypes
    <3>4. Truthful(m)'
      BY <3>1, <3>3 DEF Truthful, AsksAbout
    <3> QED  BY <3>2, <3>4, MailStaysTruthful DEF Truth
  <2>4. CASE AskError(c)  BY <2>4, MailStaysTruthful DEF AskError, Truth
  <2> QED  BY <2>1, <2>2, <2>3, <2>4 DEF CallStep, ask_fails, ask_times_out
<1> QED  BY <1>2, <1>3, <1>4, <1>5 DEF Truth

\* The agent's steps keep the truth: a message becomes a status or an answer
\* about the task and for the caller it names.
LEMMA AgentKeepsTruth ==
    ASSUME Typed, Truth, Undone, AgentStep \/ request_cleanup \/ before_stop
    PROVE  Truth'
<1>1. UNCHANGED <<taskVars, target>>
  BY DEF AgentStep, HandleRegisterTask, HandleTaskCompleted, HandleCancelTask, callerVars,
         HandleWaitForTask, HandleCleanup, await_tasks, request_cleanup, before_stop
<1>2. MailTruthful'
  <2>1. CASE request_cleanup
    <3>1. PICK m : m = [kind |-> "CleanupFinishedTasks"]
      OBVIOUS
    <3>2. m \in Messages /\ Send(m) /\ Truthful(m)'
      BY <2>1, <3>1, SentMessages DEF request_cleanup, Truthful
    <3> QED  BY <3>2, MailStaysTruthful DEF Truth
  <2>2. CASE UNCHANGED mailbox \/ mailbox' = << >> \/ \E k : Receive(k)
    BY <2>2, MailStaysTruthful DEF Truth
  <2> QED  BY <2>1, <2>2, Zenon DEF AgentStep, HandleRegisterTask, HandleTaskCompleted,
             HandleCancelTask, HandleWaitForTask, HandleCleanup, await_tasks, before_stop
<1>3. \A m : mailbox # << >> /\ m = Head(mailbox) => m \in Messages /\ Truthful(m)
  BY DEF Truth, MailTruthful, Typed
<1>4. ASSUME UNCHANGED <<waiters, caller>>  PROVE ParkedRightly'
  BY <1>1, <1>4 DEF ParkedRightly, AsksAbout, Truth
<1>5. ASSUME UNCHANGED <<answer, caller>>  PROVE AnswersTruthful'
  <2>1. Unanswered
    BY <1>5 DEF Unanswered
  <2> QED  BY <2>1, NoAnswer DEF Truth
<1>6. ASSUME UNCHANGED tasks  PROVE RegistryTruthful'
  BY <1>1, <1>6 DEF RegistryTruthful, EndedAs, Truth, taskVars
<1>7. CASE HandleRegisterTask
  <2>1. RegistryTruthful'
    BY <1>1, <1>7 DEF HandleRegisterTask, RegistryTruthful, EndedAs, Truth, taskVars, Terminal
  <2> QED  BY <1>2, <1>4, <1>5, <1>7, <2>1 DEF HandleRegisterTask, callerVars, Truth
<1>8. CASE HandleTaskCompleted
  <2>1. PICK m : m = Head(mailbox)
    OBVIOUS
  <2>2. /\ m \in Messages /\ m.task \in Tasks /\ m.status \in Terminal
        /\ work[m.task] = "gone" /\ outcome[m.task] = m.status
    BY <1>3, <1>8, <2>1, MessageFields DEF HandleTaskCompleted, Receive, Truthful, EndedAs
  <2>3. /\ tasks' = [u \in DOMAIN tasks |-> IF u = m.task THEN m.status ELSE tasks[u]]
        /\ waiters' = [waiters EXCEPT ![m.task] = {}]
        /\ Tell(waiters[m.task], m.status)
    BY <1>8, <2>1 DEF HandleTaskCompleted
  <2>4. RegistryTruthful'
    BY <1>1, <2>2, <2>3 DEF RegistryTruthful, EndedAs, Truth, taskVars
  <2>5. ParkedRightly'
    BY <1>1, <2>2, <2>3 DEF ParkedRightly, AsksAbout, Truth, Undone, Typed, AgentTypes
  <2>6. AnswersTruthful'
    <3>1. \A c \in waiters[m.task] : target[c] = m.task
      BY <2>2 DEF Truth, ParkedRightly, AsksAbout
    <3>2. EndedAs(m.task, m.status)'
      BY <1>1, <2>2 DEF EndedAs, taskVars
    <3>3. m.status # "none"
      BY <2>2 DEF Terminal
    <3> QED  BY <1>1, <2>2, <2>3, <3>1, <3>2, <3>3, AnswersStayTruthful DEF Truth
  <2> QED  BY <1>2, <2>4, <2>5, <2>6 DEF Truth
<1>9. CASE HandleWaitForTask
  <2>1. PICK m : m = Head(mailbox)
    OBVIOUS
  <2>2. /\ m \in Messages /\ m.task \in Tasks /\ m.caller \in Callers
        /\ caller[m.caller] \in {"waiting", "done"} /\ target[m.caller] = m.task
    BY <1>3, <1>9, <2>1, MessageFields DEF HandleWaitForTask, Receive, Truthful, AsksAbout
  <2>3. RegistryTruthful'
    BY <1>6, <1>9 DEF HandleWaitForTask
  <2>4. ParkedRightly'
    <3>1. \A t \in Tasks : \A c \in waiters'[t] : c \in waiters[t] \/ (t = m.task /\ c = m.caller)
      BY <1>9, <2>1, <2>2 DEF HandleWaitForTask, Typed, AgentTypes
    <3> QED  BY <1>1, <2>2, <3>1 DEF ParkedRightly, AsksAbout, Truth, Undone, Typed, AgentTypes
  <2>5. AnswersTruthful'
    <3>1. CASE Tell({m.caller}, "unknown")
      BY <1>1, <3>1, AnswersStayTruthful DEF Truth, Terminal
    <3>2. CASE Tracked(m.task) /\ tasks[m.task] \in Terminal /\ Tell({m.caller}, tasks[m.task])
      <4>1. PICK s : s = tasks[m.task]
        OBVIOUS
      <4>2. work[m.task] = "gone" /\ outcome[m.task] = s /\ s # "none" /\ Tell({m.caller}, s)
        BY <3>2, <4>1 DEF Truth, RegistryTruthful, EndedAs, Tracked, Terminal
      <4>3. EndedAs(m.task, s)'
        BY <1>1, <4>2 DEF EndedAs, taskVars
      <4> QED  BY <1>1, <2>2, <4>2, <4>3, AnswersStayTruthful DEF Truth
    <3>3. CASE UNCHANGED <<answer, caller>>  BY <1>5, <3>3
    <3> QED  BY <1>9, <2>1, <3>1, <3>2, <3>3 DEF HandleWaitForTask
  <2> QED  BY <1>2, <2>3, <2>4, <2>5 DEF Truth
<1>10. CASE HandleCleanup
  <2>1. RegistryTruthful'
    BY <1>1, <1>10 DEF HandleCleanup, RegistryTruthful, EndedAs, Truth, taskVars
  <2> QED  BY <1>2, <1>4, <1>5, <1>10, <2>1 DEF HandleCleanup, callerVars, Truth
<1>11. CASE HandleCancelTask \/ await_tasks \/ request_cleanup \/ before_stop
  BY <1>2, <1>4, <1>5, <1>6, <1>11
     DEF HandleCancelTask, await_tasks, request_cleanup, before_stop, callerVars, agentVars, Truth
<1> QED  BY <1>7, <1>8, <1>9, <1>10, <1>11 DEF AgentStep

\* A caller that is told an end of its task is told the one that happened:
\* RegisterTask, TaskCompleted, WaitForTask and the cleanup may interleave as
\* they like, and the ask may have been parked, answered late or repeated by
\* cancel.
THEOREM ToldTheTruth == Spec => []AnswersAreTrue
<1>1. Init => Truth
  BY DEF Init, Truth, MailTruthful, RegistryTruthful, ParkedRightly, AnswersTruthful, Terminal
<1>2. ASSUME Typed, Holders, Truth, [Next]_vars  PROVE Truth'
  <2>1. Undone
    BY <1>2, NothingUndone
  <2>2. CASE UNCHANGED vars
    BY <1>2, <2>2 DEF vars, agentVars, taskVars, callerVars, Truth, MailTruthful, Truthful,
       RegistryTruthful, ParkedRightly, AnswersTruthful, EndedAs, AsksAbout
  <2> QED  BY <1>2, <2>1, <2>2, NextSteps, TaskKeepsTruth, CallKeepsTruth, AgentKeepsTruth
<1>3. Truth => AnswersAreTrue
  BY DEF Truth, AnswersTruthful, AnswersAreTrue, EndedAs
<1> QED  BY <1>1, <1>2, <1>3, TypedInductive, PermitsInductive, PTL DEF Spec

=============================================================================
