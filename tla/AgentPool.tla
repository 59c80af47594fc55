----------------------------- MODULE AgentPool -----------------------------
(***************************************************************************)
(* The worker pool of src/internal/agent/pool.go.                          *)
(*                                                                         *)
(* Callers (the watcher goroutines that Submit, the autoscaler that adds   *)
(* and removes workers, the main goroutine that shuts the pool down) run   *)
(* concurrently with the worker goroutines.  An action is one critical     *)
(* section of p.mu or one channel operation; a call that unlocks in the    *)
(* middle (Resize, RemoveWorkers, Shutdown) or that blocks while it holds  *)
(* p.mu (Submit) is several actions with a program counter in between.     *)
(*                                                                         *)
(* Worker goroutines are anonymous, so they are counted by where they are: *)
(* at the receive, inside processTask (one per running task), or at the    *)
(* select on workerQuit.                                                   *)
(***************************************************************************)
EXTENDS Integers, Sequences, FiniteSets

CONSTANTS
    Callers,          \* goroutines that use the pool
    Tasks,            \* the tasks submitted, all different
    NoCaller,         \* p.mu is free
    NoTask,           \* no Submit holds p.mu
    InitialWorkers,   \* the argument of NewPool
    MaxWorkers,       \* maxWorkers; 0 removes the limit
    QueueCap,         \* cap(p.tasks), twice the initial worker count
    QuitBuf,          \* workerQuitBuf
    Amounts           \* the arguments of AddWorkers, RemoveWorkers and Resize

ASSUME PoolAssumption ==
    /\ NoCaller \notin Callers
    /\ NoTask \notin Tasks
    /\ InitialWorkers \in Nat \ {0}
    /\ MaxWorkers \in Nat
    /\ QueueCap \in Nat \ {0}
    /\ QuitBuf \in Nat
    /\ Amounts \subseteq Nat \ {0}

VARIABLES
    mu,               \* the caller blocked inside Submit with p.mu, or NoCaller
    workers,          \* p.workers, the target count
    shutdown,         \* p.shutdown
    closed,           \* p.tasks is closed
    drained,          \* p.done is closed
    tasks,            \* the buffer of p.tasks
    quits,            \* the number of signals in p.workerQuit
    receiving,        \* workers at `range p.tasks`
    running,          \* tasks inside processTask
    finished,         \* workers at the select on workerQuit
    pc,               \* where each caller is
    delta,            \* Resize: target - workers, computed before the unlock
    unsent,           \* RemoveWorkers: quit signals still to send
    task,             \* Submit: the task being sent by the holder of p.mu
    accepted,         \* history: tasks Submit returned nil for
    completed         \* history: tasks whose onComplete callback has run

callVars == <<pc, delta, unsent, task>>
liveVars == <<receiving, running, finished>>
history  == <<accepted, completed>>
vars == <<mu, workers, shutdown, closed, drained, tasks, quits,
          liveVars, callVars, history>>

PcStates == {"idle", "scaling", "quitting", "restoring", "sending",
             "closing", "waiting"}

TypeOK ==
    /\ mu \in Callers \cup {NoCaller}
    /\ workers \in Nat
    /\ shutdown \in BOOLEAN /\ closed \in BOOLEAN /\ drained \in BOOLEAN
    /\ tasks \in Seq(Tasks)
    /\ quits \in 0..QuitBuf
    /\ receiving \in Nat /\ finished \in Nat
    /\ running \subseteq Tasks
    /\ pc \in [Callers -> PcStates]
    /\ delta \in [Callers -> Int]
    /\ unsent \in [Callers -> Nat]
    /\ task \in Tasks \cup {NoTask}
    /\ accepted \subseteq Tasks /\ completed \subseteq Tasks

Init ==
    /\ mu = NoCaller
    /\ workers = InitialWorkers
    /\ shutdown = FALSE /\ closed = FALSE /\ drained = FALSE
    /\ tasks = <<>>
    /\ quits = 0
    /\ receiving = InitialWorkers /\ running = {} /\ finished = 0
    /\ pc = [c \in Callers |-> "idle"]
    /\ delta = [c \in Callers |-> 0]
    /\ unsent = [c \in Callers |-> 0]
    /\ task = NoTask
    /\ accepted = {} /\ completed = {}

At(c, label) == pc[c] = label

Goto(c, label) == pc' = [pc EXCEPT ![c] = label]

Unlocked == mu = NoCaller

(***************************************************************************)
(* AddWorkers, RemoveWorkers and Resize.                                   *)
(***************************************************************************)
MayGrow(n) ==
    /\ ~shutdown
    /\ MaxWorkers > 0 => workers + n <= MaxWorkers

\* AddWorkers' critical section; a refused call changes nothing.
AddWorkers(c, n) ==
    /\ At(c, "idle") /\ Unlocked
    /\ MayGrow(n)
    /\ workers' = workers + n
    /\ receiving' = receiving + n
    /\ UNCHANGED <<mu, shutdown, closed, drained, tasks, quits, running,
                   finished, callVars, history>>

\* Fault: the last worker may be removed too.
RemovableAll(n) == IF n > workers THEN workers ELSE n

\* How many of the n requested removals keep one worker.
Removable(n) == IF n > workers - 1 THEN workers - 1 ELSE n

\* RemoveWorkers' critical section: the target drops before any signal is sent.
Reserve(c, n) ==
    /\ Unlocked
    /\ IF workers - 1 <= 0
         THEN Goto(c, "idle") /\ UNCHANGED <<workers, unsent>>
         ELSE /\ workers' = workers - Removable(n)
              /\ unsent' = [unsent EXCEPT ![c] = Removable(n)]
              /\ Goto(c, "quitting")
    /\ UNCHANGED <<mu, shutdown, closed, drained, tasks, quits, liveVars,
                   task, history>>

RemoveWorkers(c, n) ==
    /\ At(c, "idle")
    /\ Reserve(c, n)
    /\ UNCHANGED delta

\* Fault: a signal is counted as sent without looking at the buffer.
SendQuitUnbuffered(c) ==
    /\ At(c, "quitting")
    /\ quits' = quits + 1
    /\ unsent' = [unsent EXCEPT ![c] = @ - 1]
    /\ Goto(c, IF unsent[c] = 1 THEN "idle" ELSE "quitting")
    /\ UNCHANGED <<mu, workers, shutdown, closed, drained, tasks, liveVars,
                   delta, task, history>>

SendQuit(c) ==
    /\ At(c, "quitting")
    /\ quits < QuitBuf
    /\ quits' = quits + 1
    /\ unsent' = [unsent EXCEPT ![c] = @ - 1]
    /\ Goto(c, IF unsent[c] = 1 THEN "idle" ELSE "quitting")
    /\ UNCHANGED <<mu, workers, shutdown, closed, drained, tasks, liveVars,
                   delta, task, history>>

QuitBufferFull(c) ==
    /\ At(c, "quitting")
    /\ quits = QuitBuf
    /\ Goto(c, "restoring")
    /\ UNCHANGED <<mu, workers, shutdown, closed, drained, tasks, quits,
                   liveVars, delta, unsent, task, history>>

\* Fault: what could not be signalled stays subtracted from the target.
RestoreNothing(c) ==
    /\ At(c, "restoring") /\ Unlocked
    /\ unsent' = [unsent EXCEPT ![c] = 0]
    /\ Goto(c, "idle")
    /\ UNCHANGED <<mu, workers, shutdown, closed, drained, tasks, quits, liveVars,
                   delta, task, history>>

RestoreUnsent(c) ==
    /\ At(c, "restoring") /\ Unlocked
    /\ workers' = workers + unsent[c]
    /\ unsent' = [unsent EXCEPT ![c] = 0]
    /\ Goto(c, "idle")
    /\ UNCHANGED <<mu, shutdown, closed, drained, tasks, quits, liveVars,
                   delta, task, history>>

\* Resize computes its delta under p.mu and applies it after the unlock.
ResizeBegin(c, target) ==
    /\ At(c, "idle") /\ Unlocked
    /\ ~shutdown
    /\ MaxWorkers > 0 => target <= MaxWorkers
    /\ target # workers
    /\ delta' = [delta EXCEPT ![c] = target - workers]
    /\ Goto(c, "scaling")
    /\ UNCHANGED <<mu, workers, shutdown, closed, drained, tasks, quits,
                   liveVars, unsent, task, history>>

ResizeGrow(c) ==
    /\ At(c, "scaling") /\ delta[c] > 0 /\ Unlocked
    /\ IF MayGrow(delta[c])
         THEN /\ workers' = workers + delta[c]
              /\ receiving' = receiving + delta[c]
         ELSE UNCHANGED <<workers, receiving>>
    /\ delta' = [delta EXCEPT ![c] = 0]
    /\ Goto(c, "idle")
    /\ UNCHANGED <<mu, shutdown, closed, drained, tasks, quits, running,
                   finished, unsent, task, history>>

ResizeShrink(c) ==
    /\ At(c, "scaling") /\ delta[c] < 0
    /\ Reserve(c, -delta[c])
    /\ delta' = [delta EXCEPT ![c] = 0]

(***************************************************************************)
(* Submit keeps p.mu until the send succeeds.                              *)
(***************************************************************************)
\* Fault: p.mu is released before the send.
SubmitUnlocked(c, t) ==
    /\ At(c, "idle") /\ Unlocked
    /\ ~shutdown
    /\ t \notin accepted
    /\ task' = t
    /\ Goto(c, "sending")
    /\ UNCHANGED <<mu, workers, shutdown, closed, drained, tasks, quits,
                   liveVars, delta, unsent, history>>

SubmitLock(c, t) ==
    /\ At(c, "idle") /\ Unlocked
    /\ ~shutdown
    /\ t \notin accepted
    /\ mu' = c
    /\ task' = t
    /\ Goto(c, "sending")
    /\ UNCHANGED <<workers, shutdown, closed, drained, tasks, quits,
                   liveVars, delta, unsent, history>>

SubmitSend(c) ==
    /\ At(c, "sending")
    /\ Len(tasks) < QueueCap
    /\ tasks' = Append(tasks, task)
    /\ accepted' = accepted \cup {task}
    /\ mu' = NoCaller
    /\ task' = NoTask
    /\ Goto(c, "idle")
    /\ UNCHANGED <<workers, shutdown, closed, drained, quits, liveVars,
                   delta, unsent, completed>>

(***************************************************************************)
(* Shutdown sets the flag under p.mu, then closes p.tasks, then waits for  *)
(* the workers.  A second call returns at once.                            *)
(***************************************************************************)
ShutdownBegin(c) ==
    /\ At(c, "idle") /\ Unlocked
    /\ ~shutdown
    /\ shutdown' = TRUE
    /\ Goto(c, "closing")
    /\ UNCHANGED <<mu, workers, closed, drained, tasks, quits, liveVars,
                   delta, unsent, task, history>>

\* Fault: the channel is never closed.
CloseNothing(c) ==
    /\ At(c, "closing")
    /\ Goto(c, "waiting")
    /\ UNCHANGED <<mu, workers, shutdown, closed, drained, tasks, quits, liveVars,
                   delta, unsent, task, history>>

CloseTasks(c) ==
    /\ At(c, "closing")
    /\ closed' = TRUE
    /\ Goto(c, "waiting")
    /\ UNCHANGED <<mu, workers, shutdown, drained, tasks, quits, liveVars,
                   delta, unsent, task, history>>

\* The goroutines p.wg counts.
Live == receiving + finished + Cardinality(running)

\* Fault: no p.wg.Wait().
ShutdownWithoutWait(c) ==
    /\ At(c, "waiting")
    /\ drained' = TRUE
    /\ Goto(c, "idle")
    /\ UNCHANGED <<mu, workers, shutdown, closed, tasks, quits, liveVars,
                   delta, unsent, task, history>>

ShutdownReturn(c) ==
    /\ At(c, "waiting")
    /\ Live = 0
    /\ drained' = TRUE
    /\ Goto(c, "idle")
    /\ UNCHANGED <<mu, workers, shutdown, closed, tasks, quits, liveVars,
                   delta, unsent, task, history>>

(***************************************************************************)
(* worker: receive, process, then look at workerQuit.                      *)
(***************************************************************************)
\* Fault: the worker needs p.mu to take a task.
ReceiveLocked ==
    /\ receiving > 0 /\ Unlocked
    /\ tasks # <<>>
    /\ tasks' = Tail(tasks)
    /\ receiving' = receiving - 1
    /\ running' = running \cup {Head(tasks)}
    /\ UNCHANGED <<mu, workers, shutdown, closed, drained, quits, finished,
                   callVars, history>>

Receive ==
    /\ receiving > 0
    /\ tasks # <<>>
    /\ tasks' = Tail(tasks)
    /\ receiving' = receiving - 1
    /\ running' = running \cup {Head(tasks)}
    /\ UNCHANGED <<mu, workers, shutdown, closed, drained, quits, finished,
                   callVars, history>>

ProcessTask(t) ==
    /\ t \in running
    /\ running' = running \ {t}
    /\ finished' = finished + 1
    /\ completed' = completed \cup {t}
    /\ UNCHANGED <<mu, workers, shutdown, closed, drained, tasks, quits,
                   receiving, callVars, accepted>>

TakeQuit ==
    /\ finished > 0
    /\ quits > 0
    /\ quits' = quits - 1
    /\ finished' = finished - 1
    /\ UNCHANGED <<mu, workers, shutdown, closed, drained, tasks, receiving,
                   running, callVars, history>>

NoQuit ==
    /\ finished > 0
    /\ quits = 0
    /\ finished' = finished - 1
    /\ receiving' = receiving + 1
    /\ UNCHANGED <<mu, workers, shutdown, closed, drained, tasks, quits,
                   running, callVars, history>>

\* Fault: the worker leaves as soon as the channel is closed.
ExitBeforeEmpty ==
    /\ receiving > 0
    /\ closed
    /\ receiving' = receiving - 1
    /\ UNCHANGED <<mu, workers, shutdown, closed, drained, tasks, quits,
                   running, finished, callVars, history>>

ExitOnClosed ==
    /\ receiving > 0
    /\ closed /\ tasks = <<>>
    /\ receiving' = receiving - 1
    /\ UNCHANGED <<mu, workers, shutdown, closed, drained, tasks, quits,
                   running, finished, callVars, history>>

CallerStep(c) ==
    \/ SendQuit(c) \/ QuitBufferFull(c) \/ RestoreUnsent(c)
    \/ ResizeGrow(c) \/ ResizeShrink(c)
    \/ SubmitSend(c)
    \/ CloseTasks(c) \/ ShutdownReturn(c)

CallerCall(c) ==
    \/ \E n \in Amounts : AddWorkers(c, n) \/ RemoveWorkers(c, n) \/ ResizeBegin(c, n)
    \/ \E t \in Tasks : SubmitLock(c, t)
    \/ ShutdownBegin(c)

WorkerStep ==
    \/ Receive
    \/ \E t \in Tasks : ProcessTask(t)
    \/ TakeQuit \/ NoQuit \/ ExitOnClosed

Next == WorkerStep \/ \E c \in Callers : CallerStep(c) \/ CallerCall(c)

Spec == Init /\ [][Next]_vars

(***************************************************************************)
(* Fairness: the Go scheduler runs every goroutine that can run, so a call *)
(* in progress goes on and each worker step is taken; a task inside        *)
(* processTask ends, because every provider call has a deadline.  Nothing  *)
(* is assumed about calls that have not begun.  A waiter of p.mu is served *)
(* eventually (sync.Mutex hands over to starving waiters), hence SF for    *)
(* the steps that lock.                                                    *)
(***************************************************************************)
Fairness ==
    /\ WF_vars(Receive) /\ WF_vars(TakeQuit) /\ WF_vars(NoQuit)
    /\ WF_vars(ExitOnClosed)
    /\ \A t \in Tasks : WF_vars(ProcessTask(t))
    /\ \A c \in Callers : SF_vars(CallerStep(c))

FairSpec == Spec /\ Fairness

(***************************************************************************)
(* Properties.                                                             *)
(***************************************************************************)
\* The quit signals that RemoveWorkers calls in progress still owe.
Owed == UNION {{c} \X (1..unsent[c]) : c \in Callers}

\* Every live goroutine is accounted for: as long as there is work or more may
\* come, the goroutines are exactly the target count plus those told (or about
\* to be told) to quit.  Concurrent Resize, RemoveWorkers whose buffer is full
\* and workers that quit between two tasks all keep the books balanced.
WorkerAccounting ==
    (~closed \/ tasks # <<>>) => Live = workers + quits + Cardinality(Owed)

\* RemoveWorkers "always" keeps one worker running: while the queue is open or
\* holds a task there is a goroutine to serve it, whatever quits are pending.
QueueServed == (~closed \/ tasks # <<>>) => Live >= 1

\* The comment on Submit: holding p.mu across the send means no send ever meets
\* a closed channel (which would panic).
NoSendOnClosed == \A c \in Callers : At(c, "sending") => ~closed /\ mu = c

\* Shutdown "waits for in-flight tasks to complete": Done is closed only when no
\* goroutine is left and every accepted task has completed.
DrainedMeansDone == drained => Live = 0 /\ completed = accepted

\* A task Submit accepted is eventually processed, even if the pool is scaled
\* down or shut down meanwhile.
AcceptedCompletes == \A t \in Tasks : t \in accepted ~> t \in completed

\* Submit blocks on a full buffer while it holds p.mu; workers drain the buffer
\* without p.mu, so every Submit returns.
SubmitReturns == \A c \in Callers : At(c, "sending") ~> ~At(c, "sending")

\* Shutdown returns.
ShutdownReturns == shutdown ~> drained

\* The pool implements the task service.
Service == INSTANCE TaskService WITH open <- ~shutdown
ImplementsTaskService == Service!Spec
\* Calls end and are kept: a task that was accepted completes, even if the pool is
\* scaled down or shut down meanwhile, and neither Submit, on a full buffer under
\* p.mu, nor Shutdown waits for ever.
CallsServed == AcceptedCompletes /\ SubmitReturns /\ ShutdownReturns
=============================================================================
