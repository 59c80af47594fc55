-------------------------- MODULE DispatchProcess --------------------------
(***************************************************************************)
(* The `samverk dispatch` process, RunE of dispatchCmd in                  *)
(* src/cmd/samverk/main.go: what it starts, what a failure or a signal     *)
(* stops, and in which order the deferred calls take the rest down.        *)
(*                                                                         *)
(* The members of the errgroup run on a context that ends with the first   *)
(* error of a member; the background goroutines run on the context of the  *)
(* process, which only a signal or the last deferred call ends.  The       *)
(* dispatcher does not wait for the event handlers of its watchers, so one *)
(* may still be routing an issue while the process is taken down.          *)
(*                                                                         *)
(* Tasks are counted: AgentPool models the pool, ForgeWatch the ways in    *)
(* which the dispatcher fails.                                             *)
(***************************************************************************)
EXTENDS Integers, Sequences, SequencesExt

CONSTANTS
    Workers,      \* workers of the pool
    QueueCap,     \* capacity of its queue
    MaxTasks      \* bound on the tasks submitted

DispatchAssumption ==
    /\ {Workers, QueueCap, MaxTasks} \subseteq Nat \ {0}

VARIABLES
    config,       \* what the flags and the files made available
    signal,       \* SIGINT or SIGTERM has been received
    failed,       \* a member has returned an error
    members,      \* the errgroup's goroutines
    handler,      \* an event handler of a watcher
    submitted,    \* bounded counter: tasks that were routed
    queue,        \* tasks in the queue of the pool
    running,      \* tasks inside a worker
    refusing,     \* the pool has been told to shut down
    open,         \* databases not closed yet
    background,   \* the goroutines outside the errgroup
    deferred,     \* the deferred calls still to run
    process       \* where the main goroutine is

poolVars == <<submitted, queue, running, refusing>>
vars == <<config, signal, failed, members, handler, poolVars, open,
          background, deferred, process>>

\* What may be missing: each database is optional, the pool needs a provider
\* registry, the autoscaler and the PR watcher are switched on.
Options == {"store", "logs", "pool", "scaling", "merge"}

Members == {"hub", "dispatcher", "autoscaler", "metrics", "merger"}

Started(c) ==
    {"hub", "dispatcher"}
      \cup (IF {"pool", "scaling"} \subseteq c THEN {"autoscaler"} ELSE {})
      \cup (IF "store" \in c THEN {"metrics"} ELSE {})
      \cup (IF "merge" \in c THEN {"merger"} ELSE {})

\* The health snapshot writer and the log pruner.
Background(c) ==
    (IF {"pool", "store"} \subseteq c THEN {"snapshots"} ELSE {})
      \cup (IF "logs" \in c THEN {"pruner"} ELSE {})

\* A call that is deferred where its part was created.
DeferredIf(d, c) == IF d \in c THEN <<d>> ELSE <<>>

\* Fault: the pool is created before the databases are opened.
DeferredPoolLast(c) ==
    DeferredIf("logs", c) \o DeferredIf("store", c) \o DeferredIf("pool", c) \o <<"cancel">>

\* The deferred calls, the last one deferred first.
Deferred(c) ==
    DeferredIf("pool", c) \o DeferredIf("logs", c) \o DeferredIf("store", c) \o <<"cancel">>

Init ==
    /\ config \in SUBSET Options
    /\ signal = FALSE
    /\ failed = FALSE
    /\ members = [m \in Members |-> IF m \in Started(config) THEN "running" ELSE "absent"]
    /\ handler = "idle"
    /\ submitted = 0
    /\ queue = 0
    /\ running = 0
    /\ refusing = FALSE
    /\ open = config \cap {"store", "logs"}
    /\ background = [b \in Background(config) |-> "waiting"]
    /\ deferred = Deferred(config)
    /\ process = "waiting"

-----------------------------------------------------------------------------
\* The context of the process, and the one of the errgroup.
Done == signal \/ process = "exited"
GroupDone == signal \/ failed

Signal ==
    /\ ~signal
    /\ process # "exited"
    /\ signal' = TRUE
    /\ UNCHANGED <<config, failed, members, handler, poolVars, open,
                   background, deferred, process>>

\* Dispatcher.Run gives up on its watchers.
DispatcherFails ==
    /\ members["dispatcher"] = "running"
    /\ members' = [members EXCEPT !["dispatcher"] = "returned"]
    /\ failed' = TRUE
    /\ UNCHANGED <<config, signal, handler, poolVars, open, background,
                   deferred, process>>

\* Fault: the hub runs on the context of the process.
StopsHubOnSignal(m) == IF m = "hub" THEN signal ELSE GroupDone

\* The context a member watches.
Stops(m) == GroupDone

\* A member sees its context done.  The error it may return then is not the
\* first one, or is context.Canceled, which RunE ignores.
MemberStops(m) ==
    /\ members[m] = "running"
    /\ Stops(m)
    /\ members' = [members EXCEPT ![m] = "returned"]
    /\ UNCHANGED <<config, signal, failed, handler, poolVars, open,
                   background, deferred, process>>

-----------------------------------------------------------------------------
\* A watcher hands an event to the dispatcher: handleEvent begins to route.
Handle ==
    /\ members["dispatcher"] = "running"
    /\ handler = "idle"
    /\ submitted < MaxTasks
    /\ submitted' = submitted + 1
    /\ handler' = "routing"
    /\ UNCHANGED <<config, signal, failed, members, queue, running, refusing,
                   open, background, deferred, process>>

\* Submit takes the pool's mutex; it is refused once the pool shuts down.
BeginSubmit ==
    /\ handler = "routing"
    /\ process # "exited"
    /\ handler' = IF "pool" \in config /\ ~refusing THEN "submitting" ELSE "idle"
    /\ UNCHANGED <<config, signal, failed, members, poolVars, open,
                   background, deferred, process>>

\* The send to the queue waits for room with the mutex held.
EndSubmit ==
    /\ handler = "submitting"
    /\ queue < QueueCap
    /\ queue' = queue + 1
    /\ handler' = "idle"
    /\ UNCHANGED <<config, signal, failed, members, submitted, running,
                   refusing, open, background, deferred, process>>

\* A worker runs a task; when it is done it has recorded it in the store.
TaskStarts ==
    /\ queue > 0
    /\ running < Workers
    /\ queue' = queue - 1
    /\ running' = running + 1
    /\ UNCHANGED <<config, signal, failed, members, handler, submitted,
                   refusing, open, background, deferred, process>>

TaskEnds ==
    /\ running > 0
    /\ running' = running - 1
    /\ UNCHANGED <<config, signal, failed, members, handler, submitted, queue,
                   refusing, open, background, deferred, process>>

-----------------------------------------------------------------------------
\* A background goroutine wakes up to save or to prune, and goes back to its
\* select, or leaves it when the context of the process is done.
BackgroundStep(b) ==
    /\ process # "exited"
    /\ \/ background[b] = "waiting" /\ background' = [background EXCEPT ![b] = "working"]
       \/ background[b] = "working" /\ background' = [background EXCEPT ![b] = "waiting"]
       \/ /\ background[b] = "waiting"
          /\ Done
          /\ background' = [background EXCEPT ![b] = "returned"]
    /\ UNCHANGED <<config, signal, failed, members, handler, poolVars, open,
                   deferred, process>>

-----------------------------------------------------------------------------
\* g.Wait returns: RunE returns, which begins the deferred calls.
GroupReturns ==
    /\ process = "waiting"
    /\ \A m \in Members : members[m] # "running"
    /\ process' = "deferred"
    /\ UNCHANGED <<config, signal, failed, members, handler, poolVars, open,
                   background, deferred>>

Runs(d) == process = "deferred" /\ deferred # <<>> /\ Head(deferred) = d

\* pool.Shutdown: the flag is set under the mutex, then the workers empty the
\* queue and end.
ShutdownBegins ==
    /\ Runs("pool")
    /\ ~refusing
    /\ handler # "submitting"
    /\ refusing' = TRUE
    /\ UNCHANGED <<config, signal, failed, members, handler, submitted, queue,
                   running, open, background, deferred, process>>

ShutdownEnds ==
    /\ Runs("pool")
    /\ refusing
    /\ queue = 0 /\ running = 0
    /\ deferred' = Tail(deferred)
    /\ UNCHANGED <<config, signal, failed, members, handler, poolVars, open,
                   background, process>>

CloseDatabase(d) ==
    /\ Runs(d)
    /\ open' = open \ {d}
    /\ deferred' = Tail(deferred)
    /\ UNCHANGED <<config, signal, failed, members, handler, poolVars,
                   background, process>>

\* cancel, the first call deferred, is the last one to run.  The process ends
\* and takes every goroutine with it.
Exit ==
    /\ Runs("cancel")
    /\ deferred' = Tail(deferred)
    /\ process' = "exited"
    /\ background' = [b \in DOMAIN background |-> "returned"]
    /\ handler' = "idle"
    /\ UNCHANGED <<config, signal, failed, members, poolVars, open>>

Group == DispatcherFails \/ \E m \in Members : MemberStops(m)
Main  == \/ GroupReturns
         \/ ShutdownBegins \/ ShutdownEnds
         \/ CloseDatabase("logs") \/ CloseDatabase("store")
         \/ Exit
Pool  == TaskStarts \/ TaskEnds

Next ==
    \/ Signal
    \/ Group
    \/ Handle \/ BeginSubmit \/ EndSubmit
    \/ Pool
    \/ \E b \in DOMAIN background : BackgroundStep(b)
    \/ Main

Spec == Init /\ [][Next]_vars

-----------------------------------------------------------------------------
TypeOK ==
    /\ config \subseteq Options
    /\ {signal, failed, refusing} \subseteq BOOLEAN
    /\ members \in [Members -> {"absent", "running", "returned"}]
    /\ handler \in {"idle", "routing", "submitting"}
    /\ submitted \in 0..MaxTasks
    /\ queue \in 0..QueueCap /\ running \in 0..Workers
    /\ open \subseteq {"store", "logs"}
    /\ \A b \in DOMAIN background : background[b] \in {"waiting", "working", "returned"}
    /\ IsSuffix(deferred, Deferred(config))
    /\ process \in {"waiting", "deferred", "exited"}

\* Whoever works for the dispatcher when the process is taken down finds the
\* databases open: the members of the group, which are waited for, and every
\* task the pool has accepted, which Shutdown lets finish before the deferred
\* calls close the databases (main.go:728, 739, 761).
DatabasesOutliveTasks ==
    (queue + running > 0 \/ \E m \in Members : members[m] = "running")
      => config \cap {"store", "logs"} \subseteq open

\* The process ends when it is asked to, and when one of its parts fails
\* (main.go:858-964): nobody is left waiting for somebody who does not stop.
ProcessEnds == (signal \/ failed) ~> process = "exited"
=============================================================================
