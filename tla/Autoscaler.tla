----------------------------- MODULE Autoscaler -----------------------------
(***************************************************************************)
(* Adaptive scaling: the threshold policy (src/internal/scaling/policy.go),*)
(* the autoscaler's loop (autoscaler.go), the control record that the API  *)
(* and the MCP tools write (src/internal/api/scaling.go, mcp/              *)
(* tools_scaling.go) and, of the agent pool, what they see and change.     *)
(*                                                                         *)
(* The autoscaler is the only goroutine that scales the pool, so its calls *)
(* are atomic here; AgentPool models them step by step.  Tasks have no     *)
(* identity: the policy sees how many wait and how many run.               *)
(*                                                                         *)
(* Durations are counted in units that Elapse advances.  A timestamp is    *)
(* kept as its age, which stops to matter, and to grow, at its threshold.  *)
(***************************************************************************)
EXTENDS Integers

CONSTANTS
    MinWorkers, MaxWorkers,   \* the policy's bounds; the pool's maximum is the same
    InitialWorkers,           \* NewPool's workers, set independently of the bounds
    QueueCap,                 \* the capacity of the task channel
    QuitBuf,                  \* the capacity of the quit channel
    QueueDepthTrigger,        \* waiting tasks that justify another worker
    AllWorkersBusy,           \* ... if no worker is idle
    IdleWorkerThreshold,      \* idle workers that justify one worker less
    IdleDuration,             \* ... if they have been idle for so long
    Cooldown,                 \* CooldownAfterScale
    Targets,                  \* worker counts people ask for
    MaxOrders                 \* bound: how often people write the control record

ScalingAssumption ==
    /\ MinWorkers \in Nat \ {0} /\ MaxWorkers \in Nat /\ MinWorkers <= MaxWorkers
    /\ InitialWorkers \in Nat \ {0}
    /\ QueueCap \in Nat \ {0} /\ QuitBuf \in Nat \ {0}
    /\ QueueDepthTrigger \in Nat \ {0} /\ IdleWorkerThreshold \in Nat \ {0}
    /\ AllWorkersBusy \in BOOLEAN
    /\ IdleDuration \in Nat /\ Cooldown \in Nat
    /\ Targets \subseteq Nat \ {0}
    /\ MaxOrders \in Nat

VARIABLES
    \* the pool
    workers,          \* the target worker count
    quits,            \* quit signals no goroutine has taken yet
    running,          \* tasks being processed
    depth,            \* tasks waiting
    \* the host and the store
    memoryOK,         \* memory use is below the policy's threshold
    control,          \* the control record
    orders,           \* how often it has been written
    \* the policy
    sinceScale,       \* the age of lastScale, Cooldown when it no longer matters
    hasIdleStart,
    idleFor,          \* the age of idleStart
    \* the autoscaler's goroutine
    pc,
    \* history
    quiet,            \* time since the last autonomous change of the target
    lull              \* time since an evaluation last saw too few idle workers

pool    == <<workers, quits, running, depth>>
policy  == <<sinceScale, hasIdleStart, idleFor>>
history == <<quiet, lull>>
vars == <<pool, memoryOK, control, orders, policy, pc, history>>

Smaller(a, b) == IF a < b THEN a ELSE b

TypeOK ==
    /\ workers \in Nat \ {0} /\ quits \in 0..QuitBuf
    /\ running \in Nat /\ depth \in 0..QueueCap
    /\ memoryOK \in BOOLEAN
    /\ control \in [paused : BOOLEAN, manual : Targets \cup {0}]
    /\ orders \in 0..MaxOrders
    /\ sinceScale \in 0..Cooldown
    /\ hasIdleStart \in BOOLEAN /\ idleFor \in 0..IdleDuration
    /\ pc \in {"waiting", "evaluating", "scaling-up", "scaling-down"}
    /\ quiet \in 0..Cooldown /\ lull \in 0..IdleDuration

Init ==
    /\ workers = InitialWorkers /\ quits = 0 /\ running = 0 /\ depth = 0
    /\ memoryOK = TRUE
    /\ control = [paused |-> FALSE, manual |-> 0] /\ orders = 0
    /\ sinceScale = Cooldown /\ hasIdleStart = FALSE /\ idleFor = 0
    /\ pc = "waiting"
    /\ quiet = Cooldown /\ lull = 0

(***************************************************************************)
(* The pool's goroutines.  A quit signal is taken only after a task.       *)
(***************************************************************************)
Goroutines == workers + quits

SubmitTask ==
    /\ depth < QueueCap
    /\ depth' = depth + 1
    /\ UNCHANGED <<workers, quits, running, memoryOK, control, orders, policy, pc, history>>

TakeTask ==
    /\ depth > 0 /\ running < Goroutines
    /\ depth' = depth - 1 /\ running' = running + 1
    /\ UNCHANGED <<workers, quits, memoryOK, control, orders, policy, pc, history>>

FinishTask ==
    /\ running > 0
    /\ running' = running - 1
    /\ quits' = IF quits > 0 THEN quits - 1 ELSE 0
    /\ UNCHANGED <<workers, depth, memoryOK, control, orders, policy, pc, history>>

\* AddWorkers and RemoveWorkers: whether they succeed, and what they change.
CanAdd(n) == workers + n <= MaxWorkers
Add(n) == workers' = workers + n /\ UNCHANGED <<quits, running, depth>>

\* Fault: the quit channel is taken to be unbounded.
RemovableUnbuffered(n) == Smaller(n, workers - 1)

\* At least one worker is kept, and the quit channel takes no more than it holds.
Removable(n) == Smaller(Smaller(n, workers - 1), QuitBuf - quits)
Remove(n) == workers' = workers - n /\ quits' = quits + n /\ UNCHANGED <<running, depth>>

(***************************************************************************)
(* People, over the API, the command line or MCP.                          *)
(***************************************************************************)
Order(record) ==
    /\ orders < MaxOrders
    /\ orders' = orders + 1
    /\ control' = record
    /\ UNCHANGED <<pool, memoryOK, policy, pc, history>>

Pause  == Order([paused |-> TRUE, manual |-> 0])
Resume == Order([paused |-> FALSE, manual |-> 0])
Set(n) == Order([paused |-> TRUE, manual |-> n])

MemoryChanges ==
    /\ memoryOK' = ~memoryOK
    /\ UNCHANGED <<pool, control, orders, policy, pc, history>>

Elapse ==
    /\ sinceScale' = Smaller(sinceScale + 1, Cooldown)
    /\ idleFor' = Smaller(idleFor + 1, IdleDuration)
    /\ quiet' = Smaller(quiet + 1, Cooldown)
    /\ lull' = Smaller(lull + 1, IdleDuration)
    /\ UNCHANGED <<pool, memoryOK, control, orders, hasIdleStart, pc>>

(***************************************************************************)
(* evaluate.  A tick reads the control record first; if that fails the     *)
(* policy is asked all the same.                                           *)
(***************************************************************************)
ApplyManualOverride(n) ==
    IF n > workers
      THEN IF CanAdd(n - workers) THEN Add(n - workers) ELSE UNCHANGED pool
      ELSE Remove(Removable(workers - n))

ReadControl ==
    /\ pc = "waiting"
    /\ IF control.paused THEN UNCHANGED <<pool, pc>>
       ELSE IF control.manual > 0 THEN ApplyManualOverride(control.manual) /\ UNCHANGED pc
       ELSE pc' = "evaluating" /\ UNCHANGED pool
    /\ UNCHANGED <<memoryOK, control, orders, policy, history>>

ControlUnreadable ==
    /\ pc = "waiting"
    /\ pc' = "evaluating"
    /\ UNCHANGED <<pool, memoryOK, control, orders, policy, history>>

(***************************************************************************)
(* Snapshot and Evaluate.                                                  *)
(***************************************************************************)
Idle == workers - Smaller(running, workers)

CoolingDown == sinceScale < Cooldown

WantsMore ==
    /\ workers < MaxWorkers
    /\ depth >= QueueDepthTrigger
    /\ memoryOK
    /\ AllWorkersBusy => Idle = 0

\* Fault: the last step goes below the minimum.
EnoughIdleAtMin == workers >= MinWorkers /\ Idle >= IdleWorkerThreshold

EnoughIdle == workers > MinWorkers /\ Idle >= IdleWorkerThreshold

IdleTime == IF hasIdleStart THEN idleFor ELSE 0

\* What the evaluations have seen of idle workers, and for how long.
Sampled == lull' = IF EnoughIdle THEN lull ELSE 0

Evaluating(next) ==
    /\ pc = "evaluating"
    /\ pc' = next
    /\ UNCHANGED <<pool, memoryOK, control, orders, sinceScale, quiet>>

\* Fault: an evaluation starts the cooldown anew.
HoldAndNotify ==
    /\ pc = "evaluating"
    /\ pc' = "waiting"
    /\ CoolingDown
    /\ sinceScale' = 0
    /\ Sampled
    /\ UNCHANGED <<pool, memoryOK, control, orders, hasIdleStart, idleFor, quiet>>

HoldWhileCooling ==
    /\ Evaluating("waiting")
    /\ CoolingDown
    /\ UNCHANGED <<hasIdleStart, idleFor>>
    /\ Sampled

DecideUp ==
    /\ Evaluating("scaling-up")
    /\ ~CoolingDown /\ WantsMore
    /\ hasIdleStart' = FALSE /\ UNCHANGED idleFor
    /\ Sampled

\* Fault: waiting for the idle time to pass starts it anew.
HoldWhileIdleAnew ==
    /\ Evaluating("waiting")
    /\ ~CoolingDown /\ ~WantsMore /\ EnoughIdle /\ IdleTime < IdleDuration
    /\ hasIdleStart' = TRUE /\ idleFor' = 0
    /\ Sampled

HoldWhileIdle ==
    /\ Evaluating("waiting")
    /\ ~CoolingDown /\ ~WantsMore /\ EnoughIdle /\ IdleTime < IdleDuration
    /\ hasIdleStart' = TRUE /\ idleFor' = IdleTime
    /\ Sampled

DecideDown ==
    /\ Evaluating("scaling-down")
    /\ ~CoolingDown /\ ~WantsMore /\ EnoughIdle /\ IdleTime >= IdleDuration
    /\ hasIdleStart' = FALSE /\ UNCHANGED idleFor
    /\ Sampled

\* Fault: the idle time is not forgotten.
HoldAndRemember ==
    /\ Evaluating("waiting")
    /\ ~CoolingDown /\ ~WantsMore /\ ~EnoughIdle
    /\ UNCHANGED <<hasIdleStart, idleFor>>
    /\ Sampled

HoldStable ==
    /\ Evaluating("waiting")
    /\ ~CoolingDown /\ ~WantsMore /\ ~EnoughIdle
    /\ hasIdleStart' = FALSE /\ UNCHANGED idleFor
    /\ Sampled

(***************************************************************************)
(* apply.  NotifyScaled is called only if the pool has changed.            *)
(***************************************************************************)
Applying(label) ==
    /\ pc = label
    /\ pc' = "waiting"
    /\ UNCHANGED <<memoryOK, control, orders, hasIdleStart, idleFor, lull>>

\* Fault: the policy is not told of the change.
ApplyUpUnnotified ==
    /\ Applying("scaling-up")
    /\ IF CanAdd(1) THEN Add(1) /\ quiet' = 0 /\ UNCHANGED sinceScale
                    ELSE UNCHANGED <<pool, sinceScale, quiet>>

ApplyUp ==
    /\ Applying("scaling-up")
    /\ IF CanAdd(1) THEN Add(1) /\ sinceScale' = 0 /\ quiet' = 0
                    ELSE UNCHANGED <<pool, sinceScale, quiet>>

ApplyDown ==
    /\ Applying("scaling-down")
    /\ IF Removable(1) = 1 THEN Remove(1) /\ sinceScale' = 0 /\ quiet' = 0
                           ELSE UNCHANGED <<pool, sinceScale, quiet>>

Tick == ReadControl \/ ControlUnreadable

Scale ==
    \/ HoldWhileCooling \/ DecideUp \/ HoldWhileIdle \/ DecideDown \/ HoldStable
    \/ ApplyUp \/ ApplyDown

Next ==
    \/ SubmitTask \/ TakeTask \/ FinishTask
    \/ Pause \/ Resume \/ \E n \in Targets : Set(n)
    \/ MemoryChanges \/ Elapse
    \/ Tick \/ Scale

Spec == Init /\ [][Next]_vars

(***************************************************************************)
(* Properties.                                                             *)
(***************************************************************************)
Autonomous == pc \in {"scaling-up", "scaling-down"}

\* The decision is made on a snapshot and applied later, to a pool that may have
\* been started with any number of workers: still no autonomous step takes the
\* target beyond a bound it was within.
ScalesWithinBounds ==
    [][Autonomous => /\ workers' > workers => workers' <= MaxWorkers
                     /\ workers' < workers => workers' >= MinWorkers]_vars

\* policy.go:93: at least CooldownAfterScale passes between two autonomous changes,
\* whatever the pool refused or people ordered in between.
CoolsDown == [][Autonomous /\ workers' # workers => quiet >= Cooldown]_vars

\* A worker goes only if every evaluation of the last IdleDuration has seen enough
\* idle ones: neither a cooldown nor a scale-up leaves an old idle start behind.
IdleBeforeDown ==
    [][Autonomous /\ workers' < workers => lull >= IdleDuration]_vars

\* While tasks wait and every worker is busy the pool grows, to its maximum if the
\* pressure lasts.
Pressed == depth >= QueueDepthTrigger /\ Idle = 0 /\ memoryOK /\ ~control.paused
PressureRelieved == Pressed ~> ~Pressed \/ workers >= MaxWorkers

\* Workers that stay idle are let go, until too few are idle or the minimum is
\* reached, unless the quit channel is full (no goroutine takes a signal while
\* there are no tasks).
IdleShrinks == EnoughIdle ~> ~EnoughIdle \/ control.paused \/ quits = QuitBuf

\* The size follows the load in both directions.
SizeFollowsLoad == PressureRelieved /\ IdleShrinks

\* mcp/tools_scaling.go:34: scale_set will "force the worker pool to a specific
\* size".  The record it writes is also paused, and evaluate looks at that first.
ManualTargetReached ==
    \A n \in Targets : control.manual = n ~> workers = n \/ control.manual # n
=============================================================================
