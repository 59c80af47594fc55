---------------------------- MODULE MCAutoscaler ----------------------------
(***************************************************************************)
(* A small instance of Autoscaler: the pool starts between the policy's    *)
(* bounds and people may order one worker more than it has.                *)
(***************************************************************************)
EXTENDS Naturals

CONSTANTS
    MinWorkers, MaxWorkers, InitialWorkers, QueueCap, QuitBuf,
    QueueDepthTrigger, AllWorkersBusy, IdleWorkerThreshold, IdleDuration,
    CooldownAfterScale, Targets, MaxOrders

VARIABLES
    workers, quits, busy, depth, memoryOK, control, orders,
    sinceScale, hasIdleStart, idleFor, evaluation, quiet, lull

Scaler == INSTANCE Autoscaler WITH
            Cooldown <- CooldownAfterScale, running <- busy, pc <- evaluation

ASSUME ScalerAssumption == Scaler!ScalingAssumption

OneMore == {InitialWorkers + 1}

(***************************************************************************)
(* Fairness: the ticker fires, an evaluation that has begun ends, time     *)
(* passes, and goroutines take the tasks that wait.  Nothing is assumed    *)
(* about people, memory, new tasks or how long a task runs.                *)
(***************************************************************************)
scalerVars == Scaler!vars

Fairly ==
    /\ WF_scalerVars(Scaler!ReadControl) /\ WF_scalerVars(Scaler!Scale)
    /\ WF_scalerVars(Scaler!Elapse) /\ WF_scalerVars(Scaler!TakeTask)

ScalerSpec == Scaler!Spec /\ Fairly

\* The variables keep their types: the pool always keeps a worker, and the quit
\* channel holds no more than it can.
ScalerTypeOK == Scaler!TypeOK

\* A decision is made on a snapshot and applied later, and still no autonomous step
\* takes the target beyond a bound it was within (policy.go:183 and :214).
ScalesWithinBounds == Scaler!ScalesWithinBounds

\* At least CooldownAfterScale passes between two autonomous changes (policy.go:169).
CoolsDown == Scaler!CoolsDown

\* A worker goes only after IdleDuration of evaluations that saw enough idle ones
\* (policy.go:214).
IdleBeforeDown == Scaler!IdleBeforeDown

\* The pool grows while it is pressed and shrinks while workers are idle.
SizeFollowsLoad == Scaler!SizeFollowsLoad

\* A worker count that was ordered is reached (mcp/tools_scaling.go:34).
ManualTargetReached == Scaler!ManualTargetReached
=============================================================================
