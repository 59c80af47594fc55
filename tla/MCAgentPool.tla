---------------------------- MODULE MCAgentPool ----------------------------
(***************************************************************************)
(* TLC instances of AgentPool.                                             *)
(***************************************************************************)
EXTENDS AgentPool

CONSTANTS c1, c2, t1, t2, t3

MCCallers == {c1, c2}
MCTasks3 == {t1, t2, t3}
MCAmounts == {1, 2}

\* A RemoveWorkers that finds the quit buffer full gives its reservation back
\* without looking at maxWorkers, so concurrent callers can push the target to any
\* height, a step at a time.  TargetBound stops additions only: restoring a reservation
\* moves a worker from Owed back to workers.
CONSTANT TargetBound
MCNext == Next /\ workers' + Cardinality(Owed') <= TargetBound
MCSpec == Init /\ [][MCNext]_vars
MCFairSpec == MCSpec /\ Fairness
=============================================================================
