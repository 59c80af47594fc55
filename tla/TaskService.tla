---------------------------- MODULE TaskService ----------------------------
(***************************************************************************)
(* What the agent pool promises the dispatcher, without its goroutines,    *)
(* channels and mutex: a task is accepted only while the service is open,  *)
(* an accepted task completes exactly once, and the service reports that   *)
(* it has drained only when everything it accepted has completed.          *)
(***************************************************************************)
CONSTANT Tasks                 \* the tasks (one per agent session)

VARIABLES
    accepted,                  \* tasks Submit returned nil for
    completed,                 \* tasks whose completion callback has run
    open,                      \* FALSE once Shutdown has begun
    drained                    \* the channel returned by Done is closed

vars == <<accepted, completed, open, drained>>

Init ==
    /\ accepted = {}
    /\ completed = {}
    /\ open = TRUE
    /\ drained = FALSE

Accept(t) ==
    /\ open
    /\ t \notin accepted
    /\ accepted' = accepted \cup {t}
    /\ UNCHANGED <<completed, open, drained>>

Complete(t) ==
    /\ t \in accepted \ completed
    /\ completed' = completed \cup {t}
    /\ UNCHANGED <<accepted, open, drained>>

Close ==
    /\ open
    /\ open' = FALSE
    /\ UNCHANGED <<accepted, completed, drained>>

Drain ==
    /\ ~open
    /\ completed = accepted
    /\ drained' = TRUE
    /\ UNCHANGED <<accepted, completed, open>>

Next ==
    \/ \E t \in Tasks : Accept(t) \/ Complete(t)
    \/ Close
    \/ Drain

Spec == Init /\ [][Next]_vars

Fairness == \A t \in Tasks : WF_vars(Complete(t))

FairSpec == Spec /\ Fairness
=============================================================================
