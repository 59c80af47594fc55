--------------------------- MODULE MCCoordination ---------------------------
(***************************************************************************)
(* Two clients, two projects with an issue of the same number, and the     *)
(* policies that differ in what waits for approval.                        *)
(***************************************************************************)
EXTENDS Coordination, TLC

CONSTANTS p1, p2, c1, c2, a1

TwoInOrder == <<p1, p2>>

Empty == [t \in {} |-> 1]
TwoPolicies == {Empty, "label_issue" :> 3}

ClientsAlike == Permutations(Clients)

AllTools ==
    {"claim_issue", "complete_issue", "release_issue", "request_work",
     "add_label", "remove_label", "set_labels", "update_issue", "close_issue",
     "reopen_issue", "close_issue_with_comment", "merge_pr",
     "set_project_phase", "bulk_update_issues", "set_project",
     "approve_action", "reject_action"}
=============================================================================
