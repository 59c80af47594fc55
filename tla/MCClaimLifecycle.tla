-------------------------- MODULE MCClaimLifecycle --------------------------
(* Small instances of ClaimLifecycle: one issue, whose task may be doubled. *)
EXTENDS ClaimLifecycle, TLC

CONSTANTS w1, w2, r1

OneIssue == {[repo |-> r1, number |-> 7]}

WorkerSymmetry == Permutations(Workers)
=============================================================================
