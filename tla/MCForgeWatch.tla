---------------------------- MODULE MCForgeWatch ----------------------------
(***************************************************************************)
(* Small instances of ForgeWatch: one issue in each of one or two          *)
(* repositories.                                                           *)
(***************************************************************************)
EXTENDS ForgeWatch, TLC

CONSTANTS r1, r2

\* Only the first repository has an issue.
OneInFirst == {[repo |-> r1, number |-> 1]}
=============================================================================
