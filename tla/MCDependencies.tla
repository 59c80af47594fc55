--------------------------- MODULE MCDependencies ---------------------------
(***************************************************************************)
(* Three issues in one repository, one in another that has the number of   *)
(* one of them, and some ways in which they can depend on each other.      *)
(***************************************************************************)
EXTENDS Dependencies, TLC

CONSTANTS r1, r2

A1 == [repo |-> r1, number |-> 1]
A2 == [repo |-> r1, number |-> 2]
A3 == [repo |-> r1, number |-> 3]
B2 == [repo |-> r2, number |-> 2]

Four == {A1, A2, A3, B2}

Free == [i \in Four |-> {}]

\* A1 waits for an issue of each repository; for B2, while A2 waits for it; for A3,
\* while A2 waits for both.  A1 and A2 wait for each other; A2 also for itself.
Mixed  == (A1 :> {A2, B2}) @@ Free
Chain  == (A1 :> {B2}) @@ (A2 :> {A1}) @@ Free
Shared == (A1 :> {A3}) @@ (A2 :> {A1, A3}) @@ Free
Cycle  == (A1 :> {A2}) @@ (A2 :> {A1}) @@ Free
Knot   == (A1 :> {A2}) @@ (A2 :> {A1, A2}) @@ Free

AllGraphs == {Mixed, Chain, Shared, Cycle, Knot}

\* A page of one hides A1, the older issue.
Pages == [g \in AllGraphs |-> IF g \in {Chain, Shared, Cycle} THEN 1 ELSE 2]

OneLinked == {A2}
=============================================================================
