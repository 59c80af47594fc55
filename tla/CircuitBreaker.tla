--------------------------- MODULE CircuitBreaker ---------------------------
(***************************************************************************)
(* The dispatcher's circuit breaker                                        *)
(* (src/internal/dispatcher/circuit_breaker.go).  Every call holds its     *)
(* mutex and is one action.  Completed tasks record failures and           *)
(* successes; AllowProvider, Status and ResetBudget belong to its          *)
(* interface although only tests call them.                                *)
(***************************************************************************)
EXTENDS Naturals, Sequences, FiniteSets

CONSTANTS
    Keys,             \* provider keys
    Threshold,        \* providerThreshold
    Cooldown,         \* providerCooldown, in ticks
    MaxRecords        \* bound: failures recorded since the last success

BreakerAssumption == Threshold \in Nat \ {0} /\ Cooldown \in Nat

VARIABLES
    circuit,          \* provider key -> circuit, for those that have one
    budgetOpen,
    record            \* history: the failures since the last success, per key

vars == <<circuit, budgetOpen, record>>

NoKey == ""
Immediate == {"auth"}
Counted == {"provider_down", "permanent", "timeout"}
Ignored == {"shutdown"}

Fresh == [open |-> FALSE, failures |-> 0, since |-> 0]

Init ==
    /\ circuit = <<>>
    /\ budgetOpen = FALSE
    /\ record = [k \in Keys |-> <<>>]

GetOrCreate(k) == IF k \in DOMAIN circuit THEN circuit[k] ELSE Fresh
Put(k, c) ==
    circuit' = [x \in DOMAIN circuit \cup {k} |-> IF x = k THEN c ELSE circuit[x]]

Trip(c) == [c EXCEPT !.open = TRUE, !.since = 0]

Count(k) ==
    LET c == [GetOrCreate(k) EXCEPT !.failures = @ + 1]
    IN Put(k, IF c.failures >= Threshold THEN Trip(c) ELSE c)

RecordFailure(class, k) ==
    /\ \/ class = "budget" /\ budgetOpen' = TRUE /\ UNCHANGED circuit
       \/ /\ class # "budget" /\ UNCHANGED budgetOpen
          /\ \/ class \in Immediate /\ k # NoKey /\ Put(k, Trip(GetOrCreate(k)))
             \/ class \in Counted /\ k # NoKey /\ Count(k)
             \/ (class \in Ignored \/ k = NoKey) /\ UNCHANGED circuit
    /\ IF k = NoKey \/ class \notin Immediate \cup Counted THEN UNCHANGED record
       ELSE /\ Len(record[k]) < MaxRecords
            /\ record' = [record EXCEPT ![k] =
                 Append(@, [immediate |-> class \in Immediate, age |-> 0])]

\* Fault: only the counter is set back.
RecordSuccessOfCount(k) ==
    /\ k \in DOMAIN circuit
    /\ Put(k, [circuit[k] EXCEPT !.failures = 0])
    /\ record' = [record EXCEPT ![k] = <<>>]
    /\ UNCHANGED budgetOpen

RecordSuccess(k) ==
    /\ circuit' = [x \in DOMAIN circuit \ {k} |-> circuit[x]]
    /\ record' = [record EXCEPT ![k] = <<>>]
    /\ UNCHANGED budgetOpen

\* A circuit whose cooldown is over blocks nothing, whether it has been closed or not.
Blocked(k) == k \in DOMAIN circuit /\ circuit[k].open /\ circuit[k].since < Cooldown
Status == {k \in Keys : Blocked(k)}

\* AllowProvider closes a circuit whose cooldown is over.
AllowProvider(k) ==
    /\ k \in DOMAIN circuit /\ circuit[k].open /\ ~Blocked(k)
    /\ Put(k, [circuit[k] EXCEPT !.open = FALSE, !.failures = 0])
    /\ UNCHANGED <<budgetOpen, record>>

AllowDispatch == ~budgetOpen

ResetBudget ==
    /\ ~AllowDispatch /\ budgetOpen' = FALSE
    /\ UNCHANGED <<circuit, record>>

Older(n) == IF n < Cooldown THEN n + 1 ELSE n

Tick ==
    /\ circuit' = [k \in DOMAIN circuit |-> [circuit[k] EXCEPT !.since = Older(@)]]
    /\ record' = [k \in Keys |->
         [n \in DOMAIN record[k] |-> [record[k][n] EXCEPT !.age = Older(@)]]]
    /\ UNCHANGED budgetOpen

Next ==
    \/ \E class \in Immediate \cup Counted \cup Ignored \cup {"budget"}, k \in Keys \cup {NoKey} :
         RecordFailure(class, k)
    \/ \E k \in Keys : RecordSuccess(k) \/ AllowProvider(k)
    \/ ResetBudget \/ Tick

Spec == Init /\ [][Next]_vars

-----------------------------------------------------------------------------
TypeOK ==
    /\ DOMAIN circuit \subseteq Keys
    /\ \A k \in DOMAIN circuit : circuit[k].since \in 0..Cooldown

Failed(k, immediate) == {n \in DOMAIN record[k] : record[k][n].immediate = immediate}
Recent(k, immediate) == {n \in Failed(k, immediate) : record[k][n].age < Cooldown}

\* A provider is blocked only over a failure of the last cooldown that was one of
\* authentication, or the last of enough others since its last success; it is blocked
\* over the first kind always, and over enough recent ones of the second kind, whether
\* it was asked about in between and however long ago it was blocked before
\* (circuit_breaker.go:62-149).
BlockedForCause ==
    \A k \in Keys :
      /\ k \in Status =>
           \/ Recent(k, TRUE) # {}
           \/ \E last \in Recent(k, FALSE) :
                Cardinality(Failed(k, FALSE) \cap (1..last)) >= Threshold
      /\ Recent(k, TRUE) # {} => k \in Status
      /\ Failed(k, TRUE) = {} /\ Cardinality(Recent(k, FALSE)) >= Threshold => k \in Status
=============================================================================
