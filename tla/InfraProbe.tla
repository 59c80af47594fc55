----------------------------- MODULE InfraProbe -----------------------------
(***************************************************************************)
(* The nightly probe of src/internal/infra: it asks every known endpoint   *)
(* in turn what it is running and keeps one memory per endpoint up to date *)
(* on the Synapset server.  A call of the Synapset client is one step here *)
(* (Synapset models it): it succeeds, fails, or fails although the server  *)
(* carried it out; a request sent again after a lost answer is carried out *)
(* twice.                                                                  *)
(***************************************************************************)
EXTENDS Integers, Sequences

CONSTANTS
    Endpoints,     \* how many endpoints there are; they are numbered
    States,        \* what a reachable endpoint may answer
    Partial,       \* the answer when its second, best-effort request fails
    MaxChanges,    \* bound: changes of the endpoints
    MaxFaults      \* bound: requests that fail

ProbeAssumption ==
    /\ Endpoints \in Nat \ {0}
    /\ "down" \notin States /\ Partial \notin States \cup {"down"}
    /\ {MaxChanges, MaxFaults} \subseteq Nat

VARIABLES
    host,          \* each endpoint: "down", or what it answers
    memories,      \* the memories with its source key, oldest first
    changes, faults,
    at,            \* the endpoint Run has come to; past the last between runs
    step,          \* what is next for it
    summary,       \* formatProbeFields of the answer
    existing       \* what QueryMemory returned

vars == <<host, memories, changes, faults, at, step, summary, existing>>
Hosts == 1..Endpoints

Init ==
    /\ host \in [Hosts -> States \cup {"down"}]
    /\ memories = [e \in Hosts |-> <<>>]
    /\ changes = 0
    /\ faults = 0
    /\ at = Endpoints + 1
    /\ step = "probe"
    /\ summary = Partial
    /\ existing = <<>>

Change(e) ==
    /\ changes < MaxChanges
    /\ changes' = changes + 1
    /\ \E s \in (States \cup {"down"}) \ {host[e]} : host' = [host EXCEPT ![e] = s]
    /\ UNCHANGED <<memories, faults, at, step, summary, existing>>

Fault == faults < MaxFaults /\ faults' = faults + 1

-----------------------------------------------------------------------------
\* The timer fires at three o'clock.
Night ==
    /\ at > Endpoints
    /\ at' = 1
    /\ step' = "probe"
    /\ UNCHANGED <<host, memories, changes, faults, summary, existing>>

\* On to the next endpoint.
Continue ==
    /\ at' = at + 1
    /\ step' = "probe"
    /\ summary' = Partial
    /\ existing' = <<>>

Read(s) == step' = "query" /\ summary' = s /\ UNCHANGED <<at, existing>>

\* Fault: the run ends at the first endpoint that does not answer.
UnreachableEndsRun ==
    /\ at' = Endpoints + 1
    /\ step' = "probe"
    /\ UNCHANGED <<summary, existing>>

\* What follows when an endpoint does not answer: the others are still probed.
Unreachable == Continue

\* probeEndpoint: unreachable, answering, or answering in part.
Probe ==
    /\ at \in Hosts
    /\ step = "probe"
    /\ \/ host[at] = "down" /\ Unreachable /\ UNCHANGED faults
       \/ host[at] # "down" /\ Read(host[at]) /\ UNCHANGED faults
       \/ host[at] # "down" /\ Fault /\ (Unreachable \/ Read(Partial))
    /\ UNCHANGED <<host, memories, changes>>

\* A query that fails is taken for one that found nothing.
Query ==
    /\ at \in Hosts
    /\ step = "query"
    /\ \/ existing' = memories[at] /\ UNCHANGED faults
       \/ existing' = <<>> /\ Fault
    /\ step' = "sync"
    /\ UNCHANGED <<host, memories, changes, at, summary>>

UpToDate == existing # <<>> /\ Head(existing) = summary

Skip ==
    /\ step = "sync"
    /\ UpToDate
    /\ Continue
    /\ UNCHANGED <<host, memories, changes, faults>>

\* UpdateMemory on the first memory found.
Update ==
    /\ step = "sync"
    /\ existing # <<>> /\ ~UpToDate
    /\ LET updated == [memories EXCEPT ![at][1] = summary]
       IN \/ memories' = updated /\ UNCHANGED faults
          \/ memories' \in {updated, memories} /\ Fault
    /\ Continue
    /\ UNCHANGED <<host, changes>>

\* StoreMemory adds a memory, even if the query merely failed.
Store ==
    /\ step = "sync"
    /\ existing = <<>>
    /\ LET Stored(n) == [memories EXCEPT ![at] = @ \o [i \in 1..n |-> summary]]
       IN \/ memories' = Stored(1) /\ UNCHANGED faults
          \/ \E n \in 0..2 : memories' = Stored(n) /\ Fault
    /\ Continue
    /\ UNCHANGED <<host, changes>>

Run == Night \/ Probe \/ Query \/ Skip \/ Update \/ Store

Next == Run \/ \E e \in Hosts : Change(e)

Spec == Init /\ [][Next]_vars

\* The timer is set again after every run, and a run ends: its requests have
\* timeouts (main.go:511-524, probe.go:54).
Fairness == WF_vars(Run)
FairSpec == Spec /\ Fairness

-----------------------------------------------------------------------------
TypeOK ==
    /\ host \in [Hosts -> States \cup {"down"}]
    /\ \A e \in Hosts : memories[e] \in Seq(States \cup {Partial})
    /\ changes \in 0..MaxChanges /\ faults \in 0..MaxFaults
    /\ at \in 1..(Endpoints + 1)
    /\ step \in {"probe", "query", "sync"}
    /\ summary \in States \cup {Partial}
    /\ existing \in Seq(States \cup {Partial})

\* Once the endpoints and the network are quiet, the memory that is looked at
\* for each endpoint that is up says what it runs (probe.go:77-106, 288-330),
\* whatever failed before and whichever of the other endpoints are down.
Settled(e) ==
    host[e] = "down" \/ (memories[e] # <<>> /\ Head(memories[e]) = host[e])
MemoriesSettle == \A e \in Hosts : <>[]Settled(e)
=============================================================================
