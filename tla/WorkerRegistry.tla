--------------------------- MODULE WorkerRegistry ---------------------------
(***************************************************************************)
(* The registry of worker machines in the serve process                    *)
(* (src/internal/api/workers.go).  Workers register once and send          *)
(* heartbeats; the registry is in memory only, so a heartbeat of a worker  *)
(* the server does not know, as after its restart, registers the worker    *)
(* with default figures first.  Registry calls hold the mutex; a handler   *)
(* makes up to three of them.  Load figures are left out.                  *)
(***************************************************************************)
EXTENDS Naturals

CONSTANTS
    Agents, Handlers,
    Capacities,       \* what a worker may say it can run at once
    Stale,            \* workerStaleThreshold, in ticks
    MaxStarts,        \* bound: starts of the server
    None

\* What the registry keeps of a worker.
WorkerRecords ==
    [capacity : Nat, status : {"idle", "busy"}, task : BOOLEAN, silent : Nat]

RegistryAssumption == Capacities \subseteq Nat /\ None \notin WorkerRecords

VARIABLES
    worker,           \* the registered workers: agent -> record or None
    handling,         \* heartbeat requests under way
    starts,
    said, overtaken   \* history since the start: the capacity last registered,
                      \* and whether a default registration was under way then

vars == <<worker, handling, starts, said, overtaken>>

Ready == [at |-> "ready", agent |-> None, busy |-> FALSE]

NoWorkers == [a \in Agents |-> None]
AllReady  == [h \in Handlers |-> Ready]
Untouched == [a \in Agents |-> FALSE]

Init ==
    /\ worker = NoWorkers /\ handling = AllReady
    /\ said = NoWorkers /\ overtaken = Untouched
    /\ starts = 1

\* Fault: a worker that is known keeps the figures it has.
RegisterUnrefreshed(a, capacity) ==
    worker' = [worker EXCEPT ![a] =
        IF @ = None THEN [capacity |-> capacity, status |-> "idle", task |-> FALSE, silent |-> 0]
                    ELSE [@ EXCEPT !.status = "idle", !.silent = 0]]

\* register: a known worker keeps its task and counts as idle.
Register(a, capacity) ==
    worker' = [worker EXCEPT ![a] =
        [capacity |-> capacity, status |-> "idle", silent |-> 0,
         task |-> IF @ = None THEN FALSE ELSE @.task]]

\* heartbeat for a known worker: status and task as it sends them, together.
Refresh(a, busy) ==
    /\ worker[a] # None
    /\ worker' = [worker EXCEPT ![a] =
         [@ EXCEPT !.status = IF busy THEN "busy" ELSE "idle", !.task = busy, !.silent = 0]]

Defaulting(a) == \E h \in Handlers : handling[h].at = "register" /\ handling[h].agent = a

HandleRegisterWorker(a) ==
    /\ \E c \in Capacities : Register(a, c) /\ said' = [said EXCEPT ![a] = c]
    /\ overtaken' = [overtaken EXCEPT ![a] = Defaulting(a)]
    /\ UNCHANGED <<handling, starts>>

HandleWorkerHeartbeat(h) ==
    /\ handling[h].at = "ready"
    /\ \E a \in Agents, busy \in BOOLEAN :
         \/ Refresh(a, busy) /\ UNCHANGED handling
         \/ /\ worker[a] = None
            /\ handling' = [handling EXCEPT ![h] = [at |-> "register", agent |-> a, busy |-> busy]]
            /\ UNCHANGED worker
    /\ UNCHANGED <<starts, said, overtaken>>

AutoRegister(h) ==
    /\ handling[h].at = "register"
    /\ Register(handling[h].agent, 1)
    /\ handling' = [handling EXCEPT ![h].at = "again"]
    /\ UNCHANGED <<starts, said, overtaken>>

HeartbeatAgain(h) ==
    /\ handling[h].at = "again"
    /\ Refresh(handling[h].agent, handling[h].busy)
    /\ handling' = [handling EXCEPT ![h] = Ready]
    /\ UNCHANGED <<starts, said, overtaken>>

Tick ==
    /\ worker' = [a \in Agents |->
         IF worker[a] = None \/ worker[a].silent > Stale THEN worker[a]
         ELSE [worker[a] EXCEPT !.silent = @ + 1]]
    /\ UNCHANGED <<handling, starts, said, overtaken>>

Restart ==
    /\ starts < MaxStarts
    /\ starts' = starts + 1
    /\ worker' = NoWorkers /\ handling' = AllReady
    /\ said' = NoWorkers /\ overtaken' = Untouched

\* list: what is shown of the workers.
List ==
    [a \in {a \in Agents : worker[a] # None} |->
       IF worker[a].silent > Stale THEN [worker[a] EXCEPT !.status = "offline"]
                                   ELSE worker[a]]

Next ==
    \/ \E a \in Agents : HandleRegisterWorker(a)
    \/ \E h \in Handlers : HandleWorkerHeartbeat(h) \/ AutoRegister(h) \/ HeartbeatAgain(h)
    \/ Tick \/ Restart

Spec == Init /\ [][Next]_vars

-----------------------------------------------------------------------------
TypeOK ==
    /\ \A a \in Agents : worker[a] # None =>
         worker[a].silent \in 0..(Stale + 1) /\ worker[a].status \in {"idle", "busy"}
    /\ starts \in 1..MaxStarts

\* The list shows a worker with the capacity it registered last, whatever heartbeats
\* registered it by default before or since, in every order the requests come in;
\* unless the default registration had begun and overtook it (workers.go:52-113,
\* 160-175).
ListedAsRegistered ==
    \A a \in DOMAIN List :
      said[a] # None => List[a].capacity = said[a] \/ overtaken[a]
=============================================================================
