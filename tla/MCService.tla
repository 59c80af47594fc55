----------------------------- MODULE MCService -----------------------------
(* The parts of the two processes that share no state with one another,    *)
(* those of Answers among them, checked side by side: in every behaviour   *)
(* one of them moves.                                                      *)
EXTENDS Answers

CONSTANTS
    Clients, BroadcastCap, HubQueueCap, SendCap, MaxMessages,
    Workers, TaskQueueCap, MaxTasks,
    Callers, MaxRestarts,
    Endpoints, States, Partial, MaxChanges, MaxFaults,
    Issues, Labels, People, MainBranch, Branches, Contents, NoFile, NoBranch,
    MaxEdits, MaxCallFaults,
    Processes,
    Agents, Handlers, Capacities, StaleAfter, MaxStarts, None,
    Keys, Threshold, Cooldown, MaxRecords

VARIABLES
    cancelled, stopped, accepted, taken, registerQ, unregisterQ, clients,
    send, closes, pump, joined, got,
    config, signal, failed, members, handler, submitted, queue, running,
    refusing, open, background, deferred, process,
    serveConfig, serveSignal, listener, arrived, requests, services,
    serveOpen, serveDeferred, serveProcess,
    sessionID, lost, restarts, pc, opened, retrying, result, disturbed,
    host, memories, changes, faults, at, step, summary, existing,
    defined, labels, assignees, closed, content, labelOnce, labelCache, job,
    promised, begun, edits, callFaults,
    columns, statement, state, crashes,
    worker, handling, starts, said, overtaken,
    circuit, budgetOpen, record

Hub == INSTANCE EventHub WITH QueueCap <- HubQueueCap
Dispatch == INSTANCE DispatchProcess WITH QueueCap <- TaskQueueCap
Serve == INSTANCE ServeProcess WITH
           config <- serveConfig, signal <- serveSignal, open <- serveOpen,
           deferred <- serveDeferred, process <- serveProcess
Client == INSTANCE Synapset WITH faults <- lost
Probing == INSTANCE InfraProbe
Gitea == INSTANCE GiteaClient WITH
           Main <- MainBranch, faults <- callFaults, MaxFaults <- MaxCallFaults
Schema == INSTANCE StoreSchema WITH step <- statement, faults <- crashes
Registry == INSTANCE WorkerRegistry WITH Stale <- StaleAfter
Breaker == INSTANCE CircuitBreaker

ASSUME ServiceAssumption ==
    /\ Hub!HubAssumption /\ Dispatch!DispatchAssumption /\ Serve!ServeAssumption
    /\ Client!SynapsetAssumption /\ Probing!ProbeAssumption /\ Gitea!GiteaAssumption
    /\ Registry!RegistryAssumption /\ Breaker!BreakerAssumption

hubVars == <<cancelled, stopped, accepted, taken, registerQ, unregisterQ,
             clients, send, closes, pump, joined, got>>
dispatchVars == <<config, signal, failed, members, handler, submitted, queue,
                  running, refusing, open, background, deferred, process>>
serveVars == <<serveConfig, serveSignal, listener, arrived, requests,
               services, serveOpen, serveDeferred, serveProcess>>
clientVars == <<sessionID, lost, restarts, pc, opened, retrying, result, disturbed>>
probeVars == <<host, memories, changes, faults, at, step, summary, existing>>
giteaVars == <<defined, labels, assignees, closed, content, labelOnce,
               labelCache, job, promised, begun, edits, callFaults>>
schemaVars == <<columns, statement, state, crashes>>
registryVars == <<worker, handling, starts, said, overtaken>>
breakerVars == <<circuit, budgetOpen, record>>
vars == <<answersVars, hubVars, dispatchVars, serveVars, clientVars, probeVars,
          giteaVars, schemaVars, registryVars, breakerVars>>

Init ==
    /\ part \in {"hub", "dispatch", "serve", "client", "probe",
                "gitea", "schema", "registry", "breaker",
                "host", "excerpt", "logs", "github"}
    /\ Hub!Init /\ Dispatch!Init /\ Serve!Init /\ Client!Init /\ Probing!Init
    /\ Gitea!Init
    /\ (part = "dispatch" \/ config = {})
    /\ \/ part = "serve"
       \/ serveConfig = {} /\ (\A l \in Serve!Listeners : listener[l] = "open")
    /\ part = "probe" \/ \A e \in Probing!Hosts : host[e] = "down"
    /\ (\A b \in Branches \ {MainBranch} : content[b] = NoBranch)
    /\ (part = "gitea" \/ defined = {})
    /\ Schema!Init /\ (part = "schema" \/ columns = {})
    /\ Registry!Init /\ Breaker!Init
    /\ AnswersInit

Others(p) ==
    /\ IF p = "answers" THEN TRUE ELSE UNCHANGED answersVars
    /\ IF p = "hub" THEN TRUE ELSE UNCHANGED hubVars
    /\ IF p = "dispatch" THEN TRUE ELSE UNCHANGED dispatchVars
    /\ IF p = "serve" THEN TRUE ELSE UNCHANGED serveVars
    /\ IF p = "client" THEN TRUE ELSE UNCHANGED clientVars
    /\ IF p = "probe" THEN TRUE ELSE UNCHANGED probeVars
    /\ IF p = "gitea" THEN TRUE ELSE UNCHANGED giteaVars
    /\ IF p = "schema" THEN TRUE ELSE UNCHANGED schemaVars
    /\ IF p = "registry" THEN TRUE ELSE UNCHANGED registryVars
    /\ IF p = "breaker" THEN TRUE ELSE UNCHANGED breakerVars

Next ==
    \/ AnswersNext /\ Others("answers")
    \/ part = "hub" /\ Hub!Next /\ Others("hub")
    \/ part = "dispatch" /\ Dispatch!Next /\ Others("dispatch")
    \/ part = "serve" /\ Serve!Next /\ Others("serve")
    \/ part = "client" /\ Client!Next /\ Others("client")
    \/ part = "probe" /\ Probing!Next /\ Others("probe")
    \/ part = "gitea" /\ Gitea!Next /\ Others("gitea")
    \/ part = "schema" /\ Schema!Next /\ Others("schema")
    \/ part = "registry" /\ Registry!Next /\ Others("registry")
    \/ part = "breaker" /\ Breaker!Next /\ Others("breaker")

\* As long as the process is not at its end, one of its goroutines moves on: a
\* select takes a case that is ready, a task ends, a member that is told to
\* return does; and the nightly probe runs.
Progress ==
    \/ /\ part = "dispatch"
       /\ \/ Dispatch!Main \/ Dispatch!Pool \/ Dispatch!EndSubmit
          \/ \E m \in {"hub", "dispatcher", "autoscaler", "metrics", "merger"} :
               Dispatch!MemberStops(m)
       /\ Others("dispatch")
    \/ part = "probe" /\ Probing!Run /\ Others("probe")

Fairness == WF_vars(Progress)

Spec == Init /\ [][Next]_vars /\ Fairness

\* The event streams: no channel is closed twice, and a connected client misses
\* nothing (EventHub).
StreamsSound == Hub!ClosedOnce /\ Hub!NothingSkipped

\* The databases: in both processes they are closed when nobody can use them any
\* more (DispatchProcess, ServeProcess), and an opened one has its whole schema,
\* whoever brought it up to date and was killed over it (StoreSchema).
DatabasesSound ==
    /\ Dispatch!DatabasesOutliveTasks
    /\ Serve!DatabasesOutliveRequests
    /\ Schema!SchemaComplete

\* What is kept and told of others is so: a Gitea call that is reported as done holds
\* (GiteaClient), a call of the memory server fails because of what happened during it,
\* not because of an old session (Synapset), workers are listed as they registered
\* (WorkerRegistry), and a provider is blocked for cause (CircuitBreaker).
ReportsHold ==
    /\ Gitea!ReportedHolds
    /\ Client!ExpiredSessionHealed
    /\ Registry!ListedAsRegistered
    /\ Breaker!BlockedForCause

\* A process that is told to stop, or whose member has failed, ends
\* (DispatchProcess).
ProcessEnds == Dispatch!ProcessEnds

\* What the nightly probe stores about hosts settles on what they are (InfraProbe).
MemoriesSettle == Probing!MemoriesSettle
=============================================================================
