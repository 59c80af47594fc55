# A model of Samverk

Samverk watches the issues of git forges (Gitea, GitHub), decides which of them
an AI agent can work on, runs the agents in a pool of workers, merges what they
produce, and keeps track of what became of everything in the labels of the issues,
in a SQLite store and in its own memory. This directory models it in TLA+: TLC checks
the models on small instances, and TLAPS proves the safety properties for every
value of the constants. The code is the reference: `PROJECT.json` names, under `map`,
the lines that each definition stands for, and, under `hazards`, the places in the code
the properties were written for.

## The system

Two processes share the forges, the databases and the machine.

The **dispatch process** runs

- one **watcher goroutine per tracker**, which polls a forge, compares each
  listing with the one before, and calls the dispatcher's handlers for every
  difference, in its own goroutine, one event after the other;
- the dispatcher's **Run loop**, which restarts watchers and, on a ticker and on
  wake-ups from completed tasks, releases timed-out claims and rechecks
  issues that wait for other projects;
- the **pool's worker goroutines**, which run an agent per task, in a git worktree
  and against a provider of AI, and call the dispatcher back when it ends;
- the **health monitor**, which probes the providers and wakes hosts that sleep;
- the **autoscaler**, which changes the number of workers;
- the **PR watcher**, which asks for remediation of review comments, merges pull
  requests and closes the issues they name;
- the nightly **probe** of the infrastructure, and writers of metrics and logs.

The **serve process** runs HTTP and MCP handlers, a goroutine each, through which
people and interactive agents claim issues, edit them, approve what a policy
holds back, review and merge pull requests, and look at logs and metrics.

They meet on the forge, which they share with people and where every label edit
is a remote call of its own; in the databases, which outlive them; and inside a process in
maps that are each guarded by one mutex: the dispatcher's, the pool's, the work
coordinator's, the monitor's.

### Inventory

| component | state | operations | what is hard | correct when | module |
|---|---|---|---|---|---|
| agent pool, `agent/pool.go` | target count, task and quit channels, `shutdown` | AddWorkers, RemoveWorkers, Resize, Submit, Shutdown, the worker loop | mutex held over a blocking send; a target that is reserved, signalled without the mutex, and restored | every accepted task runs once, nothing is sent on a closed channel, Shutdown ends | `AgentPool`, `TaskService` |
| claims, `dispatcher/{dispatcher,router,heartbeat,failure,correction}.go`, `store/failure.go` | labels, `claimed`, failure counts, budget circuit | route, heartbeat, handleTaskComplete, checkTimeouts, releaseTimedOut, decideCorrection | three kinds of goroutine edit the labels of one issue with remote calls in between; a late completion meets a release; a crash loses the claims but not the labels | no label outlives its work, no issue is lost, retries end with people | `ClaimLifecycle` |
| forge watchers, `forge/gitea`, `forge/github`, `dispatcher.go` Run | known issues, failures, backoff, stale periods | Watch, diffAndEmit, restart, forced reconnect | failures, timers and reconnects of one watcher overlap; pages of a listing move | one watcher per tracker, queued issues are offered, events are true | `ForgeWatch`, `GitHubClient` |
| dependencies, `dispatcher/deps.go` | blocked labels | checkDependencies, detectCycle, unblockDependents, recheck | lookups are old when the label lands; two scans at once | nothing starts before what it waits for, nothing waits for ever | `Dependencies` |
| autoscaler, `scaling/*`, `store/scaling_control.go`, `api/scaling.go` | cooldown, idle start, control record | Evaluate, apply, pause, resume, set | decided on a snapshot, applied later; the pool may refuse; clocks run over pauses | stays in its bounds, never oscillates, relieves pressure | `Autoscaler` |
| work coordination and tiers, `mcp/{work_coordinator,tools,pending,handler}.go`, `autonomy/*` | claims over MCP, pending actions, active project | claim, complete, release, the issue tools, approve, reject, switch project | a second way to claim beside the dispatcher; approvals outlive what they were asked for | no issue without a status, approvals are spent once, on the project they were asked for | `Coordination` |
| classification, complexity, failure classes, `dispatcher/{router,complexity,classify_failure}.go` | none | classify, selectProviderKey, EstimateTimeout, ClassifyFailure | many rules in a fixed order | the first rule that applies decides | `Routing` |
| providers, `provider/*` | health, fallback chains, wake-up cooldown | probe, wake, gate, request, expire | a slow round of probes; one cooldown for several providers of a host | hosts are woken and not flooded; nothing is claimed on an old verdict | `Providers` |
| circuit breaker, `dispatcher/circuit_breaker.go` | budget and provider circuits | RecordFailure, RecordSuccess, AllowProvider | what counts, and since when | a provider is blocked only for cause | `CircuitBreaker`, `Providers` |
| agent runner, `agent/{runner,workspace,validator}.go`, `cost/*` | sessions, worktrees, branches, costs | Run, failover, retry, commit, cleanup | a session ends in many ways; two sessions of an issue share a branch | spending is bounded, a workspace is of one session, reports are true | `AgentSession` |
| PR watcher and review tools, `prwatcher/*`, `mcp/tools_pr_review.go` | labels and remediation issues | poll, remediate, merge, close | a listing grows old; merges race with pushes, tools and failures | one remediation at a time, nothing is closed unmerged, what is eligible merges | `PullRequests` |
| event streams, `server/ws.go` | clients, buffers | register, broadcast, drop, shut down | a client is dropped while it leaves | no channel is closed twice, a client misses nothing | `EventHub` |
| processes, `cmd/samverk/main.go`, `server/server.go` | goroutines, open databases | start, signal, failure, deferred calls | the order of the ends | databases outlive their users; a failure ends the process | `DispatchProcess`, `ServeProcess` |
| memory client, `synapset/client.go`; probe, `infra/*` | session id; one memory per endpoint | callTool; run | one session shared by all tasks; a failed query looks empty | a dead session is replaced; memories settle | `Synapset`, `InfraProbe` |
| forge calls, `forge/gitea/*`, `forge/github/*` | label cache | bulk edit, assign, write a file, create a branch | read, then written back | what is reported as done holds | `GiteaClient`, `GitHubClient` |
| host metrics, `hostmetrics/*` | ring buffer | collect, advise | wrap-around, failed samples | advice agrees with the alerts | `HostMetrics` |
| logs and analyst, `logstore/*`, `loganalyst/*` | log database, cache | insert, prune, summarise | times compared as text; a cache of answers | a summary is recent and counts right | `LogSummary` |
| excerpts, `mcp/tools_repo.go`, `api/issues.go` | none | read_file, get_diff, list issues | offsets become pages of a smaller limit | an excerpt is what was asked for | `Excerpts` |
| store, `store/store.go` | the schema | open | several processes, killed half-way | an opened database is complete | `StoreSchema` |
| worker registry, `api/workers.go` | registered workers | register, heartbeat, list | a heartbeat registers what a restart forgot | workers are listed as they registered | `WorkerRegistry` |
| decomposition, graph, project file reload | - | - | - | no caller outside the tests | - |
| digest, status, audit, advisor, web, overlay | reports | reads | - | no decision depends on them | - |

## The modules

Each component is a module of its own, an `MC...` module gives it its instance, and a
`.cfg` its constants. The proofs about a module `M` are in `M_proofs`, which EXTENDS it;
`Service_proofs` has those about the parts of `MCService`, about `Autoscaler` and about `Providers`,
`Answers_proofs` those about the parts of `Answers` and about `ForgeWatch`.
Two kinds of composition follow the code: `Providers` EXTENDS the decisions of `Routing`;
`AgentPool` implements `TaskService`. `MCService` puts the thirteen small modules
around the dispatcher side by side, four of them by way of `Answers`, which it EXTENDS.

Where components meet, each module leaves the other's part
coarse. `AgentPool` has the pool's steps; `ClaimLifecycle` needs of it only a
bounded queue and workers, `AgentSession` workers, `Autoscaler` its counters. `ForgeWatch`
supervises watchers whose listing, with all its events, is one action; in
`ClaimLifecycle` and `Dependencies` listing and handling are apart, because
other goroutines act in between; `GitHubClient` takes a listing apart page by page.
`ClaimLifecycle` has the labels and claims of a task, `AgentSession` what the worker does
with it, `Providers` why it ends when it does. `Dependencies` has
two calls of the PR watcher, which `PullRequests` takes apart.

**AgentPool.** `mu` is the caller that blocks inside Submit while it holds
`p.mu`, or nobody. `workers`, `shutdown`, `closed` and `drained` are the fields of `Pool`;
`tasks` and `quits` its channels. Worker goroutines are anonymous, so they are counted by
place: `receiving`, `running`, `finished`. `pc`, `delta`, `unsent` and `task` are the
local state of a caller inside Resize, RemoveWorkers, Submit or Shutdown. `accepted`
and `completed` are history and are what `TaskService` sees.

**ClaimLifecycle.** The forge (`open`, `labels`), the store (`persisted`, by number
alone, as in the code), the dispatcher's maps (`claimed`, `failures`, `memFailures`), the
pool, and a program counter for each watcher, each worker and the Run loop. The
verdict of handleOpened's checks and the outcome of a task are inputs. An event carries
the labels its listing saw, and handlers judge by these. `stale` says that a
heartbeat is older than the timeout; `Age` lets that happen to every claim at any time.

**ForgeWatch.** An issue's state and label are one value of `status`. Each Watch is
not started, loading or polling; it ends by a message on `errCh`, from where Run puts
it on a timer or gives up. Time is a flag (`silent`) and failures leave the window at
any time.

**Dependencies.** `actor` is the place of each watcher and of the Run loop in
handleOpened, unblockDependents or recheckCrossProjectDeps, with what is left to look up,
recheck and list. The forge's answer to each lookup is that of the moment.
The depth-first search of detectCycle is abstracted to the cycles it may find:
those reachable from the opened issue over local dependencies of the issues it is shown.
`FirstPage` is what a listing shows: none of the three in `deps.go` asks for a page, so that they
get the newest `PageSize` issues. `CloseLinked` and `LabelLinked` are the two calls of the PR
watcher. `missed` (cycles no search was shown) and `heard` (closings that were handled while
every blocked issue was in sight) are history.

**Autoscaler.** Durations count in units. A timestamp is kept as its age, up to
the threshold at which it stops to matter. `pc` separates the decision from its
application. `quiet` and `lull` are history: the time since the last autonomous change
and since an evaluation saw too few idle workers. `MCAutoscaler` renames the variables whose names
`MCService` has too, so that one module of proofs extends both; `MCProviders` does so as well, and
`Answers` for `ForgeWatch`.

**Coordination.** `labels`, `open`, `merged` are the forge; `claimed` the coordinator's map,
`pending` the actions that wait for approval, `active` the project all clients share,
`phase` and `phaseFile` the registry in memory and on disk, `expired` the actions whose time
has run out. `ran` (how often each client has executed an action), `refused` and the project
in which a call was made (`asked`) are history. `call` is the place of each
client's tool call, split where the code calls the forge or takes a mutex;
`dispatcher` is a task of the other process. A restart empties what is in memory only.

**Routing** has no state: tables of rules, from the texts of issues and errors to agent
type, chain, timeout, class and correction. A text is what the rules look for in it.

**Providers.** Time is in ticks, and a timer that is due fires before time goes on. `health` is
the monitor's cache, `probe` the round under way, `lastSent` the record of wake-ups; an
`issue` is queued until a watcher offers it (`Offer`), is deferred or passes the gates (`Route`), and becomes a
request that is answered, refused, rejected, or cut short by one of four deadlines. `downFor` and `quiet` are history.

**AgentSession.** Every worker goes through the steps of processTask and Run: provider,
activation of its row, budget, prune, worktree, callback, chat, validation and retry, commit,
push, comment, row, report, and the deferred cleanup. Sessions meet in `worktrees`,
`branch`, `spent` and the callback of a provider (`onActivity`). `told` is what the dispatcher
heard.

**PullRequests.** `pr` and `issue` are the forge, `watcher` the place of the PR watcher in
its poll, `listed` the listing it decides by, at most a page of the newest, `tool` a review tool of the other process.
Every forge call is an action; people, CI and pushes act in between. `closers` is history.

**EventHub.** Run's select, the three buffered channels it takes from, the buffer
and the pump of each client. `closes` counts how often a client's channel was closed.

**DispatchProcess** and **ServeProcess.** What started under a configuration, what a signal
or a failed member cancels, and the stack of deferred calls, run last to first.
`open` are the databases.

**Synapset.** `sessionID` is shared by all callers, each of which is somewhere in
callTool. **InfraProbe** takes such a call for one step that succeeds, fails, or fails
although it was carried out.

**HostMetrics.** The ring buffer as the code has it (`history`, `hIdx`, `hFull`), beside `log`,
the samples it should hold; `Walk` is the buffer as History walks through it. The disk's regression is done in whole
numbers, which is what float64 makes of it too unless the samples are so few and close that its differences are lost
(`Cancels`); what it makes of those is any of the forecasts (`rounding`). **LogSummary** counts half seconds, because that shows the
order of times as text. **Excerpts** has a question and the answer so far; Init
takes every question within the bounds. Lines and issues are their positions: a text is a function from the places of
its lines, and the limit in bytes of a diff's answer is the number of whole lines it has room for. **StoreSchema** has one statement as a step.

**GiteaClient.** A `job` of each request, step by step, against what the forge holds;
`promised` is what a call has told its caller. **GitHubClient.** `page` and `all` are the
listing under way, `known` (`seen` in `Answers`) the last one told, `told` the events of a round, each with its place in the
listing (the order of the handlers' calls is not kept); `held`, `added` and `shut` say
what the forge was like meanwhile. **WorkerRegistry.** Up to three registry calls of one
heartbeat are steps; `said` is what the worker last registered. **CircuitBreaker.** One
action per call; `record` is the history of failures since the last success.

**MCService** and **Answers.** The thirteen parts share no state. `part` chooses one at the start, and in
every behaviour only that one moves, so that the instance has the sum of their states
and not the product. Renamed variables and constants keep the parts apart. `Answers` has the four that
work something out for an answer or read it page after page (`HostMetrics`, `Excerpts`,
`LogSummary`, `GitHubClient`); its specification stands by itself, so that the proofs about it need not see the rest.

## The runs

Every run that passes checks all states of its instance.

| run | instance | shows |
|---|---|---|
| `AgentPool` | two callers, three tasks, at most three workers, queue and quit buffer of one | `WorkerAccounting`: live goroutines are the target plus the signals owed; `NoSendOnClosed`; `DrainedMeansDone`; `ImplementsTaskService`; `CallsServed`: accepted tasks complete, Submit and Shutdown return |
| `ClaimSafety` | one issue, two workers, four verdicts, three outcomes, one deed of a person | `NoOrphanedLabel`: no label outlives its work; `NoIssueDropped`: no issue loses its last label; `EscalatedAtLimit` |
| `ClaimLive` | one issue, one worker, one failed call or crash, one send-back | `ClaimsEnd`; `ClaimedLabelComesOff` while nothing failed |
| `ForgeWatch` | two trackers, two failed listings, two changes | `OneWatcherEach`; `WatchedAgain`; `QueuedIsOffered` when the forge comes to rest |
| `Dependencies` | four issues in two repositories, two with the same number, one watched; five graphs, of which three with a page of one issue and two with a page of two; one upset or failed call | `NoEarlyStart`; `Unblocks` and `CyclesEscalated` of whatever the first page shows |
| `Scaling` | 2 to 5 workers, durations of 2, queue of 3, quit buffer of 2, two orders | `ScalesWithinBounds`, `CoolsDown`, `IdleBeforeDown`; `SizeFollowsLoad` |
| `ScalingManual` | the same with one order | violated: see below |
| `Coordination` | two clients, two projects, three calls of seventeen tools, one task of the dispatcher, one failed call or restart | `NoIssueLost`: the last label edit decides, and no issue ends without a status; `ApprovalsKept`: nobody executes an action twice, an approval that begins after an execution, a rejection or the expiry finds nothing, worker tools keep their project; `ClaimKept`: a claim is lost only to its worker, a restart or an overlapping claim |
| `PullRequests` | a person's pull request, one in conflict that stands, and the agent's, on a page of two; two issues, Gitea, labels for two of the three, delay of one, two upsets | `IssuesInOrder`: one remediation issue, nothing closed unmerged; `MergedAfterDelay`; `EligibleMerges` of what the page shows |
| `AgentSession` | two workers, three sessions of two issues, three providers, budget of one, one upset | `SpendBounded`: at most two requests a worker above the budget; `WorkspaceIsMine`; `NothingLeftBehind`; `OutcomeTold` |
| `Providers` | two models on a host that can be woken, the CLI as default chain, one issue, two upsets | `MonitorSound`: packets are spaced, verdicts are fresh; `WaitingIsServed`: an issue that is offered again and again is claimed |
| `Service` | thirteen parts, one at a time | `StreamsSound`, `DatabasesSound`, `AnswersTrue`, `ReportsHold`, `ProcessEnds`, `MemoriesSettle`, each the conjunction of what the parts promise |

`TypeOK` is stated in the modules that have a state of some size. Two runs check it
(`ScalerTypeOK` is that of `Autoscaler`); it is a theorem
for `Autoscaler`, `ForgeWatch` and the six modules with a proof module of their own.

### Bounds

`TargetBound`, `MaxActs`, `MaxFaults`, `MaxCrashes`, `MaxMishaps`, `MaxChanges`,
`MaxOutages`, `MaxUpsets`, `MaxOrders`, `MaxCalls`, `MaxDispatches`, `MaxRestarts`,
`MaxRequests` and the like bound what would go on for ever. They limit what
comes from outside (people, failures, restarts, requests), never what the code does: the
counters of the code that grow (failure counts, backoff) are bounded by its own limits. The
interesting cases need few of them. A buffer of one is full after one item, so
that Submit blocks, quit signals are refused and clients are too slow in most states. One failed
call at every place where a call can fail covers every partial failure; where a retry may
fail as well there are two. Three calls of two clients are enough for a claim, a second
one that overlaps it, and a third that meets what they left. Two sessions of one issue
share a branch, and a third prunes the worktrees of both. An issue is independent of the
others but for the queue, the failure count and dependencies (which have four). Limits of
two tell a first attempt from a last one, two units of time "less than" from "as long
as". The ring buffer of four wraps within five samples. A page of one issue (`PageSize`) hides the other
of two that are blocked or open, as one of 50 or 30 does in a large repository, and one of two shows both. `Rooms`
cuts the answer about a diff before its first line, in its middle and not at all; `Resolution` lets two close samples
cancel and three not. `ClaimSafety` has no failed
calls: with one, an issue may lose its label.

### Fairness

Only of what the runtime schedules: goroutines that can go on do, tickers and timers
fire, time passes, a request ends because it has a deadline. Nothing is assumed about
people, merges, new tasks, memory, answers or failures, nor that a watcher
ever reconnects by itself. All of it is weak, with two exceptions. In `AgentPool` the
mutex is handed on fairly, as Go's `sync.Mutex` does in its starvation mode, and in
`Providers` a gate that is asked reads the verdicts, though the monitor writes them in between (`Route`): a
`sync.RWMutex` lets the readers in that wait when a writer unlocks. The gate answers once, and
the issue is deferred if no provider is healthy at that moment; nothing is assumed about another offer, which is
a premise of `WaitingIsServed`.
`Dependencies` assumes that the PR watcher comes to its second call. In
`Providers` a host that was woken comes up; whether a packet arrives is left open,
within `MaxUpsets`. `Service` assumes that a process that is ending goes on (`Progress`): its
members return when their context ends, tasks end, and the probe runs.

### Deadlock

All runs say CHECK_DEADLOCK FALSE: a pool that is shut down, a closed issue, a process that
has ended and clients that have made their calls have nothing left to do. That nothing stops
before its time is what the liveness properties say.

## What the code does otherwise

`ScalingManual` is a run that TLC finds violated: `scale_set` stores its count as paused, and
the pause comes first (`autoscaler.go:124`). The rest came up while modelling. The models do
what the code does, and the properties are stated so as to hold.

Claims and failures:

- After a crash, an issue with `status:claimed` belongs to nobody: handleOpened skips it
  (`dispatcher.go:373`), although `docs/failure-recovery.md:429` says that the map is rebuilt.
- A released claim leaves its task in the pool, and after a reconnect the issue is worked on
  twice (`heartbeat.go:101`; `docs/decisions/ADR-033-pc-agent-worker-node.md:245`). The sweep may
  release a claim that a heartbeat has just renewed (`heartbeat.go:89`).
- Issues of equal number in two repositories share a failure count (`store/failure.go:178`).
- Labels are judged as the listing had them (`dispatcher.go:598`); the queued label goes before
  the claimed label comes (`router.go:226`); a failed decomposition is never escalated
  (`dispatcher.go:640`).
- `Labeled` events name no label, so handleLabeled never requeues (`dispatcher.go:671`);
  only a reconnect does, which a busy forge never causes. So it is with an issue that was
  deferred because no provider was healthy (`router.go:181-188`): it stays queued when the host is back.
- A local dependency that is labelled done only after its closing was handled unblocks
  nothing (`dispatcher.go:800`). Cycles through two repositories are not found.
- `deps.go:161`, `:185` and `:255` read one page (50 issues on Gitea, `gitea.go:122-126`; by GitHub's default 30,
  pull requests among them). A blocked issue that newer blocked ones push off it is neither rechecked
  nor unblocked; they may wait for that very issue. A cycle that is not shown whole is not found, against
  `docs/dispatcher-design.md:180`. The search also stops at the first cycle it finds, so that an issue of
  another one it leads to may be told instead.
- A provider that hangs is classed as a timeout, which counts; three of them hand the issue to
  people (`classify_failure.go:51`). The tail of a CLI's output can pass for a rate
  limit (`claudecli.go:229`). The budget circuit never closes, and nothing asks the
  provider circuits, although `router.go:162-164` says so; a circuit nobody asked about after its
  cooldown trips again at the first failure.

Pool and autoscaler: a busy worker that was told to quit runs on while its place is given away
(`pool.go:203`); concurrent removals may restore the target above the maximum (`pool.go:214`);
GetAfter finds nothing after a fallback to the default chain (`pool.go:445`); an unreadable
control record unpauses the autoscaler; idle time runs on over a pause.

Sessions: SetRepoWriter, SetPRManager and SetPolicy have no caller, so openPR and the tier
check of the runner are dead; PartialOutput is never written; the CLI reports no tokens and
Ollama costs nothing; costs are not recorded once the context has expired.

Pull requests and tools: a failed ListReviewComments counts as no comments, and the pull
request is merged (`prwatcher/watcher.go:99` against `:172`); `review:addressed` is read
nowhere; the GitHub client never reports a comment as resolved; half of
`docs/pr-merge-policy.md:40-60` is not implemented. The watcher lists 50 pull requests
(`watcher.go:79-82`): those it never merges (Tier 3, conflicts, excluded labels) pile up, and what they push off the
page is neither merged nor labelled. On Gitea no remediation issue is created unless the
repository had a label `pr:N` when the label cache was filled (`gitea.go:73-78`, `:501-517`), and nothing in
the code creates one. approve_action finds and removes an action in two steps (`mcp/tools.go:720-727`): two approvals
that overlap both execute it, and it may execute after its rejection was reported. Once approved, the issue tools and
merge_pr act on the project that is active at that time (`mcp/handler.go:134`), not on the one they were called for. Claims of silent MCP workers never end
(`work_coordinator.go:211`); request_work and bulk_update_issues bypass checkTier.

Forge clients: issues that move between the pages of a listing are told closed or
opened twice; one failed fetch is cached for ever by labelOnce (`gitea.go:476`); Assign loses a
concurrent assignment (`gitea.go:276`); what read_file has read may have changed when write_file
is called; a failed comparison shows as "no file changes"; changed lines that look like the marker of a file, because they begin with `++` or `--`, are not counted
(`tools_repo.go:371-373`), and get_diff cuts every answer at `max_bytes`, 32768 if none is given (`tools_repo.go:210-215`); read_file beyond the end answers the last line; `issues.go:206-213`
neither sorts nor removes duplicates, and an offset that is no multiple of the limit gives the
wrong window.

Services: log summaries of two ranges that differ in their end share an answer
(`loganalyst/cache.go:25`), and times compare as text only to the second; a failed CPU
reading counts as 0 %; the regression over a disk's first few samples can be
rounding noise, of which a warning may be made (`advisor.go:557-576`); a lost answer makes the memory client store twice; a database
that cannot be opened is only warned of; the hub of the dispatch process never has
clients, and that of the serve process never a message; requests in flight on the MCP port are
cut (`main.go:489`); an automatic registration may overtake the worker's own
(`workers.go:170`), and a busy worker that registers again is idle with a task.

## What is proved

TLAPS checks these for every value of the constants that the modules'
assumptions allow, with no bound on goroutines, tasks, issues, calls or time. Each module's
`IInv` is an inductive invariant: it holds at the start, and every action keeps it
(theorem `Inductive`). Its first part is the module's `TypeOK` (theorem `TypeCorrect`); what
follows names the others and says why the property does not hold by itself.

**AgentPool**, from `PoolAssumption` (the values that say "nobody" and "nothing" are
neither callers nor tasks, there is at least one initial worker, the queue holds at
least one task, amounts are positive).

- `CallerInv`: the mutex, the program counters and the local variables of the callers
  agree, and the channel closes only under `shutdown`;
- `TaskInv`: accepted tasks are waiting, running or completed, each in one place;
- `CountInv`: one worker is always kept, and the live goroutines are the target count
  plus the quit signals that wait or that a RemoveWorkers still owes, unless workers
  may have left by the closed channel;
- `DrainInv`: the pool has drained only if nobody is left.

`WorkerAccounting` is not inductive without `CallerInv`: RemoveWorkers lowers the target
first and pays the difference, signal by signal, later or not at all, so what each
caller still owes has to be part of the sum. From `IInv` follow `Accounting`,
`AlwaysServed` (someone always serves the queue, which `CallsServed` rests on), `ShutdownDrains`, `SubmitNeverPanics` and
`Refinement`, the simulation of `TaskService` step by step.

**Autoscaler**, from `ScalingAssumption`.

- `DecisionInv`: between a decision and its application, the bound, the cooldown and
  the idle time it was taken on still hold, because no other goroutine changes the
  target;
- `ClockInv`: the policy's clocks agree with what happened: the age of the last scaling
  is the time since the last autonomous change, and an idle start is never older than
  the last evaluation that saw too few idle workers.

These are in `Service_proofs`. `BoundsKept`, `CooldownKept` and `IdleTimeKept` speak of the step that applies a
decision, where the code looks at no bound and no clock any more; hence `DecisionInv`.
It holds when the decision is taken only because of `ClockInv`.

**ClaimLifecycle**, from `ClaimAssumption`.

- `PlaceInv`: who works on something has an issue, a watcher one of its own repository, and
  who has a failed task knows how it failed;
- `LabelInv`: a claimed label has a watcher that is about to submit a task, a task in the
  queue, or a worker that will take the label off;
- `DropInv`: an issue without a label is between two label edits of a watcher, a worker or
  the Run loop;
- `LimitInv`: when a count has reached the limits, the issue is with people, or the
  goroutine that counted the last failure has still to escalate.

The properties speak of anybody who handles the issue, and of the claims map too;
the invariant says who it is, since only that goroutine's next step keeps it true. A task may be doubled
(a released claim leaves its task in the pool), so it is some goroutine and not the one.
The theorems `LabelsComeOff`, `IssuesStay` and `LimitKept` hold while
`Undisturbed`: no forge or store call has failed and the process has not died. A failed
label edit is only logged and a crash forgets the claims, so that without the condition
the properties are false of the code; it is the scope of the run `ClaimSafety`
too, and `ClaimLive` says what remains otherwise. `LimitKept` also assumes `Settled`: numbers are unique
over the repositories (the store's key is the number), nobody sends an issue back from
people to the queue (its count stays), and every issue can be decomposed (an issue that
cannot counts a failure at each attempt and stays queued). The code ensures none of the
three; each is listed below "What the code does otherwise", or follows from what is.

**ForgeWatch**, from `WatchAssumption`, in `Answers_proofs`. `OneWatcherEach` with

- `FailureInv`: as long as Run goes on, no tracker has failed too often. The failure that is
  the last one makes Run return, and only a returned Run leaves a tracker without a place.

The property is a sum: goroutine, ends reported on `errCh`, timers and
requests on `restartCh` of a tracker are one. The lemmas `CountMoves` and `EndedMoves`
say what a send and a receive do to the number of messages that a buffered channel
holds for a tracker.

**Dependencies**, from `DependencyAssumption`, for every graph.

- `ActorInv`: a handler that has not found anything open has found done whatever it has looked up
  so far, and one that routes has looked up everything;
- `DoneInv`: what counts as done now has been done.

The forge may reopen an issue after its lookup, so that the invariant cannot say that dependencies are
done: only that they were (`everDone`), which no step takes back.

**Coordination**, from `CoordinationAssumption`.

- `CallInv`, `PendingInv`: a call and a pending action fit their tool: they have the issue
  it is about, a worker tool that of the project that was active when it was called;
- `DispatcherInv`: the dispatcher's task has an issue.

`NoIssueLost` and `SpentIsGone` are kept with these. `SpentIsGone` says that a spent action is no longer
offered and that no client has executed it twice; for the second, `CallInv` has it that an action somebody is about to
execute is one that client has not executed (`Unrun`), although another may have. `FoundUnspent`, that what is found is
neither spent nor expired, follows from `SpentIsGone` at the step that finds it. An action that was queued for
approval is executed by another client's call, long after the tool's arguments were
checked; `PendingInv` carries what was checked to where it is used. `ClaimsKept` is an action
property: of all steps only the recording and the taking back of a call that is at work
change the claims, and `CallInv` says that such a call has an issue and a worker.

**AgentSession**, from `SessionAssumption`.

- `PlaceInv`: what a run holds by its place: a worktree only between adding and removing it,
  an error exactly on the way through failTask;
- `OutcomeInv`: a session somebody runs has not been told of, and its row is completed
  exactly when the run has ended well;
- `CleanInv`: while nothing failed, every worktree and every branch has a run that has
  still to remove it, and the branch goes after the worktree;
- `CallbackInv`: the callback a provider holds is one that a run has still to take down;
- `SpendInv`: what is spent, plus one for every worker that may charge
  without asking again, plus one for each of these that may still retry, stays below the budget plus two for
  each worker.

`SpendBounded` bounds what has been charged; the check and the charge of a request lie apart, so
the invariant counts charges before they happen. `WorkspaceIsMine` is inductive with `PlaceInv`:
prune removes only what nobody works in, and of the branch that two sessions of an issue share git
gives out one worktree at a time.

**PullRequests**, from `PullRequestAssumption`.

- `PlaceInv`: the watcher works on what it listed; before it asks for remediation there is
  none; before it merges, the policy lets the listed pull request through; what it closes is mentioned by
  a pull request that has been merged;
- `RemedyInv`: two open remediation issues of a pull request are one.

Others close remediation issues between the watcher's search and its creation of one, but only
the watcher opens them, so that `PlaceInv` can carry what the search found to the creation. `AfterDelay` is about the merge step, where the policy is not asked any
more: it follows from `PlaceInv`, if the pull request is as it was when it was listed.

**MCService**, from `ServiceAssumption`. `StreamsSound`, `DatabasesSound` and `ReportsHold` promise something of
eight of its parts, each with an invariant of its own.

- `HubInv` (`EventHub`): a client is asked for once, and until Run has taken it from the queue
  nothing has been sent to it and nothing closed (`JoinInv`); the clients Run knows have open
  channels (`OpenInv`). A dropped client's later leave finds it unknown, so that no channel is closed twice;
- `DispatchInv` (`DispatchProcess`): the deferred calls begin with the pool's, if there is
  a pool; until it has drained, the databases are open; after it, nobody works and nothing is
  accepted. `PoolFirst` says the order without naming the databases, and each call that is
  taken leaves it true of the others;
- `ServeInv` (`ServeProcess`): the databases are open while the dashboard serves or
  drains, and afterwards it has no request, unless its listener never came up;
- `SchemaInv` (`StoreSchema`): a process that is at a statement finds done what the statements before it
  do (`Through`), whoever did it and whoever was killed meanwhile: columns are only ever
  added. A table is there only with its key, so that CREATE TABLE IF NOT EXISTS may pass it over;
- `ClientInv` (`Synapset`): a caller that tries again and has not been disturbed finds no expired
  session, and the one it adopts is live (`RetryInv`). The error of the first attempt says nothing, as it is dropped with
  the session, so that an error in the end needs a disturbance;
- `GiteaInv` (`GiteaClient`): a job names issues or branches, and values, that fit its action (`JobInv`); what was
  promised fits as well, and is so (`PromiseInv`). `ReportedHolds` alone is not inductive: it
  does not say that a promise is one of those that the steps that undo something take back;
- `RegistryInv` (`WorkerRegistry`): a worker that is not listed has said nothing since the start, and a
  default registration under way is of such a worker, or is known to have been overtaken;
- `BreakerInv` (`CircuitBreaker`): a circuit counts no more failures than were recorded, and an open
  one has a failure that suffices and was recorded just as long ago as it has been open. Where none trips at once, the
  count covers all failures of the last cooldown and decides whether it is open; `BlockedForCause` does not mention the count.

`DatabasesKept` is no stronger than its definition: of the MCP listener's requests, which
nobody waits for, it says nothing.

**Answers**, from `AnswersAssumption`. `AnswersTrue` promises something of each of its parts, which again have
invariants of their own (theorem `AnswersInductive`). `AnswersKept` is about the specification of `Answers`;
`AnswersPart`, in `Service_proofs`, says that every behaviour of `MCService` is one of its behaviours.

- `LogInv` (`LogSummary`): a summary counts the log as it was when it was taken, in a request that waits for the
  language model, in the cache and in an answer; the cache has it under the key of what it is about,
  and the model has been asked no longer than it may take (`EntryInv`, `ReadingInv`). Which entries are the newest is
  a matter of the order of texts and ids; `Place` numbers the members of a finite ordered set,
  so that the first so many of them can be counted;
- `GitHubInv` (`GitHubClient`): an issue that has been open since the listing began has been listed or stands on a page
  that is still to come, unless one that is listed before it was closed (`ListedOrToCome`), and it stands on no page still to come
  once it has been listed, unless one that is listed before it was opened (`ListedOnce`). `RoundIsTrue` speaks only of the
  end of a round, where the pages are forgotten;
- `HostInv` (`HostMetrics`): the ring buffer holds the end of the log, the oldest sample where the walk begins
  (`RingHolds`). With it the advice is compared with the alerts: where all samples reach a bar, so do the shares, and
  a regression line that meets a bar no sample reached has risen between two of them. Of samples too close for float64
  (`Cancels`) the property says nothing of the trend, and nothing needs to be proved;
- `ExcerptInv` (`Excerpts`): a list of lines or a diff is answered in one request, and a client that walks through
  the pages has been shown the beginning of what there is, as far as so many pages of the size the forge allows
  reach (`PagesShown`). What the limit leaves of a diff is as many of the first members of a finite set of places as
  there is room for (`CutIs`). `AnswersExact` says of an unfinished walk only that it is a beginning, which does not tell where the next page must start.

`AdviceFollowsAlerts` needs what sums, the 95th percentile and the least squares of any number of samples are. The sums
are recursive functions: `SumsExist` and `SumsAre` unfold one, `Upward` does the induction, from the least member of the set of the
numbers for which a claim fails. `FallingLine` is the argument about the regression, the one place with products of unknown
numbers: if the values never rise, neither does the line, at whatever
times the samples were taken. Whether a line that does rise meets a bar too early or too late is not claimed by the property.

**Providers**, from `ProviderAssumption`, in `Service_proofs`.

- `RoundInv`: while no tick waits, a round under way is no older than the last tick;
- `VerdictInv`: a host whose verdict a round has found or written has been silent no longer than the
  round has lasted; an older verdict is no older than the longer of an interval and a round when
  the next round begins. Between rounds it is as old as the last tick, if none waits;
- `SpacingInv`: what was sent is recorded, so that the record is never older than the packet;
- `TasksTyped`: with it, no step but `PassHealth` makes an offered issue fit.

`FreshVerdict` bounds the age of a verdict at the gate, which reads the cache between two
rounds and while one still asks the providers. That the cache is replaced in time is not in any single step, so that the invariant
has to follow the ages of verdict, round and ticker together. A chain without providers
passes the gate unasked, and the property excepts it.

**Assumptions.** Those of the modules are on constants only. These are there for the proofs:
there are finitely many workers (`AgentSession`, where they are counted) and issues (`GiteaClient`,
where a request lists them), a phase "development" exists (`Coordination`, where all projects start in it),
the pull requests that exist at first are pull requests (`PullRequests`), the main branch is a
branch and no content means that there is none (`GiteaClient`), no worker's record means that
there is none (`WorkerRegistry`), the threshold is positive (`CircuitBreaker`, where it is 3), the ring buffer and the pages have
room for something, and readings, times, limits, the resolution and the rooms are natural numbers (`HostMetrics`, `GitHubClient`,
`Excerpts`, `LogSummary`).

**Only model-checked.** All liveness properties (`CallsServed`, `ClaimsEnd`, `ClaimedLabelComesOff`, `WatchedAgain`,
`QueuedIsOffered`, `Unblocks`, `CyclesEscalated`, `SizeFollowsLoad`, `EligibleMerges`, `WaitingIsServed`,
`ProcessEnds`, `MemoriesSettle`), since TLAPS proves neither fairness nor ENABLED.
Every invariant and every action property that a run checks is proved. The modules that are proved about declare no recursive operator; the
depth-first search of `Dependencies` and the folds over chains and pages are written with
sets, functions and the community modules.

## What is not modelled

Comments, pipeline events and formatting, on which no decision depends. How signs are found in
texts. Decomposition (`decompose.go`, `graph.go`) and the reload of the project file
(`project_yaml_watcher.go`), which nothing outside the tests installs. Digest, status, audit and
advisor, which read and report. The web pages and the overlay. Login sessions, API keys and
OAuth. Prices, which are floating-point tables: costs are counted in requests. The search,
milestone and comment calls of the forge clients, and the handlers that read the store
and format it. `PROJECT.json` has the reason for each component.

## The plan

The modelling plan is done. What could be added to the models: create_issue_batch,
the OpenAI client, and page shifts as seen by `ClaimLifecycle`.

No safety property that a run checks is left to prove. The theorems could say more than the runs' properties:
that a rising line of the disk meets its bar when the advice says so, and what `known` of a watcher has missed after any
number of listings.
