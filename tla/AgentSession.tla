---------------------------- MODULE AgentSession ----------------------------
(***************************************************************************)
(* What a pool worker does with a task: the choice of a provider and the   *)
(* failover to the next one (processTask in src/internal/agent/pool.go),   *)
(* and the run of a session (src/internal/agent/runner.go): budget, git    *)
(* worktree, provider call, validation, result, bookkeeping, cleanup.      *)
(*                                                                         *)
(* Workers meet in the clone's branches and worktrees, in the budget, in   *)
(* the activity callback of a provider they share and on the issue.  Every *)
(* call of the store, the forge, git or a provider is a step; a session's  *)
(* own row, which no other goroutine writes, changes within one.           *)
(*                                                                         *)
(* What the program never sets is left out: no caller gives a Runner a     *)
(* RepoWriter, a PullRequestManager or a policy, and nothing writes the    *)
(* partial output that checkpoints and progress comments are made from.    *)
(* A prompt's contents, and the heartbeats (see ClaimLifecycle), are left  *)
(* out as well.                                                            *)
(***************************************************************************)
EXTENDS Integers, Sequences, FiniteSets

CONSTANTS
    Workers, Sessions, Providers, None,
    IssueOf,          \* the issue a session is about
    WritesCode,       \* the sessions whose agent is code-gen or test
    RoutingKey,       \* the chain selectProviderKey chose for a session
    Routing,          \* chain key -> providers, with a chain "default"
    Kind,             \* of a provider: "claude-cli", "ollama" or "api"
    Budget,           \* the budget of the rolling window
    MaxUpsets         \* bound: failed store, forge and git calls, deadlines that
                      \* pass, and crashes, together

Keys == DOMAIN Routing

ASSUME SessionAssumption ==
    /\ None \notin Workers \cup Sessions \cup Providers /\ IsFiniteSet(Workers)
    /\ WritesCode \subseteq Sessions
    /\ "default" \in Keys /\ \A key \in Keys : Routing[key] \in Seq(Providers)
    /\ \A s \in Sessions : RoutingKey[s] \in Keys
    /\ Sessions \subseteq DOMAIN IssueOf
    /\ Kind \in [Providers -> {"claude-cli", "ollama", "api"}]
    /\ Budget \in Nat \ {0} /\ MaxUpsets \in Nat

Issues == {IssueOf[s] : s \in Sessions}

VARIABLES
    row,              \* the status of a session in the store
    spent,            \* what the cost records of the window add up to
    answered,         \* sessions whose answer is a comment on their issue
    branch,           \* issues with a local branch agent/N
    worktree,         \* a session's worktree: "none", "live", or "gone", when its
                      \* directory is removed but git still lists it
    pushed,           \* sessions that pushed the branch of their issue
    onActivity,       \* the session whose callback a CLI provider holds
    worker,           \* each worker's place in the code and its locals
    told,             \* what the dispatcher was told; "lost" after a crash
    upsets            \* counts towards MaxUpsets

vars == <<row, spent, answered, branch, worktree, pushed, onActivity, worker, told, upsets>>
git  == <<branch, worktree>>
forge == <<answered, pushed>>

Idle == [at |-> "idle", session |-> None, provider |-> None, attempt |-> 1,
         late |-> FALSE, work |-> "none", isolated |-> FALSE, marked |-> FALSE,
         reply |-> "full", retried |-> FALSE, error |-> "none"]

Busy == {w \in Workers : worker[w].at # "idle"}
Running == {worker[w].session : w \in Busy}
S(w) == worker[w].session
I(w) == IssueOf[S(w)]

Go(w, at) == worker' = [worker EXCEPT ![w].at = at]

\* A call fails because of an upset; the calls made with the task's own context also
\* fail once the deadline of the task has passed.
Upset    == upsets < MaxUpsets /\ upsets' = upsets + 1
Fine     == UNCHANGED upsets
InTime(w) == ~worker[w].late /\ UNCHANGED upsets
Fails(w) == IF worker[w].late THEN UNCHANGED upsets ELSE Upset

\* Every session has its row and is in the pool's queue: when is up to the workers.
Init ==
    /\ row = [s \in Sessions |-> "pending"]
    /\ spent = 0
    /\ answered = {}
    /\ branch = {}
    /\ worktree = [s \in Sessions |-> "none"]
    /\ pushed = {}
    /\ onActivity = [p \in Providers |-> None]
    /\ worker = [w \in Workers |-> Idle]
    /\ told = [s \in Sessions |-> "no"]
    /\ upsets = 0

(***************************************************************************)
(* The pool.                                                               *)
(***************************************************************************)

\* The first healthy provider of a chain, given which ones answer their health
\* checks, or None.
FirstHealthy(chain, healthy) ==
    LET fit == {n \in DOMAIN chain : chain[n] \in healthy}
    IN  IF fit = {} THEN None ELSE chain[CHOOSE n \in fit : \A m \in fit : n <= m]

\* Registry.Get with the task's key and, if that chain has none, with "default".
Resolve(s, healthy) ==
    LET own == FirstHealthy(Routing[RoutingKey[s]], healthy)
    IN  IF own # None THEN own ELSE FirstHealthy(Routing["default"], healthy)

\* Registry.GetAfter: the chain of the task's own key, behind the provider that failed.
After(s, p, healthy) ==
    LET chain == Routing[RoutingKey[s]]
        at == {n \in DOMAIN chain : chain[n] = p}
    IN  IF at = {} THEN None
        ELSE LET first == CHOOSE n \in at : \A m \in at : n <= m
             IN  FirstHealthy(SubSeq(chain, first + 1, Len(chain)), healthy)

\* UpdateSession: one statement on the session's row.
UpdateSession(s, status) == row' = [row EXCEPT ![s] = status]

\* failSession of the pool, whose errors are logged.
FailSession(w) ==
    \/ Fine  /\ UpdateSession(S(w), "failed")
    \/ Upset /\ UNCHANGED row

\* onComplete tells the dispatcher how the task ended, and the worker is free.
Report(w, outcome) ==
    /\ told' = [told EXCEPT ![S(w)] = outcome]
    /\ worker' = [worker EXCEPT ![w] = Idle]

\* The dispatcher has created the session's row and the pool's queue hands it out.
Take(w, s) ==
    /\ worker[w].at = "idle" /\ row[s] = "pending" /\ told[s] = "no" /\ s \notin Running
    /\ \E healthy \in SUBSET Providers :
          LET p == Resolve(s, healthy) IN
          worker' = [worker EXCEPT ![w] = [Idle EXCEPT
              !.at = IF p = None THEN "unserved" ELSE "activate",
              !.session = s, !.provider = p]]
    /\ UNCHANGED <<row, spent, forge, git, onActivity, told, upsets>>

\* No provider is healthy: failSession, and the dispatcher is told.
Unserved(w) ==
    /\ worker[w].at = "unserved"
    /\ FailSession(w)
    /\ Report(w, "failure")
    /\ UNCHANGED <<spent, forge, git, onActivity>>

\* After a run that failed with a retryable error the next provider of the chain gets
\* one attempt (a comment says so, or fails).  Health checks fail after the deadline.
Failover(w) ==
    /\ worker[w].at = "ran" /\ worker[w].error = "retryable"
    /\ worker[w].attempt = 1 /\ ~worker[w].late
    /\ \E healthy \in SUBSET Providers :
          LET next == After(S(w), worker[w].provider, healthy) IN
          /\ next # None
          /\ worker' = [worker EXCEPT ![w] = [Idle EXCEPT
                 !.at = "activate", !.session = S(w), !.provider = next, !.attempt = 2]]
    /\ UNCHANGED <<row, spent, forge, git, onActivity, told, upsets>>

\* Otherwise the run's outcome is the task's; no provider may be healthy by then.
Finish(w) ==
    /\ worker[w].at = "ran"
    /\ Report(w, IF worker[w].error = "none" THEN "success" ELSE "failure")
    /\ UNCHANGED <<row, spent, forge, git, onActivity, upsets>>

(***************************************************************************)
(* A run.  What fails before anything is deferred passes "reject", what    *)
(* fails later "fail", and "unhook" where the deferred calls begin.        *)
(***************************************************************************)

\* The run goes on where nothing but its outcome matters of the answer it had.
Settle(w, error, at) ==
    worker' = [worker EXCEPT ![w] = [Idle EXCEPT
        !.at = at, !.session = S(w), !.provider = worker[w].provider, !.error = error,
        !.attempt = worker[w].attempt, !.late = worker[w].late, !.isolated = worker[w].isolated]]

\* updateSessionStatus(active), ...
Activate(w) ==
    /\ worker[w].at = "activate"
    /\ \/ InTime(w) /\ UpdateSession(S(w), "active") /\ Settle(w, "none", "budget")
       \/ Fails(w) /\ UNCHANGED row /\ Settle(w, "final", "ran")
    /\ UNCHANGED <<spent, forge, git, onActivity, told>>

\* Fault: a budget that is exactly spent counts as left.
BudgetLeftInclusive == spent <= Budget

\* ... and CheckBudget: what is spent must be below the budget.
BudgetLeft == spent < Budget

CheckBudget(w) ==
    /\ worker[w].at = "budget"
    /\ \/ InTime(w) /\ BudgetLeft /\ Go(w, IF S(w) \in WritesCode THEN "prune" ELSE "hook")
       \/ InTime(w) /\ ~BudgetLeft /\ Settle(w, "final", "reject")
       \/ Fails(w) /\ Settle(w, "final", "reject")
    /\ UNCHANGED <<row, spent, forge, git, onActivity, told>>

\* Fault: worktrees in use count as old.
LeftoverOrInUse == {s \in Sessions : worktree[s] = "live"}

\* Worktrees nobody works in any more: left by a crash.  A run ends long before its
\* directory is two hours old (MaxTimeout is one hour).
Leftover == {s \in Sessions \ Running : worktree[s] = "live"}

\* CreateWorkspace, first half: PruneStaleWorktrees and git worktree prune, whose
\* errors are ignored.
PruneWorktrees(w) ==
    /\ worker[w].at = "prune"
    /\ \E old \in SUBSET Leftover :
          \/ /\ Fine
             /\ worktree' = [s \in Sessions |->
                               IF s \in old \/ worktree[s] = "gone" THEN "none" ELSE worktree[s]]
          \/ /\ Upset
             /\ worktree' = [s \in Sessions |-> IF s \in old THEN "gone" ELSE worktree[s]]
    /\ Go(w, "add")
    /\ UNCHANGED <<row, spent, forge, branch, onActivity, told>>

\* git refuses a branch that a worktree it lists has checked out.
CheckedOut(i) == \E s \in Sessions : IssueOf[s] = i /\ worktree[s] # "none"

\* CreateWorkspace, second half: a worktree on a new branch agent/N or on the one that
\* exists; without either the run goes on without isolation.  CLAUDE.md is written into
\* the worktree ("marked"), failing which the run goes on.
AddWorktree(w) ==
    /\ worker[w].at = "add"
    /\ IF ~CheckedOut(I(w))
       THEN \/ /\ \/ Fine  /\ worker' = [worker EXCEPT ![w].at = "hook", ![w].isolated = TRUE,
                                                      ![w].marked = TRUE]
                  \/ Upset /\ worker' = [worker EXCEPT ![w].at = "hook", ![w].isolated = TRUE]
               /\ worktree' = [worktree EXCEPT ![S(w)] = "live"]
               /\ branch' = branch \cup {I(w)}
            \/ Upset /\ Go(w, "hook") /\ UNCHANGED git
       ELSE Fine /\ Go(w, "hook") /\ UNCHANGED git
    /\ UNCHANGED <<row, spent, forge, onActivity, told>>

\* Only the CLI client is an ActivityNotifier.
Notifies(p) == Kind[p] = "claude-cli"

\* SetOnActivity: one callback per provider, whoever set it last.
Hook(w) ==
    /\ worker[w].at = "hook"
    /\ onActivity' = [onActivity EXCEPT ![worker[w].provider] =
                        IF Notifies(worker[w].provider) THEN S(w) ELSE @]
    /\ Go(w, "chat")
    /\ UNCHANGED <<row, spent, forge, git, told, upsets>>

\* How a request can fail.  The CLI client reports silence as a retryable timeout, the
\* Ollama client timeouts and an unreachable server, and also a deadline that has passed;
\* every other error is final.
Errors(w) ==
    CASE Kind[worker[w].provider] = "claude-cli" ->
            IF worker[w].late THEN {"final"} ELSE {"retryable", "final"}
      [] Kind[worker[w].provider] = "ollama" ->
            IF worker[w].late THEN {"retryable"} ELSE {"retryable", "final"}
      [] OTHER -> {"final"}

\* What an agent has done in its worktree by the end of a request: nothing, only new
\* files, or changes to files git tracks.  Only a CLI agent works there.
Work(w) == IF worker[w].isolated /\ Notifies(worker[w].provider)
           THEN IF worker[w].work = "edited" THEN {"edited"} ELSE {worker[w].work, "added", "edited"}
           ELSE {"none"}

\* provider.Chat, the first time and the one retry after a failed validation.
Chat(w) ==
    /\ worker[w].at = "chat"
    /\ \/ \E error \in Errors(w) : Settle(w, error, "fail")
       \/ /\ ~worker[w].late
          /\ \E reply \in {"full", "empty"}, work \in Work(w) :
                worker' = [worker EXCEPT ![w].at = "answered", ![w].reply = reply, ![w].work = work]
    /\ UNCHANGED <<row, spent, forge, git, onActivity, told, upsets>>

\* An answer of a hosted API costs one unit; Ollama is free, and the CLI client reports
\* no tokens.
Cost(p) == IF Kind[p] = "api" THEN 1 ELSE 0

\* RecordUsage; a failure is logged.
RecordUsage(w) ==
    \/ InTime(w) /\ spent' = spent + Cost(worker[w].provider)
    \/ Fails(w) /\ UNCHANGED spent

\* ValidateBeforePost looks at code in a worktree, if there is one: first for changes to
\* configuration only, in git diff HEAD~1, which has the files of the last commit on main
\* and lacks new files (so only changed files that git tracks are sure to save an agent's
\* work after a commit of configuration); then it builds and tests.
BadOutput(w)    == IF worker[w].work = "edited" THEN {} ELSE {"bad"}
BuildAndTest    == {"pass", "broken"}

\* Any other answer must not be too short.
Analytical(w)   == IF worker[w].reply = "full" THEN {"pass"} ELSE {"broken"}

Judgements(w) ==
    IF S(w) \notin WritesCode THEN Analytical(w)
    ELSE IF worker[w].isolated THEN BadOutput(w) \cup BuildAndTest
    ELSE {"pass"}

\* Whoever may correct the code may do so once.
Validate(w) ==
    \E judgement \in Judgements(w) :
       \/ judgement = "pass" /\ Go(w, IF worker[w].isolated THEN "commit" ELSE "post")
       \/ /\ judgement = "broken" /\ ~worker[w].retried
          /\ worker' = [worker EXCEPT ![w].at = "chat", ![w].retried = TRUE]
       \/ /\ judgement = "bad" \/ (judgement = "broken" /\ worker[w].retried)
          /\ Settle(w, "final", "fail")

Answered(w) ==
    /\ worker[w].at = "answered"
    /\ RecordUsage(w)
    /\ Validate(w)
    /\ UNCHANGED <<row, forge, git, onActivity, told>>

\* CommitAndPush.  The worktree is changed by the agent or by the file the runner wrote.
Commit(w) ==
    /\ worker[w].at = "commit"
    /\ \/ Upset /\ Settle(w, "final", "fail") /\ UNCHANGED pushed
       \/ /\ Fine
          /\ IF worker[w].marked \/ worker[w].work # "none"
             THEN pushed' = pushed \cup {S(w)}
             ELSE UNCHANGED pushed
          /\ Go(w, "post")
    /\ UNCHANGED <<row, spent, answered, git, onActivity, told>>

\* postComment: an empty answer is skipped; a failure counts unless work was pushed.
PostComment(w) ==
    /\ worker[w].at = "post"
    /\ \/ /\ worker[w].reply = "empty"
          /\ Settle(w, "none", "complete") /\ UNCHANGED <<answered, upsets>>
       \/ /\ worker[w].reply = "full" /\ InTime(w)
          /\ answered' = answered \cup {S(w)}
          /\ Settle(w, "none", "complete")
       \/ /\ worker[w].reply = "full" /\ Fails(w)
          /\ IF S(w) \in pushed THEN Settle(w, "none", "complete") ELSE Settle(w, "final", "fail")
          /\ UNCHANGED answered
    /\ UNCHANGED <<row, spent, pushed, git, onActivity, told>>

\* Fault: a row that could not be completed is logged and forgotten.
CompleteOrLog(w) ==
    /\ worker[w].at = "complete"
    /\ \/ Fine  /\ UpdateSession(S(w), "completed")
       \/ Upset /\ UNCHANGED row
    /\ Go(w, "unhook")
    /\ UNCHANGED <<spent, forge, git, onActivity, told>>

\* completeSession, with a context that has no deadline; task profile and timeout
\* accuracy follow and cannot fail the run.
Complete(w) ==
    /\ worker[w].at = "complete"
    /\ \/ Fine  /\ UpdateSession(S(w), "completed") /\ Go(w, "unhook")
       \/ Upset /\ Settle(w, "final", "unhook") /\ UNCHANGED row
    /\ UNCHANGED <<spent, forge, git, onActivity, told>>

\* failTaskWithClass, with a context that has no deadline; the failure event and the
\* comment that follow may fail as well, which is logged.
FailTask(w) ==
    /\ worker[w].at \in {"fail", "reject"}
    /\ \/ Fine  /\ UpdateSession(S(w), "failed")
       \/ Upset /\ UNCHANGED row
    /\ Go(w, IF worker[w].at = "fail" THEN "unhook" ELSE "ran")
    /\ UNCHANGED <<spent, forge, git, onActivity, told>>

(***************************************************************************)
(* The deferred calls, in the opposite order.  The task's deadline does    *)
(* not reach them.                                                         *)
(***************************************************************************)

\* Fault: the callback stays.
UnhookNothing(w) ==
    /\ worker[w].at = "unhook"
    /\ Go(w, IF worker[w].isolated THEN "remove" ELSE "ran")
    /\ UNCHANGED <<row, spent, forge, git, onActivity, told, upsets>>

\* SetOnActivity(nil), whoever set the callback.
Unhook(w) ==
    /\ worker[w].at = "unhook"
    /\ onActivity' = [onActivity EXCEPT ![worker[w].provider] = IF Notifies(worker[w].provider) THEN None ELSE @]
    /\ Go(w, IF worker[w].isolated THEN "remove" ELSE "ran")
    /\ UNCHANGED <<row, spent, forge, git, told, upsets>>

\* The cleanup of a workspace: the directory, ...
RemoveDir(w) ==
    /\ worker[w].at = "remove"
    /\ \/ Fine /\ worktree' = [worktree EXCEPT ![S(w)] = "gone"]
       \/ Upset /\ UNCHANGED worktree
    /\ Go(w, "forget")
    /\ UNCHANGED <<row, spent, forge, branch, onActivity, told>>

\* Fault: the branch is deleted before git forgets the worktree.
ForgetAfterBranch(w) ==
    /\ worker[w].at = "forget"
    /\ Fine
    /\ worktree' = [s \in Sessions |-> IF worktree[s] = "gone" THEN "none" ELSE worktree[s]]
    /\ branch' = IF CheckedOut(I(w)) THEN branch ELSE branch \ {I(w)}
    /\ Go(w, "ran")
    /\ UNCHANGED <<row, spent, forge, onActivity, told>>

\* ... git worktree prune, which forgets every worktree without a directory, ...
Forget(w) ==
    /\ worker[w].at = "forget"
    /\ \/ Fine /\ worktree' = [s \in Sessions |-> IF worktree[s] = "gone" THEN "none" ELSE worktree[s]]
       \/ Upset /\ UNCHANGED worktree
    /\ Go(w, "delete")
    /\ UNCHANGED <<row, spent, forge, branch, onActivity, told>>

\* ... and git branch -D.
DeleteBranch(w) ==
    /\ worker[w].at = "delete"
    /\ \/ Fine /\ branch' = IF CheckedOut(I(w)) THEN branch ELSE branch \ {I(w)}
       \/ Upset /\ UNCHANGED branch
    /\ Go(w, "ran")
    /\ UNCHANGED <<row, spent, forge, worktree, onActivity, told>>

(***************************************************************************)
(* What happens meanwhile.                                                 *)
(***************************************************************************)

\* The deadline of a task passes.
Expire(w) ==
    /\ worker[w].at \notin {"idle", "unserved"} /\ ~worker[w].late
    /\ Upset
    /\ worker' = [worker EXCEPT ![w].late = TRUE]
    /\ UNCHANGED <<row, spent, forge, git, onActivity, told>>

\* The process dies; no later one takes up the sessions that ran.  The sessions that are
\* pending stand for those of the next process as well.
Crash ==
    /\ Upset
    /\ worker' = [w \in Workers |-> Idle]
    /\ onActivity' = [p \in Providers |-> None]
    /\ told' = [s \in Sessions |-> IF s \in Running /\ told[s] = "no" THEN "lost" ELSE told[s]]
    /\ UNCHANGED <<row, spent, forge, git>>

\* A cost record leaves the rolling window.
AgeCost ==
    /\ spent > 0
    /\ spent' = spent - 1
    /\ UNCHANGED <<row, forge, git, onActivity, worker, told, upsets>>

Step(w) ==
    \/ \E s \in Sessions : Take(w, s)
    \/ Unserved(w) \/ Failover(w) \/ Finish(w)
    \/ Activate(w) \/ CheckBudget(w) \/ PruneWorktrees(w) \/ AddWorktree(w) \/ Hook(w)
    \/ Chat(w) \/ Answered(w) \/ Commit(w) \/ PostComment(w)
    \/ Complete(w) \/ FailTask(w)
    \/ Unhook(w) \/ RemoveDir(w) \/ Forget(w) \/ DeleteBranch(w)

Next ==
    \/ \E w \in Workers : Step(w) \/ Expire(w)
    \/ Crash \/ AgeCost

Spec == Init /\ [][Next]_vars

(***************************************************************************)
(* Properties.                                                             *)
(***************************************************************************)

Ats == {"idle", "unserved", "ran", "activate", "budget", "prune", "add", "hook",
        "chat", "answered", "commit", "post", "complete", "fail", "reject",
        "unhook", "remove", "forget", "delete"}

\* The types of the variables; a worker that works has a session of its own, and one
\* that has left the pool's own code has a provider.
TypeOK ==
    /\ row \in [Sessions -> {"pending", "active", "completed", "failed"}]
    /\ spent \in Nat
    /\ answered \subseteq Sessions
    /\ branch \subseteq Issues
    /\ worktree \in [Sessions -> {"none", "live", "gone"}]
    /\ pushed \subseteq WritesCode
    /\ onActivity \in [Providers -> Sessions \cup {None}]
    /\ worker \in [Workers ->
          [at : Ats, session : Sessions \cup {None}, provider : Providers \cup {None},
           attempt : 1..2, late : BOOLEAN, work : {"none", "added", "edited"},
           isolated : BOOLEAN, marked : BOOLEAN, reply : {"full", "empty"},
           retried : BOOLEAN, error : {"none", "retryable", "final"}]]
    /\ \A w \in Busy : /\ S(w) # None
                       /\ worker[w].provider = None => worker[w].at = "unserved"
                       /\ \A v \in Busy \ {w} : S(v) # S(w)
    /\ told \in [Sessions -> {"no", "success", "failure", "lost"}]
    /\ upsets \in 0..MaxUpsets

\* The budget is looked at before a request and charged after it: what can be spent
\* above it is two requests (one and its retry) for each worker, however many sessions,
\* failovers and crashes there are (Runner.Run's budget check, RecordUsage).
SpendBounded == spent < Budget + 2 * Cardinality(Workers)

\* A workspace belongs to one session from git worktree add to its removal: the
\* directory is there, the branch exists and is no one else's, whatever the workers
\* before and beside it prune and delete (CreateWorkspace, PruneStaleWorktrees, cleanup).
Isolated == {w \in Busy : worker[w].isolated /\ worker[w].at \notin {"forget", "delete", "ran"}}

WorkspaceIsMine ==
    \A w \in Isolated :
        /\ worktree[S(w)] = "live" /\ I(w) \in branch
        /\ \A v \in Isolated \ {w} : I(v) # I(w)

\* Unless a call failed or the process died, no directory and no branch is left of a
\* session that has ended (the cleanup of CreateWorkspace: the branch cannot go before
\* git has forgotten the worktree).
WorkspacesCleaned ==
    upsets = 0 =>
        /\ \A s \in Sessions \ Running : worktree[s] = "none"
        /\ \A i \in branch : \E s \in Running : IssueOf[s] = i

\* A provider never calls back a session that has ended: the deferred SetOnActivity(nil)
\* comes before the end of the run, and it cannot uncover an older callback.
CallbackIsLive == \A p \in Providers : onActivity[p] \in Running \cup {None}

\* A session that has ended leaves neither a workspace nor a callback behind.
NothingLeftBehind == WorkspacesCleaned /\ CallbackIsLive

\* What the dispatcher hears agrees with what the store and the issue say: of a success
\* the row says so and there is a result, pushed or posted (an agent that writes code
\* may answer nothing); a failure is no completed row (Run, completeSession, onComplete).
OutcomeTold ==
    \A s \in Sessions :
        /\ told[s] = "success" => /\ row[s] = "completed"
                                  /\ s \in WritesCode \cup answered
        /\ told[s] = "failure" => row[s] # "completed"
=============================================================================
