---------------------------- MODULE PullRequests ----------------------------
(***************************************************************************)
(* Pull requests from opening to merging: the PR watcher of the dispatch   *)
(* process (src/internal/prwatcher), which polls, asks for remediation of  *)
(* review comments, merges by tier and closes what a merge resolves; the   *)
(* review and merge tools of the serve process                             *)
(* (src/internal/mcp/tools_pr_review.go); and the pull requests agents      *)
(* open for their branches.                                                *)
(*                                                                         *)
(* Watcher and tool run in different processes; each decides by a listing  *)
(* that ages while it works through it.  Every forge call is an action.    *)
(* People, CI and the forge are the environment.  Issues and pull requests *)
(* share their numbers.  A listing is the first page of what is open, the  *)
(* newest first.  Time is in ticks and ages stop at Delay.                 *)
(***************************************************************************)
EXTENDS Integers, FiniteSets, Functions

CONSTANTS
    PRs, Issues,      \* numbers on one forge
    None,
    Forge,            \* "gitea" or "github", the client behind forge.PullRequestManager
    PageSize,         \* how many pull requests a listing has: 50
    Worked,           \* the pull requests that people still work on; the others stand
    Labelled,         \* the pull requests n for which the repository has a label pr:n
    Opened,           \* the pull requests that are open at first
    Created,          \* the issues that exist at first
    Comments,         \* review comments, [by, says]
    ExcludeLabels,    \* MergeConfig.ExcludeLabels
    Delay,            \* MergeConfig.Tier2DelayMinutes, in ticks
    AgentTitles,      \* titles the agent gives
    PeopleSet,        \* the labels that people set and take off
    MaxUpsets         \* bound: what people do to pull requests, tool calls, and
                      \* failed forge calls together

Items  == PRs \cup Issues
Titles == {"docs", "feat", "breaking"}
Labels == {"needs-human", "do-not-merge", "critical", "chore", "done"}
Statuses == {"pending", "success", "failure"}

PR == [state : {"absent", "open", "merged", "closed"}, title : Titles,
       trusted : BOOLEAN, draft : BOOLEAN, mergeable : BOOLEAN,
       labels : SUBSET Labels, checks : SUBSET Statuses,
       comments : SUBSET (Comments \X BOOLEAN), mentions : SUBSET Items,
       age : 0..Delay]

ASSUME PullRequestAssumption ==
    /\ PRs \subseteq Nat
    /\ PRs \cap Issues = {} /\ None \notin Items
    /\ PageSize \in Nat \ {0} /\ Labelled \subseteq PRs /\ Worked \subseteq PRs
    /\ Forge \in {"gitea", "github"}
    /\ Created \subseteq Issues /\ DOMAIN Opened \subseteq PRs
    /\ Opened \in [DOMAIN Opened -> PR]
    /\ ExcludeLabels \subseteq Labels
    /\ PeopleSet \subseteq Labels /\ AgentTitles \subseteq Titles
    /\ Delay \in Nat \ {0} /\ MaxUpsets \in Nat

VARIABLES
    pr,               \* pull requests on the forge
    issue,            \* issues on the forge; about: the label pr:N of a remediation issue
    watcher,          \* the PR watcher: where it is, its pull request, issues to close
    listed,           \* its listing: what it saw of the pull requests still to handle
    tool,             \* a review_pr, merge_pr or bulk_merge call and its listing
    upsets,           \* counts towards MaxUpsets
    closers           \* history: items the watcher closed or labelled done, with the
                      \* pull request it did so for

vars == <<pr, issue, watcher, listed, tool, upsets, closers>>

\* What a listing says of a pull request; the comments, which it does not list, are
\* history.
Snapshot(n) == [title |-> pr[n].title, trusted |-> pr[n].trusted,
                draft |-> pr[n].draft, mergeable |-> pr[n].mergeable,
                labels |-> pr[n].labels, age |-> pr[n].age, comments |-> pr[n].comments]

\* The tools look at neither.
Ageless(n) == [Snapshot(n) EXCEPT !.age = 0, !.comments = {}]

Upset   == upsets < MaxUpsets /\ upsets' = upsets + 1
Event   == Upset
Fault   == Upset
NoFault == UNCHANGED upsets

Open(n) == pr[n].state = "open"
OpenPRs == {n \in PRs : Open(n)}
FirstPage == {n \in OpenPRs : Cardinality({m \in OpenPRs : m > n}) < PageSize}

-----------------------------------------------------------------------------
(* The policy.                                                             *)

(***************************************************************************)
(* ClassifyPRTier: the strictest of what labels and title say, but a Tier  *)
(* 1 label or prefix wins over a Tier 2 prefix; Tier 2 by default.         *)
(***************************************************************************)
ClassifyPRTier(p) ==
    IF "critical" \in p.labels \/ p.title = "breaking" THEN 3
    ELSE IF "chore" \in p.labels \/ p.title = "docs" THEN 1
    ELSE 2

IsEligible(p) ==
    /\ ~p.draft
    /\ p.mergeable
    /\ p.trusted
    /\ p.labels \cap ExcludeLabels = {}

AllChecksPassed(statuses) == statuses = {"success"}

SummarizeChecks(statuses) ==
    CASE statuses = {}            -> "no-ci"
      [] statuses = {"success"}   -> "passed"
      [] "pending" \in statuses   -> "pending"
      [] OTHER                    -> "failed"

AssessEligibility(p, ci, tier) ==
    /\ ~p.draft /\ p.mergeable
    /\ ci \notin {"failed", "pending"}
    /\ tier # 3
    /\ ci = "no-ci" => tier = 1

-----------------------------------------------------------------------------
(* The forge clients.                                                      *)

\* Without statuses Gitea's combined one is reported, which is pending.
GiteaPRChecks(n)  == IF pr[n].checks = {} THEN {"pending"} ELSE pr[n].checks
GithubPRChecks(n) == pr[n].checks

\* GitHub's client does not report what is resolved.
GiteaComments(n)  == pr[n].comments
GithubComments(n) == {<<c[1], FALSE>> : c \in pr[n].comments}

GetPRChecks(n) ==
    IF Forge = "gitea" THEN GiteaPRChecks(n) ELSE GithubPRChecks(n)
ListReviewComments(n) ==
    IF Forge = "gitea" THEN GiteaComments(n) ELSE GithubComments(n)

\* A merge may put other pull requests into conflict.
MergePullRequest(n) ==
    /\ Open(n) /\ pr[n].mergeable /\ ~pr[n].draft
    /\ \E broken \in SUBSET (OpenPRs \ {n}) :
         pr' = [m \in PRs |-> IF m = n THEN [pr[n] EXCEPT !.state = "merged", !.age = 0]
                              ELSE IF m \in broken THEN [pr[m] EXCEPT !.mergeable = FALSE]
                              ELSE pr[m]]

CannotMerge(n) == ~(Open(n) /\ pr[n].mergeable /\ ~pr[n].draft)

Touched(n) == [pr[n] EXCEPT !.age = 0]

-----------------------------------------------------------------------------
(* The watcher.                                                            *)

Now == watcher.now
At(step) == watcher.at = step
GoTo(step) == watcher' = [watcher EXCEPT !.at = step]
Resting == [at |-> "idle", now |-> None, item |-> None, todo |-> {}]

\* continue: on to the next pull request of the listing.
Continue ==
    /\ watcher' = [Resting EXCEPT !.at = "next"]
    /\ listed' = Restrict(listed, DOMAIN listed \ {Now})

Poll ==
    /\ At("idle")
    /\ \/ /\ listed' = [n \in FirstPage |-> Snapshot(n)]
          /\ GoTo("next") /\ NoFault
       \/ Fault /\ UNCHANGED <<watcher, listed>>
    /\ UNCHANGED <<pr, issue, tool, closers>>

PollEnds ==
    /\ At("next") /\ DOMAIN listed = {}
    /\ watcher' = Resting
    /\ UNCHANGED <<pr, issue, listed, tool, upsets, closers>>

\* A pull request that was listed as needs-human is not searched for comments.
PollNext ==
    /\ At("next")
    /\ \E n \in DOMAIN listed :
         IF IsEligible(listed[n])
         THEN /\ watcher' = [watcher EXCEPT !.now = n, !.at =
                    IF "needs-human" \in listed[n].labels THEN "checks" ELSE "comments"]
              /\ UNCHANGED listed
         ELSE /\ listed' = Restrict(listed, DOMAIN listed \ {n})
              /\ UNCHANGED watcher
    /\ UNCHANGED <<pr, issue, tool, upsets, closers>>

FromReviewer(c) == c[1].by \in {"trusted", "copilot"}
IsActionable(c) == c[1].says = "actionable"

\* Fault: what was resolved blocks as before.
BlockingEver(comments) ==
    {c \in comments : FromReviewer(c) /\ IsActionable(c)}

Blocking(comments) ==
    {c \in comments : ~c[2] /\ FromReviewer(c) /\ IsActionable(c)}

\* If the comments cannot be listed the poll goes on as if there were none.
CheckReviewComments ==
    /\ At("comments")
    /\ \/ /\ GoTo(IF Blocking(ListReviewComments(Now)) = {} THEN "checks" ELSE "existing")
          /\ NoFault
       \/ Fault /\ GoTo("checks")
    /\ UNCHANGED <<pr, issue, listed, tool, closers>>

Remedies(n) == {i \in Issues : issue[i].state = "open" /\ issue[i].about = n}

\* Fault: a remediation issue is asked for at every poll.
AskAlways ==
    /\ At("existing")
    /\ GoTo("create") /\ NoFault /\ UNCHANGED listed
    /\ UNCHANGED <<pr, issue, tool, closers>>

CheckExisting ==
    /\ At("existing")
    /\ \/ /\ Remedies(Now) = {}
          /\ GoTo("create") /\ NoFault /\ UNCHANGED listed
       \/ /\ Remedies(Now) # {} /\ NoFault
          /\ Continue
       \/ Fault /\ Continue
    /\ UNCHANGED <<pr, issue, tool, closers>>

\* Gitea's client knows the labels that the repository had when it first asked for
\* them, and creates no issue with another.
Creatable(n) == Forge = "github" \/ n \in Labelled

\* A call that fails may have been carried out; issues run out by the bound only.
CreateRemediation ==
    LET create(i) == /\ Creatable(Now) /\ issue[i].state = "absent"
                     /\ issue' = [issue EXCEPT ![i].state = "open", ![i].about = Now] IN
    /\ At("create")
    /\ \/ (\E i \in Issues : create(i)) /\ NoFault /\ GoTo("note") /\ UNCHANGED listed
       \/ (\E i \in Issues : create(i)) /\ Fault /\ Continue
       \/ Fault /\ UNCHANGED issue /\ Continue
       \/ (~Creatable(Now) \/ \A i \in Issues : issue[i].state # "absent") /\ NoFault
          /\ UNCHANGED issue /\ Continue
    /\ UNCHANGED <<pr, tool, closers>>

\* The comment on the pull request is an update of it.
NoteRemediation ==
    /\ At("note")
    /\ \/ pr' = [pr EXCEPT ![Now] = Touched(Now)] /\ NoFault
       \/ Fault /\ UNCHANGED pr
    /\ Continue
    /\ UNCHANGED <<issue, tool, closers>>

\* Fault: Tier 2 is merged at once.
MayMergeAtOnce(p) == ClassifyPRTier(p) # 3

MayMerge(p) == CASE ClassifyPRTier(p) = 1 -> TRUE
                 [] ClassifyPRTier(p) = 2 -> p.age >= Delay
                 [] OTHER -> FALSE

CheckTier ==
    LET tier == ClassifyPRTier(listed[Now])
        passed == AllChecksPassed(GetPRChecks(Now))
        label == tier = 3 /\ "needs-human" \notin listed[Now].labels
        merge == passed /\ MayMerge(listed[Now]) IN
    /\ At("checks")
    /\ \/ label /\ NoFault /\ GoTo("label") /\ UNCHANGED listed
       \/ merge /\ NoFault /\ GoTo("merge") /\ UNCHANGED listed
       \/ ~label /\ ~merge /\ NoFault /\ Continue
       \/ Fault /\ Continue
    /\ UNCHANGED <<pr, issue, tool, closers>>

LabelTier3 ==
    /\ At("label")
    /\ \/ /\ pr' = [pr EXCEPT ![Now] = [Touched(Now) EXCEPT !.labels = @ \cup {"needs-human"}]]
          /\ NoFault
       \/ Fault /\ UNCHANGED pr
    /\ Continue
    /\ UNCHANGED <<issue, tool, closers>>

\* Fault: linked issues are closed whatever became of the merge.
MergeThenCloseAnyway ==
    /\ At("merge")
    /\ \/ MergePullRequest(Now) /\ NoFault
       \/ Fault /\ UNCHANGED pr
       \/ CannotMerge(Now) /\ NoFault /\ UNCHANGED pr
    /\ watcher' = [watcher EXCEPT !.at = "close", !.todo = pr[Now].mentions]
    /\ UNCHANGED <<issue, listed, tool, closers>>

\* The head that is merged is the head by now.  After an error no linked issue is
\* closed, even if the forge did merge.
Merge ==
    /\ At("merge")
    /\ \/ /\ MergePullRequest(Now) /\ NoFault /\ UNCHANGED listed
          /\ watcher' = [watcher EXCEPT !.at = "close", !.todo = pr[Now].mentions]
       \/ MergePullRequest(Now) /\ Fault /\ Continue
       \/ Fault /\ UNCHANGED pr /\ Continue
       \/ CannotMerge(Now) /\ NoFault /\ UNCHANGED pr /\ Continue
    /\ UNCHANGED <<issue, tool, closers>>

\* An item of either kind is closed, unless it is a merged pull request.
Closed(x) ==
    IF x \in Issues
    THEN issue' = [issue EXCEPT ![x].state = "closed"] /\ UNCHANGED pr
    ELSE /\ pr' = [pr EXCEPT ![x].state = IF @ = "open" THEN "closed" ELSE @]
         /\ UNCHANGED issue

CloseLinkedIssue ==
    /\ At("close")
    /\ IF watcher.todo = {} THEN Continue /\ UNCHANGED <<pr, issue, upsets, closers>>
       ELSE \E x \in watcher.todo :
              \/ /\ Closed(x) /\ NoFault
                 /\ watcher' = [watcher EXCEPT !.at = "label done", !.item = x]
                 /\ closers' = closers \cup {<<x, Now>>}
                 /\ UNCHANGED listed
              \/ /\ Fault
                 /\ watcher' = [watcher EXCEPT !.todo = @ \ {x}]
                 /\ UNCHANGED <<pr, issue, listed, closers>>
    /\ UNCHANGED tool

\* SetLabels replaces the labels of what was closed.
LabelDone ==
    LET x == watcher.item IN
    /\ At("label done")
    /\ \/ /\ NoFault
          /\ IF x \in Issues
             THEN issue' = [issue EXCEPT ![x].about = None, ![x].done = TRUE] /\ UNCHANGED pr
             ELSE /\ pr' = [pr EXCEPT ![x] = [Touched(x) EXCEPT !.labels = {"done"}]]
                  /\ UNCHANGED issue
       \/ Fault /\ UNCHANGED <<pr, issue>>
    /\ watcher' = [watcher EXCEPT !.at = "close", !.item = None, !.todo = @ \ {x}]
    /\ UNCHANGED <<listed, tool, closers>>

-----------------------------------------------------------------------------
(* The tools of the serve process, after their approval.                   *)

NoCall == [at |-> "idle", now |-> None, dry |-> FALSE, seen |-> <<>>]
ToolAt(step) == tool.at = step
ToolGoes(step) == tool' = [tool EXCEPT !.at = step]
ToolSkips == tool' = [tool EXCEPT !.at = "pick", !.seen = Restrict(@, DOMAIN @ \ {tool.now})]
ToolUnchanged == UNCHANGED <<issue, watcher, listed, closers>>

HandleBulkMerge ==
    /\ ToolAt("idle") /\ Event
    /\ \E dry \in BOOLEAN : tool' = [tool EXCEPT !.at = "list", !.dry = dry]
    /\ UNCHANGED <<pr, issue, watcher, listed, closers>>

BulkList ==
    /\ ToolAt("list")
    /\ \/ /\ tool' = [tool EXCEPT !.at = "pick",
                                  !.seen = [n \in FirstPage |-> Ageless(n)]]
          /\ NoFault
       \/ Fault /\ tool' = NoCall
    /\ UNCHANGED pr /\ ToolUnchanged

\* Only Tier 1; labels that exclude, authors and comments are not looked at.
BulkPick ==
    /\ ToolAt("pick")
    /\ IF DOMAIN tool.seen = {} THEN tool' = NoCall
       ELSE \E n \in DOMAIN tool.seen :
              LET p == tool.seen[n] IN
              tool' = IF ClassifyPRTier(p) = 1 /\ ~p.draft /\ p.mergeable
                      THEN [tool EXCEPT !.at = "checks", !.now = n]
                      ELSE [tool EXCEPT !.seen = Restrict(@, DOMAIN @ \ {n})]
    /\ UNCHANGED <<pr, upsets>> /\ ToolUnchanged

\* An error counts as a pull request without checks.
BulkChecks ==
    /\ ToolAt("checks")
    /\ \/ /\ NoFault
          /\ IF SummarizeChecks(GetPRChecks(tool.now)) = "passed" /\ ~tool.dry
             THEN ToolGoes("merge") ELSE ToolSkips
       \/ Fault /\ ToolSkips
    /\ UNCHANGED pr /\ ToolUnchanged

BulkMerge ==
    /\ ToolAt("merge")
    /\ \/ MergePullRequest(tool.now) /\ NoFault
       \/ CannotMerge(tool.now) /\ NoFault /\ UNCHANGED pr
       \/ Fault /\ UNCHANGED pr
    /\ ToolSkips /\ ToolUnchanged

HandleReviewPR ==
    /\ ToolAt("idle") /\ Event
    /\ \E n \in OpenPRs : tool' = [tool EXCEPT !.at = "review", !.now = n,
                                               !.seen = [m \in {n} |-> Ageless(m)]]
    /\ UNCHANGED <<pr, issue, watcher, listed, closers>>

\* A client has merge_pr merge what was found eligible.
ReviewChecks ==
    LET p == tool.seen[tool.now]
        ci == SummarizeChecks(GetPRChecks(tool.now)) IN
    /\ ToolAt("review")
    /\ \/ /\ NoFault
          /\ tool' = IF AssessEligibility(p, ci, ClassifyPRTier(p))
                     THEN [tool EXCEPT !.at = "merge"] ELSE NoCall
       \/ Fault /\ tool' = NoCall
    /\ UNCHANGED pr /\ ToolUnchanged

-----------------------------------------------------------------------------
(* The agent and the environment.                                          *)

Others == UNCHANGED <<watcher, listed, tool, closers>>

NewPR(title, mentions) ==
    [state |-> "open", title |-> title, trusted |-> TRUE, draft |-> FALSE,
     mergeable |-> TRUE, labels |-> {}, checks |-> {"pending"}, comments |-> {},
     mentions |-> mentions, age |-> 0]

\* The forge numbers pull requests in the order in which they are opened.
Unopened(n) == \A m \in PRs : m >= n => pr[m].state = "absent"

\* An agent's for an issue: its body closes the issue; its title, the model's
\* choice, may repeat that of a remediation issue, which names the pull request.
OpenPR(n, i) ==
    /\ Unopened(n) /\ issue[i].state = "open"
    /\ \E title \in AgentTitles,
          named \in SUBSET ({issue[i].about} \ {None}) :
         pr' = [pr EXCEPT ![n] = NewPR(title, {i} \cup named)]
    /\ UNCHANGED <<issue, upsets>> /\ Others

\* create_pr, for a client.
ExecuteCreatePR(n) ==
    /\ Unopened(n) /\ Event
    /\ \E title \in AgentTitles : pr' = [pr EXCEPT ![n] = NewPR(title, {})]
    /\ UNCHANGED issue /\ Others

Change(n, p) ==
    /\ Open(n) /\ n \in Worked /\ Event
    /\ pr' = [pr EXCEPT ![n] = [p EXCEPT !.age = 0]]
    /\ UNCHANGED issue /\ Others

Push(n) == Change(n, [pr[n] EXCEPT !.checks = {"pending"}, !.mergeable = TRUE])

Draft(n) == Change(n, [pr[n] EXCEPT !.draft = ~@])

Comment(n) ==
    \E c \in Comments : /\ \A x \in pr[n].comments : x[1] # c
                        /\ Change(n, [pr[n] EXCEPT !.comments = @ \cup {<<c, FALSE>>}])

Resolve(n) ==
    \E x \in pr[n].comments :
      ~x[2] /\ Change(n, [pr[n] EXCEPT !.comments = (@ \ {x}) \cup {<<x[1], TRUE>>}])

Relabel(n) ==
    \E l \in PeopleSet :
      Change(n, [pr[n] EXCEPT !.labels = IF l \in @ THEN @ \ {l} ELSE @ \cup {l}])

CIReports(n) ==
    /\ Open(n) /\ pr[n].checks = {"pending"}
    /\ \E s \in {{"success"}, {"success", "failure"}} :
         pr' = [pr EXCEPT ![n].checks = s]
    /\ UNCHANGED <<issue, upsets>> /\ Others

\* An agent or a person is done with an issue without a pull request.
CloseIssue(i) ==
    /\ issue[i].state = "open" /\ Event
    /\ issue' = [issue EXCEPT ![i].state = "closed"]
    /\ UNCHANGED pr /\ Others

Older(p) == [p EXCEPT !.age = IF @ = Delay THEN @ ELSE @ + 1]

Tick ==
    /\ pr' = [n \in PRs |-> IF Open(n) THEN Older(pr[n]) ELSE pr[n]]
    /\ listed' = [n \in DOMAIN listed |-> Older(listed[n])]
    /\ UNCHANGED <<issue, watcher, tool, upsets, closers>>

-----------------------------------------------------------------------------
NoPR == [state |-> "absent", title |-> "feat", trusted |-> TRUE, draft |-> FALSE,
         mergeable |-> TRUE, labels |-> {}, checks |-> {}, comments |-> {},
         mentions |-> {}, age |-> 0]

Init ==
    /\ pr = [n \in PRs |-> IF n \in DOMAIN Opened THEN Opened[n] ELSE NoPR]
    /\ issue = [i \in Issues |-> [state |-> IF i \in Created THEN "open" ELSE "absent",
                                  about |-> None, done |-> FALSE]]
    /\ watcher = Resting /\ listed = <<>> /\ tool = NoCall
    /\ upsets = 0 /\ closers = {}

WatcherStep ==
    \/ Poll \/ PollEnds \/ PollNext \/ CheckReviewComments \/ CheckExisting
    \/ CreateRemediation \/ NoteRemediation \/ CheckTier \/ LabelTier3 \/ Merge
    \/ CloseLinkedIssue \/ LabelDone

ToolStep == BulkList \/ BulkPick \/ BulkChecks \/ BulkMerge \/ ReviewChecks

Environment ==
    \/ HandleBulkMerge \/ HandleReviewPR
    \/ \E n \in PRs, i \in Issues : OpenPR(n, i)
    \/ \E n \in PRs : ExecuteCreatePR(n) \/ Push(n) \/ Draft(n) \/ Comment(n) \/ Resolve(n)
                      \/ Relabel(n) \/ CIReports(n)
    \/ \E i \in Issues : CloseIssue(i)

Next == WatcherStep \/ ToolStep \/ Environment \/ Tick

\* The watcher polls as long as it lives and time passes; nobody has to push,
\* comment, label or call a tool.
Spec == Init /\ [][Next]_vars /\ WF_vars(WatcherStep) /\ WF_vars(Tick)

-----------------------------------------------------------------------------
(* Every variable has its type. *)
Steps == {"idle", "next", "comments", "existing", "create", "note", "checks", "label",
          "merge", "close", "label done"}

TypeOK ==
    /\ \A n \in PRs : pr[n] \in PR
    /\ issue \in [Issues -> [state : {"absent", "open", "closed"},
                             about : PRs \cup {None}, done : BOOLEAN]]
    /\ watcher.at \in Steps /\ watcher.item \in Items \cup {None}
    /\ watcher.now \in PRs \cup {None} /\ watcher.todo \subseteq Items
    /\ watcher.at \notin {"idle", "next"} => watcher.now \in DOMAIN listed
    /\ DOMAIN listed \subseteq PRs /\ DOMAIN tool.seen \subseteq PRs
    /\ tool.at \in {"idle", "list", "pick", "checks", "merge", "review"}
    /\ upsets \in 0..MaxUpsets
    /\ closers \subseteq Items \X PRs

(***************************************************************************)
(* A pull request has at most one open remediation issue, whatever calls   *)
(* fail and however often it is polled before the issue is dealt with.     *)
(***************************************************************************)
OneRemediation == \A n \in PRs : Cardinality(Remedies(n)) <= 1

(***************************************************************************)
(* The watcher closes an issue, or a pull request, only for the sake of a  *)
(* merged one that mentions it.                                            *)
(***************************************************************************)
ClosedByMerge ==
    \A x \in closers : pr[x[2]].state = "merged" /\ x[1] \in pr[x[2]].mentions

\* What the watcher opens and closes on behalf of a pull request is in order.
IssuesInOrder == OneRemediation /\ ClosedByMerge

(***************************************************************************)
(* A Tier 2 pull request that the watcher merges had been left alone for   *)
(* the delay, except for what happened to it after it was listed.          *)
(***************************************************************************)
Untouched(n) == Snapshot(n) = listed[n]

MergedAfterDelay ==
    [][\A n \in PRs :
         /\ pr[n].state = "open" /\ pr'[n].state = "merged" /\ At("merge") /\ Now = n
         /\ Untouched(n) /\ ClassifyPRTier(pr[n]) # 1
         => pr[n].age >= Delay]_vars

(***************************************************************************)
(* A pull request on the first page of the listing that the policy lets    *)
(* through does not wait for ever behind others of its listing: it is      *)
(* merged, something happens to it, or newer ones push it off the page.    *)
(* Off the page it is not looked at: pull requests that are never merged   *)
(* stay in front of it, and the code does nothing about that.              *)
(***************************************************************************)
Ready(n) ==
    /\ n \in FirstPage /\ IsEligible(pr[n]) /\ ClassifyPRTier(pr[n]) # 3
    /\ \A c \in pr[n].comments :
         c[2] \/ c[1].says = "approval" \/ c[1].by = "other"
    /\ AllChecksPassed(GetPRChecks(n))

EligibleMerges == \A n \in PRs : Ready(n) ~> ~Ready(n)
=============================================================================
