---------------------------- MODULE Coordination ----------------------------
(***************************************************************************)
(* The MCP server of the serve process (src/internal/mcp): interactive     *)
(* workers claim, complete and release issues through                      *)
(* ForgeWorkCoordinator, edit issues with the other tools, and wait for    *)
(* the approval of those that the autonomy policy puts in Tier 3.  The     *)
(* dispatcher, a process of its own, claims issues of the same forge.      *)
(*                                                                         *)
(* Every tool call is a goroutine.  A call of a client is split at its     *)
(* forge calls and at the critical sections of ForgeWorkCoordinator.mu,    *)
(* pendingActions.mu and ProjectRegistry.mu.  The active project is shared *)
(* by all clients; the claims and the pending actions are in memory only.  *)
(*                                                                         *)
(* A client is also the worker ID it calls with.  MaxCalls bounds the tool *)
(* calls, MaxMishaps the failed forge and file calls together with the     *)
(* restarts of the serve process, MaxDispatches the dispatcher's tasks.    *)
(***************************************************************************)
EXTENDS Integers, Sequences, FiniteSets

CONSTANTS
    Projects,         \* the registered projects
    Order,            \* the projects in the order of ProjectRegistry.List
    Numbers,          \* issue numbers; every project has an issue of each
    Clients,          \* the clients of the MCP server
    Ids,              \* the action IDs that may be generated
    Policies,         \* the tier_overrides a deployment may have
    Tools,            \* the tools that clients call
    None,             \* no worker, no issue, no action
    Phases,           \* lifecycle phases, "inactive" among them
    Verdicts,         \* the status labels that people set with a tool
    MaxCalls, MaxMishaps, MaxDispatches

Issues == [project : Projects, number : Numbers]

ASSUME CoordinationAssumption ==
    /\ Order \in Seq(Projects) /\ Order # <<>>
    /\ \A p \in Projects : \E k \in DOMAIN Order : Order[k] = p
    /\ None \notin Clients \cup Issues \cup Ids \cup Projects
    /\ Phases \subseteq STRING /\ "development" \in Phases
    /\ Verdicts \subseteq {"queued", "needs-qc", "needs-human"}
    /\ MaxCalls \in Nat /\ MaxMishaps \in Nat /\ MaxDispatches \in Nat

VARIABLES
    \* the forge
    labels,           \* the labels of every issue
    open,             \* the open issues
    merged,           \* the pull requests that were merged, [project, number]
    mishaps,          \* how many calls have failed, and restarts
    \* the configuration
    policy,           \* tier_overrides, read at the start
    phaseFile,        \* the phases in server.yaml
    \* the memory of the serve process
    active,           \* ProjectRegistry.active
    phase,            \* the phase of every project
    claimed,          \* ForgeWorkCoordinator.claimed: the worker that holds an issue
    pending,          \* pendingActions.actions: what each ID stands for
    expired,          \* the IDs older than the TTL
    \* the goroutines
    call,             \* each client's call: where it is and what it is about
    calls,            \* how many tools have been called
    dispatcher,       \* the dispatcher: where it is, on which issue
    \* history
    issued,           \* the IDs that were generated
    ran,              \* how often each client has executed the action of an ID
    refused,          \* the IDs whose rejection was reported
    dropped           \* issues whose last claim, completion or release broke off

forge   == <<labels, open, merged>>
config  == <<policy, phaseFile>>
queue   == <<pending, expired, issued>>
history == <<ran, refused, dropped>>
vars == <<forge, mishaps, config, active, phase, claimed, queue, call, calls, dispatcher, history>>

Statuses == {"queued", "claimed", "needs-qc", "needs-human"}
Labels == Statuses \cup {"in-progress"}
IssueAt(p, n) == [project |-> p, number |-> n]

Mishap == mishaps < MaxMishaps /\ mishaps' = mishaps + 1
NoMishap == UNCHANGED mishaps

-----------------------------------------------------------------------------
(* The autonomy policy.                                                    *)

SystemDefaults ==
    [open_issue |-> 1, comment_issue |-> 1, label_issue |-> 1,
     edit_file |-> 2, close_issue |-> 2, merge_main |-> 3, restructure |-> 3]

TierFor(action) ==
    IF action \in DOMAIN policy THEN policy[action] ELSE SystemDefaults[action]

WorkTools == {"claim_issue", "complete_issue", "release_issue"}

\* A call that does nothing (asked is history: the project that was active when
\* it was made), and the step an action of a tool starts with.
Idle == [at |-> "idle", tool |-> "", issue |-> None, worker |-> None,
         arg |-> "", asked |-> None, id |-> None, left |-> <<>>, found |-> {}]

Start == [t \in WorkTools |->
            IF t = "claim_issue" THEN "check" ELSE "take back"]

FirstStep(tool) == IF tool \in WorkTools THEN Start[tool] ELSE "execute"

At(c, step) == call[c].at = step
GoTo(c, step) == call' = [call EXCEPT ![c].at = step]
Return(c) == call' = [call EXCEPT ![c] = Idle]

(***************************************************************************)
(* checkTier: an action below Tier 3 goes on, one of Tier 3 is queued      *)
(* under a new ID and the call returns.                                    *)
(***************************************************************************)
CheckTier(c, action, act) ==
    /\ calls < MaxCalls /\ calls' = calls + 1
    /\ \/ /\ TierFor(action) < 3
          /\ call' = [call EXCEPT ![c] = [act EXCEPT !.at = FirstStep(act.tool)]]
          /\ UNCHANGED queue
       \/ /\ TierFor(action) = 3
          /\ \E id \in Ids \ issued :
               /\ pending' = [pending EXCEPT ![id] = act]
               /\ issued' = issued \cup {id}
          /\ UNCHANGED <<expired, call>>
    /\ UNCHANGED <<forge, mishaps, config, active, phase, claimed,
                   dispatcher, history>>

\* The arguments of an issue tool are a number and a label or state; the
\* project is looked up when the action runs.
OnNumber(c, tool, n, arg) ==
    [Idle EXCEPT !.tool = tool, !.issue = IssueAt(None, n), !.worker = c,
                 !.arg = arg, !.asked = active]

\* The worker tools capture owner and repo of the active project.
OnIssue(c, tool, n) ==
    [Idle EXCEPT !.tool = tool, !.issue = IssueAt(active, n), !.worker = c,
                 !.asked = active]

May(c, tool) == At(c, "idle") /\ tool \in Tools

-----------------------------------------------------------------------------
(* The requests.                                                           *)

HandleClaimIssue(c, n) ==
    /\ May(c, "claim_issue")
    /\ CheckTier(c, "label_issue", OnIssue(c, "claim_issue", n))

HandleCompleteIssue(c, n) ==
    /\ May(c, "complete_issue")
    /\ CheckTier(c, "label_issue", OnIssue(c, "complete_issue", n))

HandleReleaseIssue(c, n) ==
    /\ May(c, "release_issue")
    /\ CheckTier(c, "label_issue", OnIssue(c, "release_issue", n))

HandleAddLabel(c, n) ==
    /\ May(c, "add_label")
    /\ CheckTier(c, "label_issue", OnNumber(c, "add_label", n, "in-progress"))

HandleRemoveLabel(c, n) ==
    /\ May(c, "remove_label")
    /\ CheckTier(c, "label_issue", OnNumber(c, "remove_label", n, "in-progress"))

HandleSetLabels(c, n) ==
    /\ May(c, "set_labels")
    /\ \E l \in Verdicts :
         CheckTier(c, "label_issue", OnNumber(c, "set_labels", n, l))

HandleUpdateIssue(c, n) ==
    /\ May(c, "update_issue")
    /\ \E s \in {"open", "closed"} :
         CheckTier(c, "edit_file", OnNumber(c, "update_issue", n, s))

HandleCloseIssue(c, n) ==
    /\ May(c, "close_issue")
    /\ CheckTier(c, "close_issue", OnNumber(c, "close_issue", n, "closed"))

HandleReopenIssue(c, n) ==
    /\ May(c, "reopen_issue")
    /\ CheckTier(c, "close_issue", OnNumber(c, "reopen_issue", n, "open"))

HandleCloseIssueWithComment(c, n) ==
    /\ May(c, "close_issue_with_comment")
    /\ CheckTier(c, "close_issue",
                 OnNumber(c, "close_issue_with_comment", n, "closed"))

HandleMergePR(c, n) ==
    /\ May(c, "merge_pr")
    /\ CheckTier(c, "merge_main", OnNumber(c, "merge_pr", n, ""))

HandleSetProjectPhase(c) ==
    /\ May(c, "set_project_phase")
    /\ \E p \in Projects, ph \in Phases :
         CheckTier(c, "restructure",
                   [Idle EXCEPT !.tool = "set_project_phase", !.worker = c,
                                !.issue = IssueAt(p, None), !.arg = ph])

\* bulk_update_issues asks no policy and takes the active tracker at once.
HandleBulkUpdateIssues(c, n) ==
    /\ May(c, "bulk_update_issues")
    /\ calls < MaxCalls /\ calls' = calls + 1
    /\ call' = [call EXCEPT ![c] =
                  [OnIssue(c, "bulk_update_issues", n) EXCEPT !.at = "relabel"]]
    /\ UNCHANGED <<forge, mishaps, config, active, phase, claimed, queue, dispatcher, history>>

\* request_work asks no policy either.
HandleRequestWork(c) ==
    /\ May(c, "request_work")
    /\ calls < MaxCalls /\ calls' = calls + 1
    /\ call' = [call EXCEPT ![c] =
                  [Idle EXCEPT !.at = "list", !.tool = "request_work",
                               !.worker = c, !.left = Order]]
    /\ UNCHANGED <<forge, mishaps, config, active, phase, claimed, queue, dispatcher, history>>

\* set_project: one critical section of the registry.
SetActive(c) ==
    /\ May(c, "set_project")
    /\ calls < MaxCalls /\ calls' = calls + 1
    /\ active' \in Projects \ {active}
    /\ UNCHANGED <<forge, mishaps, config, phase, claimed, queue, call, dispatcher, history>>

-----------------------------------------------------------------------------
(* The executions: one forge call on the project that is active by then.   *)

Target(c) == IssueAt(active, call[c].issue.number)
Does(c, tool) == At(c, "execute") /\ call[c].tool = tool

Relabelled(i, ls) == labels' = [labels EXCEPT ![i] = ls] /\ UNCHANGED <<open, merged>>
Restated(i, s) ==
    /\ open' = IF s = "open" THEN open \cup {i} ELSE open \ {i}
    /\ UNCHANGED <<labels, merged>>

ExecuteAddLabel(c) ==
    Does(c, "add_label") /\ Relabelled(Target(c), labels[Target(c)] \cup {call[c].arg})

ExecuteRemoveLabel(c) ==
    Does(c, "remove_label") /\ Relabelled(Target(c), labels[Target(c)] \ {call[c].arg})

ExecuteSetLabels(c) ==
    Does(c, "set_labels") /\ Relabelled(Target(c), {call[c].arg})

ExecuteUpdateIssue(c) == Does(c, "update_issue") /\ Restated(Target(c), call[c].arg)

ExecuteCloseIssue(c) == Does(c, "close_issue") /\ Restated(Target(c), call[c].arg)

ExecuteReopenIssue(c) == Does(c, "reopen_issue") /\ Restated(Target(c), call[c].arg)

\* The comment comes first and changes no state; if it fails nothing is closed.
ExecuteCloseIssueWithComment(c) ==
    Does(c, "close_issue_with_comment") /\ Restated(Target(c), call[c].arg)

ExecuteMergePR(c) ==
    /\ Does(c, "merge_pr")
    /\ merged' = merged \cup {Target(c)}
    /\ UNCHANGED <<labels, open>>

\* A call that fails changes nothing; the error is returned.
Execute(c) ==
    /\ \/ /\ \/ ExecuteAddLabel(c)
             \/ ExecuteRemoveLabel(c)
             \/ ExecuteSetLabels(c)
             \/ ExecuteUpdateIssue(c)
             \/ ExecuteCloseIssue(c)
             \/ ExecuteReopenIssue(c)
             \/ ExecuteCloseIssueWithComment(c)
             \/ ExecuteMergePR(c)
          /\ NoMishap
       \/ /\ At(c, "execute") /\ call[c].tool # "set_project_phase"
          /\ Mishap /\ UNCHANGED forge
    /\ Return(c)
    /\ UNCHANGED <<config, active, phase, claimed, queue, calls,
                   dispatcher, history>>

(***************************************************************************)
(* SetPhase, under the registry's mutex: the phase is changed in memory,   *)
(* then in server.yaml, and taken back if the file cannot be written.      *)
(***************************************************************************)
SetPhase(c) ==
    LET p == call[c].issue.project IN
    /\ Does(c, "set_project_phase")
    /\ \/ /\ phase' = [phase EXCEPT ![p] = call[c].arg]
          /\ phaseFile' = IF call[c].arg = phase[p] THEN phaseFile
                                   ELSE [phaseFile EXCEPT ![p] = call[c].arg]
          /\ NoMishap
       \/ /\ call[c].arg # phase[p]
          /\ Mishap
          /\ UNCHANGED <<phase, phaseFile>>
    /\ Return(c)
    /\ UNCHANGED <<forge, policy, active, claimed, queue, calls,
                   dispatcher, history>>

\* applyIssueUpdate: the labels are replaced, then the state; an error in
\* between leaves the second undone.
Relabel(c) ==
    /\ At(c, "relabel")
    /\ \/ /\ \E l \in Verdicts : Relabelled(call[c].issue, {l})
          /\ NoMishap /\ GoTo(c, "restate")
       \/ /\ Mishap /\ UNCHANGED forge /\ Return(c)
    /\ UNCHANGED <<config, active, phase, claimed, queue, calls,
                   dispatcher, history>>

Restate(c) ==
    /\ At(c, "restate")
    /\ \/ /\ \E s \in {"open", "closed"} : Restated(call[c].issue, s)
          /\ NoMishap
       \/ Mishap /\ UNCHANGED forge
    /\ Return(c)
    /\ UNCHANGED <<config, active, phase, claimed, queue, calls,
                   dispatcher, history>>

-----------------------------------------------------------------------------
(* Approval and rejection of pending actions.                              *)

\* Fault: an action is found however old it is.
GetAnyAge(c, tool, step) ==
    /\ May(c, tool)
    /\ calls < MaxCalls /\ calls' = calls + 1
    /\ \E id \in issued :
         /\ pending[id] # None
         /\ call' = [call EXCEPT ![c] = [pending[id] EXCEPT !.at = step, !.id = id]]
    /\ UNCHANGED <<forge, mishaps, config, active, phase, claimed, queue,
                   dispatcher, history>>

\* pendingActions.get: an expired action is deleted and not found.
Get(c, tool, step) ==
    /\ May(c, tool)
    /\ calls < MaxCalls /\ calls' = calls + 1
    /\ \E id \in issued :
         \/ /\ pending[id] # None /\ id \notin expired
            /\ call' = [call EXCEPT ![c] = [pending[id] EXCEPT !.at = step, !.id = id]]
            /\ UNCHANGED pending
         \/ /\ id \in expired
            /\ pending' = [pending EXCEPT ![id] = None]
            /\ UNCHANGED call
    /\ UNCHANGED <<forge, mishaps, config, active, phase, claimed, expired,
                   issued, dispatcher, history>>

HandleApproveAction(c) == Get(c, "approve_action", "approved")
HandleRejectAction(c)  == Get(c, "reject_action", "refused")

\* Fault: an approved action stays pending until it has succeeded.
RemoveApprovedLater(c) ==
    /\ At(c, "approved")
    /\ ran' = [ran EXCEPT ![call[c].id][c] = @ + 1]
    /\ GoTo(c, FirstStep(call[c].tool))
    /\ UNCHANGED <<forge, mishaps, config, active, phase, claimed, queue, calls,
                   dispatcher, refused, dropped>>

\* Fault: the project is looked up when the action is approved.
RemoveApprovedHere(c) ==
    /\ At(c, "approved")
    /\ pending' = [pending EXCEPT ![call[c].id] = None]
    /\ ran' = [ran EXCEPT ![call[c].id][c] = @ + 1]
    /\ call' = [call EXCEPT ![c].at = FirstStep(call[c].tool),
                            ![c].issue.project = active]
    /\ UNCHANGED <<forge, mishaps, config, active, phase, claimed, expired,
                   issued, calls, dispatcher, refused, dropped>>

\* pendingActions.remove, a critical section of its own; the closure found by
\* get is executed in any case, with what it captured when it was queued.
RemoveApproved(c) ==
    /\ At(c, "approved")
    /\ pending' = [pending EXCEPT ![call[c].id] = None]
    /\ ran' = [ran EXCEPT ![call[c].id][c] = @ + 1]
    /\ GoTo(c, FirstStep(call[c].tool))
    /\ UNCHANGED <<forge, mishaps, config, active, phase, claimed, expired,
                   issued, calls, dispatcher, refused, dropped>>

RemoveRefused(c) ==
    /\ At(c, "refused")
    /\ pending' = [pending EXCEPT ![call[c].id] = None]
    /\ refused' = refused \cup {call[c].id}
    /\ Return(c)
    /\ UNCHANGED <<forge, mishaps, config, active, phase, claimed, expired,
                   issued, calls, dispatcher, ran, dropped>>

\* A pending action grows older than the TTL of one hour.
Expire(id) ==
    /\ id \in issued \ expired
    /\ expired' = expired \cup {id}
    /\ UNCHANGED <<forge, mishaps, config, active, phase, claimed, pending,
                   issued, call, calls, dispatcher, history>>

-----------------------------------------------------------------------------
(* ForgeWorkCoordinator.                                                   *)

WorkUnchanged == UNCHANGED <<config, active, phase, queue, calls,
                             dispatcher, ran, refused>>

\* A call that breaks off: request_work goes on to the next issue it found.
BreakOff(c) == IF call[c].tool = "request_work" THEN GoTo(c, "try") ELSE Return(c)

Removed(i, l) == labels' = [labels EXCEPT ![i] = @ \ {l}] /\ UNCHANGED <<open, merged>>
Added(i, l)   == labels' = [labels EXCEPT ![i] = @ \cup {l}] /\ UNCHANGED <<open, merged>>

\* A label call whose error is ignored: the label may stay.
TryRemove(i, l) == \/ Removed(i, l) /\ NoMishap
                   \/ l \in labels[i] /\ Mishap /\ UNCHANGED forge

(***************************************************************************)
(* RequestWork goes through the projects; each listing is what the forge   *)
(* says at that moment.                                                    *)
(***************************************************************************)
ListQueued(c) ==
    /\ At(c, "list")
    /\ LET rest == Tail(call[c].left)
           p == Head(call[c].left)
           found == {i \in open : i.project = p /\ "queued" \in labels[i]} IN
       IF call[c].left = <<>>
       THEN Return(c) /\ NoMishap
       ELSE \/ /\ call' = [call EXCEPT ![c].left = rest, ![c].at = "try",
                             ![c].found = IF phase[p] = "inactive" THEN {} ELSE found]
               /\ NoMishap
            \/ /\ phase[p] # "inactive" /\ Mishap
               /\ call' = [call EXCEPT ![c].left = rest]
    /\ UNCHANGED <<forge, claimed, dropped>> /\ WorkUnchanged

\* The next issue of the listing; those already claimed are passed over.
TryNext(c) ==
    /\ At(c, "try")
    /\ IF call[c].found = {}
       THEN GoTo(c, "list")
       ELSE \E i \in call[c].found :
              call' = [call EXCEPT ![c].found = @ \ {i}, ![c].issue = i,
                         ![c].at = IF claimed[i] = None THEN "check" ELSE "try"]
    /\ UNCHANGED <<forge, mishaps, claimed, dropped>> /\ WorkUnchanged

\* ClaimIssue looks for a holder in one critical section ...
CheckClaim(c) ==
    /\ At(c, "check")
    /\ IF claimed[call[c].issue] # None THEN BreakOff(c) ELSE GoTo(c, "unqueue")
    /\ UNCHANGED <<forge, mishaps, claimed, dropped>> /\ WorkUnchanged

ClaimUnqueue(c) ==
    /\ At(c, "unqueue")
    /\ TryRemove(call[c].issue, "queued")
    /\ GoTo(c, "mark")
    /\ UNCHANGED <<claimed, dropped>> /\ WorkUnchanged

ClaimMark(c) ==
    /\ At(c, "mark")
    /\ \/ /\ Added(call[c].issue, "claimed") /\ NoMishap
          /\ GoTo(c, "record")
          /\ UNCHANGED dropped
       \/ /\ Mishap /\ UNCHANGED forge
          /\ dropped' = dropped \cup {call[c].issue}
          /\ BreakOff(c)
    /\ UNCHANGED claimed /\ WorkUnchanged

\* ... and records its own claim, whoever claimed meanwhile, in another.
RecordClaim(c) ==
    /\ At(c, "record")
    /\ claimed' = [claimed EXCEPT ![call[c].issue] = call[c].worker]
    /\ Return(c)
    /\ UNCHANGED <<forge, mishaps, dropped>> /\ WorkUnchanged

\* Fault: any worker may complete or release a claim.
TakeBackAny(c) ==
    LET i == call[c].issue IN
    /\ At(c, "take back")
    /\ IF claimed[i] # None
       THEN claimed' = [claimed EXCEPT ![i] = None] /\ GoTo(c, "unclaim")
       ELSE UNCHANGED claimed /\ Return(c)
    /\ UNCHANGED <<forge, mishaps, dropped>> /\ WorkUnchanged

\* CompleteIssue and ReleaseIssue: only the holder's claim is deleted ...
TakeBack(c) ==
    LET i == call[c].issue IN
    /\ At(c, "take back")
    /\ IF claimed[i] = call[c].worker
       THEN claimed' = [claimed EXCEPT ![i] = None] /\ GoTo(c, "unclaim")
       ELSE UNCHANGED claimed /\ Return(c)
    /\ UNCHANGED <<forge, mishaps, dropped>> /\ WorkUnchanged

\* ... before the labels change, one call after the other.
Unclaim(c) ==
    /\ At(c, "unclaim")
    /\ TryRemove(call[c].issue, "claimed")
    /\ GoTo(c, "unprogress")
    /\ UNCHANGED <<claimed, dropped>> /\ WorkUnchanged

\* Fault: nothing is left to do for an issue that was not in progress.
UnprogressOnly(c) ==
    /\ At(c, "unprogress")
    /\ TryRemove(call[c].issue, "in-progress")
    /\ IF "in-progress" \in labels[call[c].issue] THEN GoTo(c, "relay") ELSE Return(c)
    /\ UNCHANGED <<claimed, dropped>> /\ WorkUnchanged

Unprogress(c) ==
    /\ At(c, "unprogress")
    /\ TryRemove(call[c].issue, "in-progress")
    /\ GoTo(c, "relay")
    /\ UNCHANGED <<claimed, dropped>> /\ WorkUnchanged

CompleteIssue(c) ==
    /\ At(c, "relay") /\ call[c].tool = "complete_issue"
    /\ \/ Added(call[c].issue, "needs-qc") /\ NoMishap /\ UNCHANGED dropped
       \/ /\ Mishap /\ UNCHANGED forge
          /\ dropped' = dropped \cup {call[c].issue}
    /\ Return(c)
    /\ UNCHANGED claimed /\ WorkUnchanged

ReleaseIssue(c) ==
    /\ At(c, "relay") /\ call[c].tool = "release_issue"
    /\ \/ Added(call[c].issue, "queued") /\ NoMishap /\ UNCHANGED dropped
       \/ /\ Mishap /\ UNCHANGED forge
          /\ dropped' = dropped \cup {call[c].issue}
    /\ Return(c)
    /\ UNCHANGED claimed /\ WorkUnchanged

-----------------------------------------------------------------------------
(* The dispatcher of the other process, as far as it edits labels: it      *)
(* judges by the labels of a listing and claims in its own memory.         *)

DispatcherAt(step) == dispatcher.at = step
DispatcherGoes(step) == dispatcher' = [dispatcher EXCEPT !.at = step]
DispatcherUnchanged == UNCHANGED <<mishaps, config, active, phase, claimed, queue,
                                   call, calls, history>>

DispatchListed ==
    /\ DispatcherAt("idle") /\ dispatcher.tasks < MaxDispatches
    /\ \E i \in open : /\ "queued" \in labels[i]
                       /\ labels[i] \cap {"claimed", "needs-human", "in-progress"} = {}
                       /\ dispatcher' = [at |-> "unqueue", issue |-> i,
                                         tasks |-> dispatcher.tasks + 1]
    /\ UNCHANGED forge /\ DispatcherUnchanged

DispatchUnqueue ==
    /\ DispatcherAt("unqueue")
    /\ Removed(dispatcher.issue, "queued") /\ DispatcherGoes("mark")
    /\ DispatcherUnchanged

DispatchMark ==
    /\ DispatcherAt("mark")
    /\ Added(dispatcher.issue, "claimed") /\ DispatcherGoes("working")
    /\ DispatcherUnchanged

\* The task ends well, or its claim is released.
DispatchUnclaim ==
    /\ DispatcherAt("working")
    /\ Removed(dispatcher.issue, "claimed") /\ DispatcherGoes("unprogress")
    /\ DispatcherUnchanged

DispatchUnprogress ==
    /\ DispatcherAt("unprogress")
    /\ Removed(dispatcher.issue, "in-progress")
    /\ \E step \in {"done", "requeue"} : DispatcherGoes(step)
    /\ DispatcherUnchanged

DispatchRelay ==
    /\ \/ DispatcherAt("done") /\ Added(dispatcher.issue, "needs-qc")
       \/ DispatcherAt("requeue") /\ Added(dispatcher.issue, "queued")
    /\ dispatcher' = [dispatcher EXCEPT !.at = "idle", !.issue = None]
    /\ DispatcherUnchanged

-----------------------------------------------------------------------------
(***************************************************************************)
(* The serve process dies and starts again: calls, claims and pending      *)
(* actions are gone, phases are read from server.yaml, the first project   *)
(* to be registered is active.                                             *)
(***************************************************************************)
Restart ==
    /\ Mishap
    /\ call' = [c \in Clients |-> Idle]
    /\ claimed' = [i \in Issues |-> None]
    /\ pending' = [id \in Ids |-> None]
    /\ active' = Order[1]
    /\ phase' = phaseFile
    /\ dropped' = dropped \cup {call[c].issue : c \in {d \in Clients :
                                  call[d].at \in {"mark", "unprogress", "relay"}}}
    /\ UNCHANGED <<forge, config, expired, issued, calls, dispatcher,
                   ran, refused>>

Init ==
    /\ labels = [i \in Issues |-> {"queued"}]
    /\ open = Issues /\ merged = {} /\ mishaps = 0
    /\ policy \in Policies
    /\ phaseFile = [p \in Projects |-> "development"] /\ phase = phaseFile
    /\ active = Order[1]
    /\ claimed = [i \in Issues |-> None]
    /\ pending = [id \in Ids |-> None] /\ expired = {} /\ issued = {}
    /\ call = [c \in Clients |-> Idle] /\ calls = 0
    /\ dispatcher = [at |-> "idle", issue |-> None, tasks |-> 0]
    /\ ran = [id \in Ids |-> [c \in Clients |-> 0]] /\ refused = {} /\ dropped = {}

Request(c) ==
    \/ \E n \in Numbers :
         \/ HandleClaimIssue(c, n) \/ HandleCompleteIssue(c, n)
         \/ HandleReleaseIssue(c, n) \/ HandleAddLabel(c, n)
         \/ HandleRemoveLabel(c, n) \/ HandleSetLabels(c, n)
         \/ HandleUpdateIssue(c, n) \/ HandleCloseIssue(c, n)
         \/ HandleReopenIssue(c, n) \/ HandleCloseIssueWithComment(c, n)
         \/ HandleMergePR(c, n) \/ HandleBulkUpdateIssues(c, n)
    \/ HandleSetProjectPhase(c) \/ HandleRequestWork(c) \/ SetActive(c)
    \/ HandleApproveAction(c) \/ HandleRejectAction(c)

Step(c) ==
    \/ Execute(c) \/ SetPhase(c) \/ Relabel(c) \/ Restate(c)
    \/ RemoveApproved(c) \/ RemoveRefused(c)
    \/ ListQueued(c) \/ TryNext(c) \/ CheckClaim(c) \/ ClaimUnqueue(c)
    \/ ClaimMark(c) \/ RecordClaim(c) \/ TakeBack(c) \/ Unclaim(c)
    \/ Unprogress(c) \/ CompleteIssue(c) \/ ReleaseIssue(c)

Dispatch ==
    \/ DispatchListed \/ DispatchUnqueue \/ DispatchMark \/ DispatchUnclaim
    \/ DispatchUnprogress \/ DispatchRelay

Next ==
    \/ \E c \in Clients : Request(c) \/ Step(c)
    \/ Dispatch
    \/ \E id \in Ids : Expire(id)
    \/ Restart

Spec == Init /\ [][Next]_vars

-----------------------------------------------------------------------------
CallSteps == {"idle", "execute", "relabel", "restate", "approved", "refused",
              "list", "try", "check", "unqueue", "mark", "record", "take back",
              "unclaim", "unprogress", "relay"}

Ran(id) == \E c \in Clients : ran[id][c] > 0
Spent(id) == Ran(id) \/ id \in refused

(* Every variable has its type. *)
TypeOK ==
    /\ labels \in [Issues -> SUBSET Labels]
    /\ open \subseteq Issues /\ merged \subseteq Issues /\ dropped \subseteq Issues
    /\ mishaps \in 0..MaxMishaps /\ calls \in 0..MaxCalls
    /\ policy \in Policies
    /\ phase \in [Projects -> Phases] /\ phaseFile \in [Projects -> Phases]
    /\ active \in Projects
    /\ claimed \in [Issues -> Clients \cup {None}]
    /\ issued \subseteq Ids /\ expired \subseteq issued
    /\ ran \in [Ids -> [Clients -> Nat]] /\ refused \subseteq issued
    /\ \A id \in Ids : Ran(id) => id \in issued
    /\ \A id \in Ids : pending[id] # None => id \in issued
    /\ \A c \in Clients : call[c].at \in CallSteps
    /\ dispatcher.issue \in Issues \cup {None}

(***************************************************************************)
(* However the calls of several clients and the dispatcher interleave, an  *)
(* issue nobody is working on the labels of is left with one that says     *)
(* where it stands: claims, completions and releases remove first and add  *)
(* last, so the last of them to finish decides.                            *)
(***************************************************************************)
Relabelling(i) ==
    \/ \E c \in Clients : /\ call[c].at \in {"mark", "unprogress", "relay"}
                          /\ call[c].issue = i
    \/ /\ dispatcher.at \in {"mark", "unprogress", "done", "requeue"}
       /\ dispatcher.issue = i

NoIssueLost ==
    \A i \in Issues \ dropped : labels[i] \cap Statuses = {} => Relabelling(i)

(***************************************************************************)
(* A claim is lost only by its own worker's completion or release, by a    *)
(* restart, or to a claim whose check was made before it was recorded.     *)
(***************************************************************************)
Overtaking(i, w) ==
    \E c \in Clients : At(c, "record") /\ call[c].issue = i /\ call[c].worker = w

ClaimKept ==
    [][\A i \in Issues :
         claimed'[i] # claimed[i] /\ claimed[i] # None /\ ~Restart =>
           \/ \E w \in Clients : claimed'[i] = w /\ Overtaking(i, w)
           \/ \E c \in Clients :
                /\ At(c, "take back") /\ call[c].issue = i
                /\ call[c].worker = claimed[i]]_vars

(***************************************************************************)
(* An action that was executed or rejected is not offered any more, and no *)
(* client executes it twice, however many approve and reject it at once:   *)
(* approve_action finds, removes and executes in three steps.              *)
(***************************************************************************)
SpentIsGone ==
    \A id \in Ids : /\ Spent(id) => pending[id] = None
                    /\ \A c \in Clients : ran[id][c] <= 1

(***************************************************************************)
(* What an approval or a rejection finds is neither expired nor spent.  So *)
(* an action that several clients execute, or that is executed after its   *)
(* rejection was reported, was found by all of them before one removed it: *)
(* the code prevents neither.                                              *)
(***************************************************************************)
FoundUnspent ==
    [][\A c \in Clients :
         HandleApproveAction(c) \/ HandleRejectAction(c) =>
           \/ call'[c] = call[c]
           \/ call'[c].id \notin expired /\ ~Spent(call'[c].id)]_vars

(***************************************************************************)
(* A worker tool acts on the project that was active when it was called,   *)
(* even if the active project was switched before it was approved: no      *)
(* claim is recorded, and no claimed label set, anywhere else.  The issue  *)
(* tools and merge_pr act on the project that is active when they run.     *)
(***************************************************************************)
WorkStaysInProject ==
    \A c \in Clients :
      call[c].tool \in WorkTools => call[c].issue.project = call[c].asked

\* Approvals are spent, and worker tools keep the project they were called for.
ApprovalsKept == [](SpentIsGone /\ WorkStaysInProject) /\ FoundUnspent
=============================================================================
