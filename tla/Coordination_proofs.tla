------------------------ MODULE Coordination_proofs ------------------------
(***************************************************************************)
(* The MCP server's work coordination, for any number of clients, projects *)
(* and issues, any policy and any sequence of calls, approvals, failures   *)
(* and restarts: type correctness, no issue lost between its labels,       *)
(* approvals that are used once and for what was asked, and claims that    *)
(* only their holder gives up.                                             *)
(***************************************************************************)
EXTENDS Coordination, TLAPS

\* The tools whose calls are about the issue of a number, and those that the policy
\* may queue.
NumberTools == {"add_label", "remove_label", "set_labels", "update_issue", "close_issue",
                "reopen_issue", "close_issue_with_comment", "merge_pr"}
QueuedTools == WorkTools \cup NumberTools \cup {"set_project_phase"}
CallTools == QueuedTools \cup {"request_work", "bulk_update_issues", ""}

\* What a call and a pending action are recorded as.
ActRec ==
    [at : CallSteps, tool : CallTools,
     issue : [project : Projects \cup {None}, number : Numbers \cup {None}] \cup {None},
     worker : Clients \cup {None},
     arg : {"", "in-progress", "open", "closed"} \cup Verdicts \cup Phases,
     asked : Projects \cup {None}, id : Ids \cup {None},
     left : Seq(Projects), found : SUBSET Issues]

\* What an action is about fits its tool, and a worker tool has the issue of the project
\* that was active when it was called.
Fits(a) ==
    /\ a \in ActRec
    /\ a.tool \in WorkTools => /\ a.issue \in Issues /\ a.issue.project = a.asked
                               /\ a.worker \in Clients
    /\ a.tool \in NumberTools => \E p \in Projects \cup {None}, n \in Numbers : a.issue = IssueAt(p, n)
    /\ a.tool = "set_project_phase" =>
          /\ \E p \in Projects, n \in Numbers \cup {None} : a.issue = IssueAt(p, n)
          /\ a.arg \in Phases
    /\ a.tool \in {"add_label", "remove_label"} => a.arg = "in-progress"
    /\ a.tool = "set_labels" => a.arg \in Verdicts
    /\ a.tool = "request_work" => a.worker \in Clients

WorkSteps == {"check", "unqueue", "mark", "record", "take back", "unclaim", "unprogress", "relay"}

\* A call is where its tool goes, and has an issue where it works on one.
Placed(a, known) ==
    /\ a.at \in WorkSteps => a.tool \in WorkTools \cup {"request_work"} /\ a.issue \in Issues
    /\ a.at \in {"list", "try"} => a.tool = "request_work"
    /\ a.at \in {"relabel", "restate"} => a.tool = "bulk_update_issues" /\ a.issue \in Issues
    /\ a.at = "execute" => a.tool \in NumberTools \cup {"set_project_phase"}
    /\ a.at \in {"approved", "refused"} => a.tool \in QueuedTools /\ a.id \in known

\* The IDs whose action a client has not executed, and how executions are counted.
Unrun(c) == {id \in issued : ran[id][c] = 0}

RanTyped ==
    /\ ran \in [Ids -> [Clients -> Nat]]
    /\ \A id \in Ids : Ran(id) => id \in issued

CallInv ==
    /\ call \in [Clients -> ActRec]
    /\ \A c \in Clients : Fits(call[c]) /\ Placed(call[c], Unrun(c))

PendingInv ==
    /\ pending \in [Ids -> ActRec \cup {None}]
    /\ \A id \in Ids : pending[id] # None => Fits(pending[id]) /\ pending[id].tool \in QueuedTools

DispatcherInv ==
    /\ dispatcher \in [at : {"idle", "unqueue", "mark", "working", "unprogress", "done", "requeue"},
                       issue : Issues \cup {None}, tasks : Nat]
    /\ dispatcher.at # "idle" => dispatcher.issue \in Issues

IInv == TypeOK /\ CallInv /\ PendingInv /\ DispatcherInv /\ NoIssueLost /\ SpentIsGone

(***************************************************************************)
(* Calls and pending actions as records.                                   *)
(***************************************************************************)

\* A call that does nothing fits.
LEMMA IdleFits ==
    /\ Idle \in ActRec /\ Idle.at = "idle" /\ Idle.tool = ""
    /\ Fits(Idle) /\ \A known : Placed(Idle, known)
<1>1. <<>> \in Seq(Projects)
  OBVIOUS
<1>2. Idle \in ActRec
  BY <1>1 DEF Idle, ActRec, CallSteps, CallTools
<1>3. Idle.at = "idle" /\ Idle.tool = ""
  BY DEF Idle
<1>4. Fits(Idle)
  BY <1>2, <1>3 DEF Fits, WorkTools, NumberTools
<1>5. \A known : Placed(Idle, known)
  BY <1>3 DEF Placed, WorkSteps
<1> QED
  BY <1>2, <1>3, <1>4, <1>5

\* Moving a call changes nothing but where it is.
LEMMA MoveFits ==
    ASSUME NEW a \in ActRec, NEW at \in CallSteps
    PROVE  LET r == [a EXCEPT !.at = at] IN
           /\ r \in ActRec /\ r.at = at /\ r.tool = a.tool /\ r.issue = a.issue
           /\ r.worker = a.worker /\ r.arg = a.arg /\ r.asked = a.asked /\ r.id = a.id
           /\ r.left = a.left /\ r.found = a.found
           /\ Fits(a) => Fits(r)
<1> DEFINE r == [a EXCEPT !.at = at]
<1>1. /\ r \in ActRec /\ r.at = at /\ r.tool = a.tool /\ r.issue = a.issue
      /\ r.worker = a.worker /\ r.arg = a.arg /\ r.asked = a.asked /\ r.id = a.id
      /\ r.left = a.left /\ r.found = a.found
  BY DEF ActRec
<1> HIDE DEF r
<1>2. Fits(a) => Fits(r)
  BY <1>1 DEF Fits
<1> QED
  BY <1>1, <1>2 DEF r

\* The action of a call that was found under an ID keeps it.
LEMMA NameFits ==
    ASSUME NEW a \in ActRec, NEW id \in Ids
    PROVE  LET r == [a EXCEPT !.id = id] IN
           /\ r \in ActRec /\ r.at = a.at /\ r.tool = a.tool /\ r.issue = a.issue /\ r.id = id
           /\ Fits(a) => Fits(r)
<1> DEFINE r == [a EXCEPT !.id = id]
<1>1. /\ r \in ActRec /\ r.at = a.at /\ r.tool = a.tool /\ r.issue = a.issue
      /\ r.worker = a.worker /\ r.arg = a.arg /\ r.asked = a.asked /\ r.id = id
  BY DEF ActRec
<1> HIDE DEF r
<1>2. Fits(a) => Fits(r)
  BY <1>1 DEF Fits
<1> QED
  BY <1>1, <1>2 DEF r

\* request_work on its way through the projects and their issues: what its steps
\* replace in a call, and what they keep.
LEMMA SearchPuts ==
    ASSUME NEW a \in ActRec
    PROVE  /\ \A left \in Seq(Projects) :
                LET r == [a EXCEPT !.left = left] IN
                r \in ActRec /\ r.tool = a.tool /\ r.worker = a.worker /\ r.at = a.at /\ r.issue = a.issue
           /\ \A found \in SUBSET Issues :
                LET r == [a EXCEPT !.found = found] IN
                r \in ActRec /\ r.tool = a.tool /\ r.worker = a.worker /\ r.at = a.at /\ r.issue = a.issue
           /\ \A i \in Issues :
                LET r == [a EXCEPT !.issue = i] IN
                r \in ActRec /\ r.tool = a.tool /\ r.worker = a.worker /\ r.at = a.at /\ r.issue = i
<1>1. ASSUME NEW i \in Issues
      PROVE  LET r == [a EXCEPT !.issue = i] IN
             r \in ActRec /\ r.tool = a.tool /\ r.worker = a.worker /\ r.at = a.at /\ r.issue = i
  <2>1. i \in [project : Projects \cup {None}, number : Numbers \cup {None}] \cup {None}
    BY DEF Issues
  <2> QED
    BY <2>1 DEF ActRec
<1>2. ASSUME NEW found \in SUBSET Issues
      PROVE  LET r == [a EXCEPT !.found = found] IN
             r \in ActRec /\ r.tool = a.tool /\ r.worker = a.worker /\ r.at = a.at /\ r.issue = a.issue
  BY <1>2 DEF ActRec
<1>3. ASSUME NEW left \in Seq(Projects)
      PROVE  LET r == [a EXCEPT !.left = left] IN
             r \in ActRec /\ r.tool = a.tool /\ r.worker = a.worker /\ r.at = a.at /\ r.issue = a.issue
  BY <1>3 DEF ActRec
<1> QED
  BY <1>1, <1>2, <1>3

\* Where request_work looks for work or tries an issue of the listing, it fits.
LEMMA SearchFits ==
    ASSUME NEW r \in ActRec, r.tool = "request_work", r.worker \in Clients,
           \/ r.at \in {"list", "try"}
           \/ r.at = "check" /\ r.issue \in Issues
    PROVE  Fits(r) /\ \A known : Placed(r, known)
<1>1. Fits(r)
  BY DEF Fits, WorkTools, NumberTools
<1>2. \A known : Placed(r, known)
  BY DEF Placed, WorkSteps
<1> QED
  BY <1>1, <1>2

\* The action of a worker tool is about the issue of the active project.
LEMMA IssueFits ==
    ASSUME active \in Projects, NEW c \in Clients, NEW n \in Numbers,
           NEW tool \in WorkTools \cup {"bulk_update_issues"}
    PROVE  LET a == OnIssue(c, tool, n) IN
           /\ a \in ActRec /\ Fits(a) /\ a.tool = tool /\ a.issue \in Issues
<1> DEFINE r1 == [Idle EXCEPT !.tool = tool]
           r2 == [r1 EXCEPT !.issue = IssueAt(active, n)]
           r3 == [r2 EXCEPT !.worker = c]
           r4 == [r3 EXCEPT !.asked = active]
<1>0. /\ IssueAt(active, n) \in Issues /\ IssueAt(active, n).project = active
      /\ IssueAt(active, n) \in [project : Projects \cup {None}, number : Numbers \cup {None}] \cup {None}
  BY DEF IssueAt, Issues
<1>1. r1 \in ActRec /\ r1.tool = tool
  <2>1. tool \in CallTools
    BY DEF CallTools, QueuedTools
  <2> QED
    BY <2>1, IdleFits DEF ActRec
<1> HIDE DEF r1
<1>2. r2 \in ActRec /\ r2.tool = tool /\ r2.issue = IssueAt(active, n)
  BY <1>0, <1>1 DEF ActRec
<1> HIDE DEF r2
<1>3. r3 \in ActRec /\ r3.tool = tool /\ r3.issue = IssueAt(active, n) /\ r3.worker = c
  BY <1>2 DEF ActRec
<1> HIDE DEF r3
<1>4. /\ r4 \in ActRec /\ r4.tool = tool /\ r4.issue = IssueAt(active, n) /\ r4.worker = c
      /\ r4.asked = active
  BY <1>3 DEF ActRec
<1>5. OnIssue(c, tool, n) = r4
  BY DEF OnIssue, r1, r2, r3
<1> HIDE DEF r4
<1>6. Fits(r4)
  BY <1>0, <1>4 DEF Fits, WorkTools, NumberTools
<1> QED
  BY <1>0, <1>4, <1>5, <1>6

\* The action of an issue tool has a number and an argument that fits the tool.
LEMMA NumberFits ==
    ASSUME active \in Projects, NEW c \in Clients, NEW n \in Numbers, NEW tool \in NumberTools,
           NEW arg \in {"", "in-progress", "open", "closed"} \cup Verdicts,
           tool \in {"add_label", "remove_label"} => arg = "in-progress",
           tool = "set_labels" => arg \in Verdicts
    PROVE  LET a == OnNumber(c, tool, n, arg) IN
           a \in ActRec /\ Fits(a) /\ a.tool = tool
<1> DEFINE r1 == [Idle EXCEPT !.tool = tool]
           r2 == [r1 EXCEPT !.issue = IssueAt(None, n)]
           r3 == [r2 EXCEPT !.worker = c]
           r4 == [r3 EXCEPT !.arg = arg]
           r5 == [r4 EXCEPT !.asked = active]
<1>0. IssueAt(None, n) \in [project : Projects \cup {None}, number : Numbers \cup {None}] \cup {None}
  BY DEF IssueAt
<1>1. r1 \in ActRec /\ r1.tool = tool
  <2>1. tool \in CallTools
    BY DEF CallTools, QueuedTools
  <2> QED
    BY <2>1, IdleFits DEF ActRec
<1> HIDE DEF r1
<1>2. r2 \in ActRec /\ r2.tool = tool /\ r2.issue = IssueAt(None, n)
  BY <1>0, <1>1 DEF ActRec
<1> HIDE DEF r2
<1>3. r3 \in ActRec /\ r3.tool = tool /\ r3.issue = IssueAt(None, n)
  BY <1>2 DEF ActRec
<1> HIDE DEF r3
<1>4. r4 \in ActRec /\ r4.tool = tool /\ r4.issue = IssueAt(None, n) /\ r4.arg = arg
  BY <1>3 DEF ActRec
<1> HIDE DEF r4
<1>5. r5 \in ActRec /\ r5.tool = tool /\ r5.issue = IssueAt(None, n) /\ r5.arg = arg
  BY <1>4 DEF ActRec
<1>6. OnNumber(c, tool, n, arg) = r5
  BY DEF OnNumber, r1, r2, r3, r4
<1> HIDE DEF r5
<1>7. Fits(r5)
  BY <1>5 DEF Fits, WorkTools, NumberTools
<1> QED
  BY <1>5, <1>6, <1>7

\* So has that of set_project_phase, which names its project.
LEMMA PhaseFits ==
    ASSUME NEW c \in Clients, NEW p \in Projects, NEW ph \in Phases, NEW a,
           a = [Idle EXCEPT !.tool = "set_project_phase", !.worker = c,
                            !.issue = IssueAt(p, None), !.arg = ph]
    PROVE  a \in ActRec /\ Fits(a) /\ a.tool = "set_project_phase"
<1> DEFINE r1 == [Idle EXCEPT !.tool = "set_project_phase"]
           r2 == [r1 EXCEPT !.worker = c]
           r3 == [r2 EXCEPT !.issue = IssueAt(p, None)]
           r4 == [r3 EXCEPT !.arg = ph]
<1>0. IssueAt(p, None) \in [project : Projects \cup {None}, number : Numbers \cup {None}] \cup {None}
  BY DEF IssueAt
<1>1. r1 \in ActRec /\ r1.tool = "set_project_phase"
  BY IdleFits DEF ActRec, CallTools, QueuedTools
<1> HIDE DEF r1
<1>2. r2 \in ActRec /\ r2.tool = "set_project_phase"
  BY <1>1 DEF ActRec
<1> HIDE DEF r2
<1>3. r3 \in ActRec /\ r3.tool = "set_project_phase" /\ r3.issue = IssueAt(p, None)
  BY <1>0, <1>2 DEF ActRec
<1> HIDE DEF r3
<1>4. /\ r4 \in ActRec /\ r4.tool = "set_project_phase" /\ r4.issue = IssueAt(p, None)
      /\ r4.arg = ph
  BY <1>3 DEF ActRec
<1>5. a = r4
  BY DEF r1, r2, r3
<1> HIDE DEF r4
<1>6. Fits(r4)
  BY <1>4 DEF Fits, WorkTools, NumberTools
<1> QED
  BY <1>4, <1>5, <1>6

(***************************************************************************)
(* The invariant after a step of one call.                                 *)
(***************************************************************************)

\* Where a call, or the dispatcher, has taken a label away and has yet to put one.
Between == {"mark", "unprogress", "relay"}

\* The data that calls read and write.
DataTyped ==
    /\ labels \in [Issues -> SUBSET Labels]
    /\ open \subseteq Issues /\ merged \subseteq Issues /\ dropped \subseteq Issues
    /\ mishaps \in 0..MaxMishaps /\ calls \in 0..MaxCalls
    /\ policy \in Policies
    /\ phase \in [Projects -> Phases] /\ phaseFile \in [Projects -> Phases]
    /\ active \in Projects
    /\ claimed \in [Issues -> Clients \cup {None}]

\* One call is replaced: the others are where they were.
LEMMA CallPut ==
    ASSUME CallInv, NEW c \in Clients, NEW r \in ActRec, Fits(r), Placed(r, Unrun(c)'),
           \A d \in Clients : d # c => Unrun(d) \subseteq Unrun(d)',
           call' = [call EXCEPT ![c] = r]
    PROVE  /\ CallInv' /\ call'[c] = r
           /\ \A d \in Clients : d # c => call'[d] = call[d]
<1>1. /\ call' \in [Clients -> ActRec] /\ call'[c] = r
      /\ \A d \in Clients : d # c => call'[d] = call[d]
  BY DEF CallInv
<1>2. ASSUME NEW d \in Clients
      PROVE  Fits(call'[d]) /\ Placed(call'[d], Unrun(d)')
  <2>1. CASE d = c
    BY <1>1, <2>1
  <2>2. CASE d # c
    <3>1. Fits(call[d]) /\ Placed(call[d], Unrun(d)) /\ call'[d] = call[d]
      BY <1>1, <2>2 DEF CallInv
    <3>2. Placed(call[d], Unrun(d)')
      BY <2>2, <3>1 DEF Placed
    <3> QED
      BY <3>1, <3>2
  <2> QED
    BY <2>1, <2>2
<1> QED
  BY <1>1, <1>2 DEF CallInv

\* An issue without a status was without one before, or is being relabelled now.
LEMMA StillFound ==
    ASSUME NoIssueLost, dropped \subseteq dropped',
           \A j \in Issues : labels'[j] \cap Statuses = {} /\ j \notin dropped' =>
              \/ Relabelling(j)'
              \/ labels[j] \cap Statuses = {} /\ (Relabelling(j) => Relabelling(j)')
    PROVE  NoIssueLost'
BY DEF NoIssueLost

\* What a step of one call has to keep.
LEMMA ClientStep ==
    ASSUME IInv, NEW c \in Clients, NEW r \in ActRec, Fits(r), Placed(r, Unrun(c)),
           call' = [call EXCEPT ![c] = r],
           pending' = pending, expired' = expired, issued' = issued,
           dispatcher' = dispatcher, ran' = ran, refused' = refused,
           DataTyped', dropped \subseteq dropped',
           \A j \in Issues : labels'[j] \cap Statuses = {} /\ j \notin dropped' =>
              \/ r.at \in Between /\ r.issue = j
              \/ labels[j] \cap Statuses = {} /\ ~(call[c].at \in Between /\ call[c].issue = j)
    PROVE  IInv'
<1>1. CallInv' /\ call'[c] = r /\ \A d \in Clients : d # c => call'[d] = call[d]
  <2>1. \A d \in Clients : Unrun(d)' = Unrun(d)
    BY DEF Unrun
  <2> QED
    BY <2>1, CallPut DEF IInv
<1>2. PendingInv' /\ DispatcherInv' /\ SpentIsGone'
  BY DEF IInv, PendingInv, DispatcherInv, SpentIsGone, Spent, Ran
<1>3. NoIssueLost'
  <2>1. ASSUME NEW j \in Issues, labels'[j] \cap Statuses = {}, j \notin dropped'
        PROVE  \/ Relabelling(j)'
               \/ labels[j] \cap Statuses = {} /\ (Relabelling(j) => Relabelling(j)')
    <3>1. CASE r.at \in Between /\ r.issue = j
      BY <1>1, <3>1 DEF Relabelling, Between
    <3>2. CASE labels[j] \cap Statuses = {} /\ ~(call[c].at \in Between /\ call[c].issue = j)
      BY <1>1, <3>2 DEF Relabelling, Between
    <3> QED
      BY <2>1, <3>1, <3>2
  <2> QED
    BY <2>1, StillFound DEF IInv
<1>4. TypeOK'
  <2>1. \A d \in Clients : call'[d].at \in CallSteps
    BY <1>1 DEF CallInv, ActRec
  <2> QED
    BY <2>1 DEF IInv, TypeOK, Ran, DataTyped
<1> QED
  BY <1>1, <1>2, <1>3, <1>4 DEF IInv

\* What the moves of a call are.
LEMMA GoToPuts ==
    ASSUME CallInv, NEW c \in Clients, NEW step \in CallSteps, GoTo(c, step)
    PROVE  \E r \in ActRec :
             /\ call' = [call EXCEPT ![c] = r] /\ Fits(r)
             /\ r.at = step /\ r.tool = call[c].tool /\ r.issue = call[c].issue
             /\ r.id = call[c].id
<1> DEFINE r == [call[c] EXCEPT !.at = step]
<1>1. call[c] \in ActRec /\ Fits(call[c])
  BY DEF CallInv
<1>2. /\ r \in ActRec /\ Fits(r) /\ r.at = step /\ r.tool = call[c].tool
      /\ r.issue = call[c].issue /\ r.id = call[c].id
  BY <1>1, MoveFits
<1>3. call' = [call EXCEPT ![c] = r]
  BY DEF GoTo
<1> QED
  BY <1>2, <1>3

\* A call that works on an issue goes on with it.
LEMMA WorkStep ==
    ASSUME IInv, NEW c \in Clients, NEW step \in WorkSteps, GoTo(c, step),
           call[c].at \in WorkSteps,
           pending' = pending, expired' = expired, issued' = issued,
           dispatcher' = dispatcher, ran' = ran, refused' = refused,
           DataTyped', dropped \subseteq dropped',
           \A j \in Issues : labels'[j] \cap Statuses = {} /\ j \notin dropped' =>
              \/ step \in Between /\ call[c].issue = j
              \/ labels[j] \cap Statuses = {} /\ ~(call[c].at \in Between /\ call[c].issue = j)
    PROVE  IInv'
<1>1. step \in CallSteps
  BY DEF WorkSteps, CallSteps
<1>2. PICK r \in ActRec :
             /\ call' = [call EXCEPT ![c] = r] /\ Fits(r)
             /\ r.at = step /\ r.tool = call[c].tool /\ r.issue = call[c].issue
             /\ r.id = call[c].id
  BY <1>1, GoToPuts DEF IInv
<1>3. Placed(call[c], Unrun(c))
  BY DEF IInv, CallInv
<1>4. Placed(r, Unrun(c))
  BY <1>2, <1>3 DEF Placed, WorkSteps
<1> QED
  BY <1>2, <1>4, ClientStep

\* A call ends.
LEMMA ReturnStep ==
    ASSUME IInv, NEW c \in Clients, Return(c),
           pending' = pending, expired' = expired, issued' = issued,
           dispatcher' = dispatcher, ran' = ran, refused' = refused,
           DataTyped', dropped \subseteq dropped',
           \A j \in Issues : labels'[j] \cap Statuses = {} /\ j \notin dropped' =>
              labels[j] \cap Statuses = {} /\ ~(call[c].at \in Between /\ call[c].issue = j)
    PROVE  IInv'
<1>1. Idle \in ActRec /\ Fits(Idle) /\ Placed(Idle, Unrun(c)) /\ Idle.at = "idle"
  BY IdleFits
<1>2. call' = [call EXCEPT ![c] = Idle]
  BY DEF Return
<1> QED
  BY <1>1, <1>2, ClientStep

\* A call breaks off: it ends, or request_work goes on with the next issue.
LEMMA BreakOffStep ==
    ASSUME IInv, NEW c \in Clients, BreakOff(c),
           pending' = pending, expired' = expired, issued' = issued,
           dispatcher' = dispatcher, ran' = ran, refused' = refused,
           DataTyped', dropped \subseteq dropped',
           \A j \in Issues : labels'[j] \cap Statuses = {} /\ j \notin dropped' =>
              labels[j] \cap Statuses = {} /\ ~(call[c].at \in Between /\ call[c].issue = j)
    PROVE  IInv'
<1>1. CASE call[c].tool = "request_work"
  <2>1. GoTo(c, "try") /\ "try" \in CallSteps
    BY <1>1 DEF BreakOff, CallSteps
  <2>2. PICK r \in ActRec :
               /\ call' = [call EXCEPT ![c] = r] /\ Fits(r)
               /\ r.at = "try" /\ r.tool = call[c].tool /\ r.issue = call[c].issue
               /\ r.id = call[c].id
    BY <2>1, GoToPuts DEF IInv
  <2>3. Placed(r, Unrun(c))
    BY <1>1, <2>2 DEF Placed, WorkSteps
  <2> QED
    BY <2>2, <2>3, ClientStep
<1>2. CASE call[c].tool # "request_work"
  BY <1>2, ReturnStep DEF BreakOff
<1> QED
  BY <1>1, <1>2

\* What replacing the labels of an issue does to each.
LEMMA LabelPut ==
    ASSUME labels \in [Issues -> SUBSET Labels], NEW i, NEW ls \in SUBSET Labels,
           labels' = [labels EXCEPT ![i] = ls]
    PROVE  /\ labels' \in [Issues -> SUBSET Labels]
           /\ \A j \in Issues : labels'[j] = IF j = i THEN ls ELSE labels[j]
OBVIOUS

\* Taking a label away and putting one.
LEMMA LabelMoves ==
    ASSUME labels \in [Issues -> SUBSET Labels], NEW i \in Issues, NEW l \in Labels
    PROVE  /\ Removed(i, l) =>
                /\ labels' \in [Issues -> SUBSET Labels]
                /\ \A j \in Issues : labels'[j] = IF j = i THEN labels[i] \ {l} ELSE labels[j]
                /\ open' = open /\ merged' = merged
           /\ Added(i, l) =>
                /\ labels' \in [Issues -> SUBSET Labels]
                /\ \A j \in Issues : labels'[j] = IF j = i THEN labels[i] \cup {l} ELSE labels[j]
                /\ open' = open /\ merged' = merged
<1>1. labels[i] \ {l} \in SUBSET Labels /\ labels[i] \cup {l} \in SUBSET Labels
  OBVIOUS
<1>2. ASSUME Removed(i, l) PROVE labels' = [labels EXCEPT ![i] = labels[i] \ {l}]
  BY <1>2 DEF Removed
<1>3. ASSUME Added(i, l) PROVE labels' = [labels EXCEPT ![i] = labels[i] \cup {l}]
  BY <1>3 DEF Added
<1>4. Removed(i, l) \/ Added(i, l) => open' = open /\ merged' = merged
  BY DEF Removed, Added
<1> QED
  BY <1>1, <1>2, <1>3, <1>4, LabelPut

\* A label call whose error is ignored removes the label or leaves everything.
LEMMA TryMoves ==
    ASSUME labels \in [Issues -> SUBSET Labels], mishaps \in 0..MaxMishaps,
           NEW i \in Issues, NEW l \in Labels, TryRemove(i, l)
    PROVE  /\ labels' \in [Issues -> SUBSET Labels] /\ mishaps' \in 0..MaxMishaps
           /\ open' = open /\ merged' = merged
           /\ \A j \in Issues : \/ labels'[j] = labels[j]
                                \/ j = i /\ labels'[j] = labels[j] \ {l}
<1>1. CASE Removed(i, l) /\ NoMishap
  BY <1>1, LabelMoves DEF NoMishap
<1>2. CASE Mishap /\ UNCHANGED forge
  BY <1>2, CoordinationAssumption DEF Mishap, forge
<1> QED
  BY <1>1, <1>2 DEF TryRemove

(***************************************************************************)
(* ForgeWorkCoordinator's steps.                                           *)
(***************************************************************************)

\* A call that works on an issue has one, and what it reads and writes has its type.
LEMMA AtWork ==
    ASSUME IInv, NEW c \in Clients
    PROVE  /\ call[c] \in ActRec /\ Fits(call[c]) /\ Placed(call[c], Unrun(c))
           /\ call[c].at \in WorkSteps =>
                /\ call[c].tool \in WorkTools \cup {"request_work"}
                /\ call[c].issue \in Issues
                /\ call[c].worker \in Clients
           /\ DataTyped
<1>1. call[c] \in ActRec /\ Fits(call[c]) /\ Placed(call[c], Unrun(c))
  BY DEF IInv, CallInv
<1>2. DataTyped
  BY DEF IInv, TypeOK, DataTyped
<1> QED
  BY <1>1, <1>2 DEF Fits, Placed

\* RequestWork lists the queued issues of its next project.
LEMMA ListQueuedStep == ASSUME IInv, NEW c \in Clients, ListQueued(c) PROVE IInv'
<1> DEFINE rest == Tail(call[c].left)
           p == Head(call[c].left)
           found == {i \in open : i.project = p /\ "queued" \in labels[i]}
<1>1. /\ call[c] \in ActRec /\ Fits(call[c]) /\ call[c].tool = "request_work"
      /\ call[c].at = "list" /\ DataTyped
  BY AtWork DEF ListQueued, At, Placed
<1>2. /\ pending' = pending /\ expired' = expired /\ issued' = issued
      /\ dispatcher' = dispatcher /\ ran' = ran /\ refused' = refused
      /\ labels' = labels /\ dropped' = dropped
  BY DEF ListQueued, WorkUnchanged, queue, forge
<1>3. mishaps' \in 0..MaxMishaps
  BY <1>1, CoordinationAssumption DEF ListQueued, NoMishap, Mishap, DataTyped
<1>4. DataTyped'
  BY <1>1, <1>3 DEF DataTyped, ListQueued, WorkUnchanged, config, forge
<1>5. call[c].at \notin Between
  BY <1>1 DEF Between
<1>6. CASE Return(c)
  BY <1>2, <1>4, <1>5, <1>6, ReturnStep
<1>7. ASSUME NEW r \in ActRec, call' = [call EXCEPT ![c] = r], r.tool = "request_work",
             r.worker = call[c].worker, r.at \in {"list", "try"}
      PROVE  IInv'
  <2>1. r.worker \in Clients
    BY <1>1, <1>7 DEF Fits
  <2>2. Fits(r) /\ Placed(r, Unrun(c))
    BY <1>7, <2>1, SearchFits
  <2> QED
    BY <1>2, <1>4, <1>5, <1>7, <2>2, ClientStep
<1>8. CASE call[c].left # <<>>
  <2> DEFINE r1 == [call[c] EXCEPT !.left = rest]
             r2 == [r1 EXCEPT !.at = "try"]
             f == IF phase[p] = "inactive" THEN {} ELSE found
             r3 == [r2 EXCEPT !.found = f]
  <2>1. rest \in Seq(Projects) /\ f \in SUBSET Issues /\ "try" \in CallSteps
    <3>1. call[c].left \in Seq(Projects)
      BY <1>1 DEF ActRec
    <3>2. rest \in Seq(Projects)
      BY <1>8, <3>1
    <3>3. f \in SUBSET Issues
      BY <1>1 DEF DataTyped
    <3> QED
      BY <3>2, <3>3 DEF CallSteps
  <2> HIDE DEF f, rest
  <2>2. /\ r1 \in ActRec /\ r1.tool = "request_work" /\ r1.worker = call[c].worker
        /\ r1.at = "list"
    BY <1>1, <2>1, SearchPuts
  <2>3. CASE call' = [call EXCEPT ![c] = r1]
    BY <1>7, <2>2, <2>3
  <2> HIDE DEF r1
  <2>4. /\ r2 \in ActRec /\ r2.tool = "request_work" /\ r2.worker = call[c].worker
        /\ r2.at = "try"
    BY <2>1, <2>2, MoveFits
  <2> HIDE DEF r2
  <2>5. /\ r3 \in ActRec /\ r3.tool = "request_work" /\ r3.worker = call[c].worker
        /\ r3.at = "try"
    BY <2>1, <2>4, SearchPuts
  <2>6. CASE call' = [call EXCEPT ![c] = r3]
    <3> HIDE DEF r3
    <3> QED
      BY <1>7, <2>5, <2>6
  <2>7. \/ call' = [call EXCEPT ![c].left = rest]
        \/ call' = [call EXCEPT ![c].left = rest, ![c].at = "try", ![c].found = f]
    BY <1>8 DEF ListQueued, f, rest
  <2>8. [call EXCEPT ![c].left = rest] = [call EXCEPT ![c] = r1]
    BY DEF r1
  <2>9. [call EXCEPT ![c].left = rest, ![c].at = "try", ![c].found = f]
            = [call EXCEPT ![c] = r3]
    BY DEF IInv, CallInv, r1, r2, r3
  <2> QED
    BY <2>3, <2>6, <2>7, <2>8, <2>9
<1> QED
  BY <1>6, <1>8 DEF ListQueued

\* The next issue of the listing.
LEMMA TryNextStep == ASSUME IInv, NEW c \in Clients, TryNext(c) PROVE IInv'
<1>1. /\ call[c] \in ActRec /\ Fits(call[c]) /\ call[c].tool = "request_work"
      /\ call[c].at = "try" /\ DataTyped /\ call[c].worker \in Clients
      /\ call[c].found \in SUBSET Issues
  BY AtWork DEF TryNext, At, Placed, Fits, ActRec
<1>2. /\ pending' = pending /\ expired' = expired /\ issued' = issued
      /\ dispatcher' = dispatcher /\ ran' = ran /\ refused' = refused
      /\ labels' = labels /\ dropped' = dropped
  BY DEF TryNext, WorkUnchanged, queue, forge
<1>3. DataTyped'
  BY <1>1 DEF DataTyped, TryNext, WorkUnchanged, config, forge
<1>4. call[c].at \notin Between
  BY <1>1 DEF Between
<1>5. CASE GoTo(c, "list")
  <2>1. "list" \in CallSteps
    BY DEF CallSteps
  <2>2. PICK r \in ActRec :
               /\ call' = [call EXCEPT ![c] = r] /\ Fits(r)
               /\ r.at = "list" /\ r.tool = call[c].tool /\ r.issue = call[c].issue
               /\ r.id = call[c].id
    BY <1>5, <2>1, GoToPuts DEF IInv
  <2>3. Placed(r, Unrun(c))
    BY <1>1, <2>2 DEF Placed, WorkSteps
  <2> QED
    BY <1>2, <1>3, <1>4, <2>2, <2>3, ClientStep
<1>6. ASSUME NEW i \in call[c].found, NEW at \in {"check", "try"},
             call' = [call EXCEPT ![c].found = @ \ {i}, ![c].issue = i, ![c].at = at]
      PROVE  IInv'
  <2> DEFINE f == call[c].found \ {i}
             r1 == [call[c] EXCEPT !.found = f]
             r2 == [r1 EXCEPT !.issue = i]
             r3 == [r2 EXCEPT !.at = at]
  <2>1. f \in SUBSET Issues /\ i \in Issues /\ at \in CallSteps
    BY <1>1, <1>6 DEF CallSteps
  <2>2. call' = [call EXCEPT ![c] = r3]
    BY <1>6 DEF IInv, CallInv
  <2> HIDE DEF f
  <2>3. r1 \in ActRec /\ r1.tool = "request_work" /\ r1.worker = call[c].worker
    BY <1>1, <2>1, SearchPuts
  <2> HIDE DEF r1
  <2>4. /\ r2 \in ActRec /\ r2.tool = "request_work" /\ r2.worker = call[c].worker
        /\ r2.issue = i
    BY <2>1, <2>3, SearchPuts
  <2> HIDE DEF r2
  <2>5. /\ r3 \in ActRec /\ r3.tool = "request_work" /\ r3.worker = call[c].worker
        /\ r3.issue = i /\ r3.at = at
    BY <2>1, <2>4, MoveFits
  <2> HIDE DEF r3
  <2>6. Fits(r3) /\ Placed(r3, Unrun(c))
    BY <1>1, <1>6, <2>1, <2>5, SearchFits
  <2> QED
    BY <1>2, <1>3, <1>4, <2>2, <2>5, <2>6, ClientStep
<1>7. CASE call[c].found # {}
  <2>1. PICK i \in call[c].found :
          call' = [call EXCEPT ![c].found = @ \ {i}, ![c].issue = i,
                     ![c].at = IF claimed[i] = None THEN "check" ELSE "try"]
    BY <1>7 DEF TryNext
  <2>2. (IF claimed[i] = None THEN "check" ELSE "try") \in {"check", "try"}
    OBVIOUS
  <2> QED
    BY <1>6, <2>1, <2>2
<1> QED
  BY <1>5, <1>7 DEF TryNext

\* ClaimIssue looks for a holder.
LEMMA CheckClaimStep == ASSUME IInv, NEW c \in Clients, CheckClaim(c) PROVE IInv'
<1>1. call[c].at = "check" /\ DataTyped
  BY AtWork DEF CheckClaim, At
<1>2. /\ pending' = pending /\ expired' = expired /\ issued' = issued
      /\ dispatcher' = dispatcher /\ ran' = ran /\ refused' = refused
      /\ labels' = labels /\ dropped' = dropped
  BY DEF CheckClaim, WorkUnchanged, queue, forge
<1>3. DataTyped'
  BY <1>1 DEF DataTyped, CheckClaim, WorkUnchanged, config, forge
<1>4. call[c].at \notin Between /\ call[c].at \in WorkSteps /\ "unqueue" \in WorkSteps
  BY <1>1 DEF Between, WorkSteps
<1>5. CASE BreakOff(c)
  BY <1>2, <1>3, <1>4, <1>5, BreakOffStep
<1>6. CASE GoTo(c, "unqueue")
  BY <1>2, <1>3, <1>4, <1>6, WorkStep
<1> QED
  BY <1>5, <1>6 DEF CheckClaim

\* It takes the queued label away ...
LEMMA ClaimUnqueueStep == ASSUME IInv, NEW c \in Clients, ClaimUnqueue(c) PROVE IInv'
<1>1. call[c].at = "unqueue" /\ call[c].issue \in Issues /\ DataTyped
  BY AtWork DEF ClaimUnqueue, At, WorkSteps
<1>2. /\ pending' = pending /\ expired' = expired /\ issued' = issued
      /\ dispatcher' = dispatcher /\ ran' = ran /\ refused' = refused
      /\ dropped' = dropped
  BY DEF ClaimUnqueue, WorkUnchanged, queue
<1>3. "queued" \in Labels
  BY DEF Labels, Statuses
<1>4. /\ labels' \in [Issues -> SUBSET Labels] /\ mishaps' \in 0..MaxMishaps
      /\ open' = open /\ merged' = merged
      /\ \A j \in Issues : \/ labels'[j] = labels[j]
                           \/ j = call[c].issue /\ labels'[j] = labels[j] \ {"queued"}
  BY <1>1, <1>3, TryMoves DEF ClaimUnqueue, DataTyped
<1>5. DataTyped'
  BY <1>1, <1>4 DEF DataTyped, ClaimUnqueue, WorkUnchanged, config
<1>6. call[c].at \notin Between /\ call[c].at \in WorkSteps /\ "mark" \in WorkSteps /\ "mark" \in Between
  BY <1>1 DEF Between, WorkSteps
<1>7. GoTo(c, "mark")
  BY DEF ClaimUnqueue
<1> QED
  BY <1>2, <1>4, <1>5, <1>6, <1>7, WorkStep

\* ... and puts the claimed label, or drops the issue.
LEMMA ClaimMarkStep == ASSUME IInv, NEW c \in Clients, ClaimMark(c) PROVE IInv'
<1>1. call[c].at = "mark" /\ call[c].issue \in Issues /\ DataTyped
  BY AtWork DEF ClaimMark, At, WorkSteps
<1>2. /\ pending' = pending /\ expired' = expired /\ issued' = issued
      /\ dispatcher' = dispatcher /\ ran' = ran /\ refused' = refused
  BY DEF ClaimMark, WorkUnchanged, queue
<1>3. "claimed" \in Labels /\ "claimed" \in Statuses
  BY DEF Labels, Statuses
<1>4. call[c].at \in WorkSteps /\ "record" \in WorkSteps
  BY <1>1 DEF WorkSteps
<1>5. CASE /\ Added(call[c].issue, "claimed") /\ NoMishap
           /\ GoTo(c, "record")
           /\ UNCHANGED dropped
  <2>1. /\ labels' \in [Issues -> SUBSET Labels]
        /\ \A j \in Issues : labels'[j] = IF j = call[c].issue THEN labels[call[c].issue] \cup {"claimed"}
                                                             ELSE labels[j]
        /\ open' = open /\ merged' = merged
    <3>1. labels \in [Issues -> SUBSET Labels] /\ Added(call[c].issue, "claimed")
      BY <1>1, <1>5 DEF DataTyped
    <3> QED
      BY <1>1, <1>3, <3>1, LabelMoves
  <2>2. DataTyped'
    BY <1>1, <1>5, <2>1 DEF DataTyped, ClaimMark, WorkUnchanged, config, NoMishap
  <2>3. \A j \in Issues : labels'[j] \cap Statuses = {} =>
             labels[j] \cap Statuses = {} /\ call[c].issue # j
    BY <1>3, <2>1
  <2> QED
    BY <1>2, <1>4, <1>5, <2>2, <2>3, WorkStep
<1>6. CASE /\ Mishap /\ UNCHANGED forge
           /\ dropped' = dropped \cup {call[c].issue}
           /\ BreakOff(c)
  <2>1. DataTyped'
    BY <1>1, <1>6, CoordinationAssumption
       DEF DataTyped, ClaimMark, WorkUnchanged, config, forge, Mishap
  <2>2. labels' = labels
    BY <1>6 DEF forge
  <2> QED
    BY <1>2, <1>6, <2>1, <2>2, BreakOffStep
<1> QED
  BY <1>5, <1>6 DEF ClaimMark

\* It records the claim.
LEMMA RecordClaimStep == ASSUME IInv, NEW c \in Clients, RecordClaim(c) PROVE IInv'
<1>1. /\ call[c].at = "record" /\ call[c].issue \in Issues /\ DataTyped
      /\ call[c].worker \in Clients
  BY AtWork DEF RecordClaim, At, WorkSteps
<1>2. /\ pending' = pending /\ expired' = expired /\ issued' = issued
      /\ dispatcher' = dispatcher /\ ran' = ran /\ refused' = refused
      /\ labels' = labels /\ dropped' = dropped
  BY DEF RecordClaim, WorkUnchanged, queue, forge
<1>3. DataTyped'
  BY <1>1 DEF DataTyped, RecordClaim, WorkUnchanged, config, forge
<1>4. call[c].at \notin Between /\ Return(c)
  BY <1>1 DEF Between, RecordClaim
<1> QED
  BY <1>2, <1>3, <1>4, ReturnStep

\* CompleteIssue and ReleaseIssue delete the holder's claim ...
LEMMA TakeBackStep == ASSUME IInv, NEW c \in Clients, TakeBack(c) PROVE IInv'
<1>1. call[c].at = "take back" /\ call[c].issue \in Issues /\ DataTyped
  BY AtWork DEF TakeBack, At, WorkSteps
<1>2. /\ pending' = pending /\ expired' = expired /\ issued' = issued
      /\ dispatcher' = dispatcher /\ ran' = ran /\ refused' = refused
      /\ labels' = labels /\ dropped' = dropped
  BY DEF TakeBack, WorkUnchanged, queue, forge
<1>3. DataTyped'
  BY <1>1 DEF DataTyped, TakeBack, WorkUnchanged, config, forge
<1>4. call[c].at \notin Between /\ call[c].at \in WorkSteps /\ "unclaim" \in WorkSteps
  BY <1>1 DEF Between, WorkSteps
<1>5. CASE Return(c)
  BY <1>2, <1>3, <1>4, <1>5, ReturnStep
<1>6. CASE GoTo(c, "unclaim")
  BY <1>2, <1>3, <1>4, <1>6, WorkStep
<1> QED
  BY <1>5, <1>6 DEF TakeBack

\* ... take the claimed label away ...
LEMMA UnclaimStep == ASSUME IInv, NEW c \in Clients, Unclaim(c) PROVE IInv'
<1>1. call[c].at = "unclaim" /\ call[c].issue \in Issues /\ DataTyped
  BY AtWork DEF Unclaim, At, WorkSteps
<1>2. /\ pending' = pending /\ expired' = expired /\ issued' = issued
      /\ dispatcher' = dispatcher /\ ran' = ran /\ refused' = refused
      /\ dropped' = dropped
  BY DEF Unclaim, WorkUnchanged, queue
<1>3. "claimed" \in Labels
  BY DEF Labels, Statuses
<1>4. /\ labels' \in [Issues -> SUBSET Labels] /\ mishaps' \in 0..MaxMishaps
      /\ open' = open /\ merged' = merged
      /\ \A j \in Issues : \/ labels'[j] = labels[j]
                           \/ j = call[c].issue /\ labels'[j] = labels[j] \ {"claimed"}
  BY <1>1, <1>3, TryMoves DEF Unclaim, DataTyped
<1>5. DataTyped'
  BY <1>1, <1>4 DEF DataTyped, Unclaim, WorkUnchanged, config
<1>6. /\ call[c].at \notin Between /\ call[c].at \in WorkSteps
      /\ "unprogress" \in WorkSteps /\ "unprogress" \in Between
  BY <1>1 DEF Between, WorkSteps
<1>7. GoTo(c, "unprogress")
  BY DEF Unclaim
<1> QED
  BY <1>2, <1>4, <1>5, <1>6, <1>7, WorkStep

\* ... and the in-progress label ...
LEMMA UnprogressStep == ASSUME IInv, NEW c \in Clients, Unprogress(c) PROVE IInv'
<1>1. call[c].at = "unprogress" /\ call[c].issue \in Issues /\ DataTyped
  BY AtWork DEF Unprogress, At, WorkSteps
<1>2. /\ pending' = pending /\ expired' = expired /\ issued' = issued
      /\ dispatcher' = dispatcher /\ ran' = ran /\ refused' = refused
      /\ dropped' = dropped
  BY DEF Unprogress, WorkUnchanged, queue
<1>3. "in-progress" \in Labels
  BY DEF Labels
<1>4. /\ labels' \in [Issues -> SUBSET Labels] /\ mishaps' \in 0..MaxMishaps
      /\ open' = open /\ merged' = merged
      /\ \A j \in Issues : \/ labels'[j] = labels[j]
                           \/ j = call[c].issue /\ labels'[j] = labels[j] \ {"in-progress"}
  BY <1>1, <1>3, TryMoves DEF Unprogress, DataTyped
<1>5. DataTyped'
  BY <1>1, <1>4 DEF DataTyped, Unprogress, WorkUnchanged, config
<1>6. /\ call[c].at \in WorkSteps
      /\ "relay" \in WorkSteps /\ "relay" \in Between
  BY <1>1 DEF Between, WorkSteps
<1>7. GoTo(c, "relay")
  BY DEF Unprogress
<1> QED
  BY <1>2, <1>4, <1>5, <1>6, <1>7, WorkStep

\* ... and put the label that says how it ended, or drop the issue.
LEMMA RelayStep ==
    ASSUME IInv, NEW c \in Clients, CompleteIssue(c) \/ ReleaseIssue(c) PROVE IInv'
<1>1. call[c].at = "relay" /\ call[c].issue \in Issues /\ DataTyped
  BY AtWork DEF CompleteIssue, ReleaseIssue, At, WorkSteps
<1>2. /\ pending' = pending /\ expired' = expired /\ issued' = issued
      /\ dispatcher' = dispatcher /\ ran' = ran /\ refused' = refused /\ Return(c)
  BY DEF CompleteIssue, ReleaseIssue, WorkUnchanged, queue
<1>3. /\ claimed' = claimed /\ active' = active /\ phase' = phase /\ calls' = calls
      /\ policy' = policy /\ phaseFile' = phaseFile
  BY DEF CompleteIssue, ReleaseIssue, WorkUnchanged, config
<1>4. ASSUME NEW l \in Statuses, Added(call[c].issue, l), NoMishap, UNCHANGED dropped
      PROVE  IInv'
  <2>1. l \in Labels
    BY <1>4 DEF Labels
  <2>2. /\ labels' \in [Issues -> SUBSET Labels]
        /\ \A j \in Issues : labels'[j] = IF j = call[c].issue THEN labels[call[c].issue] \cup {l}
                                                             ELSE labels[j]
        /\ open' = open /\ merged' = merged
    <3>1. labels \in [Issues -> SUBSET Labels] /\ Added(call[c].issue, l)
      BY <1>1, <1>4 DEF DataTyped
    <3> QED
      BY <1>1, <2>1, <3>1, LabelMoves
  <2>3. DataTyped'
    BY <1>1, <1>3, <1>4, <2>2 DEF DataTyped, NoMishap
  <2>4. \A j \in Issues : labels'[j] \cap Statuses = {} =>
             labels[j] \cap Statuses = {} /\ call[c].issue # j
    BY <1>4, <2>2
  <2> QED
    BY <1>2, <1>4, <2>3, <2>4, ReturnStep
<1>5. ASSUME Mishap, UNCHANGED forge, dropped' = dropped \cup {call[c].issue}
      PROVE  IInv'
  <2>1. DataTyped'
    BY <1>1, <1>3, <1>5, CoordinationAssumption DEF DataTyped, forge, Mishap
  <2>2. labels' = labels
    BY <1>5 DEF forge
  <2> QED
    BY <1>2, <1>5, <2>1, <2>2, ReturnStep
<1>6. "needs-qc" \in Statuses /\ "queued" \in Statuses
  BY DEF Statuses
<1> QED
  BY <1>4, <1>5, <1>6 DEF CompleteIssue, ReleaseIssue

(***************************************************************************)
(* Requests: the queue of pending actions.                                 *)
(***************************************************************************)

\* A step that leaves the queue, the labels and the dispatcher alone keeps the rest of
\* the invariant; so does one that replaces a call that has taken no label away.
LEMMA QueueStep ==
    ASSUME IInv, NEW c \in Clients, call[c].at \notin Between,
           \/ call' = call
           \/ \E r \in ActRec : Fits(r) /\ Placed(r, Unrun(c)') /\ call' = [call EXCEPT ![c] = r],
           labels' = labels, dispatcher' = dispatcher, dropped' = dropped, DataTyped',
           issued \subseteq issued', issued' \subseteq Ids, expired' \subseteq issued',
           RanTyped', refused' \subseteq issued',
           \A d \in Clients : d # c \/ call' = call => Unrun(d) \subseteq Unrun(d)',
           PendingInv', SpentIsGone', \A id \in Ids : pending'[id] # None => id \in issued'
    PROVE  IInv'
<1>1. /\ CallInv'
      /\ \A d \in Clients : call[d].at \in Between => call'[d] = call[d]
  <2>1. CASE call' = call
    <3>1. \A d \in Clients : Placed(call[d], Unrun(d)')
      BY <2>1 DEF IInv, CallInv, Placed
    <3> QED
      BY <2>1, <3>1 DEF IInv, CallInv
  <2>2. ASSUME NEW r \in ActRec, Fits(r), Placed(r, Unrun(c)'), call' = [call EXCEPT ![c] = r]
        PROVE  CallInv' /\ \A d \in Clients : call[d].at \in Between => call'[d] = call[d]
    BY <2>2, CallPut DEF IInv
  <2> QED
    BY <2>1, <2>2
<1>2. DispatcherInv'
  BY DEF IInv, DispatcherInv
<1>3. NoIssueLost'
  <2>1. \A j \in Issues : Relabelling(j) => Relabelling(j)'
    BY <1>1 DEF Relabelling, Between
  <2> QED
    BY <2>1, StillFound DEF IInv
<1>4. TypeOK'
  <2>1. \A d \in Clients : call'[d].at \in CallSteps
    BY <1>1 DEF CallInv, ActRec
  <2> QED
    BY <2>1 DEF IInv, TypeOK, DataTyped, RanTyped
<1> QED
  BY <1>1, <1>2, <1>3, <1>4 DEF IInv

\* checkTier: the action goes on, or is queued under a new ID.
LEMMA CheckTierStep ==
    ASSUME IInv, NEW c \in Clients, call[c].at = "idle", NEW action, NEW act \in ActRec,
           Fits(act), act.tool \in QueuedTools, CheckTier(c, action, act)
    PROVE  IInv'
<1>1. /\ labels' = labels /\ dispatcher' = dispatcher /\ dropped' = dropped
      /\ ran' = ran /\ refused' = refused
  BY DEF CheckTier, forge, history
<1>2. DataTyped'
  BY <1>1, CoordinationAssumption DEF CheckTier, IInv, TypeOK, DataTyped, forge, config
<1>3. call[c].at \notin Between
  BY DEF Between
<1>4. CASE /\ call' = [call EXCEPT ![c] = [act EXCEPT !.at = FirstStep(act.tool)]]
           /\ UNCHANGED queue
  <2> DEFINE at == FirstStep(act.tool)
             r == [act EXCEPT !.at = at]
  <2>1. /\ at \in {"check", "take back", "execute"}
        /\ at = "execute" <=> act.tool \notin WorkTools
    BY DEF FirstStep, Start
  <2> HIDE DEF at
  <2>2. at \in CallSteps
    BY <2>1 DEF CallSteps
  <2>3. r \in ActRec /\ Fits(r) /\ r.at = at /\ r.tool = act.tool /\ r.issue = act.issue
    BY <2>2, MoveFits
  <2>4. call' = [call EXCEPT ![c] = r]
    BY <1>4 DEF at
  <2> HIDE DEF r
  <2>5. Placed(r, Unrun(c))
    BY <2>1, <2>3 DEF Placed, Fits, WorkSteps, QueuedTools
  <2>6. pending' = pending /\ expired' = expired /\ issued' = issued
    BY <1>4 DEF queue
  <2> QED
    BY <1>1, <1>2, <1>3, <2>3, <2>4, <2>5, <2>6, ClientStep
<1>5. ASSUME NEW id \in Ids \ issued,
             pending' = [pending EXCEPT ![id] = act], issued' = issued \cup {id},
             UNCHANGED <<expired, call>>
      PROVE  IInv'
  <2>1. PendingInv'
    BY <1>5 DEF IInv, PendingInv
  <2>2. \A k \in Ids : pending'[k] # None => k \in issued'
    BY <1>5 DEF IInv, TypeOK, PendingInv
  <2>3. SpentIsGone'
    BY <1>1, <1>5 DEF IInv, TypeOK, SpentIsGone, Spent, Ran, PendingInv
  <2>4. /\ issued \subseteq issued' /\ issued' \subseteq Ids /\ expired' \subseteq issued'
        /\ RanTyped' /\ refused' \subseteq issued'
        /\ \A d \in Clients : Unrun(d) \subseteq Unrun(d)'
    BY <1>1, <1>5 DEF IInv, TypeOK, RanTyped, Ran, Unrun
  <2> QED
    BY <1>1, <1>2, <1>3, <1>5, <2>1, <2>2, <2>3, <2>4, QueueStep
<1> QED
  BY <1>4, <1>5 DEF CheckTier

\* A tool that the policy is not asked about starts at once.
LEMMA StartStep ==
    ASSUME IInv, NEW c \in Clients, call[c].at = "idle", NEW r \in ActRec,
           Fits(r), Placed(r, Unrun(c)), calls < MaxCalls, calls' = calls + 1,
           call' = [call EXCEPT ![c] = r],
           UNCHANGED <<forge, mishaps, config, active, phase, claimed, queue, dispatcher, history>>
    PROVE  IInv'
<1>1. DataTyped'
  BY CoordinationAssumption DEF IInv, TypeOK, DataTyped, forge, config, history
<1>2. /\ pending' = pending /\ expired' = expired /\ issued' = issued /\ labels' = labels
      /\ dispatcher' = dispatcher /\ ran' = ran /\ refused' = refused /\ dropped' = dropped
  BY DEF queue, forge, history
<1>3. call[c].at \notin Between
  BY DEF Between
<1> QED
  BY <1>1, <1>2, <1>3, ClientStep

\* The requests.
LEMMA RequestStep == ASSUME IInv, NEW c \in Clients, Request(c) PROVE IInv'
<1>1. active \in Projects
  BY DEF IInv, TypeOK
<1>2. ASSUME NEW n \in Numbers, NEW tool \in WorkTools,
             May(c, tool), CheckTier(c, "label_issue", OnIssue(c, tool, n))
      PROVE  IInv'
  <2>1. /\ OnIssue(c, tool, n) \in ActRec /\ Fits(OnIssue(c, tool, n))
        /\ OnIssue(c, tool, n).tool \in QueuedTools
    BY <1>1, IssueFits DEF QueuedTools
  <2> QED
    BY <1>2, <2>1, CheckTierStep DEF May, At
<1>3. ASSUME NEW n \in Numbers, NEW tool \in NumberTools, NEW action,
             NEW arg \in {"", "in-progress", "open", "closed"} \cup Verdicts,
             tool \in {"add_label", "remove_label"} => arg = "in-progress",
             tool = "set_labels" => arg \in Verdicts,
             May(c, tool), CheckTier(c, action, OnNumber(c, tool, n, arg))
      PROVE  IInv'
  <2>1. /\ OnNumber(c, tool, n, arg) \in ActRec /\ Fits(OnNumber(c, tool, n, arg))
        /\ OnNumber(c, tool, n, arg).tool = tool
    BY <1>1, <1>3, NumberFits
  <2>2. tool \in QueuedTools
    BY DEF QueuedTools
  <2> QED
    BY <1>3, <2>1, <2>2, CheckTierStep DEF May, At
<1>4. ASSUME NEW n \in Numbers,
             HandleClaimIssue(c, n) \/ HandleCompleteIssue(c, n) \/ HandleReleaseIssue(c, n)
      PROVE  IInv'
  BY <1>2, <1>4 DEF HandleClaimIssue, HandleCompleteIssue, HandleReleaseIssue, WorkTools
<1>5. ASSUME NEW n \in Numbers,
             \/ HandleAddLabel(c, n) \/ HandleRemoveLabel(c, n) \/ HandleSetLabels(c, n)
             \/ HandleUpdateIssue(c, n) \/ HandleCloseIssue(c, n)
             \/ HandleReopenIssue(c, n) \/ HandleCloseIssueWithComment(c, n)
             \/ HandleMergePR(c, n)
      PROVE  IInv'
  <2>1. CASE HandleAddLabel(c, n)
    BY <1>3, <2>1 DEF HandleAddLabel, NumberTools
  <2>2. CASE HandleRemoveLabel(c, n)
    BY <1>3, <2>2 DEF HandleRemoveLabel, NumberTools
  <2>3. CASE HandleSetLabels(c, n)
    BY <1>3, <2>3 DEF HandleSetLabels, NumberTools
  <2>4. CASE HandleUpdateIssue(c, n)
    BY <1>3, <2>4 DEF HandleUpdateIssue, NumberTools
  <2>5. CASE HandleCloseIssue(c, n)
    BY <1>3, <2>5 DEF HandleCloseIssue, NumberTools
  <2>6. CASE HandleReopenIssue(c, n)
    BY <1>3, <2>6 DEF HandleReopenIssue, NumberTools
  <2>7. CASE HandleCloseIssueWithComment(c, n)
    BY <1>3, <2>7 DEF HandleCloseIssueWithComment, NumberTools
  <2>8. CASE HandleMergePR(c, n)
    BY <1>3, <2>8 DEF HandleMergePR, NumberTools
  <2> QED
    BY <1>5, <2>1, <2>2, <2>3, <2>4, <2>5, <2>6, <2>7, <2>8
<1>6. ASSUME NEW n \in Numbers, HandleBulkUpdateIssues(c, n) PROVE IInv'
  <2> DEFINE a == OnIssue(c, "bulk_update_issues", n)
             r == [a EXCEPT !.at = "relabel"]
  <2>1. /\ a \in ActRec /\ Fits(a)
        /\ a.tool = "bulk_update_issues" /\ a.issue \in Issues
    BY <1>1, IssueFits
  <2>2. call' = [call EXCEPT ![c] = r]
    BY <1>6 DEF HandleBulkUpdateIssues
  <2> HIDE DEF a
  <2>3. "relabel" \in CallSteps
    BY DEF CallSteps
  <2>4. /\ r \in ActRec /\ Fits(r) /\ r.at = "relabel" /\ r.tool = "bulk_update_issues"
        /\ r.issue \in Issues
    BY <2>1, <2>3, MoveFits
  <2> HIDE DEF r
  <2>5. Placed(r, Unrun(c))
    BY <2>4 DEF Placed, WorkSteps
  <2> QED
    BY <1>6, <2>2, <2>4, <2>5, StartStep DEF HandleBulkUpdateIssues, May, At
<1>7. CASE HandleRequestWork(c)
  <2> DEFINE r1 == [Idle EXCEPT !.at = "list"]
             r2 == [r1 EXCEPT !.tool = "request_work"]
             r3 == [r2 EXCEPT !.worker = c]
             r4 == [r3 EXCEPT !.left = Order]
  <2>1. call' = [call EXCEPT ![c] = r4]
    BY <1>7 DEF HandleRequestWork
  <2>2. r1 \in ActRec /\ r1.at = "list"
    BY IdleFits, MoveFits DEF CallSteps
  <2> HIDE DEF r1
  <2>3. r2 \in ActRec /\ r2.at = "list" /\ r2.tool = "request_work"
    BY <2>2 DEF ActRec, CallTools
  <2> HIDE DEF r2
  <2>4. r3 \in ActRec /\ r3.at = "list" /\ r3.tool = "request_work" /\ r3.worker = c
    BY <2>3 DEF ActRec
  <2> HIDE DEF r3
  <2>5. r4 \in ActRec /\ r4.at = "list" /\ r4.tool = "request_work" /\ r4.worker = c
    BY <2>4, SearchPuts, CoordinationAssumption
  <2> HIDE DEF r4
  <2>6. Fits(r4) /\ Placed(r4, Unrun(c))
    BY <2>5, SearchFits
  <2> QED
    BY <1>7, <2>1, <2>5, <2>6, StartStep DEF HandleRequestWork, May, At
<1>8. CASE HandleSetProjectPhase(c)
  <2>1. PICK p \in Projects, ph \in Phases :
          CheckTier(c, "restructure",
                    [Idle EXCEPT !.tool = "set_project_phase", !.worker = c,
                                 !.issue = IssueAt(p, None), !.arg = ph])
    BY <1>8 DEF HandleSetProjectPhase
  <2> DEFINE a == [Idle EXCEPT !.tool = "set_project_phase", !.worker = c,
                               !.issue = IssueAt(p, None), !.arg = ph]
  <2>2. a \in ActRec /\ Fits(a) /\ a.tool = "set_project_phase"
    BY PhaseFits
  <2>3. CheckTier(c, "restructure", a)
    BY <2>1
  <2> HIDE DEF a
  <2> QED
    BY <1>8, <2>2, <2>3, CheckTierStep DEF HandleSetProjectPhase, May, At, QueuedTools
<1>9. CASE SetActive(c)
  <2>1. active' \in Projects
    BY <1>9 DEF SetActive
  <2>2. DataTyped'
    BY <1>9, <2>1, CoordinationAssumption
       DEF SetActive, IInv, TypeOK, DataTyped, forge, config, history
  <2>3. /\ pending' = pending /\ expired' = expired /\ issued' = issued /\ labels' = labels
        /\ dispatcher' = dispatcher /\ ran' = ran /\ refused' = refused /\ dropped' = dropped
        /\ call' = call
    BY <1>9 DEF SetActive, queue, forge, history
  <2>4. call[c].at \notin Between
    BY <1>9 DEF SetActive, May, At, Between
  <2>5. PendingInv' /\ SpentIsGone' /\ \A id \in Ids : pending'[id] # None => id \in issued'
    BY <2>3 DEF IInv, TypeOK, PendingInv, SpentIsGone, Spent, Ran
  <2>6. RanTyped' /\ \A d \in Clients : Unrun(d)' = Unrun(d)
    BY <2>3 DEF IInv, TypeOK, RanTyped, Ran, Unrun
  <2> QED
    BY <2>2, <2>3, <2>4, <2>5, <2>6, QueueStep DEF IInv, TypeOK
<1>10. ASSUME NEW tool, NEW step \in {"approved", "refused"}, Get(c, tool, step)
       PROVE  IInv'
  <2>1. /\ labels' = labels /\ dispatcher' = dispatcher /\ dropped' = dropped
        /\ ran' = ran /\ refused' = refused /\ issued' = issued /\ expired' = expired
    BY <1>10 DEF Get, forge, history
  <2>2. DataTyped'
    BY <1>10, CoordinationAssumption DEF Get, IInv, TypeOK, DataTyped, forge, config, history
  <2>3. call[c].at \notin Between
    BY <1>10 DEF Get, May, At, Between
  <2>4. issued \subseteq Ids
    BY DEF IInv, TypeOK
  <2>5. ASSUME NEW id \in issued, pending[id] # None, pending' = pending,
               call' = [call EXCEPT ![c] = [pending[id] EXCEPT !.at = step, !.id = id]]
        PROVE  IInv'
    <3> DEFINE r1 == [pending[id] EXCEPT !.at = step]
               r2 == [r1 EXCEPT !.id = id]
    <3>1. call' = [call EXCEPT ![c] = r2]
      BY <2>5
    <3>2. pending[id] \in ActRec /\ Fits(pending[id]) /\ pending[id].tool \in QueuedTools
      BY <2>4, <2>5 DEF IInv, PendingInv
    <3>3. step \in CallSteps
      BY DEF CallSteps
    <3>4. r1 \in ActRec /\ Fits(r1) /\ r1.at = step /\ r1.tool = pending[id].tool
      BY <3>2, <3>3, MoveFits
    <3> HIDE DEF r1
    <3>5. r2 \in ActRec /\ Fits(r2) /\ r2.at = step /\ r2.tool \in QueuedTools /\ r2.id = id
      BY <2>4, <3>2, <3>4, NameFits
    <3> HIDE DEF r2
    <3>6. Placed(r2, Unrun(c))
      <4>1. ran[id][c] = 0
        BY <2>4, <2>5 DEF IInv, TypeOK, SpentIsGone, Spent, Ran
      <4> QED
        BY <2>5, <3>5, <4>1 DEF Placed, WorkSteps, Unrun
    <3> QED
      BY <2>1, <2>2, <2>3, <2>5, <3>1, <3>5, <3>6, ClientStep
  <2>6. ASSUME NEW id \in issued, pending' = [pending EXCEPT ![id] = None], call' = call
        PROVE  IInv'
    <3>1. PendingInv' /\ SpentIsGone' /\ \A k \in Ids : pending'[k] # None => k \in issued'
      BY <2>1, <2>4, <2>6 DEF IInv, TypeOK, PendingInv, SpentIsGone, Spent, Ran
    <3>2. RanTyped' /\ \A d \in Clients : Unrun(d)' = Unrun(d)
      BY <2>1 DEF IInv, TypeOK, RanTyped, Ran, Unrun
    <3> QED
      BY <2>1, <2>2, <2>3, <2>6, <3>1, <3>2, QueueStep DEF IInv, TypeOK
  <2> QED
    BY <1>10, <2>5, <2>6 DEF Get
<1>11. CASE HandleApproveAction(c) \/ HandleRejectAction(c)
  BY <1>10, <1>11 DEF HandleApproveAction, HandleRejectAction
<1> QED
  BY <1>4, <1>5, <1>6, <1>7, <1>8, <1>9, <1>11 DEF Request

(***************************************************************************)
(* Executions, edits and approvals.                                        *)
(***************************************************************************)

\* The forge call of an issue tool keeps a status on every issue that has one.
LEMMA ExecuteStep == ASSUME IInv, NEW c \in Clients, Execute(c) PROVE IInv'
<1> DEFINE i == Target(c)
<1>1. /\ call[c].at = "execute" /\ Fits(call[c]) /\ Placed(call[c], Unrun(c)) /\ DataTyped
      /\ Return(c)
  BY AtWork DEF Execute, ExecuteAddLabel, ExecuteRemoveLabel, ExecuteSetLabels,
       ExecuteUpdateIssue, ExecuteCloseIssue, ExecuteReopenIssue,
       ExecuteCloseIssueWithComment, ExecuteMergePR, Does, At
<1>2. /\ pending' = pending /\ expired' = expired /\ issued' = issued
      /\ dispatcher' = dispatcher /\ ran' = ran /\ refused' = refused /\ dropped' = dropped
  BY DEF Execute, queue, history
<1>3. /\ claimed' = claimed /\ active' = active /\ phase' = phase /\ calls' = calls
      /\ policy' = policy /\ phaseFile' = phaseFile
  BY DEF Execute, config
<1>4. call[c].at \notin Between
  BY <1>1 DEF Between
<1>5. mishaps' \in 0..MaxMishaps
  BY <1>1, CoordinationAssumption DEF Execute, Mishap, NoMishap, DataTyped
<1>6. ASSUME labels' \in [Issues -> SUBSET Labels], open' \subseteq Issues, merged' \subseteq Issues,
             \A j \in Issues : labels'[j] \cap Statuses = {} => labels[j] \cap Statuses = {}
      PROVE  IInv'
  <2>1. DataTyped'
    BY <1>1, <1>2, <1>3, <1>5, <1>6 DEF DataTyped
  <2> QED
    BY <1>1, <1>2, <1>4, <1>6, <2>1, ReturnStep
<1>7. CASE UNCHANGED forge
  BY <1>1, <1>6, <1>7 DEF forge, DataTyped
<1>8. ASSUME call[c].tool \in NumberTools
      PROVE  i \in Issues
  <2>1. PICK p \in Projects \cup {None}, n \in Numbers : call[c].issue = IssueAt(p, n)
    BY <1>1, <1>8 DEF Fits
  <2>2. call[c].issue.number = n
    BY <2>1 DEF IssueAt
  <2> QED
    BY <1>1, <2>2 DEF Target, IssueAt, Issues, DataTyped
<1> HIDE DEF i
<1>9. ASSUME NEW ls \in SUBSET Labels, Relabelled(i, ls), i \in Issues,
             ls \cap Statuses = {} => labels[i] \cap Statuses = {}
      PROVE  IInv'
  <2>1. /\ labels' \in [Issues -> SUBSET Labels]
        /\ \A j \in Issues : labels'[j] = IF j = i THEN ls ELSE labels[j]
    BY <1>1, <1>9, LabelPut DEF Relabelled, DataTyped
  <2>2. open' = open /\ merged' = merged
    BY <1>9 DEF Relabelled
  <2> QED
    BY <1>1, <1>6, <1>9, <2>1, <2>2 DEF DataTyped
<1>10. ASSUME NEW s, Restated(i, s), i \in Issues
       PROVE  IInv'
  BY <1>1, <1>6, <1>10 DEF Restated, DataTyped
<1>11. CASE ExecuteAddLabel(c)
  <2>1. call[c].tool = "add_label" /\ Relabelled(i, labels[i] \cup {call[c].arg})
    BY <1>11 DEF ExecuteAddLabel, Does, i
  <2>2. i \in Issues /\ call[c].arg = "in-progress"
    BY <1>1, <1>8, <2>1 DEF NumberTools, Fits
  <2>3. labels[i] \cup {call[c].arg} \in SUBSET Labels
    BY <1>1, <2>2 DEF DataTyped, Labels
  <2> QED
    BY <1>9, <2>1, <2>2, <2>3
<1>12. CASE ExecuteRemoveLabel(c)
  <2>1. call[c].tool = "remove_label" /\ Relabelled(i, labels[i] \ {call[c].arg})
    BY <1>12 DEF ExecuteRemoveLabel, Does, i
  <2>2. i \in Issues /\ call[c].arg = "in-progress"
    BY <1>1, <1>8, <2>1 DEF NumberTools, Fits
  <2>3. labels[i] \ {call[c].arg} \in SUBSET Labels
    BY <1>1, <2>2 DEF DataTyped
  <2>4. "in-progress" \notin Statuses
    BY DEF Statuses
  <2>5. (labels[i] \ {call[c].arg}) \cap Statuses = labels[i] \cap Statuses
    BY <2>2, <2>4
  <2> QED
    BY <1>9, <2>1, <2>2, <2>3, <2>5
<1>13. CASE ExecuteSetLabels(c)
  <2>1. call[c].tool = "set_labels" /\ Relabelled(i, {call[c].arg})
    BY <1>13 DEF ExecuteSetLabels, Does, i
  <2>2. i \in Issues /\ call[c].arg \in Verdicts
    BY <1>1, <1>8, <2>1 DEF NumberTools, Fits
  <2>3. call[c].arg \in Statuses /\ {call[c].arg} \in SUBSET Labels
    BY <2>2, CoordinationAssumption DEF Statuses, Labels
  <2> QED
    BY <1>9, <2>1, <2>2, <2>3
<1>14. CASE ExecuteUpdateIssue(c) \/ ExecuteCloseIssue(c) \/ ExecuteReopenIssue(c)
               \/ ExecuteCloseIssueWithComment(c)
  <2>1. call[c].tool \in NumberTools /\ Restated(i, call[c].arg)
    BY <1>14 DEF ExecuteUpdateIssue, ExecuteCloseIssue, ExecuteReopenIssue,
         ExecuteCloseIssueWithComment, Does, NumberTools, i
  <2> QED
    BY <1>8, <1>10, <2>1
<1>15. CASE ExecuteMergePR(c)
  <2>1. call[c].tool \in NumberTools /\ merged' = merged \cup {i} /\ UNCHANGED <<labels, open>>
    BY <1>15 DEF ExecuteMergePR, Does, NumberTools, i
  <2> QED
    BY <1>1, <1>6, <1>8, <2>1 DEF DataTyped
<1> QED
  BY <1>7, <1>11, <1>12, <1>13, <1>14, <1>15 DEF Execute

\* The phase of a project, in memory and in the file.
LEMMA SetPhaseStep == ASSUME IInv, NEW c \in Clients, SetPhase(c) PROVE IInv'
<1> DEFINE p == call[c].issue.project
<1>1. /\ call[c].at = "execute" /\ call[c].tool = "set_project_phase"
      /\ Fits(call[c]) /\ DataTyped /\ Return(c)
  BY AtWork DEF SetPhase, Does, At
<1>2. /\ pending' = pending /\ expired' = expired /\ issued' = issued /\ labels' = labels
      /\ dispatcher' = dispatcher /\ ran' = ran /\ refused' = refused /\ dropped' = dropped
  BY DEF SetPhase, queue, history, forge
<1>3. call[c].arg \in Phases
  BY <1>1 DEF Fits
<1>4. phase' \in [Projects -> Phases] /\ phaseFile' \in [Projects -> Phases]
  <2>1. \/ /\ phase' = [phase EXCEPT ![p] = call[c].arg]
           /\ phaseFile' = phaseFile \/ phaseFile' = [phaseFile EXCEPT ![p] = call[c].arg]
        \/ phase' = phase /\ phaseFile' = phaseFile
    BY DEF SetPhase
  <2> HIDE DEF p
  <2> QED
    BY <1>1, <1>3, <2>1 DEF DataTyped
<1>5. DataTyped'
  BY <1>1, <1>4, CoordinationAssumption DEF SetPhase, DataTyped, Mishap, NoMishap, forge, history
<1>6. call[c].at \notin Between
  BY <1>1 DEF Between
<1> QED
  BY <1>1, <1>2, <1>5, <1>6, ReturnStep

\* bulk_update_issues replaces the labels by one that is a status ...
LEMMA RelabelStep == ASSUME IInv, NEW c \in Clients, Relabel(c) PROVE IInv'
<1>1. /\ call[c].at = "relabel" /\ call[c].issue \in Issues /\ DataTyped
      /\ call[c].tool = "bulk_update_issues"
  BY AtWork DEF Relabel, At, Placed
<1>2. /\ pending' = pending /\ expired' = expired /\ issued' = issued
      /\ dispatcher' = dispatcher /\ ran' = ran /\ refused' = refused /\ dropped' = dropped
  BY DEF Relabel, queue, history
<1>3. call[c].at \notin Between
  BY <1>1 DEF Between
<1>4. ASSUME NEW l \in Verdicts, Relabelled(call[c].issue, {l}), NoMishap, GoTo(c, "restate")
      PROVE  IInv'
  <2>1. l \in Statuses /\ {l} \in SUBSET Labels
    BY <1>4, CoordinationAssumption DEF Statuses, Labels
  <2>2. /\ labels' \in [Issues -> SUBSET Labels]
        /\ \A j \in Issues : labels'[j] = IF j = call[c].issue THEN {l} ELSE labels[j]
    BY <1>1, <1>4, <2>1, LabelPut DEF Relabelled, DataTyped
  <2>3. DataTyped'
    BY <1>1, <1>2, <1>4, <2>2 DEF Relabelled, DataTyped, Relabel, config, NoMishap
  <2>4. "restate" \in CallSteps
    BY DEF CallSteps
  <2>5. PICK r \in ActRec :
             /\ call' = [call EXCEPT ![c] = r] /\ Fits(r)
             /\ r.at = "restate" /\ r.tool = call[c].tool /\ r.issue = call[c].issue
             /\ r.id = call[c].id
    BY <1>4, <2>4, GoToPuts DEF IInv
  <2>6. Placed(r, Unrun(c))
    BY <1>1, <2>5 DEF Placed, WorkSteps
  <2>7. \A j \in Issues : labels'[j] \cap Statuses = {} => labels[j] \cap Statuses = {}
    BY <2>1, <2>2
  <2> QED
    BY <1>2, <1>3, <2>3, <2>5, <2>6, <2>7, ClientStep
<1>5. CASE Mishap /\ UNCHANGED forge /\ Return(c)
  <2>1. DataTyped'
    BY <1>1, <1>2, <1>5, CoordinationAssumption DEF DataTyped, Relabel, config, forge, Mishap
  <2>2. labels' = labels
    BY <1>5 DEF forge
  <2> QED
    BY <1>2, <1>3, <1>5, <2>1, <2>2, ReturnStep
<1> QED
  BY <1>4, <1>5 DEF Relabel

\* ... and then its state.
LEMMA RestateStep == ASSUME IInv, NEW c \in Clients, Restate(c) PROVE IInv'
<1>1. /\ call[c].at = "restate" /\ call[c].issue \in Issues /\ DataTyped /\ Return(c)
  BY AtWork DEF Restate, At, Placed
<1>2. /\ pending' = pending /\ expired' = expired /\ issued' = issued /\ labels' = labels
      /\ dispatcher' = dispatcher /\ ran' = ran /\ refused' = refused /\ dropped' = dropped
  BY DEF Restate, queue, history, Restated, forge
<1>3. call[c].at \notin Between
  BY <1>1 DEF Between
<1>4. DataTyped'
  BY <1>1, <1>2, CoordinationAssumption
     DEF DataTyped, Restate, Restated, config, forge, Mishap, NoMishap
<1> QED
  BY <1>1, <1>2, <1>3, <1>4, ReturnStep

\* A spent action is gone: no other becomes spent, and no client has run one twice.
LEMMA PendingGone ==
    ASSUME IInv, NEW id \in issued, pending' = [pending EXCEPT ![id] = None], issued' = issued,
           \A k \in Ids : Spent(k)' => Spent(k) \/ k = id,
           \A k \in Ids : \A d \in Clients : ran'[k][d] <= 1
    PROVE  PendingInv' /\ SpentIsGone' /\ \A k \in Ids : pending'[k] # None => k \in issued'
BY DEF IInv, TypeOK, PendingInv, SpentIsGone

\* An approved action is removed and starts, with what it was queued with.
LEMMA RemoveApprovedStep == ASSUME IInv, NEW c \in Clients, RemoveApproved(c) PROVE IInv'
<1> DEFINE step == FirstStep(call[c].tool)
<1>1. /\ call[c].at = "approved" /\ call[c].id \in Unrun(c) /\ DataTyped
      /\ Fits(call[c]) /\ call[c].tool \in QueuedTools
  BY AtWork DEF RemoveApproved, At, Placed
<1>2. /\ labels' = labels /\ dispatcher' = dispatcher /\ dropped' = dropped
      /\ refused' = refused /\ issued' = issued /\ expired' = expired
      /\ pending' = [pending EXCEPT ![call[c].id] = None]
      /\ ran' = [ran EXCEPT ![call[c].id][c] = @ + 1]
      /\ GoTo(c, step)
  BY DEF RemoveApproved, forge
<1>3. DataTyped'
  BY <1>1 DEF RemoveApproved, DataTyped, forge, config
<1>4. call[c].at \notin Between
  BY <1>1 DEF Between
<1>5. /\ step \in {"check", "take back", "execute"}
      /\ step = "execute" <=> call[c].tool \notin WorkTools
  BY DEF FirstStep, Start
<1> HIDE DEF step
<1>6. step \in CallSteps
  BY <1>5 DEF CallSteps
<1>7. PICK r \in ActRec :
             /\ call' = [call EXCEPT ![c] = r] /\ Fits(r)
             /\ r.at = step /\ r.tool = call[c].tool /\ r.issue = call[c].issue
             /\ r.id = call[c].id
  BY <1>2, <1>6, GoToPuts DEF IInv
<1>8. Placed(r, Unrun(c)')
  BY <1>1, <1>5, <1>7 DEF Placed, Fits, WorkSteps, QueuedTools
<1>9. /\ RanTyped'
      /\ \A d \in Clients : d # c => Unrun(d)' = Unrun(d)
      /\ \A k \in Ids : Spent(k)' => Spent(k) \/ k = call[c].id
      /\ \A k \in Ids : \A d \in Clients : ran'[k][d] <= 1
  <2>1. /\ ran \in [Ids -> [Clients -> Nat]] /\ issued \subseteq Ids
        /\ \A k \in Ids : Ran(k) => k \in issued
        /\ \A k \in Ids : \A d \in Clients : ran[k][d] <= 1
    BY DEF IInv, TypeOK, SpentIsGone
  <2>2. call[c].id \in issued /\ ran[call[c].id][c] = 0
    BY <1>1 DEF Unrun
  <2>3. /\ ran' \in [Ids -> [Clients -> Nat]]
        /\ \A k \in Ids : \A d \in Clients :
             ran'[k][d] = IF k = call[c].id /\ d = c THEN 1 ELSE ran[k][d]
    BY <1>2, <2>1, <2>2
  <2>4. \A k \in Ids : Ran(k)' => Ran(k) \/ k = call[c].id
    BY <2>3 DEF Ran
  <2>5. RanTyped' /\ \A k \in Ids : Spent(k)' => Spent(k) \/ k = call[c].id
    BY <1>2, <2>1, <2>2, <2>3, <2>4 DEF RanTyped, Spent
  <2>6. \A d \in Clients : d # c => Unrun(d)' = Unrun(d)
    BY <1>2, <2>1, <2>3 DEF Unrun
  <2>7. \A k \in Ids : \A d \in Clients : ran'[k][d] <= 1
    BY <2>1, <2>3
  <2> QED
    BY <2>5, <2>6, <2>7
<1>10. PendingInv' /\ SpentIsGone' /\ \A k \in Ids : pending'[k] # None => k \in issued'
  BY <1>1, <1>2, <1>9, PendingGone DEF Unrun
<1>11. /\ issued \subseteq issued' /\ issued' \subseteq Ids /\ expired' \subseteq issued'
       /\ refused' \subseteq issued' /\ call' # call
  <2>1. call'[c] = r
    BY <1>7 DEF IInv, CallInv
  <2>2. call' # call
    BY <1>1, <1>5, <1>7, <2>1
  <2> QED
    BY <1>2, <2>2 DEF IInv, TypeOK
<1> QED
  BY <1>2, <1>3, <1>4, <1>7, <1>8, <1>9, <1>10, <1>11, QueueStep

\* A rejected one is removed.
LEMMA RemoveRefusedStep == ASSUME IInv, NEW c \in Clients, RemoveRefused(c) PROVE IInv'
<1>1. call[c].at = "refused" /\ call[c].id \in Unrun(c) /\ DataTyped
  BY AtWork DEF RemoveRefused, At, Placed
<1>2. /\ labels' = labels /\ dispatcher' = dispatcher /\ dropped' = dropped
      /\ ran' = ran /\ issued' = issued /\ expired' = expired
      /\ pending' = [pending EXCEPT ![call[c].id] = None]
      /\ refused' = refused \cup {call[c].id}
      /\ call' = [call EXCEPT ![c] = Idle]
  BY DEF RemoveRefused, Return, forge
<1>3. DataTyped'
  BY <1>1 DEF RemoveRefused, DataTyped, forge, config
<1>4. call[c].at \notin Between
  BY <1>1 DEF Between
<1>5. /\ RanTyped' /\ \A d \in Clients : Unrun(d)' = Unrun(d)
      /\ \A k \in Ids : Spent(k)' => Spent(k) \/ k = call[c].id
      /\ \A k \in Ids : \A d \in Clients : ran'[k][d] <= 1
  BY <1>2 DEF IInv, TypeOK, RanTyped, Ran, Unrun, Spent, SpentIsGone
<1>6. PendingInv' /\ SpentIsGone' /\ \A k \in Ids : pending'[k] # None => k \in issued'
  BY <1>1, <1>2, <1>5, PendingGone DEF Unrun
<1>7. /\ issued \subseteq issued' /\ issued' \subseteq Ids /\ expired' \subseteq issued'
      /\ refused' \subseteq issued'
  BY <1>1, <1>2 DEF IInv, TypeOK, Unrun
<1> QED
  BY <1>2, <1>3, <1>4, <1>5, <1>6, <1>7, IdleFits, QueueStep

\* A call goes one step further.
LEMMA CallStep == ASSUME IInv, NEW c \in Clients, Step(c) PROVE IInv'
BY ExecuteStep, SetPhaseStep, RelabelStep, RestateStep, RemoveApprovedStep,
   RemoveRefusedStep, ListQueuedStep, TryNextStep, CheckClaimStep, ClaimUnqueueStep,
   ClaimMarkStep, RecordClaimStep, TakeBackStep, UnclaimStep, UnprogressStep, RelayStep
   DEF Step

(***************************************************************************)
(* The dispatcher, the clock and the restart; the theorems.                *)
(***************************************************************************)

\* The dispatcher relabels the issue it works on.
LEMMA DispatchStep == ASSUME IInv, Dispatch PROVE IInv'
<1> DEFINE i == dispatcher.issue
           Relays == {"mark", "unprogress", "done", "requeue"}
<1>1. DispatcherUnchanged
  BY DEF Dispatch, DispatchListed, DispatchUnqueue, DispatchMark, DispatchUnclaim,
         DispatchUnprogress, DispatchRelay
<1>2. /\ call' = call /\ pending' = pending /\ expired' = expired /\ issued' = issued
      /\ ran' = ran /\ refused' = refused /\ dropped' = dropped
  BY <1>1 DEF DispatcherUnchanged, queue, history
<1>3. CallInv' /\ PendingInv' /\ SpentIsGone'
  BY <1>2 DEF IInv, CallInv, PendingInv, SpentIsGone, Spent, Ran, Unrun
<1>4. /\ labels \in [Issues -> SUBSET Labels] /\ open \subseteq Issues /\ merged \subseteq Issues
      /\ DispatcherInv
  BY DEF IInv, TypeOK
\* What is left to show of each action.
<1>5. ASSUME DispatcherInv', labels' \in [Issues -> SUBSET Labels], open' = open, merged' = merged,
             \A j \in Issues : labels'[j] \cap Statuses = {} =>
                \/ dispatcher'.at \in Relays /\ dispatcher'.issue = j
                \/ labels[j] \cap Statuses = {} /\ ~(dispatcher.at \in Relays /\ i = j)
      PROVE  IInv'
  <2>1. NoIssueLost'
    <3>1. ASSUME NEW j \in Issues, labels'[j] \cap Statuses = {}
          PROVE  \/ Relabelling(j)'
                 \/ labels[j] \cap Statuses = {} /\ (Relabelling(j) => Relabelling(j)')
      <4>1. CASE dispatcher'.at \in Relays /\ dispatcher'.issue = j
        BY <4>1 DEF Relabelling
      <4>2. CASE labels[j] \cap Statuses = {} /\ ~(dispatcher.at \in Relays /\ i = j)
        BY <1>2, <4>2 DEF Relabelling
      <4> QED
        BY <1>5, <3>1, <4>1, <4>2
    <3> QED
      BY <1>2, <3>1, StillFound DEF IInv
  <2>2. TypeOK'
    BY <1>1, <1>2, <1>5 DEF IInv, TypeOK, Ran, DispatcherUnchanged, config, DispatcherInv
  <2> QED
    BY <1>3, <1>5, <2>1, <2>2 DEF IInv
<1>6. "queued" \in Labels /\ "claimed" \in Labels /\ "in-progress" \in Labels /\ "needs-qc" \in Labels
      /\ "queued" \in Statuses /\ "claimed" \in Statuses /\ "needs-qc" \in Statuses
      /\ "in-progress" \notin Statuses
  BY DEF Labels, Statuses
<1>7. CASE DispatchListed
  <2>1. PICK k \in open : dispatcher' = [at |-> "unqueue", issue |-> k, tasks |-> dispatcher.tasks + 1]
    BY <1>7 DEF DispatchListed
  <2>2. labels' = labels /\ open' = open /\ merged' = merged /\ dispatcher.at = "idle"
    BY <1>7 DEF DispatchListed, forge, DispatcherAt
  <2>3. DispatcherInv'
    BY <1>4, <2>1 DEF DispatcherInv
  <2> QED
    BY <1>4, <1>5, <2>2, <2>3
\* Its steps: where it was, where it goes on the same issue, and the label that moves.
<1>8. ASSUME NEW to \in Relays \cup {"working"}, NEW l \in Labels,
             dispatcher.at # "idle", DispatcherGoes(to),
             \/ Removed(i, l) /\ to \in Relays
             \/ Added(i, l) /\ l \in Statuses
      PROVE  IInv'
  <2>1. i \in Issues
    BY <1>4, <1>8 DEF DispatcherInv
  <2>2. DispatcherInv' /\ dispatcher'.at = to /\ dispatcher'.issue = i
    BY <1>4, <1>8, <2>1 DEF DispatcherInv, DispatcherGoes
  <2>3. /\ labels' \in [Issues -> SUBSET Labels] /\ open' = open /\ merged' = merged
        /\ \A j \in Issues : j # i => labels'[j] = labels[j]
        /\ Added(i, l) => labels'[i] = labels[i] \cup {l}
        /\ Removed(i, l) => labels'[i] = labels[i] \ {l}
    BY <1>4, <1>8, <2>1, LabelMoves
  <2>4. ASSUME NEW j \in Issues, labels'[j] \cap Statuses = {}
        PROVE  \/ dispatcher'.at \in Relays /\ dispatcher'.issue = j
               \/ labels[j] \cap Statuses = {} /\ ~(dispatcher.at \in Relays /\ i = j)
    BY <1>8, <2>2, <2>3, <2>4
  <2> QED
    BY <1>5, <2>2, <2>3, <2>4
<1>9. CASE DispatchUnqueue
  BY <1>6, <1>8, <1>9 DEF DispatchUnqueue, DispatcherAt
<1>10. CASE DispatchMark
  BY <1>6, <1>8, <1>10 DEF DispatchMark, DispatcherAt
<1>11. CASE DispatchUnclaim
  BY <1>6, <1>8, <1>11 DEF DispatchUnclaim, DispatcherAt
<1>12. CASE DispatchUnprogress
  <2>1. PICK step \in {"done", "requeue"} : DispatcherGoes(step)
    BY <1>12 DEF DispatchUnprogress
  <2>2. dispatcher.at = "unprogress" /\ Removed(i, "in-progress")
    BY <1>12 DEF DispatchUnprogress, DispatcherAt
  <2>3. "in-progress" \in Labels /\ step \in Relays /\ dispatcher.at # "idle"
    BY <1>6, <2>2
  <2> HIDE DEF Relays
  <2> QED
    BY <1>8, <2>1, <2>2, <2>3
<1>13. CASE DispatchRelay
  <2>1. PICK l \in Labels : l \in Statuses /\ Added(i, l)
    BY <1>6, <1>13 DEF DispatchRelay
  <2>2. i \in Issues
    BY <1>4, <1>13 DEF DispatcherInv, DispatchRelay, DispatcherAt
  <2>3. dispatcher' = [dispatcher EXCEPT !.at = "idle", !.issue = None]
    BY <1>13 DEF DispatchRelay
  <2>4. DispatcherInv'
    BY <1>4, <2>3 DEF DispatcherInv
  <2>5. /\ labels' \in [Issues -> SUBSET Labels] /\ open' = open /\ merged' = merged
        /\ \A j \in Issues : labels'[j] = IF j = i THEN labels[i] \cup {l} ELSE labels[j]
    BY <1>4, <2>1, <2>2, LabelMoves
  <2>6. \A j \in Issues : labels'[j] \cap Statuses = {} => labels[j] \cap Statuses = {} /\ i # j
    BY <2>1, <2>5
  <2> QED
    BY <1>5, <2>4, <2>5, <2>6
<1> QED
  BY <1>7, <1>9, <1>10, <1>11, <1>12, <1>13 DEF Dispatch

\* A pending action grows old.
LEMMA ExpireStep == ASSUME IInv, NEW id \in Ids, Expire(id) PROVE IInv'
<1>1. /\ labels' = labels /\ pending' = pending /\ issued' = issued /\ call' = call
      /\ dispatcher' = dispatcher /\ ran' = ran /\ refused' = refused /\ dropped' = dropped
  BY DEF Expire, forge, history
<1>2. CallInv' /\ PendingInv' /\ DispatcherInv' /\ SpentIsGone'
  BY <1>1 DEF IInv, CallInv, PendingInv, DispatcherInv, SpentIsGone, Spent, Ran, Unrun
<1>3. NoIssueLost'
  BY <1>1 DEF IInv, NoIssueLost, Relabelling
<1>4. TypeOK'
  BY <1>1 DEF Expire, IInv, TypeOK, Ran, forge, config
<1> QED
  BY <1>2, <1>3, <1>4 DEF IInv

\* The serve process dies: what its calls had relabelled is dropped.
LEMMA RestartStep == ASSUME IInv, Restart PROVE IInv'
<1> DEFINE Broken == {d \in Clients : call[d].at \in {"mark", "unprogress", "relay"}}
<1>1. /\ labels' = labels /\ open' = open /\ merged' = merged /\ policy' = policy
      /\ phaseFile' = phaseFile /\ expired' = expired /\ issued' = issued /\ calls' = calls
      /\ dispatcher' = dispatcher /\ ran' = ran /\ refused' = refused
      /\ call' = [c \in Clients |-> Idle] /\ pending' = [id \in Ids |-> None]
      /\ claimed' = [i \in Issues |-> None] /\ phase' = phaseFile /\ active' = Order[1]
      /\ dropped' = dropped \cup {call[c].issue : c \in Broken}
  BY DEF Restart, forge, config
<1>2. CallInv'
  <2>1. \A d \in Clients : call'[d] = Idle
    BY <1>1
  <2> QED
    BY <1>1, <2>1, IdleFits DEF CallInv
<1>3. PendingInv' /\ DispatcherInv'
  BY <1>1 DEF IInv, PendingInv, DispatcherInv
<1>4. SpentIsGone'
  BY <1>1 DEF IInv, TypeOK, SpentIsGone, Spent, Ran
<1>5. NoIssueLost'
  <2>1. ASSUME NEW j \in Issues, labels'[j] \cap Statuses = {}, j \notin dropped'
        PROVE  Relabelling(j)'
    <3>1. Relabelling(j)
      BY <1>1, <2>1 DEF IInv, NoIssueLost
    <3>2. \A c \in Broken : call[c].issue # j
      BY <1>1, <2>1
    <3>3. /\ dispatcher.at \in {"mark", "unprogress", "done", "requeue"}
          /\ dispatcher.issue = j
      BY <3>1, <3>2 DEF Relabelling
    <3> QED
      BY <1>1, <3>3 DEF Relabelling
  <2> QED
    BY <2>1 DEF NoIssueLost
<1>6. TypeOK'
  <2>1. active' \in Projects
    BY <1>1, CoordinationAssumption
  <2>2. dropped' \subseteq Issues
    <3>1. \A c \in Broken : call[c].issue \in Issues
      BY AtWork DEF WorkSteps
    <3> QED
      BY <1>1, <3>1 DEF IInv, TypeOK
  <2>3. mishaps' \in 0..MaxMishaps
    BY CoordinationAssumption DEF Restart, Mishap, IInv, TypeOK
  <2>4. \A d \in Clients : call'[d].at \in CallSteps
    BY <1>2 DEF CallInv, ActRec
  <2>5. claimed' \in [Issues -> Clients \cup {None}] /\ \A id \in Ids : pending'[id] = None
    BY <1>1
  <2> QED
    BY <1>1, <2>1, <2>2, <2>3, <2>4, <2>5 DEF IInv, TypeOK, Ran
<1> QED
  BY <1>2, <1>3, <1>4, <1>5, <1>6 DEF IInv

\* The invariant holds in the beginning ...
LEMMA InitIInv == Init => IInv
<1> SUFFICES ASSUME Init PROVE IInv
  OBVIOUS
<1>1. \A d \in Clients : call[d] = Idle
  BY DEF Init
<1>2. CallInv
  BY <1>1, IdleFits DEF Init, CallInv
<1>3. PendingInv /\ DispatcherInv /\ SpentIsGone
  BY DEF Init, PendingInv, DispatcherInv, SpentIsGone, Spent, Ran
<1>4. NoIssueLost
  BY DEF Init, NoIssueLost, Statuses
<1>5. TypeOK
  <2>1. active \in Projects
    BY CoordinationAssumption DEF Init
  <2>2. \A d \in Clients : call[d].at \in CallSteps
    BY <1>2 DEF CallInv, ActRec
  <2>3. phase \in [Projects -> Phases] /\ phaseFile \in [Projects -> Phases]
    BY CoordinationAssumption DEF Init
  <2>4. labels \in [Issues -> SUBSET Labels]
    BY DEF Init, Labels, Statuses
  <2>5. mishaps \in 0..MaxMishaps /\ calls \in 0..MaxCalls
    BY CoordinationAssumption DEF Init
  <2> QED
    BY <2>1, <2>2, <2>3, <2>4, <2>5 DEF Init, TypeOK, Ran
<1> QED
  BY <1>2, <1>3, <1>4, <1>5 DEF IInv

\* ... and after every step.
LEMMA NextIInv == IInv /\ [Next]_vars => IInv'
<1> SUFFICES ASSUME IInv, [Next]_vars PROVE IInv'
  OBVIOUS
<1>1. CASE Next
  BY <1>1, RequestStep, CallStep, DispatchStep, ExpireStep, RestartStep DEF Next
<1>2. CASE UNCHANGED vars
  <2>1. /\ CallInv' /\ PendingInv' /\ DispatcherInv' /\ SpentIsGone'
    BY <1>2 DEF IInv, CallInv, PendingInv, DispatcherInv, SpentIsGone, Spent, Ran, Unrun,
                vars, forge, queue, history
  <2>2. NoIssueLost'
    BY <1>2 DEF IInv, NoIssueLost, Relabelling, vars, forge, history
  <2>3. TypeOK'
    BY <1>2 DEF IInv, TypeOK, Ran, vars, forge, config, queue, history
  <2> QED
    BY <2>1, <2>2, <2>3 DEF IInv
<1> QED
  BY <1>1, <1>2

\* The inductive invariant holds of every reachable state.
THEOREM Inductive == Spec => []IInv
  BY InitIInv, NextIInv, PTL DEF Spec

(***************************************************************************)
(* Every variable of the coordination keeps its type.                      *)
(***************************************************************************)
THEOREM TypeCorrect == Spec => []TypeOK
<1>1. IInv => TypeOK
  BY DEF IInv
<1> QED
  BY <1>1, Inductive, PTL

(***************************************************************************)
(* However claims, completions, releases, edits, the dispatcher and        *)
(* restarts of the server interleave, an issue that no call broke off on   *)
(* and nobody is relabelling has a label that says where it stands.        *)
(***************************************************************************)
THEOREM IssuesKept == Spec => []NoIssueLost
<1>1. IInv => NoIssueLost
  BY DEF IInv
<1> QED
  BY <1>1, Inductive, PTL

\* What pendingActions.get finds has been neither executed nor rejected, and is not old.
LEMMA FindsUnspent ==
    ASSUME IInv, NEW c \in Clients, NEW tool, NEW step, Get(c, tool, step)
    PROVE  \/ call'[c] = call[c]
           \/ call'[c].id \notin expired /\ ~Spent(call'[c].id)
<1>1. ASSUME NEW id \in issued, pending[id] # None, id \notin expired,
             call' = [call EXCEPT ![c] = [pending[id] EXCEPT !.at = step, !.id = id]]
      PROVE  call'[c].id \notin expired /\ ~Spent(call'[c].id)
  <2>1. id \in Ids
    BY DEF IInv, TypeOK
  <2>2. call'[c] = [pending[id] EXCEPT !.at = step, !.id = id]
    BY <1>1 DEF IInv, CallInv
  <2>3. pending[id] \in ActRec
    BY <1>1, <2>1 DEF IInv, PendingInv
  <2>4. call'[c].id = id
    BY <2>2, <2>3 DEF ActRec
  <2>5. ~Spent(id)
    BY <1>1, <2>1 DEF IInv, SpentIsGone
  <2> QED
    BY <1>1, <2>4, <2>5
<1>2. CASE UNCHANGED call
  BY <1>2
<1> QED
  BY <1>1, <1>2 DEF Get

(***************************************************************************)
(* pendingActions and the closures it keeps: no client executes an action  *)
(* twice; one that was executed, rejected or has expired is not found by   *)
(* an approval or a rejection that comes later; and a worker tool acts on  *)
(* the project that was active when it was called.                         *)
(***************************************************************************)
THEOREM ApprovalsUsedUp == Spec => ApprovalsKept
<1>1. IInv => SpentIsGone /\ WorkStaysInProject
  BY DEF IInv, CallInv, Fits, WorkStaysInProject
<1>2. IInv /\ [Next]_vars =>
        [\A c \in Clients :
           HandleApproveAction(c) \/ HandleRejectAction(c) =>
             \/ call'[c] = call[c]
             \/ call'[c].id \notin expired /\ ~Spent(call'[c].id)]_vars
  BY FindsUnspent DEF HandleApproveAction, HandleRejectAction
<1> QED
  BY <1>1, <1>2, Inductive, PTL DEF Spec, ApprovalsKept, FoundUnspent

(***************************************************************************)
(* ForgeWorkCoordinator.claimed: a worker loses a claim by its own         *)
(* completion or release, by a restart, or to a claim that had looked      *)
(* before it was recorded; never in another way.                           *)
(***************************************************************************)
THEOREM ClaimsKept == Spec => ClaimKept
<1> DEFINE Kept == \A i \in Issues :
         claimed'[i] # claimed[i] /\ claimed[i] # None /\ ~Restart =>
           \/ \E w \in Clients : claimed'[i] = w /\ Overtaking(i, w)
           \/ \E c \in Clients :
                /\ At(c, "take back") /\ call[c].issue = i
                /\ call[c].worker = claimed[i]
<1>1. ASSUME IInv, [Next]_vars
      PROVE  Kept
  <2> SUFFICES ASSUME NEW i \in Issues, claimed'[i] # claimed[i], claimed[i] # None, ~Restart
               PROVE  \/ \E w \in Clients : claimed'[i] = w /\ Overtaking(i, w)
                      \/ \E c \in Clients :
                           /\ At(c, "take back") /\ call[c].issue = i
                           /\ call[c].worker = claimed[i]
    OBVIOUS
  <2>1. claimed \in [Issues -> Clients \cup {None}]
    BY <1>1 DEF IInv, TypeOK
  <2>2. ASSUME NEW c \in Clients, RecordClaim(c)
        PROVE  \E w \in Clients : claimed'[i] = w /\ Overtaking(i, w)
    <3>1. /\ At(c, "record") /\ call[c].issue \in Issues /\ call[c].worker \in Clients
          /\ claimed' = [claimed EXCEPT ![call[c].issue] = call[c].worker]
      BY <1>1, <2>2, AtWork DEF RecordClaim, At, WorkSteps
    <3>2. call[c].issue = i /\ claimed'[i] = call[c].worker
      BY <2>1, <3>1
    <3> QED
      BY <3>1, <3>2 DEF Overtaking
  <2>3. ASSUME NEW c \in Clients, TakeBack(c)
        PROVE  At(c, "take back") /\ call[c].issue = i /\ call[c].worker = claimed[i]
    BY <2>1, <2>3 DEF TakeBack
  <2>4. CASE claimed' = claimed
    BY <2>4
  <2>5. ASSUME NEW c \in Clients, Request(c) PROVE claimed' = claimed
    BY <2>5 DEF Request, HandleClaimIssue, HandleCompleteIssue, HandleReleaseIssue,
         HandleAddLabel, HandleRemoveLabel, HandleSetLabels, HandleUpdateIssue,
         HandleCloseIssue, HandleReopenIssue, HandleCloseIssueWithComment, HandleMergePR,
         HandleBulkUpdateIssues, HandleSetProjectPhase, HandleRequestWork, SetActive,
         HandleApproveAction, HandleRejectAction, Get, CheckTier
  <2>6. ASSUME NEW c \in Clients, Step(c)
        PROVE  claimed' = claimed \/ RecordClaim(c) \/ TakeBack(c)
    BY <2>6 DEF Step, Execute, SetPhase, Relabel, Restate, RemoveApproved, RemoveRefused,
         ListQueued, TryNext, CheckClaim, ClaimUnqueue, ClaimMark, Unclaim, Unprogress,
         CompleteIssue, ReleaseIssue
  <2>7. Dispatch => claimed' = claimed
    BY DEF Dispatch, DispatchListed, DispatchUnqueue, DispatchMark, DispatchUnclaim,
           DispatchUnprogress, DispatchRelay, DispatcherUnchanged
  <2>8. \A id \in Ids : Expire(id) => claimed' = claimed
    BY DEF Expire
  <2>9. UNCHANGED vars => claimed' = claimed
    BY DEF vars
  <2> QED
    BY <1>1, <2>2, <2>3, <2>4, <2>5, <2>6, <2>7, <2>8, <2>9 DEF Next
<1>2. Spec => [][Kept]_vars
  <2>1. IInv /\ [Next]_vars => [Kept]_vars
    BY <1>1
  <2> QED
    BY <2>1, Inductive, PTL DEF Spec
<1> QED
  BY <1>2 DEF ClaimKept
=============================================================================
