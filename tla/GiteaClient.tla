----------------------------- MODULE GiteaClient -----------------------------
(***************************************************************************)
(* The calls of the Gitea client that take several steps on the forge      *)
(* (src/internal/forge/gitea/gitea.go and repo.go), under the requests     *)
(* that come down to a run of them: the bulk request of the API            *)
(* (src/internal/api/issues.go), set_labels, write_file and create_branch  *)
(* of the MCP server, and the label the router takes off.                  *)
(*                                                                         *)
(* The client turns label names into numbers with a cache that one call    *)
(* fills for good, well or badly; it assigns by reading the assignees and  *)
(* writing them back, and writes a file by reading its hash and naming it. *)
(* The hash of a file stands for its content.                              *)
(***************************************************************************)
EXTENDS Naturals, Sequences, FiniteSets

CONSTANTS
    Requests,     \* goroutines that serve requests
    Issues,       \* issue numbers
    Labels, People,
    Main, Branches, \* the default branch, and all branches
    Contents,     \* contents of a file
    NoFile, NoBranch,
    MaxRequests,  \* bound on the requests
    MaxEdits,     \* bound on what people do on the forge
    MaxFaults     \* bound on the calls that fail

GiteaAssumption ==
    /\ IsFiniteSet(Issues)
    /\ Main \in Branches
    /\ NoFile # NoBranch /\ {NoFile, NoBranch} \cap Contents = {}

VARIABLES
    defined,      \* labels the repository has
    labels, assignees, closed,
    content,      \* what the file holds on every branch
    labelOnce,    \* the cache has been filled: "no", "done" or "failed"
    labelCache,
    job,          \* what each goroutine is doing
    promised,     \* history: what was reported to succeed and nobody has undone
    begun, edits, faults

forge == <<defined, labels, assignees, closed, content>>
cacheVars == <<labelOnce, labelCache>>
vars == <<forge, cacheVars, job, promised, begun, edits, faults>>

Idle == [action |-> "none", value |-> {}, todo |-> <<>>, done |-> <<>>, read |-> <<>>]

Init ==
    /\ defined \in SUBSET Labels
    /\ labels = [i \in Issues |-> {}]
    /\ assignees = [i \in Issues |-> {}]
    /\ closed = {}
    /\ content \in [Branches -> {NoFile, NoBranch}]
    /\ content[Main] = NoFile
    /\ labelOnce = "no"
    /\ labelCache = {}
    /\ job = [r \in Requests |-> Idle]
    /\ promised = {}
    /\ begun = 0 /\ edits = 0 /\ faults = 0

\* A call to the forge fails, before or after it has had its effect.
Fault == faults < MaxFaults /\ faults' = faults + 1
NoFault == UNCHANGED faults

-----------------------------------------------------------------------------
\* The requests: the bulk actions with distinct issues in the order given, one issue
\* for the others.
Begin(r, action, value, todo) ==
    /\ job[r] = Idle
    /\ begun < MaxRequests
    /\ begun' = begun + 1
    /\ job' = [job EXCEPT ![r] = [Idle EXCEPT !.action = action, !.value = value, !.todo = todo]]
    /\ UNCHANGED <<forge, cacheVars, promised, edits, faults>>

HandleBulkIssues(r) ==
    \E n \in 1..Cardinality(Issues) : \E todo \in [1..n -> Issues] :
       /\ \A j, k \in 1..n : todo[j] = todo[k] => j = k
       /\ \/ Begin(r, "close", {}, todo)
          \/ \E l \in Labels : Begin(r, "label", {l}, todo)
          \/ \E p \in People : Begin(r, "assign", {p}, todo)

HandleSetLabels(r) ==
    \E i \in Issues, ls \in (SUBSET Labels) \ {{}} : Begin(r, "set", ls, <<i>>)

\* The router takes a label off by the same call.
HandleRemoveLabel(r) ==
    \E i \in Issues, l \in Labels : Begin(r, "unlabel", {l}, <<i>>)

HandleWriteFile(r) ==
    \E b \in Branches, c \in Contents : Begin(r, "write", {c}, <<b>>)

HandleCreateBranch(r) ==
    \E b \in Branches : Begin(r, "branch", {"made"}, <<b>>)

Working(r, action) == job[r].action = action /\ job[r].todo # <<>>
Issue(r) == Head(job[r].todo)

\* The loop goes on to the next issue, whatever became of this one.
NextIssue(r, ok) ==
    job' = [job EXCEPT ![r].todo = Tail(@),
                       ![r].done = IF ok THEN Append(@, Issue(r)) ELSE @,
                       ![r].read = <<>>]

\* The response lists what succeeded; the calls have noted it as promised.
Respond(r) ==
    /\ job[r].action # "none" /\ job[r].todo = <<>>
    /\ job' = [job EXCEPT ![r] = Idle]
    /\ UNCHANGED <<forge, cacheVars, promised, begun, edits, faults>>

Says(i, action, value) == {<<i, action, v>> : v \in value}
Undone(i, actions, values) ==
    {p \in promised : p[2] \in actions /\ p[1] = i /\ p[3] \in values}

-----------------------------------------------------------------------------
\* ensureLabelCache: the first label operation reads the labels, once; if that
\* fails, so does every label operation from then on.
NeedsLabels(r) == \E a \in {"label", "set", "unlabel"} : Working(r, a)

EnsureLabelCache(r) ==
    /\ NeedsLabels(r)
    /\ labelOnce = "no"
    /\ \/ labelOnce' = "done" /\ labelCache' = defined /\ NoFault
       \/ labelOnce' = "failed" /\ Fault /\ UNCHANGED labelCache
    /\ UNCHANGED <<forge, job, promised, begun, edits>>

\* resolveLabels: every name must be known, or nothing is done.
Resolved(names) == labelOnce = "done" /\ names \subseteq labelCache

\* A label call: fails unresolved, or changes the labels of the issue.
LabelCall(r, action, ls, said, undone) ==
    /\ Working(r, action)
    /\ labelOnce # "no"
    /\ LET i == Issue(r)
           Change == labels' = [labels EXCEPT ![i] = ls]
       IN \/ /\ ~Resolved(job[r].value)
             /\ NextIssue(r, FALSE)
             /\ NoFault /\ UNCHANGED <<labels, promised>>
          \/ /\ Resolved(job[r].value)
             /\ Change /\ NextIssue(r, TRUE) /\ NoFault
             /\ promised' = (promised \ undone) \cup said
          \/ /\ Resolved(job[r].value)
             /\ Fault /\ NextIssue(r, FALSE)
             /\ \/ Change /\ promised' = promised \ undone
                \/ UNCHANGED <<labels, promised>>
    /\ UNCHANGED <<defined, assignees, closed, content, cacheVars, begun, edits>>

AddLabel(r) ==
    LET i == Issue(r)  value == job[r].value
    IN LabelCall(r, "label", labels[i] \cup value, Says(i, "label", value), {})

RemoveLabel(r) ==
    LET i == Issue(r)  value == job[r].value
    IN LabelCall(r, "unlabel", labels[i] \ value, {}, Undone(i, {"label", "set"}, value))

SetLabels(r) ==
    LET i == Issue(r)  value == job[r].value
    IN LabelCall(r, "set", value, Says(i, "set", value),
                 Undone(i, {"label", "set"}, Labels \ value))

-----------------------------------------------------------------------------
\* UpdateIssue with the state closed.
CloseIssue(r) ==
    /\ Working(r, "close")
    /\ LET i == Issue(r)
           Change == closed' = closed \cup {i}
       IN \/ /\ Change /\ NextIssue(r, TRUE) /\ NoFault
             /\ promised' = promised \cup {<<i, "close", "closed">>}
          \/ /\ Fault /\ NextIssue(r, FALSE)
             /\ Change \/ UNCHANGED closed
             /\ UNCHANGED promised
    /\ UNCHANGED <<defined, labels, assignees, content, cacheVars, begun, edits>>

\* Assign reads the issue, and is done if the person is assigned already.
ReadAssignees(r) ==
    /\ Working(r, "assign")
    /\ job[r].read = <<>>
    /\ LET i == Issue(r)
       IN \/ /\ job[r].value \subseteq assignees[i]
             /\ NextIssue(r, TRUE) /\ NoFault
             /\ promised' = promised \cup Says(i, "assign", job[r].value)
          \/ /\ ~(job[r].value \subseteq assignees[i])
             /\ job' = [job EXCEPT ![r].read = <<assignees[i]>>]
             /\ NoFault /\ UNCHANGED promised
          \/ Fault /\ NextIssue(r, FALSE) /\ UNCHANGED promised
    /\ UNCHANGED <<forge, cacheVars, begun, edits>>

\* Fault: the list that is written back holds the new assignee only.
AssignedAlone(r) == job[r].value

\* The list that is written back.
Assigned(r) == job[r].read[1] \cup job[r].value

\* The list replaces what others have written since it was read: their
\* assignments are the ones a read-modify-write cannot keep.
WriteAssignees(r) ==
    /\ Working(r, "assign")
    /\ job[r].read # <<>>
    /\ LET i == Issue(r)
           Change == assignees' = [assignees EXCEPT ![i] = Assigned(r)]
           unread == Undone(i, {"assign"}, People \ job[r].read[1])
       IN \/ /\ Change /\ NextIssue(r, TRUE) /\ NoFault
             /\ promised' = (promised \ unread) \cup Says(i, "assign", job[r].value)
          \/ /\ Fault /\ NextIssue(r, FALSE)
             /\ \/ Change /\ promised' = promised \ unread
                \/ UNCHANGED <<assignees, promised>>
    /\ UNCHANGED <<defined, labels, closed, content, cacheVars, begun, edits>>

-----------------------------------------------------------------------------
\* CreateOrUpdateFile looks for the file; a failed look is an absent file.
ReadFile(r) ==
    /\ Working(r, "write")
    /\ job[r].read = <<>>
    /\ LET c == content[Issue(r)]
       IN \/ /\ job' = [job EXCEPT ![r].read = <<IF c = NoBranch THEN NoFile ELSE c>>]
             /\ NoFault
          \/ /\ job' = [job EXCEPT ![r].read = <<NoFile>>]
             /\ Fault
    /\ UNCHANGED <<forge, cacheVars, promised, begun, edits>>

\* Fault: the hash is looked up again when the forge refuses it.
AcceptedAnyHash(r) == job[r].read[1] # NoFile \/ content[Issue(r)] = NoFile

\* The file is created, or what was read is replaced: the forge refuses to
\* create a file that exists and to replace another hash than the one named.
Accepted(r) == content[Issue(r)] = job[r].read[1]

WriteFile(r) ==
    /\ Working(r, "write")
    /\ job[r].read # <<>>
    /\ LET b == Issue(r)
           Change == \E c \in job[r].value : content' = [content EXCEPT ![b] = c]
           replaced == Undone(b, {"write"}, {job[r].read[1]})
       IN \/ /\ ~Accepted(r)
             /\ NextIssue(r, FALSE)
             /\ NoFault /\ UNCHANGED <<content, promised>>
          \/ /\ Accepted(r)
             /\ Change /\ NextIssue(r, TRUE) /\ NoFault
             /\ promised' = (promised \ replaced) \cup Says(b, "write", job[r].value)
          \/ /\ Accepted(r)
             /\ Fault /\ NextIssue(r, FALSE)
             /\ \/ Change /\ promised' = promised \ replaced
                \/ UNCHANGED <<content, promised>>
    /\ UNCHANGED <<defined, labels, assignees, closed, cacheVars, begun, edits>>

\* A branch starts with what the default branch holds; one that exists stays.
CreateBranch(r) ==
    /\ Working(r, "branch")
    /\ LET b == Issue(r)
           new == content[b] = NoBranch
           Change == content' = [content EXCEPT ![b] = IF new THEN content[Main] ELSE @]
       IN \/ /\ Change /\ NextIssue(r, new) /\ NoFault
             /\ promised' = promised \cup (IF new THEN Says(b, "branch", {"made"}) ELSE {})
          \/ /\ Fault /\ NextIssue(r, FALSE)
             /\ Change \/ UNCHANGED content
             /\ UNCHANGED promised
    /\ UNCHANGED <<defined, labels, assignees, closed, cacheVars, begun, edits>>

-----------------------------------------------------------------------------
\* People define labels, reopen issues, take assignees away and push commits.
Person ==
    /\ edits < MaxEdits
    /\ edits' = edits + 1
    /\ \/ /\ \E l \in Labels \ defined : defined' = defined \cup {l}
          /\ UNCHANGED <<labels, assignees, closed, content, promised>>
       \/ \E i \in closed :
            /\ closed' = closed \ {i}
            /\ promised' = promised \ Undone(i, {"close"}, {"closed"})
            /\ UNCHANGED <<defined, labels, assignees, content>>
       \/ \E i \in Issues : \E p \in assignees[i] :
            /\ assignees' = [assignees EXCEPT ![i] = @ \ {p}]
            /\ promised' = promised \ Undone(i, {"assign"}, {p})
            /\ UNCHANGED <<defined, labels, closed, content>>
       \/ \E b \in Branches, c \in Contents :
            /\ content[b] \notin {NoBranch, c}
            /\ content' = [content EXCEPT ![b] = c]
            /\ promised' = promised \ Undone(b, {"write"}, Contents)
            /\ UNCHANGED <<defined, labels, assignees, closed>>
    /\ UNCHANGED <<cacheVars, job, begun, faults>>

Next ==
    \/ \E r \in Requests :
         \/ HandleBulkIssues(r) \/ HandleSetLabels(r) \/ HandleRemoveLabel(r)
         \/ HandleWriteFile(r) \/ HandleCreateBranch(r)
         \/ EnsureLabelCache(r)
         \/ AddLabel(r) \/ RemoveLabel(r) \/ SetLabels(r)
         \/ CloseIssue(r)
         \/ ReadAssignees(r) \/ WriteAssignees(r)
         \/ ReadFile(r) \/ WriteFile(r) \/ CreateBranch(r)
         \/ Respond(r)
    \/ Person

Spec == Init /\ [][Next]_vars

-----------------------------------------------------------------------------
TypeOK ==
    /\ defined \subseteq Labels /\ labelCache \subseteq Labels
    /\ labels \in [Issues -> SUBSET Labels]
    /\ assignees \in [Issues -> SUBSET People]
    /\ closed \subseteq Issues
    /\ content \in [Branches -> Contents \cup {NoFile, NoBranch}]
    /\ labelOnce \in {"no", "done", "failed"}
    /\ begun \in 0..MaxRequests /\ edits \in 0..MaxEdits /\ faults \in 0..MaxFaults

Holds(p) ==
    CASE p[2] = "close"  -> p[1] \in closed
      [] p[2] = "assign" -> p[3] \in assignees[p[1]]
      [] p[2] \in {"label", "set"} -> p[3] \in labels[p[1]]
      [] p[2] = "branch" -> content[p[1]] # NoBranch
      [] p[2] = "write"  -> content[p[1]] = p[3]

\* What a response reports as done is so, and stays so until a person or a
\* later request undoes it, whatever else fails in the same request, whatever
\* labels are unknown, and whatever other requests do meanwhile; a file is only
\* ever replaced by a request that has seen it.  Only an assignment made while
\* another request is between its read and its write of the same issue may get
\* lost (issues.go:351-372, gitea.go:225-303, repo.go:320-356).
ReportedHolds == \A p \in promised : Holds(p)
=============================================================================
