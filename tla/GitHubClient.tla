----------------------------- MODULE GitHubClient -----------------------------
(***************************************************************************)
(* The GitHub client (src/internal/forge/github/github.go): its calls that *)
(* change an issue, and Watch, which lists the open issues page by page    *)
(* and tells the dispatcher what differs from the listing before.          *)
(*                                                                         *)
(* ForgeWatch takes a listing for one step.  Here every page is a step of  *)
(* its own, because issues are opened and closed in between and then the   *)
(* rest of them moves to other pages.  Gitea's Watch lists and tells in    *)
(* the same way (gitea.go:331-474), 50 issues at a time instead of 100.    *)
(* Comments and the search have no part in this.                           *)
(***************************************************************************)
EXTENDS Naturals, Sequences, FiniteSets

CONSTANTS
    Labels, People,
    PageSize,         \* issues per page (100)
    OldIssues,        \* issues there are at the start
    MaxChanges        \* bound on the changes to issues

VARIABLES
    issues,           \* the forge: issue number -> issue
    changes,
    watch,            \* where Watch is
    known,            \* the issues as Watch last told them
    page, all,        \* the listing: the next page, 0 after the last one
    told,             \* the events of the round that has just ended, as a set
    \* history of the listing
    held,             \* what the open issues were since it began
    opened, closed    \* the issues opened and closed since

forge   == <<issues, changes>>
history == <<held, opened, closed>>
vars    == <<forge, watch, known, page, all, told, history>>

GitHubAssumption ==
    /\ PageSize \in Nat \ {0} /\ OldIssues \in Nat

Open == {n \in DOMAIN issues : issues[n].open}
Snapshot(of) == {[number |-> n, issue |-> of[n]] : n \in {m \in DOMAIN of : of[m].open}}
Nothing == <<>>

NewIssue(labels, people) ==
    [open |-> TRUE, labels |-> labels, assignees |-> people, text |-> "first"]

Init ==
    /\ \E queued \in SUBSET (1..OldIssues) :
         issues = [n \in 1..OldIssues |-> NewIssue(IF n \in queued THEN Labels ELSE {}, {})]
    /\ changes = 0
    /\ watch = "loading" /\ known = Nothing
    /\ page = 1 /\ all = <<>> /\ told = {}
    /\ held = Snapshot(issues) /\ opened = {} /\ closed = {}

-----------------------------------------------------------------------------
(* Calls.  Each is one request to the forge; one that fails without effect *)
(* changes nothing here.  People change issues in the same ways.           *)

Listing == watch \in {"loading", "polling"}

Change(new) ==
    /\ changes < MaxChanges
    /\ changes' = changes + 1
    /\ issues' = new
    /\ IF Listing \/ watch = "told"
         THEN /\ held' = held \cup Snapshot(new)
              /\ opened' = opened \cup {n \in DOMAIN new : new[n].open /\ n \notin Open}
              /\ closed' = closed \cup {n \in Open : ~new[n].open}
         ELSE UNCHANGED history
    /\ UNCHANGED <<watch, known, page, all, told>>

CreateIssue(labels, people) == Change(Append(issues, NewIssue(labels, people)))

UpdateIssue(n, open, text) ==
    Change([issues EXCEPT ![n] = [@ EXCEPT !.open = open, !.text = text]])

SetLabels(n, labels) == Change([issues EXCEPT ![n].labels = labels])
AddLabel(n, label)   == Change([issues EXCEPT ![n].labels = @ \cup {label}])

\* A label that is not there is no error.
RemoveLabel(n, label) == Change([issues EXCEPT ![n].labels = @ \ {label}])

Assign(n, person)   == Change([issues EXCEPT ![n].assignees = @ \cup {person}])
Unassign(n, person) == Change([issues EXCEPT ![n].assignees = @ \ {person}])

Call ==
    \/ \E labels \in SUBSET Labels, people \in SUBSET People : CreateIssue(labels, people)
    \/ \E n \in DOMAIN issues :
         \/ \E open \in BOOLEAN, text \in {"first", "second"} : UpdateIssue(n, open, text)
         \/ \E labels \in SUBSET Labels : SetLabels(n, labels)
         \/ \E l \in Labels : AddLabel(n, l) \/ RemoveLabel(n, l)
         \/ \E p \in People : Assign(n, p) \/ Unassign(n, p)

-----------------------------------------------------------------------------
(* listAllOpenIssues.  The forge lists the newest issue first.             *)

\* How many issues are listed before n, and which issue is listed after k others.
Before(n) == Cardinality({m \in Open : m > n})
AtPlace(k) == CHOOSE n \in Open : Before(n) = k

ListIssues(p) ==
    LET from  == (p - 1) * PageSize
        left  == IF from < Cardinality(Open) THEN Cardinality(Open) - from ELSE 0
        count == IF left < PageSize THEN left ELSE PageSize
    IN [i \in 1..count |-> LET n == AtPlace(from + i - 1)
                           IN [number |-> n, issue |-> issues[n]]]

Fetch ==
    /\ Listing /\ page > 0
    /\ LET batch == ListIssues(page)
       IN /\ all' = all \o batch
          /\ page' = IF Len(batch) < PageSize THEN 0 ELSE page + 1
    /\ UNCHANGED <<forge, watch, known, told, history>>

\* Fault: what has been listed before the failure is taken for all.
FetchFailsHalfway ==
    /\ Listing /\ page > 1
    /\ page' = 0
    /\ UNCHANGED <<forge, watch, known, all, told, history>>

NotListing ==
    /\ page' = 0 /\ all' = <<>>
    /\ held' = {} /\ opened' = {} /\ closed' = {}

\* A page cannot be read: the first listing ends Watch, a later one is tried
\* again at the next tick.
FetchFails ==
    /\ Listing /\ page > 0
    /\ watch' = IF watch = "loading" THEN "ended" ELSE "waiting"
    /\ NotListing
    /\ UNCHANGED <<forge, known, told>>

-----------------------------------------------------------------------------
(* Watch.                                                                  *)

\* The events of a round, each with the place in the listing it is about.
Event(type, i) ==
    [type |-> type, place |-> i, number |-> all[i].number, issue |-> all[i].issue]

Listed == {all[i].number : i \in DOMAIN all}

\* Pages that moved list an issue more than once.
Places(n) == {i \in DOMAIN all : all[i].number = n}
LastPlace(S) == CHOOSE i \in S : \A j \in S : j <= i
Latest == [n \in Listed |-> all[LastPlace(Places(n))].issue]

\* The initial load: queued issues are told as opened, the others not at all.
Load ==
    /\ watch = "loading" /\ page = 0
    /\ known' = Latest
    /\ told' = {Event("opened", i) : i \in {j \in DOMAIN all : "queued" \in all[j].issue.labels}}
    /\ watch' = "told"
    /\ UNCHANGED <<forge, page, all, history>>

\* What diffAndEmit compares the entry at i with.
Earlier(i) == {j \in Places(all[i].number) : j < i}
IsKnown(i) == all[i].number \in DOMAIN known \/ Earlier(i) # {}
Prev(i) ==
    IF Earlier(i) = {} THEN known[all[i].number] ELSE all[LastPlace(Earlier(i))].issue

Differs(type, field) ==
    {Event(type, i) : i \in {j \in DOMAIN all : IsKnown(j) /\ Prev(j)[field] # all[j].issue[field]}}

\* What is listed is told, and what is not listed any more after it.
DiffAndEmit ==
    /\ watch = "polling" /\ page = 0
    /\ known' = Latest
    /\ told' = {Event("opened", i) : i \in {j \in DOMAIN all : ~IsKnown(j)}}
                 \cup Differs("labeled", "labels") \cup Differs("assigned", "assignees")
                 \cup Differs("edited", "text")
                 \cup {[type |-> "closed", place |-> Len(all) + 1, number |-> n, issue |-> known[n]] :
                        n \in DOMAIN known \ Listed}
    /\ watch' = "told"
    /\ UNCHANGED <<forge, page, all, history>>

\* The handlers have returned.
Told ==
    /\ watch = "told"
    /\ watch' = "waiting" /\ told' = {}
    /\ NotListing
    /\ UNCHANGED <<forge, known>>

List(as, k) ==
    /\ watch' = as /\ known' = k
    /\ page' = 1 /\ all' = <<>>
    /\ held' = Snapshot(issues) /\ opened' = {} /\ closed' = {}
    /\ UNCHANGED <<forge, told>>

Tick == watch = "waiting" /\ List("polling", known)

\* The dispatcher cancels Watch, which forgets what it knew, and calls it again.
Cancel ==
    /\ watch = "waiting"
    /\ watch' = "ended" /\ known' = Nothing
    /\ UNCHANGED <<forge, page, all, told, history>>

Watch == watch = "ended" /\ List("loading", Nothing)

Next ==
    \/ Call
    \/ Fetch \/ FetchFails \/ Load \/ DiffAndEmit \/ Told \/ Tick \/ Cancel \/ Watch

Spec == Init /\ [][Next]_vars

-----------------------------------------------------------------------------
TypeOK ==
    /\ changes \in 0..MaxChanges
    /\ Len(issues) <= OldIssues + MaxChanges
    /\ DOMAIN known \subseteq DOMAIN issues
    /\ watch \in {"loading", "waiting", "polling", "told", "ended"}

Steady == {n \in Open : n \notin opened \cup closed}
TellsOf(type, n) == {e \in told : e.type = type /\ e.number = n}

\* What a round of Watch tells is true although the pages were read one after
\* the other: whatever it says of an issue held at a moment of the listing, every
\* issue that was open all the time is known afterwards and is neither said to be
\* closed nor opened twice - unless another issue that is listed before it was
\* closed, or opened, meanwhile (github.go:276-299, 352-415).
RoundIsTrue ==
    watch = "told" =>
      /\ \A e \in told :
           e.type # "closed" => [number |-> e.number, issue |-> e.issue] \in held
      /\ \A n \in Steady :
           /\ \/ n \in DOMAIN known /\ TellsOf("closed", n) = {}
              \/ \E m \in closed : m > n
           /\ \/ Cardinality(TellsOf("opened", n)) <= 1
              \/ \E m \in opened : m > n
=============================================================================
