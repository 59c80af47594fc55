---------------------------- MODULE Dependencies ----------------------------
(***************************************************************************)
(* Issues that wait for other issues (src/internal/dispatcher/deps.go):    *)
(* handleOpened blocks an issue until everything it depends on is done and *)
(* gives cycles to people, handleClosed unblocks what waited for the       *)
(* closed issue, and the Run loop rechecks what waits for other            *)
(* repositories.  The PR watcher closes the issues of a merged pull        *)
(* request (src/internal/prwatcher/watcher.go).                            *)
(*                                                                         *)
(* One watcher goroutine per repository and the Run loop act at the same   *)
(* time; every listing, every GetIssue and every label edit is an action.  *)
(* Claims are ClaimLifecycle's subject: routing is one action here and     *)
(* ends with the claimed label.  Frontmatter does not change.              *)
(***************************************************************************)
EXTENDS Integers, FiniteSets

CONSTANTS
    Issues,           \* records [repo, number]
    Repos,            \* the trackers of the dispatcher, one watcher goroutine each;
                      \* issues may wait for issues of other projects
    RunLoop,          \* the Run loop
    NoIssue,
    Graphs,           \* what the issues may depend on, functions to sets of issues
    Linked,           \* issues that a pull request names
    PageSize,         \* how many issues the forge lists when no page is asked for,
                      \* for each of the graphs
    MaxUpsets,        \* bound: reopened issues, reconnects and failed calls together
    MaxFaults         \* bound: how many forge calls fail

ASSUME DependencyAssumption ==
    /\ \A i \in Issues : i.number \in Nat
    /\ \A g \in Graphs, i \in Issues : g[i] # {} => i.repo \in Repos
    /\ RunLoop \notin Repos /\ NoIssue \notin Issues
    /\ Graphs \subseteq [Issues -> SUBSET Issues]
    /\ Linked \subseteq Issues /\ PageSize \in [Graphs -> Nat \ {0}]
    /\ MaxUpsets \in Nat /\ MaxFaults \in Nat

VARIABLES
    deps,             \* depends_on of every issue
    open, labels,     \* the forge
    merged,           \* issues the PR watcher has closed but not yet labelled
    upsets,           \* how many issues were reopened and watchers reconnected
    faults,           \* how many forge calls have failed
    known,            \* the issues the watchers know to be open
    todo,             \* Opened events of the current listing, not yet delivered
    closings,         \* Closed events of the current listing, not yet delivered
    actor,            \* each goroutine: where it is in which handler
    everDone,         \* history: issues that have been done
    missed,           \* history: issues whose search for a cycle was not shown theirs
    heard             \* history: done issues whose Closed event has been handled, until
                      \* they or an issue that waits for them are reopened, or the
                      \* scan has found more blocked issues than it is shown

forge   == <<open, labels>>
listing == <<known, todo, closings>>
history == <<everDone, missed, heard>>
vars == <<deps, forge, merged, upsets, faults, listing, actor, history>>

Actors == Repos \cup {RunLoop}
Labels == {"queued", "blocked", "claimed", "needs-human", "done"}
InRepo(r) == {i \in Issues : i.repo = r}

\* A listing without page options: the first page, newest issues first.
FirstPage(s) == {i \in s : Cardinality({j \in s : j.number > i.number}) < PageSize[deps]}

\* A goroutine: its place, the issue at hand, the issues still to look up or label
\* for it, whether one of them is not done, blocked issues still to recheck,
\* trackers still to list, and the closed issue that started the scan.
Waiting == [pc |-> "ready", issue |-> NoIssue, rest |-> {}, blocked |-> FALSE,
            candidates |-> {}, trackers |-> {}, closed |-> NoIssue]
Disconnected == [Waiting EXCEPT !.pc = "disconnected"]

Places == {"disconnected", "ready", "cycle", "escalate", "check", "block", "route",
           "list", "recheck", "unblock", "requeue"}

TypeOK ==
    /\ deps \in Graphs
    /\ open \subseteq Issues /\ labels \in [Issues -> SUBSET Labels]
    /\ merged \subseteq Issues \ open
    /\ upsets \in 0..MaxUpsets /\ faults \in 0..MaxFaults
    /\ known \subseteq Issues /\ closings \subseteq Issues
    /\ todo \subseteq [issue : Issues, labels : SUBSET Labels]
    /\ actor \in [Actors -> [pc : Places, issue : Issues \cup {NoIssue},
                             rest : SUBSET Issues, blocked : BOOLEAN,
                             candidates : SUBSET Issues, trackers : SUBSET Repos,
                             closed : Issues \cup {NoIssue}]]
    /\ everDone \subseteq Issues /\ missed \subseteq Issues /\ heard \subseteq Issues

\* What depends on nothing is with people or agents already, or done long ago.
Waited == UNION {deps[i] : i \in Issues}

Init ==
    /\ deps \in Graphs
    /\ open = {i \in Issues : deps[i] # {}} \cup Waited
    /\ labels = [i \in Issues |-> {IF deps[i] # {} THEN "queued"
                                   ELSE IF i \in Waited THEN "claimed" ELSE "done"}]
    /\ merged = {} /\ upsets = 0 /\ faults = 0
    /\ known = {} /\ todo = {} /\ closings = {}
    /\ actor = [a \in Actors |-> IF a = RunLoop THEN Waiting ELSE Disconnected]
    /\ everDone = Issues \ open /\ missed = {} /\ heard = {}

At(a, place) == actor[a].pc = place
Becomes(a, state) == actor' = [actor EXCEPT ![a] = state]
Goto(a, place) == Becomes(a, [actor[a] EXCEPT !.pc = place])

\* A failed call: the forge stays as it is.
Upset == upsets + faults < MaxUpsets

Fault == Upset /\ faults < MaxFaults /\ faults' = faults + 1 /\ UNCHANGED labels
Relabel(i, new) == labels' = [labels EXCEPT ![i] = new] /\ UNCHANGED faults

Done(i) == i \notin open /\ "done" \in labels[i]
Local(i) == {d \in deps[i] : d.repo = i.repo}
Cross(i) == deps[i] \ Local(i)

(***************************************************************************)
(* People finish an issue (they label it done and close it) or reopen one. *)
(* The PR watcher closes an issue first and labels it afterwards.          *)
(***************************************************************************)
Finish(i) ==
    /\ i \in open
    /\ open' = open \ {i} /\ labels' = [labels EXCEPT ![i] = {"done"}]
    /\ everDone' = everDone \cup {i}
    /\ UNCHANGED <<deps, merged, upsets, faults, listing, actor, missed, heard>>

Reopen(i) ==
    /\ i \notin open \cup merged
    /\ Upset /\ upsets' = upsets + 1
    /\ open' = open \cup {i} /\ labels' = [labels EXCEPT ![i] = @ \cup {"queued"}]
    /\ heard' = heard \ ({i} \cup deps[i])
    /\ UNCHANGED <<deps, merged, faults, listing, actor, everDone, missed>>

CloseLinked(i) ==
    /\ i \in open \cap Linked
    /\ open' = open \ {i} /\ merged' = merged \cup {i}
    /\ everDone' = IF "done" \in labels[i] THEN everDone \cup {i} ELSE everDone
    /\ UNCHANGED <<deps, labels, upsets, faults, listing, actor, missed, heard>>

LabelLinked(i) ==
    /\ i \in merged
    /\ merged' = merged \ {i}
    /\ \/ Relabel(i, {"done"}) /\ everDone' = everDone \cup {i}
       \/ Fault /\ UNCHANGED everDone
    /\ UNCHANGED <<deps, open, upsets, listing, actor, missed, heard>>

(***************************************************************************)
(* Watch, as in ClaimLifecycle.                                            *)
(***************************************************************************)
Snapshot(s) == {[issue |-> i, labels |-> labels[i]] : i \in s}
Opening(r) == {e \in todo : e.issue.repo = r}
Closing(r) == closings \cap InRepo(r)
Delivered(r) == At(r, "ready") /\ Opening(r) = {} /\ Closing(r) = {}

Connect(r) ==
    /\ At(r, "disconnected")
    /\ known' = known \cup (open \cap InRepo(r))
    /\ todo' = todo \cup Snapshot({i \in open \cap InRepo(r) : "queued" \in labels[i]})
    /\ Goto(r, "ready")
    /\ UNCHANGED <<deps, forge, merged, upsets, faults, closings, history>>

Poll(r) ==
    LET here == open \cap InRepo(r)
        gone == (known \cap InRepo(r)) \ open
    IN  /\ Delivered(r)
        /\ here \ known # {} \/ gone # {}
        /\ todo' = todo \cup Snapshot(here \ known)
        /\ closings' = closings \cup gone
        /\ known' = (known \cup here) \ gone
        /\ UNCHANGED <<deps, forge, merged, upsets, faults, actor, history>>

Reconnect(r) ==
    /\ Delivered(r)
    /\ Upset /\ upsets' = upsets + 1
    /\ known' = known \ InRepo(r)
    /\ Goto(r, "disconnected")
    /\ UNCHANGED <<deps, forge, merged, faults, todo, closings, history>>

(***************************************************************************)
(* handleOpened.  Only the labels are those of the listing.                *)
(***************************************************************************)
Skipped(e) == e.labels \cap {"needs-human", "blocked", "claimed"} # {}

HandleOpened(r) ==
    /\ At(r, "ready")
    /\ \E e \in Opening(r) :
         /\ todo' = todo \ {e}
         /\ IF Skipped(e) THEN UNCHANGED actor
            ELSE Becomes(r, [Waiting EXCEPT !.pc = IF deps[e.issue] = {} THEN "route" ELSE "cycle",
                                            !.issue = e.issue])
    /\ UNCHANGED <<deps, forge, merged, upsets, faults, known, closings, history>>

\* buildDependencyGraph: the local dependencies of the issues s.
Edges(s, i) == IF i \in s THEN Local(i) ELSE {}

\* The issues a depth-first search from i visits: the least set that has i and,
\* with an issue, all its edges lead to.
Reachable(s, i) ==
    {n \in Issues : \A v \in SUBSET Issues :
                      i \in v /\ (\A m \in v : Edges(s, m) \subseteq v) => n \in v}

\* A way around through exactly the issues of c.
IsCycle(s, c) ==
    /\ c # {} /\ \A n \in c : Edges(s, n) \cap c # {}
    /\ \E next \in [c -> c] :
         /\ \A n \in c : next[n] \in Edges(s, n)
         /\ \A v \in (SUBSET c) \ {{}, c} : \E n \in v : next[n] \notin v

OnCycle(s, i) == \E c \in SUBSET s : i \in c /\ IsCycle(s, c)

\* Which cycle the search finds depends on the order of the edges.
Cycles(s, i) == {c \in SUBSET Issues : IsCycle(s, c) /\ c \subseteq Reachable(s, i)}

\* What the search of a watcher is shown.
Searched(r) == FirstPage(open \cap InRepo(r))
Misses(r, i) ==
    missed' = IF OnCycle(open, i) /\ ~OnCycle(Searched(r), i) THEN missed \cup {i} ELSE missed

\* Fault: the search leaves a visited issue before it looks for it on its path,
\* and finds no cycle.
DetectVisitedFirst(r) ==
    /\ At(r, "cycle") /\ Misses(r, actor[r].issue)
    /\ Becomes(r, [actor[r] EXCEPT !.pc = "check", !.rest = deps[actor[r].issue]])
    /\ UNCHANGED <<deps, forge, merged, upsets, faults, listing, everDone, heard>>

DetectCycle(r) ==
    LET i     == actor[r].issue
        found == Cycles(Searched(r), i)
    IN
    /\ At(r, "cycle") /\ Misses(r, i)
    /\ \/ /\ found = {}
          /\ Becomes(r, [actor[r] EXCEPT !.pc = "check", !.rest = deps[i]])
          /\ UNCHANGED <<labels, faults>>
       \/ /\ \E c \in found : Becomes(r, [actor[r] EXCEPT !.pc = "escalate", !.rest = c])
          /\ UNCHANGED <<labels, faults>>
       \/ Fault /\ Becomes(r, Waiting)
    /\ UNCHANGED <<deps, open, merged, upsets, listing, everDone, heard>>

EscalateCycle(r) ==
    /\ At(r, "escalate")
    /\ \E i \in actor[r].rest :
         /\ Relabel(i, labels[i] \cup {"needs-human"}) \/ Fault
         /\ Becomes(r, IF actor[r].rest = {i} THEN Waiting
                       ELSE [actor[r] EXCEPT !.rest = @ \ {i}])
    /\ UNCHANGED <<deps, open, merged, upsets, listing, history>>

\* blockIssue leaves the queued label where it is.
Block(r) ==
    LET i == actor[r].issue IN
    /\ At(r, "block")
    /\ Relabel(i, labels[i] \cup {"blocked"}) \/ Fault
    /\ Becomes(r, Waiting)
    /\ UNCHANGED <<deps, open, merged, upsets, listing, history>>

\* route, past its gates.
Route(r) ==
    LET i == actor[r].issue IN
    /\ At(r, "route")
    /\ Relabel(i, (labels[i] \ {"queued"}) \cup {"claimed"})
    /\ Becomes(r, Waiting)
    /\ UNCHANGED <<deps, open, merged, upsets, listing, history>>

(***************************************************************************)
(* checkDependencies looks up one issue after the other, for an issue to   *)
(* be routed and for one to be unblocked.                                  *)
(***************************************************************************)
\* Where a scan goes on: with a blocked issue to recheck, or a tracker to list.
Onward(state) ==
    IF state.candidates # {}
      THEN {[state EXCEPT !.pc = "recheck", !.issue = i, !.candidates = @ \ {i},
                          !.rest = deps[i], !.blocked = FALSE] : i \in state.candidates}
      ELSE {IF state.trackers # {} THEN [Waiting EXCEPT !.pc = "list", !.trackers = state.trackers,
                                                         !.closed = state.closed]
            ELSE Waiting}

\* What follows the last lookup.
Checked(state) ==
    IF state.rest # {} THEN {state}
    ELSE IF state.pc = "check"
      THEN {[state EXCEPT !.pc = IF state.blocked THEN "block" ELSE "route"]}
    ELSE IF state.blocked THEN Onward(state)
    ELSE {[state EXCEPT !.pc = "unblock"]}

Continues(a, states) == \E state \in states : Becomes(a, state)

LookedUp(a, d, isDone) ==
    Continues(a, Checked([actor[a] EXCEPT !.rest = @ \ {d}, !.blocked = @ \/ ~isDone]))

\* Fault: a lookup that fails counts as a dependency that is done.
LookUpLeniently(a) ==
    /\ At(a, "check") \/ At(a, "recheck")
    /\ \E d \in actor[a].rest :
         \/ LookedUp(a, d, Done(d)) /\ UNCHANGED <<labels, faults>>
         \/ Fault /\ LookedUp(a, d, TRUE)
    /\ UNCHANGED <<deps, open, merged, upsets, listing, history>>

\* A lookup that fails ends the handler, or skips the issue a scan is at.
LookUp(a) ==
    /\ At(a, "check") \/ At(a, "recheck")
    /\ \/ /\ \E d \in actor[a].rest : LookedUp(a, d, Done(d))
          /\ UNCHANGED <<labels, faults>>
       \/ Fault /\ Continues(a, IF At(a, "check") THEN {Waiting} ELSE Onward(actor[a]))
    /\ UNCHANGED <<deps, open, merged, upsets, listing, history>>

(***************************************************************************)
(* unblockDependents and recheckCrossProjectDeps: for every tracker, list  *)
(* the blocked issues, then recheck and unblock those concerned.           *)
(***************************************************************************)
HandleClosed(r) ==
    /\ At(r, "ready") /\ Opening(r) = {}
    /\ \E i \in Closing(r) :
         /\ closings' = closings \ {i}
         /\ heard' = IF Done(i) THEN heard \cup {i} ELSE heard
         /\ Becomes(r, [Waiting EXCEPT !.pc = "list", !.trackers = Repos, !.closed = i])
    /\ UNCHANGED <<deps, forge, merged, upsets, faults, known, todo, everDone, missed>>

\* A recheck that would find nothing is left out.
Tick ==
    /\ At(RunLoop, "ready")
    /\ \E i \in open : "blocked" \in labels[i] /\ Cross(i) # {}
    /\ Becomes(RunLoop, [Waiting EXCEPT !.pc = "list", !.trackers = Repos])
    /\ UNCHANGED <<deps, forge, merged, upsets, faults, listing, history>>

\* Fault: the recheck leaves issues to handleClosed that also have local dependencies.
ConcernsOnlyCross(a, i) ==
    IF a = RunLoop THEN Cross(i) # {} /\ Local(i) = {}
    ELSE \E d \in Local(i) : d.number = actor[a].closed.number

\* Fault: only dependents that wait for nothing else are looked at.
ConcernsOnly(a, i) ==
    IF a = RunLoop THEN Cross(i) # {}
    ELSE Local(i) # {} /\ \A d \in Local(i) : d.number = actor[a].closed.number

\* The number of the closed issue is compared, not its repository.
Concerns(a, i) ==
    IF a = RunLoop THEN Cross(i) # {}
    ELSE \E d \in Local(i) : d.number = actor[a].closed.number

ListBlocked(a) ==
    /\ At(a, "list")
    /\ \E r \in actor[a].trackers :
         LET blocked == {i \in open \cap InRepo(r) : "blocked" \in labels[i]}
             shown   == FirstPage(blocked)
             found   == {i \in shown : Concerns(a, i)}
             rest    == [actor[a] EXCEPT !.trackers = @ \ {r}]
         IN  \/ /\ Continues(a, Onward([rest EXCEPT !.candidates = found]))
                /\ heard' = IF shown = blocked THEN heard ELSE heard \ {actor[a].closed}
                /\ UNCHANGED <<labels, faults>>
             \/ Fault /\ Continues(a, Onward(rest)) /\ UNCHANGED heard
    /\ UNCHANGED <<deps, open, merged, upsets, listing, everDone, missed>>

Unblock(a) ==
    LET i == actor[a].issue IN
    /\ At(a, "unblock")
    /\ Relabel(i, labels[i] \ {"blocked"}) \/ Fault
    /\ Goto(a, "requeue")
    /\ UNCHANGED <<deps, open, merged, upsets, listing, history>>

Requeue(a) ==
    LET i == actor[a].issue IN
    /\ At(a, "requeue")
    /\ Relabel(i, labels[i] \cup {"queued"}) \/ Fault
    /\ Continues(a, Onward(actor[a]))
    /\ UNCHANGED <<deps, open, merged, upsets, listing, history>>

Scan(a) == LookUp(a) \/ ListBlocked(a) \/ Unblock(a) \/ Requeue(a)

WatcherStep(r) ==
    \/ Connect(r) \/ Poll(r)
    \/ HandleOpened(r) \/ DetectCycle(r) \/ EscalateCycle(r) \/ Block(r) \/ Route(r)
    \/ HandleClosed(r) \/ Scan(r)

LoopStep == Tick \/ Scan(RunLoop)

Next ==
    \/ \E r \in Repos : WatcherStep(r) \/ Reconnect(r)
    \/ LoopStep
    \/ \E i \in Issues : Finish(i) \/ Reopen(i) \/ CloseLinked(i) \/ LabelLinked(i)

Spec == Init /\ [][Next]_vars

(***************************************************************************)
(* Fairness: the watchers, the Run loop with its ticker and the PR watcher *)
(* go on.  Nothing is assumed about people, pull requests and reconnects.  *)
(***************************************************************************)
Fairness ==
    /\ \A r \in Repos : WF_vars(WatcherStep(r))
    /\ WF_vars(LoopStep)
    /\ \A i \in Linked : WF_vars(LabelLinked(i))

FairSpec == Spec /\ Fairness

(***************************************************************************)
(* Properties.                                                             *)
(***************************************************************************)
\* Over every interleaving of handlers, scans, label edits and failed calls an
\* issue is started only after everything it depends on has been done.
NoEarlyStart == \A i \in Issues : "claimed" \in labels[i] => deps[i] \subseteq everDone

Blocked(i) == i \in open /\ "blocked" \in labels[i]
Satisfied(i) == \A d \in deps[i] : Done(d)

\* unblockDependents and recheckCrossProjectDeps are shown this issue.
Shown(i) == i \in FirstPage({j \in open \cap InRepo(i.repo) : "blocked" \in labels[j]})

\* An issue with a dependency in another repository, whose closing no watcher of
\* its own reports, is unblocked even if calls fail, labels come late or watchers
\* reconnect, as long as the recheck is shown it: behind a page of newer blocked
\* issues nothing is promised.
CrossUnblocked ==
    \A i \in Issues :
        Blocked(i) /\ Cross(i) # {} /\ Satisfied(i) ~> ~Blocked(i) \/ ~Satisfied(i) \/ ~Shown(i)

\* If the closing of every dependency was handled, each when its issue was done and
\* with the dependent open, and every scan was shown all blocked issues, the last of
\* these scans sees the dependent blocked and all dependencies done, however the
\* watchers' handlers overlap.
HeardUnblocks ==
    \A i \in Issues :
        Blocked(i) /\ Satisfied(i) /\ deps[i] \subseteq heard
            ~> ~Blocked(i) \/ ~Satisfied(i) \/ ~(deps[i] \subseteq heard) \/ faults > 0

\* The search stops at the first cycle it finds, which may be another one.
Told(i) ==
    \/ "needs-human" \in labels[i]
    \/ \E c \in Cycles(Issues, i) : i \notin c /\ \E j \in c : "needs-human" \in labels[j]

\* dispatcher-design.md:180: cycles are detected "before they cause problems".
\* Whoever is on a cycle within a repository ends with people, or an issue of another
\* cycle that it waits for does, unless the cycle is broken first, the watcher misses
\* that an issue was closed and reopened, or the cycle reaches beyond the page of open
\* issues that the search is shown.
CyclesEscalated ==
    \A i \in Issues :
        OnCycle(open, i) ~> \/ ~OnCycle(open, i) \/ Told(i)
                            \/ faults + upsets > 0 \/ i \in missed

\* What is done unblocks: by the periodic recheck where a dependency is in another
\* repository, by the handled closings where all are in its own.
Unblocks == CrossUnblocked /\ HeardUnblocks
=============================================================================
