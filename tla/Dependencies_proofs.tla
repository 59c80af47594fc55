------------------------- MODULE Dependencies_proofs -------------------------
(***************************************************************************)
(* Issues that wait for others, for any issues, repositories and           *)
(* dependencies: type correctness, and that no issue is started before     *)
(* everything it depends on has been done, whatever people do and whatever *)
(* calls fail.                                                             *)
(***************************************************************************)
EXTENDS Dependencies, TLAPS

ActorRec == [pc : Places, issue : Issues \cup {NoIssue},
             rest : SUBSET Issues, blocked : BOOLEAN,
             candidates : SUBSET Issues, trackers : SUBSET Repos,
             closed : Issues \cup {NoIssue}]

(***************************************************************************)
(* A goroutine that is at an issue has one; one that checks has found done *)
(* what it looked up, or has found something that is not; one that routes  *)
(* has looked everything up.                                               *)
(***************************************************************************)
Fit(s) ==
    /\ s.pc \notin {"disconnected", "ready", "list"} => s.issue \in Issues
    /\ s.pc = "check" /\ ~s.blocked => deps[s.issue] \ s.rest \subseteq everDone
    /\ s.pc = "route" => deps[s.issue] \subseteq everDone

ActorInv == \A a \in Actors : Fit(actor[a])

\* What counts as done has been done.
DoneInv == \A i \in Issues : Done(i) => i \in everDone

IInv == TypeOK /\ ActorInv /\ DoneInv /\ NoEarlyStart

\* The variables other than who is where.
DataTyped ==
    /\ deps \in Graphs
    /\ open \subseteq Issues /\ labels \in [Issues -> SUBSET Labels]
    /\ merged \subseteq Issues \ open
    /\ upsets \in 0..MaxUpsets /\ faults \in 0..MaxFaults
    /\ known \subseteq Issues /\ closings \subseteq Issues
    /\ todo \subseteq [issue : Issues, labels : SUBSET Labels]
    /\ everDone \subseteq Issues /\ missed \subseteq Issues /\ heard \subseteq Issues

\* What the invariant says.
LEMMA Facts ==
    ASSUME IInv
    PROVE  /\ DataTyped /\ actor \in [Actors -> ActorRec]
           /\ \A a \in Actors : Fit(actor[a])
           /\ deps \in [Issues -> SUBSET Issues]
           /\ DoneInv /\ NoEarlyStart
BY DependencyAssumption DEF IInv, TypeOK, DataTyped, ActorInv, ActorRec

\* A step that starts nothing early, makes nothing look done that is not, and leaves
\* every goroutine fit.
LEMMA Keeps ==
    ASSUME IInv, NEW a \in Actors, NEW s \in ActorRec, actor' = [actor EXCEPT ![a] = s], Fit(s),
           DataTyped', deps' = deps, everDone \subseteq everDone',
           \A i \in Issues :
             /\ "claimed" \in labels'[i] => "claimed" \in labels[i] \/ deps[i] \subseteq everDone
             /\ i \notin open' /\ "done" \in labels'[i] => i \in everDone'
    PROVE  IInv'
<1>1. /\ actor' \in [Actors -> ActorRec] /\ actor'[a] = s
      /\ \A b \in Actors : b # a => actor'[b] = actor[b]
  BY Facts
<1>2. TypeOK'
  BY <1>1 DEF TypeOK, DataTyped, ActorRec, Actors
<1>3. ActorInv'
  <2>1. \A b \in Actors : Fit(actor'[b])
    BY <1>1, Facts
  <2> QED
    BY <2>1 DEF ActorInv, Fit, Actors
<1>4. DoneInv'
  BY DEF DoneInv, Done
<1>5. NoEarlyStart'
  BY Facts DEF NoEarlyStart
<1> QED
  BY <1>2, <1>3, <1>4, <1>5 DEF IInv

\* The same of a step that moves no goroutine.
LEMMA KeepsStill ==
    ASSUME IInv, actor' = actor, DataTyped', deps' = deps, everDone \subseteq everDone',
           \A i \in Issues :
             /\ "claimed" \in labels'[i] => "claimed" \in labels[i]
             /\ i \notin open' /\ "done" \in labels'[i] => i \in everDone'
    PROVE  IInv'
<1> DEFINE s == actor[RunLoop]
<1>1. RunLoop \in Actors /\ s \in ActorRec /\ Fit(s) /\ actor' = [actor EXCEPT ![RunLoop] = s]
  BY Facts DEF Actors
<1> HIDE DEF s
<1> QED
  BY <1>1, Keeps

\* A step of a goroutine that leaves the forge as it is.
LEMMA KeepsForge ==
    ASSUME IInv, NEW a \in Actors, NEW s \in ActorRec, actor' = [actor EXCEPT ![a] = s], Fit(s),
           DataTyped', UNCHANGED <<deps, forge, everDone>>
    PROVE  IInv'
BY Keeps, Facts DEF forge, DoneInv, Done

\* A label edit that takes effect or is the next fault.
LEMMA Labelled ==
    ASSUME DataTyped, NEW i \in Issues, NEW new \in SUBSET Labels, Relabel(i, new) \/ Fault
    PROVE  /\ labels' \in [Issues -> SUBSET Labels] /\ faults' \in 0..MaxFaults
           /\ \A j \in Issues : labels'[j] = labels[j] \/ (j = i /\ labels'[j] = new)
<1>1. labels \in [Issues -> SUBSET Labels] /\ faults \in 0..MaxFaults /\ MaxFaults \in Nat
  BY DependencyAssumption DEF DataTyped
<1>2. CASE Relabel(i, new)
  BY <1>1, <1>2 DEF Relabel
<1>3. CASE Fault
  BY <1>1, <1>3 DEF Fault
<1> QED
  BY <1>2, <1>3

\* A failed call.
LEMMA Faulted ==
    ASSUME DataTyped, Fault
    PROVE  labels' = labels /\ faults' \in 0..MaxFaults
BY DependencyAssumption DEF DataTyped, Fault

(***************************************************************************)
(* Where goroutines go.                                                    *)
(***************************************************************************)

\* One that waits.
LEMMA WaitingFacts ==
    /\ Waiting \in ActorRec /\ Waiting.pc = "ready" /\ Fit(Waiting)
    /\ Disconnected \in ActorRec /\ Disconnected.pc = "disconnected" /\ Fit(Disconnected)
BY DEF Waiting, Disconnected, ActorRec, Places, Fit

\* One that moves on with what it has.
LEMMA Moved ==
    ASSUME NEW s \in ActorRec, NEW place \in Places
    PROVE  LET t == [s EXCEPT !.pc = place]
           IN  /\ t \in ActorRec /\ t.pc = place /\ t.issue = s.issue /\ t.rest = s.rest
               /\ t.blocked = s.blocked /\ t.candidates = s.candidates
               /\ t.trackers = s.trackers /\ t.closed = s.closed
BY DEF ActorRec

\* One that rechecks a candidate.
LEMMA Rechecking ==
    ASSUME deps \in [Issues -> SUBSET Issues], NEW s \in ActorRec, NEW i \in Issues
    PROVE  LET t == [s EXCEPT !.pc = "recheck", !.issue = i, !.candidates = @ \ {i},
                              !.rest = deps[i], !.blocked = FALSE]
           IN  t \in ActorRec /\ Fit(t)
<1> DEFINE t1 == [s EXCEPT !.pc = "recheck"]
           t2 == [t1 EXCEPT !.issue = i]
           t3 == [t2 EXCEPT !.candidates = s.candidates \ {i}]
           t4 == [t3 EXCEPT !.rest = deps[i]]
           t5 == [t4 EXCEPT !.blocked = FALSE]
           t == [s EXCEPT !.pc = "recheck", !.issue = i, !.candidates = @ \ {i},
                          !.rest = deps[i], !.blocked = FALSE]
<1>1. t = t5
  BY DEF ActorRec
<1>2. t1 \in ActorRec /\ t1.pc = "recheck"
  BY DEF ActorRec, Places
<1> HIDE DEF t1
<1>3. t2 \in ActorRec /\ t2.pc = "recheck" /\ t2.issue = i
  BY <1>2 DEF ActorRec
<1> HIDE DEF t2
<1>4. t3 \in ActorRec /\ t3.pc = "recheck" /\ t3.issue = i
  BY <1>3 DEF ActorRec
<1> HIDE DEF t3
<1>5. t4 \in ActorRec /\ t4.pc = "recheck" /\ t4.issue = i
  BY <1>4 DEF ActorRec
<1> HIDE DEF t4
<1>6. t5 \in ActorRec /\ t5.pc = "recheck" /\ t5.issue = i
  BY <1>5 DEF ActorRec
<1> HIDE DEF t5
<1> QED
  BY <1>1, <1>6 DEF Fit

\* One that lists the blocked issues of trackers.
LEMMA ListingFacts ==
    ASSUME NEW ts \in SUBSET Repos, NEW c \in Issues \cup {NoIssue}
    PROVE  LET t == [Waiting EXCEPT !.pc = "list", !.trackers = ts, !.closed = c]
           IN  t \in ActorRec /\ Fit(t)
<1> DEFINE t1 == [Waiting EXCEPT !.pc = "list"]
           t2 == [t1 EXCEPT !.trackers = ts]
           t3 == [t2 EXCEPT !.closed = c]
           t == [Waiting EXCEPT !.pc = "list", !.trackers = ts, !.closed = c]
<1>1. t = t3
  BY WaitingFacts DEF ActorRec
<1>2. t1 \in ActorRec /\ t1.pc = "list"
  BY WaitingFacts DEF ActorRec, Places
<1> HIDE DEF t1
<1>3. t2 \in ActorRec /\ t2.pc = "list"
  BY <1>2 DEF ActorRec
<1> HIDE DEF t2
<1>4. t3 \in ActorRec /\ t3.pc = "list"
  BY <1>3 DEF ActorRec
<1> HIDE DEF t3
<1> QED
  BY <1>1, <1>4 DEF Fit

\* Where a scan goes on.
LEMMA OnwardFacts ==
    ASSUME deps \in [Issues -> SUBSET Issues], NEW s \in ActorRec, NEW t \in Onward(s)
    PROVE  t \in ActorRec /\ Fit(t)
<1>1. s.candidates \subseteq Issues /\ s.trackers \subseteq Repos /\ s.closed \in Issues \cup {NoIssue}
  BY DEF ActorRec
<1>2. CASE s.candidates # {}
  <2>1. PICK i \in s.candidates :
          t = [s EXCEPT !.pc = "recheck", !.issue = i, !.candidates = @ \ {i},
                        !.rest = deps[i], !.blocked = FALSE]
    BY <1>2 DEF Onward
  <2>2. i \in Issues
    BY <1>1
  <2> QED
    BY <2>1, <2>2, Rechecking
<1>3. CASE s.candidates = {} /\ s.trackers # {}
  <2>1. t = [Waiting EXCEPT !.pc = "list", !.trackers = s.trackers, !.closed = s.closed]
    BY <1>3 DEF Onward
  <2> QED
    BY <1>1, <2>1, ListingFacts
<1>4. CASE s.candidates = {} /\ s.trackers = {}
  <2>1. t = Waiting
    BY <1>4 DEF Onward
  <2> QED
    BY <2>1, WaitingFacts
<1> QED
  BY <1>2, <1>3, <1>4

\* Where a check goes on: to the routing only if nothing was found that is not done.
LEMMA CheckedFacts ==
    ASSUME deps \in [Issues -> SUBSET Issues], NEW s \in ActorRec, Fit(s),
           s.pc \in {"check", "recheck"}, NEW t \in Checked(s)
    PROVE  t \in ActorRec /\ Fit(t)
<1>1. s.issue \in Issues /\ deps[s.issue] \subseteq Issues
  BY DEF Fit
<1>2. CASE s.rest # {}
  BY <1>2 DEF Checked
<1>3. CASE s.rest = {} /\ s.pc = "check"
  <2>1. s.blocked \in BOOLEAN
    BY DEF ActorRec
  <2>2. CASE s.blocked
    <3>1. t = [s EXCEPT !.pc = "block"] /\ "block" \in Places
      BY <1>3, <2>2 DEF Checked, Places
    <3>2. t \in ActorRec /\ t.pc = "block" /\ t.issue = s.issue
      BY <3>1, Moved
    <3> QED
      BY <1>1, <3>2 DEF Fit
  <2>3. CASE ~s.blocked
    <3>1. t = [s EXCEPT !.pc = "route"] /\ "route" \in Places
      BY <1>3, <2>3 DEF Checked, Places
    <3>2. t \in ActorRec /\ t.pc = "route" /\ t.issue = s.issue
      BY <3>1, Moved
    <3>3. deps[s.issue] \subseteq everDone
      BY <1>3, <2>3 DEF Fit
    <3> QED
      BY <1>1, <3>2, <3>3 DEF Fit
  <2> QED
    BY <2>1, <2>2, <2>3
<1>4. CASE s.rest = {} /\ s.pc # "check" /\ s.blocked
  BY <1>4, OnwardFacts DEF Checked
<1>5. CASE s.rest = {} /\ s.pc # "check" /\ ~s.blocked
  <2>1. t = [s EXCEPT !.pc = "unblock"] /\ "unblock" \in Places
    BY <1>5 DEF Checked, Places
  <2>2. t \in ActorRec /\ t.pc = "unblock" /\ t.issue = s.issue
    BY <2>1, Moved
  <2> QED
    BY <1>1, <2>2 DEF Fit
<1> QED
  BY <1>2, <1>3, <1>4, <1>5

(***************************************************************************)
(* The steps of people, of the PR watcher and of the forge's listings.     *)
(***************************************************************************)

\* People finish an issue.
LEMMA FinishKeeps ==
    ASSUME IInv, NEW i \in Issues, Finish(i)
    PROVE  IInv'
<1> USE DEF Finish, listing
<1>1. DataTyped /\ DoneInv
  BY Facts
<1>2. /\ labels' \in [Issues -> SUBSET Labels]
      /\ \A j \in Issues : labels'[j] = IF j = i THEN {"done"} ELSE labels[j]
  BY <1>1 DEF DataTyped, Labels
<1>3. DataTyped'
  BY <1>1, <1>2 DEF DataTyped
<1> QED
  BY <1>1, <1>2, <1>3, KeepsStill DEF DoneInv, Done

\* Somebody reopens one.
LEMMA ReopenKeeps ==
    ASSUME IInv, NEW i \in Issues, Reopen(i)
    PROVE  IInv'
<1> USE DEF Reopen, listing, Upset
<1>1. DataTyped /\ DoneInv
  BY Facts
<1>2. labels' = [labels EXCEPT ![i] = labels[i] \cup {"queued"}]
  OBVIOUS
<1>3. /\ labels' \in [Issues -> SUBSET Labels]
      /\ \A j \in Issues : labels'[j] = IF j = i THEN labels[i] \cup {"queued"} ELSE labels[j]
  BY <1>1, <1>2 DEF DataTyped, Labels
<1>4. upsets' \in 0..MaxUpsets
  <2>1. upsets \in Nat /\ faults \in Nat /\ upsets + faults < MaxUpsets /\ MaxUpsets \in Nat
    BY <1>1, DependencyAssumption DEF DataTyped
  <2> QED
    BY <2>1
<1>5. DataTyped'
  BY <1>1, <1>3, <1>4 DEF DataTyped
<1> QED
  BY <1>1, <1>3, <1>5, KeepsStill DEF DoneInv, Done

\* The PR watcher closes an issue.
LEMMA CloseLinkedKeeps ==
    ASSUME IInv, NEW i \in Issues, CloseLinked(i)
    PROVE  IInv'
<1> USE DEF CloseLinked, listing
<1>1. DataTyped /\ DoneInv
  BY Facts
<1>2. everDone \subseteq everDone' /\ everDone' \subseteq Issues
  BY <1>1 DEF DataTyped
<1>3. DataTyped'
  BY <1>1, <1>2 DEF DataTyped
<1>4. \A j \in Issues : j \notin open' /\ "done" \in labels[j] => j \in everDone'
  BY <1>1 DEF DoneInv, Done
<1> QED
  BY <1>2, <1>3, <1>4, KeepsStill

\* It labels the issue done.
LEMMA LabelLinkedKeeps ==
    ASSUME IInv, NEW i \in Issues, LabelLinked(i)
    PROVE  IInv'
<1> USE DEF LabelLinked, listing
<1>1. DataTyped /\ DoneInv
  BY Facts
<1>2. CASE Relabel(i, {"done"}) /\ everDone' = everDone \cup {i}
  <2>1. /\ labels' \in [Issues -> SUBSET Labels] /\ faults' \in 0..MaxFaults
        /\ \A j \in Issues : labels'[j] = labels[j] \/ (j = i /\ labels'[j] = {"done"})
    BY <1>1, <1>2, Labelled DEF Labels
  <2>2. DataTyped'
    BY <1>1, <1>2, <2>1 DEF DataTyped
  <2> QED
    BY <1>1, <1>2, <2>1, <2>2, KeepsStill DEF DoneInv, Done
<1>3. CASE Fault /\ UNCHANGED everDone
  <2>1. labels' = labels /\ faults' \in 0..MaxFaults
    BY <1>1, <1>3, Faulted
  <2>2. DataTyped'
    BY <1>1, <1>3, <2>1 DEF DataTyped
  <2> QED
    BY <1>1, <1>3, <2>1, <2>2, KeepsStill DEF DoneInv, Done
<1> QED
  BY <1>2, <1>3

\* Events carry labels of the forge.
LEMMA Listed ==
    ASSUME DataTyped, NEW s \in SUBSET Issues
    PROVE  Snapshot(s) \subseteq [issue : Issues, labels : SUBSET Labels]
BY DEF Snapshot, DataTyped

\* A watcher lists its issues.
LEMMA ConnectKeeps ==
    ASSUME IInv, NEW r \in Repos, Connect(r)
    PROVE  IInv'
<1> DEFINE s == {i \in open \cap InRepo(r) : "queued" \in labels[i]}
           t == [actor[r] EXCEPT !.pc = "ready"]
<1> USE DEF Connect, forge, history
<1>1. DataTyped /\ r \in Actors /\ actor[r] \in ActorRec
  BY Facts DEF Actors
<1>2. s \in SUBSET Issues /\ todo' = todo \cup Snapshot(s) /\ known' \subseteq Issues
  BY <1>1 DEF InRepo, DataTyped
<1> HIDE DEF s
<1>3. todo' \subseteq [issue : Issues, labels : SUBSET Labels]
  BY <1>1, <1>2, Listed DEF DataTyped
<1>4. DataTyped'
  BY <1>1, <1>2, <1>3 DEF DataTyped
<1>5. t \in ActorRec /\ t.pc = "ready"
  BY <1>1, Moved DEF Places
<1>6. actor' = [actor EXCEPT ![r] = t]
  BY DEF Goto, Becomes
<1> HIDE DEF t
<1>7. Fit(t)
  BY <1>5 DEF Fit
<1> QED
  BY <1>1, <1>4, <1>5, <1>6, <1>7, KeepsForge

\* A watcher compares its listing with what it knows.
LEMMA PollKeeps ==
    ASSUME IInv, NEW r \in Repos, Poll(r)
    PROVE  IInv'
<1> DEFINE here == open \cap InRepo(r)
           gone == (known \cap InRepo(r)) \ open
           s == here \ known
<1> USE DEF Poll, forge, history
<1>1. DataTyped /\ DoneInv
  BY Facts
<1>2. s \in SUBSET Issues /\ todo' = todo \cup Snapshot(s)
  BY <1>1 DEF InRepo, DataTyped
<1>3. known' \subseteq Issues /\ closings' \subseteq Issues
  BY <1>1 DEF InRepo, DataTyped
<1> HIDE DEF s
<1>4. todo' \subseteq [issue : Issues, labels : SUBSET Labels]
  BY <1>1, <1>2, Listed DEF DataTyped
<1>5. DataTyped'
  BY <1>1, <1>3, <1>4 DEF DataTyped
<1> QED
  BY <1>1, <1>5, KeepsStill DEF DoneInv, Done

\* A watcher loses its connection.
LEMMA ReconnectKeeps ==
    ASSUME IInv, NEW r \in Repos, Reconnect(r)
    PROVE  IInv'
<1> DEFINE t == [actor[r] EXCEPT !.pc = "disconnected"]
<1> USE DEF Reconnect, forge, history, Upset
<1>1. DataTyped /\ r \in Actors /\ actor[r] \in ActorRec
  BY Facts DEF Actors
<1>2. upsets' \in 0..MaxUpsets
  <2>1. upsets \in Nat /\ faults \in Nat /\ upsets + faults < MaxUpsets /\ MaxUpsets \in Nat
    BY <1>1, DependencyAssumption DEF DataTyped
  <2> QED
    BY <2>1
<1>3. DataTyped'
  BY <1>1, <1>2 DEF DataTyped
<1>4. t \in ActorRec /\ t.pc = "disconnected"
  BY <1>1, Moved DEF Places
<1>5. actor' = [actor EXCEPT ![r] = t]
  BY DEF Goto, Becomes
<1> HIDE DEF t
<1>6. Fit(t)
  BY <1>4 DEF Fit
<1> QED
  BY <1>1, <1>3, <1>4, <1>5, <1>6, KeepsForge

(***************************************************************************)
(* The handlers' steps.                                                    *)
(***************************************************************************)

\* One that starts at an issue: an issue that waits for nothing is routed.
LEMMA Starting ==
    ASSUME NEW i \in Issues, NEW place \in {"route", "cycle"}, place = "route" => deps[i] = {}
    PROVE  LET t == [Waiting EXCEPT !.pc = place, !.issue = i]
           IN  t \in ActorRec /\ Fit(t)
<1> DEFINE t1 == [Waiting EXCEPT !.pc = place]
           t2 == [t1 EXCEPT !.issue = i]
           t == [Waiting EXCEPT !.pc = place, !.issue = i]
<1>1. t = t2
  BY WaitingFacts DEF ActorRec
<1>2. t1 \in ActorRec /\ t1.pc = place
  BY WaitingFacts DEF ActorRec, Places
<1> HIDE DEF t1
<1>3. t2 \in ActorRec /\ t2.pc = place /\ t2.issue = i
  BY <1>2 DEF ActorRec
<1> HIDE DEF t2
<1> QED
  BY <1>1, <1>3 DEF Fit

\* handleOpened.
LEMMA HandleOpenedKeeps ==
    ASSUME IInv, NEW r \in Repos, HandleOpened(r)
    PROVE  IInv'
<1> USE DEF HandleOpened, forge, history
<1>1. DataTyped /\ r \in Actors /\ DoneInv
  BY Facts DEF Actors
<1>2. PICK e \in Opening(r) :
        /\ todo' = todo \ {e}
        /\ IF Skipped(e) THEN UNCHANGED actor
           ELSE Becomes(r, [Waiting EXCEPT !.pc = IF deps[e.issue] = {} THEN "route" ELSE "cycle",
                                           !.issue = e.issue])
  OBVIOUS
<1>3. e.issue \in Issues
  BY <1>1 DEF DataTyped, Opening
<1>4. DataTyped'
  BY <1>1, <1>2 DEF DataTyped
<1>5. CASE Skipped(e)
  BY <1>1, <1>2, <1>4, <1>5, KeepsStill DEF DoneInv, Done
<1>6. CASE ~Skipped(e)
  <2> DEFINE place == IF deps[e.issue] = {} THEN "route" ELSE "cycle"
             t == [Waiting EXCEPT !.pc = place, !.issue = e.issue]
  <2>1. place \in {"route", "cycle"} /\ (place = "route" => deps[e.issue] = {})
    OBVIOUS
  <2>2. actor' = [actor EXCEPT ![r] = t]
    BY <1>2, <1>6 DEF Becomes
  <2> HIDE DEF place
  <2>3. t \in ActorRec /\ Fit(t)
    BY <1>3, <2>1, Starting
  <2> HIDE DEF t
  <2> QED
    BY <1>1, <1>4, <2>2, <2>3, KeepsForge
<1> QED
  BY <1>5, <1>6

\* Whom a search misses is history.
LEMMA MissedTyped ==
    ASSUME DataTyped, NEW r, NEW i \in Issues, Misses(r, i)
    PROVE  missed' \subseteq Issues
BY DEF DataTyped, Misses

\* detectCycle: without one, the dependencies are still to look up.
LEMMA DetectCycleKeeps ==
    ASSUME IInv, NEW r \in Repos, DetectCycle(r)
    PROVE  IInv'
<1> DEFINE i == actor[r].issue
<1> USE DEF DetectCycle, listing
<1>1. /\ DataTyped /\ r \in Actors /\ actor[r] \in ActorRec /\ Fit(actor[r])
      /\ deps \in [Issues -> SUBSET Issues] /\ actor[r].pc = "cycle"
  BY Facts DEF Actors, At
<1>2. i \in Issues /\ deps[i] \subseteq Issues /\ missed' \subseteq Issues
  BY <1>1, MissedTyped DEF Fit
<1>3. CASE Becomes(r, [actor[r] EXCEPT !.pc = "check", !.rest = deps[i]]) /\ UNCHANGED <<labels, faults>>
  <2> DEFINE t1 == [actor[r] EXCEPT !.pc = "check"]
             t == [t1 EXCEPT !.rest = deps[i]]
  <2>1. actor' = [actor EXCEPT ![r] = t]
    BY <1>1, <1>3 DEF Becomes, ActorRec
  <2>2. t1 \in ActorRec /\ t1.pc = "check" /\ t1.issue = i
    BY <1>1, Moved DEF Places
  <2> HIDE DEF t1
  <2>3. t \in ActorRec /\ t.pc = "check" /\ t.issue = i /\ t.rest = deps[i]
    BY <1>2, <2>2 DEF ActorRec
  <2> HIDE DEF t
  <2>4. Fit(t)
    BY <1>2, <2>3 DEF Fit
  <2>5. DataTyped'
    BY <1>1, <1>2, <1>3 DEF DataTyped
  <2> QED
    BY <1>1, <1>3, <2>1, <2>3, <2>4, <2>5, KeepsForge DEF forge
<1>4. CASE /\ \E c \in Cycles(Searched(r), i) : Becomes(r, [actor[r] EXCEPT !.pc = "escalate", !.rest = c])
           /\ UNCHANGED <<labels, faults>>
  <2>1. PICK c \in Cycles(Searched(r), i) : Becomes(r, [actor[r] EXCEPT !.pc = "escalate", !.rest = c])
    BY <1>4
  <2>2. c \subseteq Issues
    BY DEF Cycles
  <2> DEFINE t1 == [actor[r] EXCEPT !.pc = "escalate"]
             t == [t1 EXCEPT !.rest = c]
  <2>3. actor' = [actor EXCEPT ![r] = t]
    BY <1>1, <2>1 DEF Becomes, ActorRec
  <2>4. t1 \in ActorRec /\ t1.pc = "escalate" /\ t1.issue = i
    BY <1>1, Moved DEF Places
  <2> HIDE DEF t1
  <2>5. t \in ActorRec /\ t.pc = "escalate" /\ t.issue = i
    BY <2>2, <2>4 DEF ActorRec
  <2> HIDE DEF t
  <2>6. Fit(t)
    BY <1>2, <2>5 DEF Fit
  <2>7. DataTyped'
    BY <1>1, <1>2, <1>4 DEF DataTyped
  <2> QED
    BY <1>1, <1>4, <2>3, <2>5, <2>6, <2>7, KeepsForge DEF forge
<1>5. CASE Fault /\ Becomes(r, Waiting)
  <2>1. labels' = labels /\ faults' \in 0..MaxFaults
    BY <1>1, <1>5, Faulted
  <2>2. DataTyped'
    BY <1>1, <1>2, <2>1 DEF DataTyped
  <2>3. actor' = [actor EXCEPT ![r] = Waiting]
    BY <1>5 DEF Becomes
  <2> QED
    BY <1>1, <2>1, <2>2, <2>3, WaitingFacts, KeepsForge DEF forge
<1> QED
  BY <1>3, <1>4, <1>5

\* A step that edits the labels of one issue, and starts it only if it waits for nothing.
LEMMA EditKeeps ==
    ASSUME IInv, NEW a \in Actors, NEW s \in ActorRec, actor' = [actor EXCEPT ![a] = s], Fit(s),
           NEW i \in Issues, NEW new \in SUBSET Labels, Relabel(i, new) \/ Fault,
           "claimed" \in new => "claimed" \in labels[i] \/ deps[i] \subseteq everDone,
           "done" \in new => "done" \in labels[i],
           UNCHANGED <<deps, open, merged, upsets, listing, history>>
    PROVE  IInv'
<1> USE DEF listing, history
<1>1. DataTyped /\ DoneInv
  BY Facts
<1>2. /\ labels' \in [Issues -> SUBSET Labels] /\ faults' \in 0..MaxFaults
      /\ \A j \in Issues : labels'[j] = labels[j] \/ (j = i /\ labels'[j] = new)
  BY <1>1, Labelled
<1>3. DataTyped'
  BY <1>1, <1>2 DEF DataTyped
<1>4. \A j \in Issues :
        /\ "claimed" \in labels'[j] => "claimed" \in labels[j] \/ deps[j] \subseteq everDone
        /\ j \notin open /\ "done" \in labels'[j] => j \in everDone
  BY <1>1, <1>2 DEF DoneInv, Done
<1> QED
  BY <1>3, <1>4, Keeps

\* The issues of a cycle go to people.
LEMMA EscalateCycleKeeps ==
    ASSUME IInv, NEW r \in Repos, EscalateCycle(r)
    PROVE  IInv'
<1>1. /\ DataTyped /\ r \in Actors /\ actor[r] \in ActorRec /\ Fit(actor[r])
      /\ actor[r].pc = "escalate" /\ actor[r].rest \subseteq Issues
  BY Facts DEF Actors, At, EscalateCycle, ActorRec
<1>2. PICK i \in actor[r].rest :
         /\ Relabel(i, labels[i] \cup {"needs-human"}) \/ Fault
         /\ Becomes(r, IF actor[r].rest = {i} THEN Waiting
                       ELSE [actor[r] EXCEPT !.rest = @ \ {i}])
  BY DEF EscalateCycle
<1>3. i \in Issues /\ labels[i] \cup {"needs-human"} \in SUBSET Labels
  BY <1>1 DEF DataTyped, Labels
<1> DEFINE u == [actor[r] EXCEPT !.rest = actor[r].rest \ {i}]
           t == IF actor[r].rest = {i} THEN Waiting ELSE u
<1>4. u \in ActorRec /\ u.pc = "escalate" /\ u.issue = actor[r].issue
  BY <1>1 DEF ActorRec
<1>5. actor' = [actor EXCEPT ![r] = t]
  BY <1>2 DEF Becomes
<1> HIDE DEF u
<1>6. Fit(u)
  BY <1>1, <1>4 DEF Fit
<1>7. t \in ActorRec /\ Fit(t)
  BY <1>4, <1>6, WaitingFacts
<1> HIDE DEF t
<1>8. UNCHANGED <<deps, open, merged, upsets, listing, history>>
  BY DEF EscalateCycle
<1> QED
  BY <1>1, <1>2, <1>3, <1>5, <1>7, <1>8, EditKeeps

\* An issue waits.
LEMMA BlockKeeps ==
    ASSUME IInv, NEW a \in Repos, Block(a)
    PROVE  IInv'
<1> DEFINE i == actor[a].issue
           new == labels[i] \cup {"blocked"}
<1>1. /\ DataTyped /\ a \in Actors /\ actor[a] \in ActorRec /\ Fit(actor[a])
      /\ deps \in [Issues -> SUBSET Issues] /\ actor[a].pc = "block"
  BY Facts DEF Actors, At, Block
<1>2. i \in Issues /\ new \in SUBSET Labels
  BY <1>1 DEF Fit, DataTyped, Labels
<1>3. /\ Relabel(i, new) \/ Fault
      /\ UNCHANGED <<deps, open, merged, upsets, listing, history>>
  BY DEF Block
<1>4. /\ "claimed" \in new => "claimed" \in labels[i] \/ deps[i] \subseteq everDone
      /\ "done" \in new => "done" \in labels[i]
  BY <1>1, <1>2 DEF Fit
<1>5. actor' = [actor EXCEPT ![a] = Waiting] /\ Waiting \in ActorRec /\ Fit(Waiting)
  BY WaitingFacts DEF Block, Becomes
<1> HIDE DEF new
<1> QED
  BY <1>1, <1>2, <1>3, <1>4, <1>5, EditKeeps

\* An issue is started, after everything was looked up.
LEMMA RouteKeeps ==
    ASSUME IInv, NEW a \in Repos, Route(a)
    PROVE  IInv'
<1> DEFINE i == actor[a].issue
           new == (labels[i] \ {"queued"}) \cup {"claimed"}
<1>1. /\ DataTyped /\ a \in Actors /\ actor[a] \in ActorRec /\ Fit(actor[a])
      /\ deps \in [Issues -> SUBSET Issues] /\ actor[a].pc = "route"
  BY Facts DEF Actors, At, Route
<1>2. i \in Issues /\ new \in SUBSET Labels
  BY <1>1 DEF Fit, DataTyped, Labels
<1>3. /\ Relabel(i, new) \/ Fault
      /\ UNCHANGED <<deps, open, merged, upsets, listing, history>>
  BY DEF Route
<1>4. /\ "claimed" \in new => "claimed" \in labels[i] \/ deps[i] \subseteq everDone
      /\ "done" \in new => "done" \in labels[i]
  BY <1>1, <1>2 DEF Fit
<1>5. actor' = [actor EXCEPT ![a] = Waiting] /\ Waiting \in ActorRec /\ Fit(Waiting)
  BY WaitingFacts DEF Route, Becomes
<1> HIDE DEF new
<1> QED
  BY <1>1, <1>2, <1>3, <1>4, <1>5, EditKeeps

\* An issue is unblocked.
LEMMA UnblockKeeps ==
    ASSUME IInv, NEW a \in Actors, Unblock(a)
    PROVE  IInv'
<1> DEFINE i == actor[a].issue
           new == labels[i] \ {"blocked"}
<1>1. /\ DataTyped /\ a \in Actors /\ actor[a] \in ActorRec /\ Fit(actor[a])
      /\ deps \in [Issues -> SUBSET Issues] /\ actor[a].pc = "unblock"
  BY Facts DEF Actors, At, Unblock
<1>2. i \in Issues /\ new \in SUBSET Labels
  BY <1>1 DEF Fit, DataTyped, Labels
<1>3. /\ Relabel(i, new) \/ Fault
      /\ UNCHANGED <<deps, open, merged, upsets, listing, history>>
  BY DEF Unblock
<1>4. /\ "claimed" \in new => "claimed" \in labels[i] \/ deps[i] \subseteq everDone
      /\ "done" \in new => "done" \in labels[i]
  BY <1>1, <1>2 DEF Fit
<1>5. PICK t \in ActorRec : actor' = [actor EXCEPT ![a] = t] /\ Fit(t)
  <2> DEFINE t == [actor[a] EXCEPT !.pc = "requeue"]
  <2>1. t \in ActorRec /\ t.pc = "requeue" /\ t.issue = i
    BY <1>1, Moved DEF Places
  <2>2. actor' = [actor EXCEPT ![a] = t]
    BY DEF Unblock, Goto, Becomes
  <2> HIDE DEF t
  <2>3. Fit(t)
    BY <1>2, <2>1 DEF Fit
  <2> QED
    BY <2>1, <2>2, <2>3
<1> HIDE DEF new
<1> QED
  BY <1>1, <1>2, <1>3, <1>4, <1>5, EditKeeps

\* It is queued again, and the scan goes on.
LEMMA RequeueKeeps ==
    ASSUME IInv, NEW a \in Actors, Requeue(a)
    PROVE  IInv'
<1> DEFINE i == actor[a].issue
           new == labels[i] \cup {"queued"}
<1>1. /\ DataTyped /\ a \in Actors /\ actor[a] \in ActorRec /\ Fit(actor[a])
      /\ deps \in [Issues -> SUBSET Issues] /\ actor[a].pc = "requeue"
  BY Facts DEF Actors, At, Requeue
<1>2. i \in Issues /\ new \in SUBSET Labels
  BY <1>1 DEF Fit, DataTyped, Labels
<1>3. /\ Relabel(i, new) \/ Fault
      /\ UNCHANGED <<deps, open, merged, upsets, listing, history>>
  BY DEF Requeue
<1>4. /\ "claimed" \in new => "claimed" \in labels[i] \/ deps[i] \subseteq everDone
      /\ "done" \in new => "done" \in labels[i]
  BY <1>1, <1>2 DEF Fit
<1>5. PICK t \in ActorRec : actor' = [actor EXCEPT ![a] = t] /\ Fit(t)
  <2>1. PICK t \in Onward(actor[a]) : Becomes(a, t)
    BY DEF Requeue, Continues
  <2>2. t \in ActorRec /\ Fit(t)
    BY <1>1, OnwardFacts
  <2> QED
    BY <2>1, <2>2 DEF Becomes
<1> HIDE DEF new
<1> QED
  BY <1>1, <1>2, <1>3, <1>4, <1>5, EditKeeps

\* A lookup: what it finds done has been done.
LEMMA LookUpKeeps ==
    ASSUME IInv, NEW a \in Actors, LookUp(a)
    PROVE  IInv'
<1> USE DEF LookUp, listing, history
<1>1. /\ DataTyped /\ actor[a] \in ActorRec /\ Fit(actor[a]) /\ DoneInv
      /\ deps \in [Issues -> SUBSET Issues] /\ actor[a].pc \in {"check", "recheck"}
  BY Facts DEF At
<1>2. CASE (\E d \in actor[a].rest : LookedUp(a, d, Done(d))) /\ UNCHANGED <<labels, faults>>
  <2>1. PICK d \in actor[a].rest : LookedUp(a, d, Done(d))
    BY <1>2
  <2>2. actor[a].rest \subseteq Issues /\ d \in Issues /\ actor[a].blocked \in BOOLEAN
    BY <1>1 DEF ActorRec
  <2> DEFINE s1 == [actor[a] EXCEPT !.rest = actor[a].rest \ {d}]
             s == [s1 EXCEPT !.blocked = actor[a].blocked \/ ~Done(d)]
  <2>3. PICK t \in Checked(s) : Becomes(a, t)
    <3>1. s = [actor[a] EXCEPT !.rest = @ \ {d}, !.blocked = @ \/ ~Done(d)]
      BY <1>1 DEF ActorRec
    <3> QED
      BY <2>1, <3>1 DEF LookedUp, Continues
  <2>4. /\ s1 \in ActorRec /\ s1.pc = actor[a].pc /\ s1.issue = actor[a].issue
        /\ s1.rest = actor[a].rest \ {d}
    BY <1>1, <2>2 DEF ActorRec
  <2> HIDE DEF s1
  <2>5. (actor[a].blocked \/ ~Done(d)) \in BOOLEAN
    OBVIOUS
  <2>6. s \in ActorRec /\ s.pc = s1.pc /\ s.issue = s1.issue /\ s.rest = s1.rest
    BY <2>4, <2>5 DEF ActorRec
  <2>7. s.blocked = (actor[a].blocked \/ ~Done(d))
    BY <2>4, <2>5 DEF ActorRec
  <2> HIDE DEF s
  <2>8. Fit(s)
    <3>1. s.issue \in Issues /\ s.pc \in {"check", "recheck"} /\ s.rest = actor[a].rest \ {d}
          /\ s.pc = actor[a].pc /\ s.issue = actor[a].issue
      BY <1>1, <2>4, <2>6 DEF Fit
    <3>2. ASSUME s.pc = "check", ~s.blocked
          PROVE  deps[s.issue] \ s.rest \subseteq everDone
      <4>1. ~actor[a].blocked /\ Done(d)
        BY <2>7, <3>2
      <4>2. d \in everDone /\ deps[actor[a].issue] \ actor[a].rest \subseteq everDone
        BY <1>1, <2>2, <3>1, <3>2, <4>1 DEF DoneInv, Fit
      <4> QED
        BY <3>1, <4>2
    <3> QED
      BY <3>1, <3>2 DEF Fit
  <2>9. t \in ActorRec /\ Fit(t)
    <3>1. s.pc \in {"check", "recheck"}
      BY <1>1, <2>4, <2>6
    <3> QED
      BY <1>1, <2>3, <2>6, <2>8, <3>1, CheckedFacts
  <2>10. DataTyped'
    BY <1>1, <1>2 DEF DataTyped
  <2> QED
    BY <1>2, <2>3, <2>9, <2>10, KeepsForge DEF forge, Becomes
<1>3. CASE Fault /\ Continues(a, IF At(a, "check") THEN {Waiting} ELSE Onward(actor[a]))
  <2>1. labels' = labels /\ faults' \in 0..MaxFaults
    BY <1>1, <1>3, Faulted
  <2>2. DataTyped'
    BY <1>1, <2>1 DEF DataTyped
  <2>3. PICK t : (t = Waiting \/ t \in Onward(actor[a])) /\ Becomes(a, t)
    BY <1>3 DEF Continues
  <2>4. t \in ActorRec /\ Fit(t)
    BY <1>1, <2>3, WaitingFacts, OnwardFacts
  <2> QED
    BY <2>1, <2>2, <2>3, <2>4, KeepsForge DEF forge, Becomes
<1> QED
  BY <1>2, <1>3

\* The blocked issues of a tracker are candidates.
LEMMA ListBlockedKeeps ==
    ASSUME IInv, NEW a \in Actors, ListBlocked(a)
    PROVE  IInv'
<1> USE DEF ListBlocked, listing
<1>1. /\ DataTyped /\ actor[a] \in ActorRec /\ deps \in [Issues -> SUBSET Issues]
  BY Facts
<1>2. PICK r \in actor[a].trackers :
        LET blocked == {i \in open \cap InRepo(r) : "blocked" \in labels[i]}
            shown   == FirstPage(blocked)
            found   == {i \in shown : Concerns(a, i)}
            rest    == [actor[a] EXCEPT !.trackers = @ \ {r}]
        IN  \/ /\ Continues(a, Onward([rest EXCEPT !.candidates = found]))
               /\ heard' = IF shown = blocked THEN heard ELSE heard \ {actor[a].closed}
               /\ UNCHANGED <<labels, faults>>
            \/ Fault /\ Continues(a, Onward(rest)) /\ UNCHANGED heard
  OBVIOUS
<1> DEFINE blocked == {i \in open \cap InRepo(r) : "blocked" \in labels[i]}
           found == {i \in FirstPage(blocked) : Concerns(a, i)}
           rest  == [actor[a] EXCEPT !.trackers = actor[a].trackers \ {r}]
           full  == [rest EXCEPT !.candidates = found]
<1>3. /\ \/ Continues(a, Onward(full)) /\ UNCHANGED <<labels, faults>>
         \/ Fault /\ Continues(a, Onward(rest))
      /\ heard' \subseteq heard
  BY <1>2
<1>4. found \subseteq Issues
  BY <1>1 DEF InRepo, FirstPage
<1> HIDE DEF found
<1>5. rest \in ActorRec
  BY <1>1 DEF ActorRec
<1> HIDE DEF rest
<1>6. full \in ActorRec
  BY <1>4, <1>5 DEF ActorRec
<1> HIDE DEF full
<1>7. CASE Continues(a, Onward(full)) /\ UNCHANGED <<labels, faults>>
  <2>1. PICK t \in Onward(full) : Becomes(a, t)
    BY <1>7 DEF Continues
  <2>2. t \in ActorRec /\ Fit(t)
    BY <1>1, <1>6, OnwardFacts
  <2>3. DataTyped'
    BY <1>1, <1>3, <1>7 DEF DataTyped
  <2> QED
    BY <1>7, <2>1, <2>2, <2>3, KeepsForge DEF forge, Becomes
<1>8. CASE Fault /\ Continues(a, Onward(rest))
  <2>1. PICK t \in Onward(rest) : Becomes(a, t)
    BY <1>8 DEF Continues
  <2>2. t \in ActorRec /\ Fit(t)
    BY <1>1, <1>5, OnwardFacts
  <2>3. labels' = labels /\ faults' \in 0..MaxFaults
    BY <1>1, <1>8, Faulted
  <2>4. DataTyped'
    BY <1>1, <1>3, <2>3 DEF DataTyped
  <2> QED
    BY <2>1, <2>2, <2>3, <2>4, KeepsForge DEF forge, Becomes
<1> QED
  BY <1>3, <1>7, <1>8

\* handleClosed starts a scan of every tracker.
LEMMA HandleClosedKeeps ==
    ASSUME IInv, NEW r \in Repos, HandleClosed(r)
    PROVE  IInv'
<1> USE DEF HandleClosed, forge
<1>1. DataTyped /\ r \in Actors
  BY Facts DEF Actors
<1>2. PICK i \in Closing(r) :
         /\ closings' = closings \ {i}
         /\ heard' = IF Done(i) THEN heard \cup {i} ELSE heard
         /\ Becomes(r, [Waiting EXCEPT !.pc = "list", !.trackers = Repos, !.closed = i])
  OBVIOUS
<1>3. i \in Issues
  BY DEF Closing, InRepo
<1> DEFINE t == [Waiting EXCEPT !.pc = "list", !.trackers = Repos, !.closed = i]
<1>4. t \in ActorRec /\ Fit(t)
  BY <1>3, ListingFacts
<1>5. actor' = [actor EXCEPT ![r] = t]
  BY <1>2 DEF Becomes
<1> HIDE DEF t
<1>6. DataTyped'
  BY <1>1, <1>2, <1>3 DEF DataTyped
<1> QED
  BY <1>1, <1>4, <1>5, <1>6, KeepsForge

\* So does the Run loop's ticker.
LEMMA TickKeeps ==
    ASSUME IInv, Tick
    PROVE  IInv'
<1> USE DEF Tick, forge, listing, history
<1>1. DataTyped /\ RunLoop \in Actors
  BY Facts DEF Actors
<1> DEFINE t1 == [Waiting EXCEPT !.pc = "list"]
           t2 == [t1 EXCEPT !.trackers = Repos]
           t == [Waiting EXCEPT !.pc = "list", !.trackers = Repos]
<1>2. t = t2
  BY WaitingFacts DEF ActorRec
<1>3. t \in ActorRec /\ Fit(t)
  <2>1. t1 \in ActorRec /\ t1.pc = "list"
    BY WaitingFacts DEF ActorRec, Places
  <2> HIDE DEF t1
  <2>2. t2 \in ActorRec /\ t2.pc = "list"
    BY <2>1 DEF ActorRec
  <2> HIDE DEF t2
  <2> QED
    BY <1>2, <2>2 DEF Fit
<1>4. actor' = [actor EXCEPT ![RunLoop] = t]
  BY DEF Becomes
<1> HIDE DEF t
<1>5. DataTyped'
  BY <1>1 DEF DataTyped
<1> QED
  BY <1>1, <1>3, <1>4, <1>5, KeepsForge

(***************************************************************************)
(* The theorems.                                                           *)
(***************************************************************************)

\* Initially what waits is queued, and what is claimed waits for nothing.
LEMMA Initially == Init => IInv
<1> SUFFICES ASSUME Init
             PROVE  IInv
  OBVIOUS
<1> USE DEF Init
<1>1. deps \in Graphs /\ deps \in [Issues -> SUBSET Issues] /\ Waited \subseteq Issues
  BY DependencyAssumption DEF Waited
<1>2. labels \in [Issues -> SUBSET Labels]
  BY DEF Labels
<1>3. DataTyped
  BY <1>1, <1>2, DependencyAssumption DEF DataTyped
<1>4. /\ actor \in [Actors -> ActorRec]
      /\ \A a \in Actors : Fit(actor[a])
  <2>1. actor = [a \in Actors |-> IF a = RunLoop THEN Waiting ELSE Disconnected]
    OBVIOUS
  <2>2. \A a \in Actors : actor[a] = Waiting \/ actor[a] = Disconnected
    BY <2>1
  <2> HIDE DEF Init
  <2> QED
    BY <2>1, <2>2, WaitingFacts
<1>5. TypeOK
  BY <1>3, <1>4 DEF DataTyped, TypeOK, ActorRec
<1>6. DoneInv
  BY DEF DoneInv, Done
<1>7. NoEarlyStart
  BY <1>1 DEF NoEarlyStart
<1> QED
  BY <1>4, <1>5, <1>6, <1>7 DEF IInv, ActorInv

\* Every step of a handler, a scan, people or the PR watcher keeps it.
LEMMA StepKeeps == IInv /\ [Next]_vars => IInv'
<1> SUFFICES ASSUME IInv, [Next]_vars
             PROVE  IInv'
  OBVIOUS
<1>1. ASSUME NEW a \in Actors, Scan(a)
      PROVE  IInv'
  BY <1>1, LookUpKeeps, ListBlockedKeeps, UnblockKeeps, RequeueKeeps DEF Scan
<1>2. ASSUME NEW r \in Repos, WatcherStep(r) \/ Reconnect(r)
      PROVE  IInv'
  <2>1. r \in Actors
    BY DEF Actors
  <2> QED
    BY <1>1, <1>2, <2>1, ConnectKeeps, PollKeeps, HandleOpenedKeeps, DetectCycleKeeps,
       EscalateCycleKeeps, BlockKeeps, RouteKeeps, HandleClosedKeeps, ReconnectKeeps
       DEF WatcherStep
<1>3. CASE LoopStep
  <2>1. RunLoop \in Actors
    BY DEF Actors
  <2> QED
    BY <1>1, <1>3, <2>1, TickKeeps DEF LoopStep
<1>4. CASE \E i \in Issues : Finish(i) \/ Reopen(i) \/ CloseLinked(i) \/ LabelLinked(i)
  BY <1>4, FinishKeeps, ReopenKeeps, CloseLinkedKeeps, LabelLinkedKeeps
<1>5. CASE UNCHANGED vars
  <2> USE DEF vars, forge, listing, history
  <2>1. DataTyped' /\ DoneInv
    BY <1>5, Facts DEF DataTyped
  <2> QED
    BY <1>5, <2>1, KeepsStill DEF DoneInv, Done
<1> QED
  BY <1>2, <1>3, <1>4, <1>5 DEF Next

\* The inductive invariant: goroutines that route have looked everything up, and what
\* counts as done has been done.
THEOREM Inductive == Spec => []IInv
BY Initially, StepKeeps, PTL DEF Spec

\* Every variable of the issues that wait keeps its type, whatever fails.
THEOREM TypeCorrect == Spec => []TypeOK
<1>1. IInv => TypeOK
  BY DEF IInv
<1> QED
  BY <1>1, Inductive, PTL

\* checkDependencies before route: over every interleaving of handlers, scans, label edits,
\* reopened issues and failed calls, for any dependencies within and across repositories,
\* no issue is started before everything it depends on has been done.
THEOREM NeverEarly == Spec => []NoEarlyStart
<1>1. IInv => NoEarlyStart
  BY DEF IInv
<1> QED
  BY <1>1, Inductive, PTL
=============================================================================
