--------------------------- MODULE ClaimLifecycle ---------------------------
(***************************************************************************)
(* The life of a claim in src/internal/dispatcher: how an issue goes from  *)
(* status:queued to an agent task and back, and what the forge's labels,   *)
(* the in-memory claim map, the persisted failure counts and the tasks in  *)
(* the pool have to do with each other on the way.                         *)
(*                                                                         *)
(* Three kinds of goroutine act on an issue at the same time: the watcher  *)
(* of its repository (handleOpened and route, handleClosed), the Run loop  *)
(* (checkTimeouts and releaseTimedOut) and the pool's workers              *)
(* (handleTaskComplete).  Every forge call, every store call and every     *)
(* critical section of d.mu is an action of its own, because the others    *)
(* run in between.                                                         *)
(*                                                                         *)
(* A failed forge or store call and a crash of the process are counted and *)
(* bounded by MaxFaults, MaxCrashes and, together, by MaxMishaps; what     *)
(* people do to issues through the forge is bounded by MaxActs.            *)
(***************************************************************************)
EXTENDS Integers, Sequences, FiniteSets

CONSTANTS
    Issues,           \* records [repo, number]
    Repos,            \* the registered trackers, one watcher goroutine each
    Workers,          \* the pool's workers
    NoIssue,          \* what an idle goroutine works on
    QueueCap,         \* the capacity of the pool's task channel
    Verdicts,         \* what handleOpened's checks can say of an issue
    Outcomes,         \* how a task can end
    Deeds,            \* what people do to issues through the forge
    MaxConsecutiveFailures,   \* releaseTimedOut's limit
    MaxRetryAttempts,         \* decideCorrection's limit
    MaxFaults, MaxCrashes, MaxMishaps, MaxActs

ASSUME ClaimAssumption ==
    /\ \A i \in Issues : i.repo \in Repos /\ i.number \in Nat
    /\ NoIssue \notin Issues
    /\ QueueCap \in Nat \ {0}
    /\ Verdicts \subseteq {"agent", "human", "deferred", "invalid", "undecomposable"}
    /\ Outcomes \subseteq {"success", "counted", "uncounted", "permanent", "budget"}
    /\ Deeds \subseteq {"open", "close", "send-back", "take-over"}
    /\ MaxConsecutiveFailures \in Nat \ {0}
    /\ MaxRetryAttempts \in Nat \ {0}
    /\ MaxFaults \in Nat /\ MaxCrashes \in Nat /\ MaxMishaps \in Nat
    /\ MaxActs \in Nat

VARIABLES
    \* the forge
    open,             \* the open issues
    labels,           \* the status labels of every issue
    acts,             \* how often people have changed an issue
    faults,           \* how many forge or store calls have failed
    crashes,          \* how often the process has died
    \* the store
    persisted,        \* issue_failure_counts, keyed by the issue's number alone
    \* the dispatcher's memory
    claimed,          \* the keys of d.claimed
    stale,            \* claims whose last heartbeat is older than the timeout
    failures,         \* FailureCount of each claim, 0 without one
    memFailures,      \* d.issueFailures
    budgetOpen,       \* the budget circuit
    \* the pool
    queue,            \* tasks waiting in the pool's channel
    worker,           \* each worker: where it is, on which issue, how the task ended
    \* the watchers and the Run loop
    known,            \* the issues the watchers know to be open
    todo,             \* Opened events of the current listing, not yet delivered
    closings,         \* Closed events of the current listing, not yet delivered
    watcher,          \* each watcher: where it is, on which issue, the count it read
    timedOut,         \* the stale claims checkTimeouts collected
    loop              \* the Run loop: where it is, on which issue, the count it has

forgeVars == <<open, labels, acts, faults, crashes>>
memory    == <<claimed, stale, failures, memFailures>>
pool      == <<queue, worker>>
listing   == <<known, todo, closings>>
sweep     == <<timedOut, loop>>
vars == <<forgeVars, persisted, memory, budgetOpen, pool, listing, watcher, sweep>>

Labels == {"queued", "claimed", "needs-human", "needs-qc"}
Numbers == {i.number : i \in Issues}
InRepo(r) == {i \in Issues : i.repo = r}

IdleWorker == [pc |-> "idle", issue |-> NoIssue, outcome |-> "none"]
Disconnected == [pc |-> "disconnected", issue |-> NoIssue, count |-> 0]
Ready == [pc |-> "ready", issue |-> NoIssue, count |-> 0]
Selecting == [pc |-> "select", issue |-> NoIssue, count |-> 0]

WorkerStates == {"idle", "starting", "running", "unlabel", "clear", "qc",
                 "record", "decide", "requeue", "give-up", "escalate"}
WatcherStates == {"disconnected", "ready", "human", "unqueue", "label", "read",
                  "claim", "session", "submit", "give-up", "escalate", "clear"}
LoopStates == {"select", "next", "record", "read", "unlabel", "requeue", "escalate"}

TypeOK ==
    /\ open \subseteq Issues
    /\ labels \in [Issues -> SUBSET Labels]
    /\ acts \in 0..MaxActs /\ faults \in 0..MaxFaults /\ crashes \in 0..MaxCrashes
    /\ persisted \in [Numbers -> Nat]
    /\ claimed \subseteq Issues /\ stale \subseteq claimed
    /\ failures \in [Issues -> Nat] /\ memFailures \in [Issues -> Nat]
    /\ budgetOpen \in BOOLEAN
    /\ queue \in Seq(Issues)
    /\ worker \in [Workers -> [pc : WorkerStates, issue : Issues \cup {NoIssue},
                               outcome : Outcomes \cup {"none"}]]
    /\ known \subseteq Issues
    /\ todo \subseteq [issue : Issues, labels : SUBSET Labels]
    /\ closings \subseteq Issues
    /\ watcher \in [Repos -> [pc : WatcherStates, issue : Issues \cup {NoIssue},
                              count : Nat]]
    /\ timedOut \subseteq Issues
    /\ loop \in [pc : LoopStates, issue : Issues \cup {NoIssue}, count : Nat]

Memoryless ==
    /\ claimed = {} /\ stale = {}
    /\ failures = [i \in Issues |-> 0] /\ memFailures = [i \in Issues |-> 0]
    /\ budgetOpen = FALSE
    /\ queue = <<>> /\ worker = [w \in Workers |-> IdleWorker]
    /\ known = {} /\ todo = {} /\ closings = {}
    /\ watcher = [r \in Repos |-> Disconnected]
    /\ timedOut = {} /\ loop = Selecting

Init ==
    /\ open \in SUBSET Issues
    /\ labels = [i \in Issues |-> {"queued"}]
    /\ acts = 0 /\ faults = 0 /\ crashes = 0
    /\ persisted = [n \in Numbers |-> 0]
    /\ Memoryless

(***************************************************************************)
(* Forge calls.  A call that the code only logs when it fails either takes *)
(* effect or is the next fault.                                            *)
(***************************************************************************)
MayFail == faults + crashes < MaxMishaps

Fault == MayFail /\ faults < MaxFaults /\ faults' = faults + 1 /\ UNCHANGED labels

Relabel(i, new) == labels' = [labels EXCEPT ![i] = new] /\ UNCHANGED faults

AddLabel(i, l) == Relabel(i, labels[i] \cup {l}) \/ Fault
RemoveLabel(i, l) == Relabel(i, labels[i] \ {l}) \/ Fault

(***************************************************************************)
(* People: open or reopen an issue, close it, send it back to the queue,   *)
(* take it over.                                                           *)
(***************************************************************************)
Person ==
    /\ acts < MaxActs
    /\ acts' = acts + 1
    /\ UNCHANGED <<faults, crashes, persisted, memory, budgetOpen, pool,
                   listing, watcher, sweep>>

Open(i)  == i \notin open /\ open' = open \cup {i} /\ UNCHANGED labels
Close(i) == i \in open /\ open' = open \ {i} /\ UNCHANGED labels

SendBack(i) ==
    /\ i \in open /\ labels[i] \cap {"needs-human", "needs-qc"} # {}
    /\ labels' = [labels EXCEPT ![i] = (@ \ {"needs-human", "needs-qc"}) \cup {"queued"}]
    /\ UNCHANGED open

TakeOver(i) ==
    /\ i \in open /\ "needs-human" \notin labels[i]
    /\ labels' = [labels EXCEPT ![i] = @ \cup {"needs-human"}]
    /\ UNCHANGED open

PersonActs ==
    /\ Person
    /\ \E i \in Issues :
         \/ "open" \in Deeds /\ Open(i)
         \/ "close" \in Deeds /\ Close(i)
         \/ "send-back" \in Deeds /\ SendBack(i)
         \/ "take-over" \in Deeds /\ TakeOver(i)

(***************************************************************************)
(* Watch: the initial listing yields an Opened event for every queued      *)
(* issue, a poll one for every issue not known yet and a Closed event for  *)
(* every known issue that is gone.  Events carry the listing's labels.     *)
(***************************************************************************)
Snapshot(s) == {[issue |-> i, labels |-> labels[i]] : i \in s}
Pending(r) == \E e \in todo : e.issue.repo = r
Closing(r) == closings \cap InRepo(r)
At(r, label) == watcher[r].pc = label

Connect(r) ==
    /\ At(r, "disconnected")
    /\ known' = known \cup (open \cap InRepo(r))
    /\ todo' = todo \cup Snapshot({i \in open \cap InRepo(r) : "queued" \in labels[i]})
    /\ watcher' = [watcher EXCEPT ![r] = Ready]
    /\ UNCHANGED <<forgeVars, persisted, memory, budgetOpen, pool, closings, sweep>>

Poll(r) ==
    LET here == open \cap InRepo(r)
        gone == (known \cap InRepo(r)) \ open
    IN  /\ At(r, "ready") /\ ~Pending(r) /\ Closing(r) = {}
        /\ here \ known # {} \/ gone # {}
        /\ todo' = todo \cup Snapshot(here \ known)
        /\ closings' = closings \cup gone
        /\ known' = (known \cup here) \ gone
        /\ UNCHANGED <<forgeVars, persisted, memory, budgetOpen, pool, watcher, sweep>>

\* Stale detection cancels the watcher, which ends once its handlers returned.
Reconnect(r) ==
    /\ At(r, "ready") /\ ~Pending(r) /\ Closing(r) = {}
    /\ known' = known \ InRepo(r)
    /\ watcher' = [watcher EXCEPT ![r] = Disconnected]
    /\ UNCHANGED <<forgeVars, persisted, memory, budgetOpen, pool, todo, closings, sweep>>

(***************************************************************************)
(* handleOpened: the checks look at the listing's labels, then at the      *)
(* issue's frontmatter, dependencies and size.                             *)
(***************************************************************************)
WatcherGoto(r, label, i) ==
    watcher' = [watcher EXCEPT ![r] = [pc |-> label, issue |-> i, count |-> 0]]

Failed(i) == persisted' = [persisted EXCEPT ![i.number] = @ + 1]

Judge(r, i, verdict) ==
    CASE verdict = "invalid"        -> Failed(i) /\ WatcherGoto(r, "give-up", i)
      [] verdict = "undecomposable" -> Failed(i) /\ UNCHANGED watcher
      [] verdict = "human"          -> WatcherGoto(r, "human", i) /\ UNCHANGED persisted
      [] verdict = "agent" /\ ~budgetOpen
                                    -> WatcherGoto(r, "unqueue", i) /\ UNCHANGED persisted
      [] OTHER                      -> UNCHANGED <<watcher, persisted>>

Skipped(e) == e.labels \cap {"needs-human", "claimed"} # {}

HandleOpened(r) ==
    /\ At(r, "ready")
    /\ \E e \in todo :
         /\ e.issue.repo = r
         /\ todo' = todo \ {e}
         /\ IF Skipped(e)
              THEN UNCHANGED <<watcher, persisted>>
              ELSE \E v \in Verdicts : Judge(r, e.issue, v)
    /\ UNCHANGED <<forgeVars, memory, budgetOpen, pool, known, closings, sweep>>

\* escalate: drop the claimed label, add needs-human.
GiveUp(r) ==
    /\ At(r, "give-up")
    /\ RemoveLabel(watcher[r].issue, "claimed")
    /\ WatcherGoto(r, "escalate", watcher[r].issue)
    /\ UNCHANGED <<open, acts, crashes, persisted, memory, budgetOpen, pool, listing, sweep>>

LabelHuman(r) ==
    /\ At(r, "human") \/ At(r, "escalate")
    /\ AddLabel(watcher[r].issue, "needs-human")
    /\ watcher' = [watcher EXCEPT ![r] = Ready]
    /\ UNCHANGED <<open, acts, crashes, persisted, memory, budgetOpen, pool, listing, sweep>>

(***************************************************************************)
(* route, past its gates.                                                  *)
(***************************************************************************)
Unqueue(r) ==
    /\ At(r, "unqueue")
    /\ RemoveLabel(watcher[r].issue, "queued")
    /\ WatcherGoto(r, "label", watcher[r].issue)
    /\ UNCHANGED <<open, acts, crashes, persisted, memory, budgetOpen, pool, listing, sweep>>

\* Without its claimed label the issue is dropped: route returns the error.
LabelClaimed(r) ==
    LET i == watcher[r].issue IN
    /\ At(r, "label")
    /\ \/ Relabel(i, labels[i] \cup {"claimed"}) /\ WatcherGoto(r, "read", i)
       \/ Fault /\ watcher' = [watcher EXCEPT ![r] = Ready]
    /\ UNCHANGED <<open, acts, crashes, persisted, memory, budgetOpen, pool, listing, sweep>>

ReadPriorFailures(r) ==
    LET i == watcher[r].issue IN
    /\ At(r, "read")
    /\ watcher' = [watcher EXCEPT ![r] =
                     [pc |-> "claim", issue |-> i, count |-> persisted[i.number]]]
    /\ UNCHANGED <<forgeVars, persisted, memory, budgetOpen, pool, listing, sweep>>

Larger(a, b) == IF a > b THEN a ELSE b

Claim(r) ==
    LET i == watcher[r].issue IN
    /\ At(r, "claim")
    /\ claimed' = claimed \cup {i}
    /\ stale' = stale \ {i}
    /\ failures' = [failures EXCEPT ![i] = Larger(watcher[r].count, memFailures[i])]
    /\ WatcherGoto(r, "session", i)
    /\ UNCHANGED <<forgeVars, persisted, memFailures, budgetOpen, pool, listing, sweep>>

\* A session that cannot be saved leaves a claim without a task.
CreateSession(r) ==
    /\ At(r, "session")
    /\ \/ WatcherGoto(r, "submit", watcher[r].issue) /\ UNCHANGED <<labels, faults>>
       \/ Fault /\ watcher' = [watcher EXCEPT ![r] = Ready]
    /\ UNCHANGED <<open, acts, crashes, persisted, memory, budgetOpen, pool, listing, sweep>>

Submit(r) ==
    /\ At(r, "submit")
    /\ Len(queue) < QueueCap
    /\ queue' = Append(queue, watcher[r].issue)
    /\ watcher' = [watcher EXCEPT ![r] = Ready]
    /\ UNCHANGED <<forgeVars, persisted, memory, budgetOpen, worker, listing, sweep>>

(***************************************************************************)
(* handleClosed.                                                           *)
(***************************************************************************)
HandleClosed(r) ==
    /\ At(r, "ready") /\ ~Pending(r)
    /\ \E i \in Closing(r) :
         /\ closings' = closings \ {i}
         /\ claimed' = claimed \ {i} /\ stale' = stale \ {i}
         /\ failures' = [failures EXCEPT ![i] = 0]
         /\ memFailures' = [memFailures EXCEPT ![i] = 0]
         /\ WatcherGoto(r, "clear", i)
    /\ UNCHANGED <<forgeVars, persisted, budgetOpen, pool, known, todo, sweep>>

ClearClosed(r) ==
    /\ At(r, "clear")
    /\ persisted' = [persisted EXCEPT ![watcher[r].issue.number] = 0]
    /\ watcher' = [watcher EXCEPT ![r] = Ready]
    /\ UNCHANGED <<forgeVars, memory, budgetOpen, pool, listing, sweep>>

WatcherStep(r) ==
    \/ Connect(r) \/ Poll(r) \/ HandleOpened(r) \/ GiveUp(r) \/ LabelHuman(r)
    \/ Unqueue(r) \/ LabelClaimed(r) \/ ReadPriorFailures(r) \/ Claim(r)
    \/ CreateSession(r) \/ Submit(r)
    \/ HandleClosed(r) \/ ClearClosed(r)

(***************************************************************************)
(* The pool: a worker takes a task, runs it, and reports its end to        *)
(* handleTaskComplete.  The runner heartbeats as soon as it calls the      *)
(* provider and until the task ends; the heartbeat refreshes whatever      *)
(* claim there is for the issue.                                           *)
(***************************************************************************)
On(w, label) == worker[w].pc = label

WorkerGoto(w, label) == worker' = [worker EXCEPT ![w].pc = label]

Start(w) ==
    /\ On(w, "idle") /\ queue # <<>>
    /\ worker' = [worker EXCEPT ![w] =
                    [pc |-> "starting", issue |-> Head(queue), outcome |-> "none"]]
    /\ queue' = Tail(queue)
    /\ UNCHANGED <<forgeVars, persisted, memory, budgetOpen, listing, watcher, sweep>>

Heartbeat(w) ==
    /\ On(w, "starting")
    /\ stale' = stale \ {worker[w].issue}
    /\ WorkerGoto(w, "running")
    /\ UNCHANGED <<forgeVars, persisted, claimed, failures, memFailures, budgetOpen,
                   queue, listing, watcher, sweep>>

Complete(w) ==
    LET i == worker[w].issue IN
    /\ On(w, "starting") \/ On(w, "running")
    /\ \E o \in Outcomes :
         /\ worker' = [worker EXCEPT ![w].pc = "unlabel", ![w].outcome = o]
         /\ memFailures' = IF o = "success" THEN [memFailures EXCEPT ![i] = 0]
                                            ELSE memFailures
    /\ claimed' = claimed \ {i} /\ stale' = stale \ {i}
    /\ failures' = [failures EXCEPT ![i] = 0]
    /\ UNCHANGED <<forgeVars, persisted, budgetOpen, queue, listing, watcher, sweep>>

\* Fault: the claimed label stays.
UnlabelNothing(w) ==
    /\ On(w, "unlabel")
    /\ WorkerGoto(w, IF worker[w].outcome = "success" THEN "clear" ELSE "record")
    /\ UNCHANGED <<forgeVars, persisted, memory, budgetOpen, queue, listing,
                   watcher, sweep>>

UnlabelCompleted(w) ==
    /\ On(w, "unlabel")
    /\ RemoveLabel(worker[w].issue, "claimed")
    /\ WorkerGoto(w, IF worker[w].outcome = "success" THEN "clear" ELSE "record")
    /\ UNCHANGED <<open, acts, crashes, persisted, memory, budgetOpen, queue, listing,
                   watcher, sweep>>

ClearSucceeded(w) ==
    /\ On(w, "clear")
    /\ persisted' = [persisted EXCEPT ![worker[w].issue.number] = 0]
    /\ WorkerGoto(w, "qc")
    /\ UNCHANGED <<forgeVars, memory, budgetOpen, queue, listing, watcher, sweep>>

LabelQC(w) ==
    /\ On(w, "qc")
    /\ AddLabel(worker[w].issue, "needs-qc")
    /\ worker' = [worker EXCEPT ![w] = IdleWorker]
    /\ UNCHANGED <<open, acts, crashes, persisted, memory, budgetOpen, queue, listing,
                   watcher, sweep>>

\* recordFailure: provider outages and shutdown kills do not count.
RecordFailure(w) ==
    /\ On(w, "record")
    /\ IF worker[w].outcome = "uncounted" THEN UNCHANGED persisted
                                          ELSE Failed(worker[w].issue)
    /\ budgetOpen' = (budgetOpen \/ worker[w].outcome = "budget")
    /\ WorkerGoto(w, "decide")
    /\ UNCHANGED <<forgeVars, memory, queue, listing, watcher, sweep>>

\* decideCorrection on the count read back from the store.
Hopeless(outcome, attempt) ==
    \/ outcome \in {"permanent", "budget"}
    \/ outcome = "counted" /\ attempt >= MaxRetryAttempts

Decide(w) ==
    /\ On(w, "decide")
    /\ WorkerGoto(w, IF Hopeless(worker[w].outcome, persisted[worker[w].issue.number])
                       THEN "give-up" ELSE "requeue")
    /\ UNCHANGED <<forgeVars, persisted, memory, budgetOpen, queue, listing, watcher, sweep>>

\* Fault: the failed task's issue is not put back in the queue.
RequeueNothing(w) ==
    /\ On(w, "requeue")
    /\ worker' = [worker EXCEPT ![w] = IdleWorker]
    /\ UNCHANGED <<forgeVars, persisted, memory, budgetOpen, queue, listing,
                   watcher, sweep>>

RequeueFailed(w) ==
    /\ On(w, "requeue")
    /\ AddLabel(worker[w].issue, "queued")
    /\ worker' = [worker EXCEPT ![w] = IdleWorker]
    /\ UNCHANGED <<open, acts, crashes, persisted, memory, budgetOpen, queue, listing,
                   watcher, sweep>>

GiveUpFailed(w) ==
    /\ On(w, "give-up")
    /\ RemoveLabel(worker[w].issue, "claimed")
    /\ WorkerGoto(w, "escalate")
    /\ UNCHANGED <<open, acts, crashes, persisted, memory, budgetOpen, queue, listing,
                   watcher, sweep>>

EscalateFailed(w) ==
    /\ On(w, "escalate")
    /\ AddLabel(worker[w].issue, "needs-human")
    /\ worker' = [worker EXCEPT ![w] = IdleWorker]
    /\ UNCHANGED <<open, acts, crashes, persisted, memory, budgetOpen, queue, listing,
                   watcher, sweep>>

WorkerStep(w) ==
    \/ Start(w) \/ Heartbeat(w) \/ Complete(w) \/ UnlabelCompleted(w)
    \/ ClearSucceeded(w) \/ LabelQC(w)
    \/ RecordFailure(w) \/ Decide(w) \/ RequeueFailed(w)
    \/ GiveUpFailed(w) \/ EscalateFailed(w)

(***************************************************************************)
(* Time passes: a claim goes stale when no runner heartbeats for it.       *)
(***************************************************************************)
Age(i) ==
    /\ i \in claimed \ stale
    /\ \A w \in Workers : ~(On(w, "running") /\ worker[w].issue = i)
    /\ stale' = stale \cup {i}
    /\ UNCHANGED <<forgeVars, persisted, claimed, failures, memFailures, budgetOpen,
                   pool, listing, watcher, sweep>>

(***************************************************************************)
(* The Run loop: checkTimeouts collects the stale claims under d.mu, then  *)
(* releases them one by one without looking at their heartbeat again.      *)
(***************************************************************************)
LoopAt(label) == loop.pc = label

NextTimedOut == IF timedOut = {} THEN Selecting ELSE [Selecting EXCEPT !.pc = "next"]

\* Fault: only claims whose task a worker has taken are looked at.
CheckTimeoutsOfTasks ==
    LET tasks == {i \in stale : \E w \in Workers : worker[w].issue = i} IN
    /\ LoopAt("select")
    /\ tasks # {}
    /\ timedOut' = tasks
    /\ loop' = [Selecting EXCEPT !.pc = "next"]
    /\ UNCHANGED <<forgeVars, persisted, memory, budgetOpen, pool, listing, watcher>>

CheckTimeouts ==
    /\ LoopAt("select")
    /\ stale # {}
    /\ timedOut' = stale
    /\ loop' = [Selecting EXCEPT !.pc = "next"]
    /\ UNCHANGED <<forgeVars, persisted, memory, budgetOpen, pool, listing, watcher>>

ReleaseTimedOut(i) ==
    /\ LoopAt("next") /\ i \in timedOut
    /\ timedOut' = timedOut \ {i}
    /\ IF i \notin claimed
         THEN /\ loop' = IF timedOut' = {} THEN Selecting ELSE loop
              /\ UNCHANGED memory
         ELSE /\ loop' = [pc |-> "record", issue |-> i, count |-> failures[i] + 1]
              /\ memFailures' = [memFailures EXCEPT ![i] = failures[i] + 1]
              /\ failures' = [failures EXCEPT ![i] = 0]
              /\ claimed' = claimed \ {i} /\ stale' = stale \ {i}
    /\ UNCHANGED <<forgeVars, persisted, budgetOpen, pool, listing, watcher>>

RecordTimeout ==
    /\ LoopAt("record")
    /\ Failed(loop.issue)
    /\ loop' = [loop EXCEPT !.pc = "read"]
    /\ UNCHANGED <<forgeVars, memory, budgetOpen, pool, listing, watcher, timedOut>>

ReadFailureCount ==
    LET i == loop.issue
        n == Larger(persisted[i.number], loop.count)
    IN  /\ LoopAt("read")
        /\ memFailures' = IF n > loop.count THEN [memFailures EXCEPT ![i] = n]
                                            ELSE memFailures
        /\ loop' = [loop EXCEPT !.pc = "unlabel", !.count = n]
        /\ UNCHANGED <<forgeVars, persisted, claimed, stale, failures, budgetOpen, pool,
                       listing, watcher, timedOut>>

UnlabelTimedOut ==
    /\ LoopAt("unlabel")
    /\ RemoveLabel(loop.issue, "claimed")
    /\ loop' = [loop EXCEPT !.pc = "requeue"]
    /\ UNCHANGED <<open, acts, crashes, persisted, memory, budgetOpen, pool, listing,
                   watcher, timedOut>>

\* Fault: one more attempt than the limit.
RequeueTimedOutLate ==
    /\ LoopAt("requeue")
    /\ AddLabel(loop.issue, "queued")
    /\ loop' = IF loop.count > MaxConsecutiveFailures
                 THEN [loop EXCEPT !.pc = "escalate"] ELSE NextTimedOut
    /\ UNCHANGED <<open, acts, crashes, persisted, memory, budgetOpen, pool, listing,
                   watcher, timedOut>>

RequeueTimedOut ==
    /\ LoopAt("requeue")
    /\ AddLabel(loop.issue, "queued")
    /\ loop' = IF loop.count >= MaxConsecutiveFailures
                 THEN [loop EXCEPT !.pc = "escalate"] ELSE NextTimedOut
    /\ UNCHANGED <<open, acts, crashes, persisted, memory, budgetOpen, pool, listing,
                   watcher, timedOut>>

EscalateTimedOut ==
    /\ LoopAt("escalate")
    /\ AddLabel(loop.issue, "needs-human")
    /\ loop' = NextTimedOut
    /\ UNCHANGED <<open, acts, crashes, persisted, memory, budgetOpen, pool, listing,
                   watcher, timedOut>>

LoopStep ==
    \/ CheckTimeouts \/ \E i \in Issues : ReleaseTimedOut(i)
    \/ RecordTimeout \/ ReadFailureCount
    \/ UnlabelTimedOut \/ RequeueTimedOut \/ EscalateTimedOut

(***************************************************************************)
(* A crash loses everything but the forge and the store.                   *)
(***************************************************************************)
Crash ==
    /\ MayFail /\ crashes < MaxCrashes
    /\ crashes' = crashes + 1
    /\ claimed' = {} /\ stale' = {}
    /\ failures' = [i \in Issues |-> 0] /\ memFailures' = [i \in Issues |-> 0]
    /\ budgetOpen' = FALSE
    /\ queue' = <<>> /\ worker' = [w \in Workers |-> IdleWorker]
    /\ known' = {} /\ todo' = {} /\ closings' = {}
    /\ watcher' = [r \in Repos |-> Disconnected]
    /\ timedOut' = {} /\ loop' = Selecting
    /\ UNCHANGED <<open, labels, acts, faults, persisted>>

Next ==
    \/ \E r \in Repos : WatcherStep(r) \/ Reconnect(r)
    \/ \E w \in Workers : WorkerStep(w)
    \/ \E i \in Issues : Age(i)
    \/ LoopStep
    \/ PersonActs
    \/ Crash

Spec == Init /\ [][Next]_vars

(***************************************************************************)
(* Fairness: every goroutine that can go on does (a task ends because its  *)
(* provider call has a deadline), time passes, and the ticker fires.       *)
(* Nothing is assumed about people, reconnects and crashes.                *)
(***************************************************************************)
Fairness ==
    /\ \A r \in Repos : WF_vars(WatcherStep(r))
    /\ \A w \in Workers : WF_vars(WorkerStep(w))
    /\ \A i \in Issues : WF_vars(Age(i))
    /\ WF_vars(LoopStep)

FairSpec == Spec /\ Fairness

(***************************************************************************)
(* Properties.                                                             *)
(***************************************************************************)
\* Who still has to act on an issue: its watcher, a task in the pool, the sweep.
Handled(i) ==
    \/ watcher[i.repo].issue = i
    \/ \E n \in 1..Len(queue) : queue[n] = i
    \/ \E w \in Workers : worker[w].issue = i
    \/ loop.issue = i

\* Over every interleaving of routing, completion, release and closing, the
\* claimed label never outlives the work: where the label is, either the issue
\* is claimed (and will be released) or a goroutine is on its way to remove it.
NoOrphanedLabel ==
    \A i \in Issues : "claimed" \in labels[i] => i \in claimed \/ Handled(i)

\* No issue falls out of the pipeline between the RemoveLabel and the AddLabel of
\* two goroutines: an issue nobody is working on shows a label that says what
\* happens next.
NoIssueDropped == \A i \in Issues : labels[i] = {} => Handled(i)

\* An issue whose counted failures reached both limits, by timeouts, by failed
\* tasks or by a mixture, waits for a human.
EscalatedAtLimit ==
    \A i \in Issues :
        persisted[i.number] >= Larger(MaxConsecutiveFailures, MaxRetryAttempts)
            => "needs-human" \in labels[i] \/ Handled(i)

\* Every claim ends, even if its session could not be created, its task waits
\* behind others or the issue is closed.
ClaimsEnd == \A i \in Issues : i \in claimed ~> i \notin claimed

\* The claimed label comes off again, even if the claim was released while its
\* task ran, as long as the process lives and no forge call has failed.
ClaimedLabelComesOff ==
    \A i \in Issues :
        "claimed" \in labels[i] ~> "claimed" \notin labels[i] \/ faults + crashes > 0
=============================================================================
