----------------------------- MODULE ForgeWatch -----------------------------
(***************************************************************************)
(* How the dispatcher learns what happens on the forges: one Watch         *)
(* goroutine per tracker (src/internal/forge/gitea/gitea.go) that lists    *)
(* the open issues, compares the listing with the one before and calls     *)
(* handleEvent for each difference, and the supervision of these           *)
(* goroutines in Dispatcher.Run (src/internal/dispatcher/dispatcher.go):   *)
(* restart with backoff after a failure, forced reconnect when no event    *)
(* has come for a long time, exit after too many failures.                 *)
(*                                                                         *)
(* A listing with its events is one action here; ClaimLifecycle models     *)
(* what happens between the events.  Time is abstracted: "silent" says     *)
(* that the last event is older than the stale threshold, a failure leaves *)
(* the failure window at some time.                                        *)
(***************************************************************************)
EXTENDS Integers, Sequences, FiniteSets

CONSTANTS
    Repos,            \* the registered trackers
    Issues,           \* records [repo, number]
    MaxWatcherFailures,   \* maxConsecutiveWatcherFailures
    MaxBackoff,           \* doublings until maxWatcherBackoff
    MaxStalePeriods,      \* maxStalePeriodsBeforeReconnect
    MaxChanges,       \* bound: changes made to issues from outside
    MaxOutages        \* bound: initial listings that fail

ASSUME WatchAssumption ==
    /\ \A i \in Issues : i.repo \in Repos
    /\ MaxWatcherFailures \in Nat \ {0} /\ MaxBackoff \in Nat
    /\ MaxStalePeriods \in Nat \ {0}
    /\ MaxChanges \in Nat /\ MaxOutages \in Nat

VARIABLES
    status,           \* the forge: each issue's state and labels
    changes, outages, \* the bounded counters
    known,            \* each Watch's map of the issues it has seen open
    watch,            \* where the Watch goroutine of each tracker is
    cancelled,        \* its context has been cancelled
    errCh,            \* how Watch goroutines ended, for Run
    timers,           \* backoff timers that have not fired
    restartCh,        \* trackers whose backoff is over
    failures,         \* recent failures of each watcher
    backoff,          \* how often its backoff has doubled
    silent,           \* no event for stalePollMultiplier check intervals
    stalePeriods,     \* stale ticks in a row
    exited,           \* Run has returned an error
    offered           \* history: queued issues handed to handleOpened since queued

env     == <<status, changes, outages>>
watcher == <<known, watch, cancelled>>
channel == <<errCh, timers, restartCh>>
restart == <<failures, backoff, exited>>
silence == <<silent, stalePeriods>>
vars == <<env, watcher, channel, restart, silence, offered>>

\* An open issue shows status:queued, another label, or yet another.
OpenStatus == {"queued", "claimed", "labelled"}
Status == OpenStatus \cup {"closed"}

Of(r) == {i \in Issues : i.repo = r}
Listed(r) == {i \in Of(r) : status[i] # "closed"}
Count(s, x) == Cardinality({n \in 1..Len(s) : s[n] = x})
Ended(r) == Cardinality({n \in 1..Len(errCh) : errCh[n].repo = r})

TypeOK ==
    /\ status \in [Issues -> Status]
    /\ changes \in 0..MaxChanges /\ outages \in 0..MaxOutages
    /\ known \in [Issues -> OpenStatus \cup {"unknown"}]
    /\ watch \in [Repos -> {"none", "loading", "polling"}]
    /\ cancelled \in [Repos -> BOOLEAN]
    /\ errCh \in Seq([repo : Repos, cause : {"cancelled", "failed"}])
    /\ timers \in [Repos -> Nat]
    /\ restartCh \in Seq(Repos)
    /\ failures \in [Repos -> 0..MaxWatcherFailures]
    /\ backoff \in [Repos -> 0..MaxBackoff]
    /\ silent \in BOOLEAN /\ stalePeriods \in 0..(MaxStalePeriods - 1)
    /\ exited \in BOOLEAN
    /\ offered \subseteq Issues

Init ==
    /\ status \in [Issues -> {"queued", "closed"}]
    /\ changes = 0 /\ outages = 0
    /\ known = [i \in Issues |-> "unknown"]
    /\ watch = [r \in Repos |-> "loading"]
    /\ cancelled = [r \in Repos |-> FALSE]
    /\ errCh = <<>> /\ timers = [r \in Repos |-> 0] /\ restartCh = <<>>
    /\ failures = [r \in Repos |-> 0] /\ backoff = [r \in Repos |-> 0]
    /\ silent = FALSE /\ stalePeriods = 0
    /\ exited = FALSE
    /\ offered = {}

(***************************************************************************)
(* Outside: issues are opened, closed, put back in the queue (by a         *)
(* correction, a timeout, an unblocked dependency, a person) or relabelled.*)
(***************************************************************************)
Change(i) ==
    /\ changes < MaxChanges
    /\ changes' = changes + 1
    /\ \E s \in Status \ {status[i]} : status' = [status EXCEPT ![i] = s]
    /\ offered' = offered \ {i}
    /\ UNCHANGED <<outages, watcher, channel, restart, silence>>

Relabel(i) ==
    /\ changes < MaxChanges
    /\ changes' = changes + 1
    /\ status[i] \in {"claimed", "labelled"}
    /\ status' = [status EXCEPT ![i] = IF @ = "claimed" THEN "labelled" ELSE "claimed"]
    /\ UNCHANGED <<outages, watcher, channel, restart, silence, offered>>

(***************************************************************************)
(* Watch.  handleOpened routes a queued issue or leaves it queued (budget, *)
(* health and phase gates); the map keeps the listing's labels, so the     *)
(* dispatcher's own relabelling comes back as a Labeled event.  Labeled    *)
(* events carry no label name, hence handleLabeled returns at once: all    *)
(* they do is count as a sign of life.                                     *)
(***************************************************************************)
Opened(s) ==
    /\ offered' = offered \cup s
    /\ \E routed \in SUBSET {i \in s : status[i] = "queued"} :
         status' = [i \in Issues |-> IF i \in routed THEN "claimed" ELSE status[i]]

Remember(r) ==
    known' = [i \in Issues |-> IF i \notin Of(r) THEN known[i]
                               ELSE IF i \in Listed(r) THEN status[i] ELSE "unknown"]

SignOfLife(events) == silent' = (silent /\ events = {})

Load(r) ==
    LET queued == {i \in Listed(r) : status[i] = "queued"} IN
    /\ watch[r] = "loading"
    /\ Remember(r)
    /\ Opened(queued)
    /\ SignOfLife(queued)
    /\ watch' = [watch EXCEPT ![r] = "polling"]
    /\ UNCHANGED <<changes, outages, cancelled, channel, restart, stalePeriods>>

Poll(r) ==
    LET new     == {i \in Listed(r) : known[i] = "unknown"}
        changed == {i \in Listed(r) \ new : known[i] # status[i]}
        gone    == {i \in Of(r) \ Listed(r) : known[i] # "unknown"}
    IN  /\ watch[r] = "polling"
        /\ new \cup changed \cup gone # {}
        /\ Remember(r)
        /\ offered' = offered \cup new
        /\ \E routed \in SUBSET {i \in new : status[i] = "queued"} :
             status' = [i \in Issues |-> IF i \in routed THEN "claimed" ELSE status[i]]
        /\ SignOfLife(new \cup changed \cup gone)
        /\ UNCHANGED <<changes, outages, watch, cancelled, channel, restart, stalePeriods>>

WatchEnds(r, cause) ==
    /\ Len(errCh) < Cardinality(Repos)
    /\ errCh' = Append(errCh, [repo |-> r, cause |-> cause])
    /\ watch' = [watch EXCEPT ![r] = "none"]
    /\ UNCHANGED <<status, changes, known, cancelled, timers, restartCh, restart,
                   silence, offered>>

\* Only the initial listing can fail; a failed poll is tried again.
LoadFails(r) ==
    /\ watch[r] = "loading"
    /\ ~cancelled[r]
    /\ outages < MaxOutages
    /\ outages' = outages + 1
    /\ WatchEnds(r, "failed")

CancelSeen(r) ==
    /\ watch[r] # "none"
    /\ cancelled[r]
    /\ UNCHANGED outages
    /\ WatchEnds(r, "cancelled")

WatchStep(r) == Load(r) \/ Poll(r) \/ CancelSeen(r)

(***************************************************************************)
(* Run.                                                                    *)
(***************************************************************************)
StartWatcher(r) ==
    /\ watch' = [watch EXCEPT ![r] = "loading"]
    /\ cancelled' = [cancelled EXCEPT ![r] = FALSE]

\* Fault: the cancelled watcher is not started again.
HandleCancelledOnly ==
    /\ ~exited /\ errCh # <<>> /\ Head(errCh).cause = "cancelled"
    /\ errCh' = Tail(errCh)
    /\ backoff' = [backoff EXCEPT ![Head(errCh).repo] = 0]
    /\ UNCHANGED <<env, watcher, timers, restartCh, failures, exited, silence, offered>>

HandleCancelled ==
    /\ ~exited /\ errCh # <<>> /\ Head(errCh).cause = "cancelled"
    /\ errCh' = Tail(errCh)
    /\ backoff' = [backoff EXCEPT ![Head(errCh).repo] = 0]
    /\ StartWatcher(Head(errCh).repo)
    /\ UNCHANGED <<env, known, timers, restartCh, failures, exited, silence, offered>>

TooMany(r) == failures[r] + 1 >= MaxWatcherFailures

\* Fault: the failed watcher is started at once and again after its backoff.
HandleFailedTwice ==
    LET r == Head(errCh).repo IN
    /\ ~exited /\ errCh # <<>> /\ Head(errCh).cause = "failed"
    /\ errCh' = Tail(errCh)
    /\ failures' = [failures EXCEPT ![r] = @ + 1]
    /\ IF TooMany(r)
         THEN exited' = TRUE /\ UNCHANGED <<timers, backoff, watch, cancelled>>
         ELSE /\ timers' = [timers EXCEPT ![r] = @ + 1]
              /\ backoff' = [backoff EXCEPT ![r] = IF @ = MaxBackoff THEN @ ELSE @ + 1]
              /\ StartWatcher(r)
              /\ UNCHANGED exited
    /\ UNCHANGED <<env, known, restartCh, silence, offered>>

HandleFailed ==
    LET r == Head(errCh).repo IN
    /\ ~exited /\ errCh # <<>> /\ Head(errCh).cause = "failed"
    /\ errCh' = Tail(errCh)
    /\ failures' = [failures EXCEPT ![r] = @ + 1]
    /\ IF TooMany(r)
         THEN exited' = TRUE /\ UNCHANGED <<timers, backoff>>
         ELSE /\ timers' = [timers EXCEPT ![r] = @ + 1]
              /\ backoff' = [backoff EXCEPT ![r] = IF @ = MaxBackoff THEN @ ELSE @ + 1]
              /\ UNCHANGED exited
    /\ UNCHANGED <<env, watcher, restartCh, silence, offered>>

TimerFires(r) ==
    /\ timers[r] > 0
    /\ Len(restartCh) < Cardinality(Repos)
    /\ timers' = [timers EXCEPT ![r] = @ - 1]
    /\ restartCh' = Append(restartCh, r)
    /\ UNCHANGED <<env, watcher, errCh, restart, silence, offered>>

HandleRestart ==
    /\ ~exited /\ restartCh # <<>>
    /\ restartCh' = Tail(restartCh)
    /\ StartWatcher(Head(restartCh))
    /\ UNCHANGED <<env, known, errCh, timers, restart, silence, offered>>

\* Fault: staleness is noticed but nobody is reconnected.
TickWithoutReconnect ==
    /\ ~exited
    /\ IF silent /\ stalePeriods + 1 >= MaxStalePeriods
         THEN stalePeriods' = 0 /\ silent' = FALSE
         ELSE /\ stalePeriods' = IF silent THEN stalePeriods + 1 ELSE 0
              /\ UNCHANGED silent
    /\ UNCHANGED <<env, watcher, channel, restart, offered>>

\* The ticker: after enough stale periods every watcher is cancelled.
Tick ==
    /\ ~exited
    /\ IF silent /\ stalePeriods + 1 >= MaxStalePeriods
         THEN /\ stalePeriods' = 0
              /\ silent' = FALSE
              /\ cancelled' = [r \in Repos |-> TRUE]
         ELSE /\ stalePeriods' = IF silent THEN stalePeriods + 1 ELSE 0
              /\ UNCHANGED <<silent, cancelled>>
    /\ UNCHANGED <<env, known, watch, channel, restart, offered>>

RunStep == HandleCancelled \/ HandleFailed \/ HandleRestart

(***************************************************************************)
(* Time: without events the last one gets old, but not within the seconds  *)
(* a listing or a turn of Run's loop takes; failures leave the window.     *)
(***************************************************************************)
Silence ==
    /\ ~silent
    /\ errCh = <<>> /\ restartCh = <<>> /\ \A r \in Repos : watch[r] # "loading"
    /\ silent' = TRUE
    /\ UNCHANGED <<env, watcher, channel, restart, stalePeriods, offered>>

Forget(r) ==
    /\ failures[r] > 0 /\ ~exited
    /\ failures' = [failures EXCEPT ![r] = @ - 1]
    /\ UNCHANGED <<env, watcher, channel, backoff, exited, silence, offered>>

Next ==
    \/ \E i \in Issues : Change(i) \/ Relabel(i)
    \/ \E r \in Repos : WatchStep(r) \/ LoadFails(r) \/ TimerFires(r) \/ Forget(r)
    \/ RunStep \/ Tick \/ Silence

Spec == Init /\ [][Next]_vars

(***************************************************************************)
(* Fairness: goroutines run, the ticker and the timers fire, time passes.  *)
(* Nothing is assumed about the forge.                                     *)
(***************************************************************************)
Fairness ==
    /\ \A r \in Repos : WF_vars(WatchStep(r)) /\ WF_vars(TimerFires(r))
    /\ WF_vars(RunStep) /\ WF_vars(Tick) /\ WF_vars(Silence)

FairSpec == Spec /\ Fairness

(***************************************************************************)
(* Properties.                                                             *)
(***************************************************************************)
\* A tracker is always in exactly one place: watched by one goroutine, reported
\* on errCh, waiting for its backoff or on restartCh.  However failures, forced
\* reconnects and timers interleave, no tracker gets a second watcher (its issues
\* would be dispatched twice) and none is forgotten.
OneWatcherEach ==
    \A r \in Repos :
        ~exited => (IF watch[r] = "none" THEN 0 ELSE 1) + Ended(r) + timers[r]
                       + Count(restartCh, r) = 1

\* Unless Run gives up, every tracker is watched again and again.
WatchedAgain == \A r \in Repos : []<>(exited \/ watch[r] = "polling")

\* An issue that is put in the queue reaches handleOpened, at the latest after
\* the watchers were reconnected, if the forge comes to rest.
\* dispatcher.go:665-669: handleLabeled "handles issues re-queued at runtime ...
\* without requiring a dispatcher restart".
QueuedIsOffered ==
    \A i \in Issues :
        status[i] = "queued" ~> status[i] # "queued" \/ i \in offered \/ exited
=============================================================================
