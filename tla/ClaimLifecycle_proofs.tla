------------------------ MODULE ClaimLifecycle_proofs ------------------------
(***************************************************************************)
(* The life of claims, for any number of issues, repositories and workers, *)
(* any queue and any limits: type correctness, and, as long as no forge    *)
(* or store call has failed and the process has not died, that no claimed  *)
(* label is left behind, no issue is dropped, and an issue at its limits   *)
(* goes to a human.                                                        *)
(***************************************************************************)
EXTENDS ClaimLifecycle, TLAPS

WatcherRec == [pc : WatcherStates, issue : Issues \cup {NoIssue}, count : Nat]
WorkerRec == [pc : WorkerStates, issue : Issues \cup {NoIssue}, outcome : Outcomes \cup {"none"}]
LoopRec == [pc : LoopStates, issue : Issues \cup {NoIssue}, count : Nat]

(***************************************************************************)
(* An issue with the claimed label has a task: a watcher is about to hand  *)
(* one to the pool, it waits there, or a worker has it and will take the   *)
(* label off.                                                              *)
(***************************************************************************)
Tasking(a, i) == a.issue = i /\ a.pc \in {"read", "claim", "session", "submit"}
Working(b, i) == b.issue = i /\ b.pc \in {"starting", "running", "unlabel"}
Queued(i) == \E n \in 1..Len(queue) : queue[n] = i

Tasked(i) ==
    \/ \E r \in Repos : Tasking(watcher[r], i)
    \/ Queued(i)
    \/ \E w \in Workers : Working(worker[w], i)

(***************************************************************************)
(* An issue without a label is between two: a watcher, a worker or the Run *)
(* loop has taken one off and is going to put another on.                  *)
(***************************************************************************)
Routing(a, i) == a.issue = i /\ a.pc \in {"label", "escalate"}
Ending(b, i) ==
    /\ b.issue = i
    /\ b.pc \in {"clear", "qc", "record", "decide", "requeue", "give-up", "escalate"}
Requeueing(l, i) == l.issue = i /\ l.pc = "requeue"

Between(i) ==
    \/ \E r \in Repos : Routing(watcher[r], i)
    \/ \E w \in Workers : Ending(worker[w], i)
    \/ Requeueing(loop, i)

(***************************************************************************)
(* Who counted the failure that reached the limits is going to escalate:   *)
(* it decides by what the store says after its own failure was counted.    *)
(***************************************************************************)
Limit == Larger(MaxConsecutiveFailures, MaxRetryAttempts)

Refusing(a, i) == a.issue = i /\ a.pc \in {"give-up", "escalate"}
GivingUp(b, i) ==
    /\ b.issue = i
    /\ \/ b.pc = "decide" /\ b.outcome # "uncounted"
       \/ b.pc \in {"give-up", "escalate"}
Exhausting(l, i) ==
    /\ l.issue = i
    /\ \/ l.pc \in {"read", "escalate"}
       \/ l.pc \in {"unlabel", "requeue"} /\ l.count >= MaxConsecutiveFailures

Escalating(i) ==
    \/ \E r \in Repos : Refusing(watcher[r], i)
    \/ \E w \in Workers : GivingUp(worker[w], i)
    \/ Exhausting(loop, i)

LabelInv == \A i \in Issues : "claimed" \in labels[i] => Tasked(i)
DropInv == \A i \in Issues : labels[i] = {} => Between(i)
LimitInv ==
    \A i \in Issues : persisted[i.number] >= Limit => "needs-human" \in labels[i] \/ Escalating(i)

\* When the limits are kept: the store's key, the issue's number, says which issue is
\* meant, nobody sends an issue back from a human to the queue (its count would stay),
\* and handleOpened finds no issue that cannot be decomposed (it counts a failure each
\* time and leaves the issue queued).
Settled ==
    /\ \A i, j \in Issues : i.number = j.number => i = j
    /\ "send-back" \notin Deeds
    /\ "undecomposable" \notin Verdicts

\* As long as every call has succeeded and the process lives.
Undisturbed == faults = 0 /\ crashes = 0
SafeInv == Undisturbed => LabelInv /\ DropInv /\ (Settled => LimitInv)

\* Who works on something has an issue, a watcher one of its own repository, and who has
\* a failed task knows how it failed.
WatcherHas(r, a) == a.pc \notin {"disconnected", "ready"} => a.issue \in Issues /\ a.issue.repo = r
WorkerHas(b) ==
    /\ b.pc # "idle" => b.issue \in Issues
    /\ b.pc \in {"clear", "qc", "record", "decide", "requeue", "give-up", "escalate", "unlabel"} => b.outcome \in Outcomes
    /\ b.pc \in {"record", "decide"} => b.outcome # "success"
LoopHas(l) == l.pc \notin {"select", "next"} => l.issue \in Issues

PlaceInv ==
    /\ \A r \in Repos : WatcherHas(r, watcher[r])
    /\ \A w \in Workers : WorkerHas(worker[w])
    /\ LoopHas(loop)

IInv == TypeOK /\ PlaceInv /\ SafeInv

\* The variables other than who is where.
DataTyped ==
    /\ open \subseteq Issues
    /\ labels \in [Issues -> SUBSET Labels]
    /\ acts \in 0..MaxActs /\ faults \in 0..MaxFaults /\ crashes \in 0..MaxCrashes
    /\ persisted \in [Numbers -> Nat]
    /\ claimed \subseteq Issues /\ stale \subseteq claimed
    /\ failures \in [Issues -> Nat] /\ memFailures \in [Issues -> Nat]
    /\ budgetOpen \in BOOLEAN
    /\ queue \in Seq(Issues)
    /\ known \subseteq Issues
    /\ todo \subseteq [issue : Issues, labels : SUBSET Labels]
    /\ closings \subseteq Issues
    /\ timedOut \subseteq Issues

(***************************************************************************)
(* Who is where after a step.                                              *)
(***************************************************************************)

\* What the invariant says of data and of a goroutine.
LEMMA Facts ==
    ASSUME IInv
    PROVE  /\ DataTyped
           /\ watcher \in [Repos -> WatcherRec] /\ worker \in [Workers -> WorkerRec]
           /\ loop \in LoopRec
           /\ \A r \in Repos : WatcherHas(r, watcher[r])
           /\ \A w \in Workers : WorkerHas(worker[w])
           /\ LoopHas(loop)
BY DEF IInv, TypeOK, DataTyped, PlaceInv, WatcherRec, WorkerRec, LoopRec

\* A step of one watcher.
LEMMA WatcherKeeps ==
    ASSUME IInv, NEW r \in Repos, NEW a \in WatcherRec, watcher' = [watcher EXCEPT ![r] = a],
           WatcherHas(r, a), worker' = worker, loop' = loop, DataTyped', crashes' = crashes,
           \A i \in Issues : Queued(i) => Queued(i)',
           faults' = 0 =>
             /\ faults = 0
             /\ \A i \in Issues :
                  /\ "claimed" \in labels'[i] =>
                        \/ Tasking(a, i) \/ Queued(i)'
                        \/ "claimed" \in labels[i] /\ ~Tasking(watcher[r], i)
                  /\ labels'[i] = {} =>
                        \/ Routing(a, i)
                        \/ labels[i] = {} /\ ~Routing(watcher[r], i)
                  /\ Settled /\ persisted'[i.number] >= Limit =>
                        \/ "needs-human" \in labels'[i] \/ Refusing(a, i)
                        \/ /\ persisted[i.number] >= Limit /\ "needs-human" \notin labels[i]
                           /\ ~Refusing(watcher[r], i)
    PROVE  IInv'
<1>1. /\ watcher' \in [Repos -> WatcherRec] /\ watcher'[r] = a
      /\ \A q \in Repos : q # r => watcher'[q] = watcher[q]
  BY Facts
<1>2. TypeOK'
  BY <1>1, Facts DEF TypeOK, DataTyped, WatcherRec, WorkerRec, LoopRec
<1>3. PlaceInv'
  <2>1. \A q \in Repos : WatcherHas(q, watcher'[q])
    BY <1>1, Facts
  <2> QED
    BY <2>1, Facts DEF PlaceInv
<1>4. SafeInv'
  <2> SUFFICES ASSUME faults' = 0, crashes' = 0
               PROVE  LabelInv' /\ DropInv' /\ (Settled => LimitInv')
    BY DEF SafeInv, Undisturbed, Settled
  <2>1. LabelInv /\ DropInv /\ (Settled => LimitInv)
    BY DEF IInv, SafeInv, Undisturbed
  <2>2. ASSUME NEW i \in Issues, "claimed" \in labels'[i] PROVE Tasked(i)'
    <3>1. CASE Tasking(a, i) \/ Queued(i)'
      BY <1>1, <3>1 DEF Tasked
    <3>2. CASE "claimed" \in labels[i] /\ ~Tasking(watcher[r], i)
      BY <1>1, <2>1, <3>2 DEF LabelInv, Tasked
    <3> QED
      BY <2>2, <3>1, <3>2
  <2>3. ASSUME NEW i \in Issues, labels'[i] = {} PROVE Between(i)'
    <3>1. CASE Routing(a, i)
      BY <1>1, <3>1 DEF Between
    <3>2. CASE labels[i] = {} /\ ~Routing(watcher[r], i)
      BY <1>1, <2>1, <3>2 DEF DropInv, Between
    <3> QED
      BY <2>3, <3>1, <3>2
  <2>4. ASSUME Settled, NEW i \in Issues, persisted'[i.number] >= Limit
        PROVE  "needs-human" \in labels'[i] \/ Escalating(i)'
    <3>1. CASE Refusing(a, i)
      BY <1>1, <3>1 DEF Escalating
    <3>2. CASE /\ persisted[i.number] >= Limit /\ "needs-human" \notin labels[i]
               /\ ~Refusing(watcher[r], i)
      BY <1>1, <2>1, <2>4, <3>2 DEF LimitInv, Escalating
    <3> QED
      BY <2>4, <3>1, <3>2
  <2> QED
    BY <2>2, <2>3, <2>4 DEF LabelInv, DropInv, LimitInv, Limit
<1> QED
  BY <1>2, <1>3, <1>4 DEF IInv

\* A step of one worker.
LEMMA WorkerKeeps ==
    ASSUME IInv, NEW w \in Workers, NEW b \in WorkerRec, worker' = [worker EXCEPT ![w] = b],
           WorkerHas(b), watcher' = watcher, loop' = loop, DataTyped', crashes' = crashes,
           \A i \in Issues : Queued(i) => Queued(i)' \/ Working(b, i),
           faults' = 0 =>
             /\ faults = 0
             /\ \A i \in Issues :
                  /\ "claimed" \in labels'[i] =>
                        \/ Working(b, i)
                        \/ "claimed" \in labels[i] /\ ~Working(worker[w], i)
                  /\ labels'[i] = {} =>
                        \/ Ending(b, i)
                        \/ labels[i] = {} /\ ~Ending(worker[w], i)
                  /\ Settled /\ persisted'[i.number] >= Limit =>
                        \/ "needs-human" \in labels'[i] \/ GivingUp(b, i)
                        \/ /\ persisted[i.number] >= Limit /\ "needs-human" \notin labels[i]
                           /\ ~GivingUp(worker[w], i)
    PROVE  IInv'
<1>1. /\ worker' \in [Workers -> WorkerRec] /\ worker'[w] = b
      /\ \A q \in Workers : q # w => worker'[q] = worker[q]
  BY Facts
<1>2. TypeOK'
  BY <1>1, Facts DEF TypeOK, DataTyped, WatcherRec, WorkerRec, LoopRec
<1>3. PlaceInv'
  <2>1. \A q \in Workers : WorkerHas(worker'[q])
    BY <1>1, Facts
  <2> QED
    BY <2>1, Facts DEF PlaceInv
<1>4. SafeInv'
  <2> SUFFICES ASSUME faults' = 0, crashes' = 0
               PROVE  LabelInv' /\ DropInv' /\ (Settled => LimitInv')
    BY DEF SafeInv, Undisturbed, Settled
  <2>1. LabelInv /\ DropInv /\ (Settled => LimitInv)
    BY DEF IInv, SafeInv, Undisturbed
  <2>2. ASSUME NEW i \in Issues, "claimed" \in labels'[i] PROVE Tasked(i)'
    <3>1. CASE Working(b, i)
      BY <1>1, <3>1 DEF Tasked
    <3>2. CASE "claimed" \in labels[i] /\ ~Working(worker[w], i)
      BY <1>1, <2>1, <3>1, <3>2 DEF LabelInv, Tasked
    <3> QED
      BY <2>2, <3>1, <3>2
  <2>3. ASSUME NEW i \in Issues, labels'[i] = {} PROVE Between(i)'
    <3>1. CASE Ending(b, i)
      BY <1>1, <3>1 DEF Between
    <3>2. CASE labels[i] = {} /\ ~Ending(worker[w], i)
      BY <1>1, <2>1, <3>2 DEF DropInv, Between
    <3> QED
      BY <2>3, <3>1, <3>2
  <2>4. ASSUME Settled, NEW i \in Issues, persisted'[i.number] >= Limit
        PROVE  "needs-human" \in labels'[i] \/ Escalating(i)'
    <3>1. CASE GivingUp(b, i)
      BY <1>1, <3>1 DEF Escalating
    <3>2. CASE /\ persisted[i.number] >= Limit /\ "needs-human" \notin labels[i]
               /\ ~GivingUp(worker[w], i)
      BY <1>1, <2>1, <2>4, <3>2 DEF LimitInv, Escalating
    <3> QED
      BY <2>4, <3>1, <3>2
  <2> QED
    BY <2>2, <2>3, <2>4 DEF LabelInv, DropInv, LimitInv, Limit
<1> QED
  BY <1>2, <1>3, <1>4 DEF IInv

\* A step of the Run loop, of a person or of the clock.
LEMMA LoopKeeps ==
    ASSUME IInv, loop' \in LoopRec, LoopHas(loop'), watcher' = watcher, worker' = worker,
           queue' = queue, DataTyped', crashes' = crashes,
           faults' = 0 =>
             /\ faults = 0
             /\ \A i \in Issues :
                  /\ "claimed" \in labels'[i] => "claimed" \in labels[i]
                  /\ labels'[i] = {} =>
                        \/ Requeueing(loop', i)
                        \/ labels[i] = {} /\ ~Requeueing(loop, i)
                  /\ Settled /\ persisted'[i.number] >= Limit =>
                        \/ "needs-human" \in labels'[i] \/ Exhausting(loop', i)
                        \/ /\ persisted[i.number] >= Limit /\ "needs-human" \notin labels[i]
                           /\ ~Exhausting(loop, i)
    PROVE  IInv'
<1>1. TypeOK'
  BY Facts DEF TypeOK, DataTyped, WatcherRec, WorkerRec, LoopRec
<1>2. PlaceInv'
  BY Facts DEF PlaceInv
<1>3. SafeInv'
  <2> SUFFICES ASSUME faults' = 0, crashes' = 0
               PROVE  LabelInv' /\ DropInv' /\ (Settled => LimitInv')
    BY DEF SafeInv, Undisturbed, Settled
  <2>1. LabelInv /\ DropInv /\ (Settled => LimitInv)
    BY DEF IInv, SafeInv, Undisturbed
  <2>2. LabelInv'
    BY <2>1 DEF LabelInv, Tasked, Queued
  <2>3. DropInv'
    BY <2>1 DEF DropInv, Between
  <2>4. ASSUME Settled, NEW i \in Issues, persisted'[i.number] >= Limit
        PROVE  "needs-human" \in labels'[i] \/ Escalating(i)'
    BY <2>1, <2>4 DEF LimitInv, Escalating
  <2> QED
    BY <2>2, <2>3, <2>4 DEF LimitInv, Limit
<1> QED
  BY <1>1, <1>2, <1>3 DEF IInv

(***************************************************************************)
(* Calls to the forge and the store.                                       *)
(***************************************************************************)

\* A label is put on, or the call is the next fault.
LEMMA Labelled ==
    ASSUME DataTyped, NEW i \in Issues, NEW l \in Labels, AddLabel(i, l)
    PROVE  /\ labels' \in [Issues -> SUBSET Labels] /\ faults' \in 0..MaxFaults
           /\ faults' = 0 => /\ faults = 0
                             /\ \A j \in Issues : labels'[j] = IF j = i THEN labels[i] \cup {l}
                                                                        ELSE labels[j]
<1>1. labels \in [Issues -> SUBSET Labels] /\ faults \in 0..MaxFaults /\ MaxFaults \in Nat
  BY ClaimAssumption DEF DataTyped
<1>2. CASE Relabel(i, labels[i] \cup {l})
  BY <1>1, <1>2 DEF Relabel
<1>3. CASE Fault
  BY <1>1, <1>3 DEF Fault
<1> QED
  BY <1>2, <1>3 DEF AddLabel

\* A label is taken off, or the call is the next fault.
LEMMA Unlabelled ==
    ASSUME DataTyped, NEW i \in Issues, NEW l \in Labels, RemoveLabel(i, l)
    PROVE  /\ labels' \in [Issues -> SUBSET Labels] /\ faults' \in 0..MaxFaults
           /\ faults' = 0 => /\ faults = 0
                             /\ \A j \in Issues : labels'[j] = IF j = i THEN labels[i] \ {l}
                                                                        ELSE labels[j]
<1>1. labels \in [Issues -> SUBSET Labels] /\ faults \in 0..MaxFaults /\ MaxFaults \in Nat
  BY ClaimAssumption DEF DataTyped
<1>2. CASE Relabel(i, labels[i] \ {l})
  BY <1>1, <1>2 DEF Relabel
<1>3. CASE Fault
  BY <1>1, <1>3 DEF Fault
<1> QED
  BY <1>2, <1>3 DEF RemoveLabel

\* A failed call of a step that stops when its call fails.
LEMMA Faulted ==
    ASSUME DataTyped, Fault
    PROVE  /\ labels' \in [Issues -> SUBSET Labels] /\ faults' \in 0..MaxFaults /\ faults' # 0
BY ClaimAssumption DEF DataTyped, Fault

\* A failure is counted under the issue's number.
LEMMA Counted ==
    ASSUME DataTyped, NEW i \in Issues, Failed(i)
    PROVE  /\ persisted' \in [Numbers -> Nat]
           /\ Settled => \A j \in Issues : persisted'[j.number] =
                            IF j = i THEN persisted[i.number] + 1 ELSE persisted[j.number]
<1>1. persisted \in [Numbers -> Nat] /\ \A j \in Issues : j.number \in Numbers
  BY DEF DataTyped, Numbers
<1>2. \A n \in Numbers : persisted'[n] = IF n = i.number THEN persisted[n] + 1 ELSE persisted[n]
  BY <1>1 DEF Failed
<1>3. persisted' \in [Numbers -> Nat]
  BY <1>1 DEF Failed
<1> QED
  BY <1>1, <1>2, <1>3 DEF Settled

\* The count of an issue is cleared.
LEMMA Cleared ==
    ASSUME DataTyped, NEW i \in Issues, persisted' = [persisted EXCEPT ![i.number] = 0]
    PROVE  /\ persisted' \in [Numbers -> Nat]
           /\ \A j \in Issues : persisted'[j.number] \in {0, persisted[j.number]}
<1>1. persisted \in [Numbers -> Nat] /\ \A j \in Issues : j.number \in Numbers
  BY DEF DataTyped, Numbers
<1>2. \A n \in Numbers : persisted'[n] = IF n = i.number THEN 0 ELSE persisted[n]
  BY <1>1
<1> QED
  BY <1>1, <1>2

\* The limits of the dispatcher and of the corrections, and the larger of the two.
LEMMA LimitFacts ==
    /\ Limit \in Nat \ {0} /\ MaxConsecutiveFailures \in Nat /\ MaxRetryAttempts \in Nat
    /\ Limit >= MaxConsecutiveFailures /\ Limit >= MaxRetryAttempts
BY ClaimAssumption DEF Limit, Larger

\* The records of goroutines with nothing to do.
LEMMA IdleFacts ==
    /\ Ready \in WatcherRec /\ Disconnected \in WatcherRec
    /\ IdleWorker \in WorkerRec /\ Selecting \in LoopRec
    /\ Ready.pc = "ready" /\ Disconnected.pc = "disconnected"
    /\ IdleWorker.pc = "idle" /\ Selecting.pc = "select"
BY DEF Ready, Disconnected, IdleWorker, Selecting, WatcherRec, WorkerRec, LoopRec,
       WatcherStates, WorkerStates, LoopStates

(***************************************************************************)
(* The watchers' steps.                                                    *)
(***************************************************************************)

\* A watcher and where it is going.
LEMMA Going ==
    ASSUME NEW r \in Repos, NEW label \in WatcherStates, NEW i \in Issues, i.repo = r
    PROVE  LET a == [pc |-> label, issue |-> i, count |-> 0]
           IN  a \in WatcherRec /\ WatcherHas(r, a) /\ a.pc = label /\ a.issue = i
BY DEF WatcherRec, WatcherHas

\* The same of a watcher that goes there.
LEMMA Goes ==
    ASSUME NEW r \in Repos, NEW label \in WatcherStates, NEW i \in Issues, i.repo = r,
           WatcherGoto(r, label, i)
    PROVE  \E a \in WatcherRec : /\ watcher' = [watcher EXCEPT ![r] = a] /\ WatcherHas(r, a)
                                 /\ a.issue = i /\ a.pc = label
<1> DEFINE a == [pc |-> label, issue |-> i, count |-> 0]
<1>1. a \in WatcherRec /\ WatcherHas(r, a) /\ a.pc = label /\ a.issue = i
  BY Going
<1>2. watcher' = [watcher EXCEPT ![r] = a]
  BY DEF WatcherGoto
<1> HIDE DEF a
<1> QED
  BY <1>1, <1>2

\* The listing's events carry labels of the forge.
LEMMA Listed ==
    ASSUME DataTyped, NEW s \in SUBSET Issues
    PROVE  Snapshot(s) \subseteq [issue : Issues, labels : SUBSET Labels]
BY DEF Snapshot, DataTyped

\* Listing the open issues moves no label and no task.
LEMMA ConnectKeeps ==
    ASSUME IInv, NEW r \in Repos, Connect(r)
    PROVE  IInv'
<1> USE DEF Connect, At, forgeVars, memory, pool, sweep
<1>1. DataTyped
  BY Facts
<1>2. todo' \subseteq [issue : Issues, labels : SUBSET Labels]
  <2> DEFINE s == {i \in open \cap InRepo(r) : "queued" \in labels[i]}
  <2>1. s \in SUBSET Issues
    BY DEF InRepo
  <2>2. todo' = todo \cup Snapshot(s)
    OBVIOUS
  <2> HIDE DEF s
  <2> QED
    BY <1>1, <2>1, <2>2, Listed DEF DataTyped
<1>3. known' \subseteq Issues
  BY <1>1 DEF DataTyped, InRepo
<1>4. DataTyped'
  BY <1>1, <1>2, <1>3 DEF DataTyped
<1>5. Ready \in WatcherRec /\ WatcherHas(r, Ready)
  BY IdleFacts DEF WatcherHas
<1>6. \A i \in Issues : ~Tasking(watcher[r], i) /\ ~Routing(watcher[r], i) /\ ~Refusing(watcher[r], i)
  BY DEF Tasking, Routing, Refusing
<1>7. \A i \in Issues : Queued(i) => Queued(i)'
  BY DEF Queued
<1> QED
  BY <1>4, <1>5, <1>6, <1>7, WatcherKeeps

\* Nor does losing the connection.
LEMMA ReconnectKeeps ==
    ASSUME IInv, NEW r \in Repos, Reconnect(r)
    PROVE  IInv'
<1> USE DEF Reconnect, At, forgeVars, memory, pool, sweep
<1>1. DataTyped'
  BY Facts DEF DataTyped
<1>2. Disconnected \in WatcherRec /\ WatcherHas(r, Disconnected)
  BY IdleFacts DEF WatcherHas
<1>3. \A i \in Issues : ~Tasking(watcher[r], i) /\ ~Routing(watcher[r], i) /\ ~Refusing(watcher[r], i)
  BY DEF Tasking, Routing, Refusing
<1>4. \A i \in Issues : Queued(i) => Queued(i)'
  BY DEF Queued
<1> QED
  BY <1>1, <1>2, <1>3, <1>4, WatcherKeeps

\* Nor does a poll, which leaves its watcher where it is.
LEMMA PollKeeps ==
    ASSUME IInv, NEW r \in Repos, Poll(r)
    PROVE  IInv'
<1> DEFINE here == open \cap InRepo(r)
           gone == (known \cap InRepo(r)) \ open
<1> USE DEF Poll, forgeVars, memory, pool, sweep
<1>1. DataTyped /\ here \subseteq Issues /\ gone \subseteq Issues
  BY Facts DEF InRepo
<1>2. todo' \subseteq [issue : Issues, labels : SUBSET Labels]
  <2> DEFINE s == here \ known
  <2>1. s \in SUBSET Issues
    BY <1>1
  <2>2. todo' = todo \cup Snapshot(s)
    OBVIOUS
  <2> HIDE DEF s, here
  <2> QED
    BY <1>1, <2>1, <2>2, Listed DEF DataTyped
<1>3. known' \subseteq Issues /\ closings' \subseteq Issues
  BY <1>1 DEF DataTyped
<1>4. DataTyped'
  BY <1>1, <1>2, <1>3 DEF DataTyped
<1>5. loop' \in LoopRec /\ LoopHas(loop')
  BY Facts
<1> QED
  BY <1>4, <1>5, LoopKeeps

\* What handleOpened's checks say of the issue of an event.
LEMMA HandleOpenedKeeps ==
    ASSUME IInv, NEW r \in Repos, HandleOpened(r)
    PROVE  IInv'
<1> USE DEF HandleOpened, At, forgeVars, memory, pool, sweep
<1>1. DataTyped
  BY Facts
<1>2. PICK e \in todo :
        /\ e.issue.repo = r
        /\ todo' = todo \ {e}
        /\ IF Skipped(e) THEN UNCHANGED <<watcher, persisted>>
                         ELSE \E v \in Verdicts : Judge(r, e.issue, v)
  OBVIOUS
<1>3. e.issue \in Issues /\ e.issue.repo = r
  BY <1>1, <1>2 DEF DataTyped
<1> DEFINE i == e.issue
<1>4. \A j \in Issues : ~Tasking(watcher[r], j) /\ ~Routing(watcher[r], j) /\ ~Refusing(watcher[r], j)
  BY DEF Tasking, Routing, Refusing
<1>5. \A j \in Issues : Queued(j) => Queued(j)'
  BY DEF Queued
<1>6. todo' \subseteq [issue : Issues, labels : SUBSET Labels]
  BY <1>1, <1>2 DEF DataTyped
<1>7. persisted' \in [Numbers -> Nat] => DataTyped'
  BY <1>1, <1>6 DEF DataTyped
<1>8. CASE UNCHANGED <<watcher, persisted>>
  <2>1. DataTyped'
    BY <1>1, <1>7, <1>8 DEF DataTyped
  <2>2. loop' \in LoopRec /\ LoopHas(loop')
    BY Facts
  <2> QED
    BY <1>8, <2>1, <2>2, LoopKeeps
<1>9. CASE Failed(i) /\ WatcherGoto(r, "give-up", i)
  <2> DEFINE a == [pc |-> "give-up", issue |-> i, count |-> 0]
  <2>1. a \in WatcherRec /\ WatcherHas(r, a) /\ a.pc = "give-up" /\ a.issue = i
    BY <1>3, Going DEF WatcherStates
  <2>2. watcher' = [watcher EXCEPT ![r] = a]
    BY <1>9 DEF WatcherGoto
  <2> HIDE DEF a
  <2>3. /\ DataTyped'
        /\ Settled => \A j \in Issues : j # i => persisted'[j.number] = persisted[j.number]
    BY <1>1, <1>3, <1>7, <1>9, Counted
  <2>4. \A j \in Issues : Settled /\ persisted'[j.number] >= Limit =>
           \/ Refusing(a, j)
           \/ persisted[j.number] >= Limit
    BY <2>1, <2>3 DEF Refusing
  <2> QED
    BY <1>4, <1>5, <2>1, <2>2, <2>3, <2>4, WatcherKeeps
<1>10. CASE Failed(i) /\ UNCHANGED watcher /\ "undecomposable" \in Verdicts
  <2>1. DataTyped'
    BY <1>1, <1>3, <1>7, <1>10, Counted
  <2>2. loop' \in LoopRec /\ LoopHas(loop')
    BY Facts
  <2>3. ~Settled
    BY <1>10 DEF Settled
  <2> QED
    BY <1>10, <2>1, <2>2, <2>3, LoopKeeps
<1>11. CASE WatcherGoto(r, "human", i) /\ UNCHANGED persisted
  <2> DEFINE a == [pc |-> "human", issue |-> i, count |-> 0]
  <2>1. a \in WatcherRec /\ WatcherHas(r, a)
    BY <1>3, Going DEF WatcherStates
  <2>2. watcher' = [watcher EXCEPT ![r] = a]
    BY <1>11 DEF WatcherGoto
  <2> HIDE DEF a
  <2>3. DataTyped'
    BY <1>1, <1>7, <1>11 DEF DataTyped
  <2> QED
    BY <1>4, <1>5, <1>11, <2>1, <2>2, <2>3, WatcherKeeps
<1>12. CASE WatcherGoto(r, "unqueue", i) /\ UNCHANGED persisted
  <2> DEFINE a == [pc |-> "unqueue", issue |-> i, count |-> 0]
  <2>1. a \in WatcherRec /\ WatcherHas(r, a)
    BY <1>3, Going DEF WatcherStates
  <2>2. watcher' = [watcher EXCEPT ![r] = a]
    BY <1>12 DEF WatcherGoto
  <2> HIDE DEF a
  <2>3. DataTyped'
    BY <1>1, <1>7, <1>12 DEF DataTyped
  <2> QED
    BY <1>4, <1>5, <1>12, <2>1, <2>2, <2>3, WatcherKeeps
<1> QED
  BY <1>2, <1>8, <1>9, <1>10, <1>11, <1>12 DEF Judge

\* The issue is on its way to a human.
LEMMA GiveUpKeeps ==
    ASSUME IInv, NEW r \in Repos, GiveUp(r)
    PROVE  IInv'
<1> DEFINE i == watcher[r].issue
<1> USE DEF GiveUp, At, memory, pool, listing, sweep
<1>1. DataTyped /\ i \in Issues /\ i.repo = r
  BY Facts DEF WatcherHas
<1>2. /\ labels' \in [Issues -> SUBSET Labels] /\ faults' \in 0..MaxFaults
      /\ faults' = 0 => /\ faults = 0
                        /\ \A j \in Issues : labels'[j] = IF j = i THEN labels[i] \ {"claimed"}
                                                                   ELSE labels[j]
  BY <1>1, Unlabelled DEF Labels
<1>3. DataTyped'
  BY <1>1, <1>2 DEF DataTyped
<1>4. \A j \in Issues : Queued(j) => Queued(j)'
  BY DEF Queued
<1>5. PICK a \in WatcherRec : /\ watcher' = [watcher EXCEPT ![r] = a] /\ WatcherHas(r, a)
                              /\ a.issue = i /\ a.pc = "escalate"
  BY <1>1, Goes DEF WatcherStates
<1>6. faults' = 0 => \A j \in Issues :
        /\ "claimed" \in labels'[j] => "claimed" \in labels[j] /\ ~Tasking(watcher[r], j)
        /\ labels'[j] = {} => Routing(a, j) \/ (labels[j] = {} /\ ~Routing(watcher[r], j))
        /\ persisted'[j.number] >= Limit =>
              \/ "needs-human" \in labels'[j] \/ Refusing(a, j)
              \/ /\ persisted[j.number] >= Limit /\ "needs-human" \notin labels[j]
                 /\ ~Refusing(watcher[r], j)
  BY <1>1, <1>2, <1>5 DEF Tasking, Routing, Refusing
<1> QED
  BY <1>2, <1>3, <1>4, <1>5, <1>6, WatcherKeeps

\* A human has the issue.
LEMMA LabelHumanKeeps ==
    ASSUME IInv, NEW r \in Repos, LabelHuman(r)
    PROVE  IInv'
<1> DEFINE i == watcher[r].issue
<1> USE DEF LabelHuman, At, memory, pool, listing, sweep
<1>1. DataTyped /\ i \in Issues /\ i.repo = r
  BY Facts DEF WatcherHas
<1>2. /\ labels' \in [Issues -> SUBSET Labels] /\ faults' \in 0..MaxFaults
      /\ faults' = 0 => /\ faults = 0
                        /\ \A j \in Issues : labels'[j] = IF j = i THEN labels[i] \cup {"needs-human"}
                                                                   ELSE labels[j]
  BY <1>1, Labelled DEF Labels
<1>3. DataTyped'
  BY <1>1, <1>2 DEF DataTyped
<1>4. \A j \in Issues : Queued(j) => Queued(j)'
  BY DEF Queued
<1>5. PICK a \in WatcherRec : /\ watcher' = [watcher EXCEPT ![r] = a] /\ WatcherHas(r, a)
                              /\ a.pc = "ready"
  BY IdleFacts DEF WatcherHas
<1>6. faults' = 0 => \A j \in Issues :
        /\ "claimed" \in labels'[j] => "claimed" \in labels[j] /\ ~Tasking(watcher[r], j)
        /\ labels'[j] = {} => Routing(a, j) \/ (labels[j] = {} /\ ~Routing(watcher[r], j))
        /\ persisted'[j.number] >= Limit =>
              \/ "needs-human" \in labels'[j] \/ Refusing(a, j)
              \/ /\ persisted[j.number] >= Limit /\ "needs-human" \notin labels[j]
                 /\ ~Refusing(watcher[r], j)
  BY <1>1, <1>2, <1>5 DEF Tasking, Routing, Refusing
<1> QED
  BY <1>2, <1>3, <1>4, <1>5, <1>6, WatcherKeeps

\* The issue is between its labels.
LEMMA UnqueueKeeps ==
    ASSUME IInv, NEW r \in Repos, Unqueue(r)
    PROVE  IInv'
<1> DEFINE i == watcher[r].issue
<1> USE DEF Unqueue, At, memory, pool, listing, sweep
<1>1. DataTyped /\ i \in Issues /\ i.repo = r
  BY Facts DEF WatcherHas
<1>2. /\ labels' \in [Issues -> SUBSET Labels] /\ faults' \in 0..MaxFaults
      /\ faults' = 0 => /\ faults = 0
                        /\ \A j \in Issues : labels'[j] = IF j = i THEN labels[i] \ {"queued"}
                                                                   ELSE labels[j]
  BY <1>1, Unlabelled DEF Labels
<1>3. DataTyped'
  BY <1>1, <1>2 DEF DataTyped
<1>4. \A j \in Issues : Queued(j) => Queued(j)'
  BY DEF Queued
<1>5. PICK a \in WatcherRec : /\ watcher' = [watcher EXCEPT ![r] = a] /\ WatcherHas(r, a)
                              /\ a.issue = i /\ a.pc = "label"
  BY <1>1, Goes DEF WatcherStates
<1>6. faults' = 0 => \A j \in Issues :
        /\ "claimed" \in labels'[j] => "claimed" \in labels[j] /\ ~Tasking(watcher[r], j)
        /\ labels'[j] = {} => Routing(a, j) \/ (labels[j] = {} /\ ~Routing(watcher[r], j))
        /\ persisted'[j.number] >= Limit =>
              \/ "needs-human" \in labels'[j] \/ Refusing(a, j)
              \/ /\ persisted[j.number] >= Limit /\ "needs-human" \notin labels[j]
                 /\ ~Refusing(watcher[r], j)
  BY <1>1, <1>2, <1>5 DEF Tasking, Routing, Refusing
<1> QED
  BY <1>2, <1>3, <1>4, <1>5, <1>6, WatcherKeeps

\* The issue has its claimed label and its watcher is about to claim it.
LEMMA LabelClaimedKeeps ==
    ASSUME IInv, NEW r \in Repos, LabelClaimed(r)
    PROVE  IInv'
<1> DEFINE i == watcher[r].issue
<1> USE DEF LabelClaimed, At, memory, pool, listing, sweep
<1>1. DataTyped /\ i \in Issues /\ i.repo = r
  BY Facts DEF WatcherHas
<1>2. \A j \in Issues : Queued(j) => Queued(j)'
  BY DEF Queued
<1>3. CASE Relabel(i, labels[i] \cup {"claimed"}) /\ WatcherGoto(r, "read", i)
  <2> DEFINE a == [pc |-> "read", issue |-> i, count |-> 0]
  <2>1. a \in WatcherRec /\ WatcherHas(r, a) /\ a.pc = "read" /\ a.issue = i
    BY <1>1, Going DEF WatcherStates
  <2>2. watcher' = [watcher EXCEPT ![r] = a]
    BY <1>3 DEF WatcherGoto
  <2> HIDE DEF a
  <2>3. /\ labels' \in [Issues -> SUBSET Labels] /\ faults' = faults
        /\ \A j \in Issues : labels'[j] = IF j = i THEN labels[i] \cup {"claimed"} ELSE labels[j]
    BY <1>1, <1>3 DEF DataTyped, Relabel, Labels
  <2>4. DataTyped'
    BY <1>1, <2>3 DEF DataTyped
  <2>5. \A j \in Issues :
          /\ "claimed" \in labels'[j] =>
                Tasking(a, j) \/ ("claimed" \in labels[j] /\ ~Tasking(watcher[r], j))
          /\ labels'[j] = {} => labels[j] = {} /\ ~Routing(watcher[r], j)
          /\ "needs-human" \in labels[j] => "needs-human" \in labels'[j]
          /\ ~Refusing(watcher[r], j)
    BY <1>1, <2>1, <2>3 DEF Tasking, Routing, Refusing
  <2> QED
    BY <1>2, <2>1, <2>2, <2>3, <2>4, <2>5, WatcherKeeps
<1>4. CASE Fault /\ watcher' = [watcher EXCEPT ![r] = Ready]
  <2>1. Ready \in WatcherRec /\ WatcherHas(r, Ready)
    BY IdleFacts DEF WatcherHas
  <2>2. labels' \in [Issues -> SUBSET Labels] /\ faults' \in 0..MaxFaults /\ faults' # 0
    BY <1>1, <1>4, Faulted
  <2>3. DataTyped'
    BY <1>1, <2>2 DEF DataTyped
  <2> QED
    BY <1>2, <1>4, <2>1, <2>2, <2>3, WatcherKeeps
<1> QED
  BY <1>3, <1>4

\* The count of earlier failures is read, the task comes closer.
LEMMA ReadPriorFailuresKeeps ==
    ASSUME IInv, NEW r \in Repos, ReadPriorFailures(r)
    PROVE  IInv'
<1> DEFINE i == watcher[r].issue
           a == [pc |-> "claim", issue |-> i, count |-> persisted[i.number]]
<1> USE DEF ReadPriorFailures, At, forgeVars, memory, pool, listing, sweep
<1>1. DataTyped /\ i \in Issues /\ i.repo = r /\ watcher[r].pc = "read"
  BY Facts DEF WatcherHas
<1>2. a \in WatcherRec /\ WatcherHas(r, a) /\ a.pc = "claim" /\ a.issue = i
  BY <1>1 DEF WatcherRec, WatcherHas, WatcherStates, DataTyped, Numbers
<1>3. watcher' = [watcher EXCEPT ![r] = a]
  OBVIOUS
<1> HIDE DEF a
<1>4. DataTyped'
  BY <1>1 DEF DataTyped
<1>5. \A j \in Issues : Queued(j) => Queued(j)'
  BY DEF Queued
<1>6. \A j \in Issues :
        /\ Tasking(watcher[r], j) => Tasking(a, j)
        /\ ~Routing(watcher[r], j) /\ ~Refusing(watcher[r], j)
  BY <1>1, <1>2 DEF Tasking, Routing, Refusing
<1> QED
  BY <1>3, <1>2, <1>4, <1>5, <1>6, WatcherKeeps

\* The issue is claimed.
LEMMA ClaimKeeps ==
    ASSUME IInv, NEW r \in Repos, Claim(r)
    PROVE  IInv'
<1> DEFINE i == watcher[r].issue
           a == [pc |-> "session", issue |-> i, count |-> 0]
<1> USE DEF Claim, At, forgeVars, pool, listing, sweep
<1>1. DataTyped /\ i \in Issues /\ i.repo = r /\ watcher[r].pc = "claim" /\ watcher[r].count \in Nat
  BY Facts DEF WatcherHas, WatcherRec
<1>2. a \in WatcherRec /\ WatcherHas(r, a) /\ a.pc = "session" /\ a.issue = i
  BY <1>1, Going DEF WatcherStates
<1>3. watcher' = [watcher EXCEPT ![r] = a]
  BY DEF WatcherGoto
<1> HIDE DEF a
<1>4. claimed' \subseteq Issues /\ stale' \subseteq claimed' /\ failures' \in [Issues -> Nat]
  BY <1>1 DEF DataTyped, Larger
<1>5. DataTyped'
  BY <1>1, <1>4 DEF DataTyped
<1>6. \A j \in Issues : Queued(j) => Queued(j)'
  BY DEF Queued
<1>7. \A j \in Issues :
        /\ Tasking(watcher[r], j) => Tasking(a, j)
        /\ ~Routing(watcher[r], j) /\ ~Refusing(watcher[r], j)
  BY <1>1, <1>2 DEF Tasking, Routing, Refusing
<1> QED
  BY <1>3, <1>2, <1>5, <1>6, <1>7, WatcherKeeps

\* The session is saved, or the claim has no task and a call has failed.
LEMMA CreateSessionKeeps ==
    ASSUME IInv, NEW r \in Repos, CreateSession(r)
    PROVE  IInv'
<1> DEFINE i == watcher[r].issue
<1> USE DEF CreateSession, At, memory, pool, listing, sweep
<1>1. DataTyped /\ i \in Issues /\ i.repo = r /\ watcher[r].pc = "session"
  BY Facts DEF WatcherHas
<1>2. \A j \in Issues : Queued(j) => Queued(j)'
  BY DEF Queued
<1>3. CASE WatcherGoto(r, "submit", i) /\ UNCHANGED <<labels, faults>>
  <2> DEFINE a == [pc |-> "submit", issue |-> i, count |-> 0]
  <2>1. a \in WatcherRec /\ WatcherHas(r, a) /\ a.pc = "submit" /\ a.issue = i
    BY <1>1, Going DEF WatcherStates
  <2>2. watcher' = [watcher EXCEPT ![r] = a]
    BY <1>3 DEF WatcherGoto
  <2> HIDE DEF a
  <2>3. DataTyped'
    BY <1>1, <1>3 DEF DataTyped
  <2>4. \A j \in Issues :
          /\ Tasking(watcher[r], j) => Tasking(a, j)
          /\ ~Routing(watcher[r], j) /\ ~Refusing(watcher[r], j)
    BY <1>1, <2>1 DEF Tasking, Routing, Refusing
  <2> QED
    BY <1>2, <1>3, <2>2, <2>1, <2>3, <2>4, WatcherKeeps
<1>4. CASE Fault /\ watcher' = [watcher EXCEPT ![r] = Ready]
  <2>1. Ready \in WatcherRec /\ WatcherHas(r, Ready)
    BY IdleFacts DEF WatcherHas
  <2>2. labels' \in [Issues -> SUBSET Labels] /\ faults' \in 0..MaxFaults /\ faults' # 0
    BY <1>1, <1>4, Faulted
  <2>3. DataTyped'
    BY <1>1, <2>2 DEF DataTyped
  <2> QED
    BY <1>2, <1>4, <2>1, <2>2, <2>3, WatcherKeeps
<1> QED
  BY <1>3, <1>4

\* The task waits in the pool.
LEMMA SubmitKeeps ==
    ASSUME IInv, NEW r \in Repos, Submit(r)
    PROVE  IInv'
<1> DEFINE i == watcher[r].issue
<1> USE DEF Submit, At, forgeVars, memory, listing, sweep
<1>1. DataTyped /\ i \in Issues /\ watcher[r].pc = "submit" /\ queue \in Seq(Issues)
  BY Facts DEF WatcherHas, DataTyped
<1>2. Ready \in WatcherRec /\ WatcherHas(r, Ready)
  BY IdleFacts DEF WatcherHas
<1>3. /\ queue' \in Seq(Issues) /\ Len(queue') = Len(queue) + 1 /\ Len(queue) \in Nat
      /\ queue'[Len(queue) + 1] = i /\ \A n \in 1..Len(queue) : queue'[n] = queue[n]
  BY <1>1
<1>4. DataTyped'
  BY <1>1, <1>3 DEF DataTyped
<1>5. \A j \in Issues : Queued(j) => Queued(j)'
  BY <1>3 DEF Queued
<1>6. \A j \in Issues : j = i => Queued(j)'
  BY <1>3 DEF Queued
<1>7. \A j \in Issues :
        /\ Tasking(watcher[r], j) => j = i
        /\ ~Routing(watcher[r], j) /\ ~Refusing(watcher[r], j)
  BY <1>1 DEF Tasking, Routing, Refusing
<1>8. \A j \in Issues : Tasking(watcher[r], j) => Queued(j)'
  BY <1>6, <1>7
<1> QED
  BY <1>2, <1>4, <1>5, <1>7, <1>8, WatcherKeeps

\* A closed issue's claim is gone.
LEMMA HandleClosedKeeps ==
    ASSUME IInv, NEW r \in Repos, HandleClosed(r)
    PROVE  IInv'
<1> USE DEF HandleClosed, At, forgeVars, pool, sweep
<1>1. DataTyped /\ watcher[r].pc = "ready"
  BY Facts
<1>2. PICK i \in Closing(r) :
         /\ closings' = closings \ {i}
         /\ claimed' = claimed \ {i} /\ stale' = stale \ {i}
         /\ failures' = [failures EXCEPT ![i] = 0]
         /\ memFailures' = [memFailures EXCEPT ![i] = 0]
         /\ WatcherGoto(r, "clear", i)
  OBVIOUS
<1>3. i \in Issues /\ i.repo = r
  BY DEF Closing, InRepo
<1> DEFINE a == [pc |-> "clear", issue |-> i, count |-> 0]
<1>4. a \in WatcherRec /\ WatcherHas(r, a)
  BY <1>3, Going DEF WatcherStates
<1>5. watcher' = [watcher EXCEPT ![r] = a]
  BY <1>2 DEF WatcherGoto
<1> HIDE DEF a
<1>6. DataTyped'
  BY <1>1, <1>2 DEF DataTyped
<1>7. \A j \in Issues : Queued(j) => Queued(j)'
  BY DEF Queued
<1>8. \A j \in Issues : ~Tasking(watcher[r], j) /\ ~Routing(watcher[r], j) /\ ~Refusing(watcher[r], j)
  BY <1>1 DEF Tasking, Routing, Refusing
<1> QED
  BY <1>4, <1>5, <1>6, <1>7, <1>8, WatcherKeeps

\* Its count is gone too.
LEMMA ClearClosedKeeps ==
    ASSUME IInv, NEW r \in Repos, ClearClosed(r)
    PROVE  IInv'
<1> DEFINE i == watcher[r].issue
<1> USE DEF ClearClosed, At, forgeVars, memory, pool, listing, sweep
<1>1. DataTyped /\ i \in Issues /\ watcher[r].pc = "clear"
  BY Facts DEF WatcherHas
<1>2. /\ persisted' \in [Numbers -> Nat]
      /\ \A j \in Issues : persisted'[j.number] \in {0, persisted[j.number]}
  BY <1>1, Cleared
<1>3. \A j \in Issues : persisted'[j.number] >= Limit => persisted[j.number] >= Limit
  BY <1>2, LimitFacts
<1>4. DataTyped'
  BY <1>1, <1>2 DEF DataTyped
<1>5. Ready \in WatcherRec /\ WatcherHas(r, Ready)
  BY IdleFacts DEF WatcherHas
<1>6. \A j \in Issues : Queued(j) => Queued(j)'
  BY DEF Queued
<1>7. \A j \in Issues : ~Tasking(watcher[r], j) /\ ~Routing(watcher[r], j) /\ ~Refusing(watcher[r], j)
  BY <1>1 DEF Tasking, Routing, Refusing
<1> QED
  BY <1>3, <1>4, <1>5, <1>6, <1>7, WatcherKeeps

(***************************************************************************)
(* The workers' steps.                                                     *)
(***************************************************************************)

\* A worker goes on with its task.
LEMMA WorkerGoes ==
    ASSUME worker \in [Workers -> WorkerRec], NEW w \in Workers, NEW label \in WorkerStates,
           WorkerGoto(w, label)
    PROVE  \E b \in WorkerRec : /\ worker' = [worker EXCEPT ![w] = b]
                                /\ b.pc = label /\ b.issue = worker[w].issue
                                /\ b.outcome = worker[w].outcome
<1> DEFINE b == [worker[w] EXCEPT !.pc = label]
<1>1. b \in WorkerRec /\ b.pc = label /\ b.issue = worker[w].issue /\ b.outcome = worker[w].outcome
  BY DEF WorkerRec
<1>2. worker' = [worker EXCEPT ![w] = b]
  BY DEF WorkerGoto
<1> HIDE DEF b
<1> QED
  BY <1>1, <1>2

\* A worker takes the first task.
LEMMA StartKeeps ==
    ASSUME IInv, NEW w \in Workers, Start(w)
    PROVE  IInv'
<1> DEFINE b == [pc |-> "starting", issue |-> Head(queue), outcome |-> "none"]
<1> USE DEF Start, On, forgeVars, memory, listing, sweep
<1>1. DataTyped /\ queue \in Seq(Issues) /\ queue # <<>>
  BY Facts DEF DataTyped
<1>2. Head(queue) \in Issues /\ queue' \in Seq(Issues)
  BY <1>1
<1>3. /\ b \in WorkerRec /\ WorkerHas(b) /\ b.pc = "starting" /\ b.issue = Head(queue)
      /\ worker' = [worker EXCEPT ![w] = b]
  BY <1>2 DEF WorkerRec, WorkerHas, WorkerStates
<1> HIDE DEF b
<1>4. DataTyped'
  BY <1>1, <1>2 DEF DataTyped
<1>5. \A j \in Issues : Queued(j) => Queued(j)' \/ Working(b, j)
  <2> SUFFICES ASSUME NEW n \in 1..Len(queue), queue[n] # b.issue
               PROVE  \E m \in 1..Len(queue') : queue'[m] = queue[n]
    BY <1>3 DEF Queued, Working
  <2>1. n # 1 /\ n - 1 \in 1..Len(queue')
    BY <1>1, <1>3
  <2>2. queue'[n - 1] = queue[n]
    BY <1>1, <2>1
  <2> QED
    BY <2>1, <2>2
<1>6. \A j \in Issues : ~Working(worker[w], j) /\ ~Ending(worker[w], j) /\ ~GivingUp(worker[w], j)
  BY DEF Working, Ending, GivingUp
<1> QED
  BY <1>3, <1>4, <1>5, <1>6, WorkerKeeps

\* The task runs.
LEMMA HeartbeatKeeps ==
    ASSUME IInv, NEW w \in Workers, Heartbeat(w)
    PROVE  IInv'
<1> USE DEF Heartbeat, On, forgeVars, listing, sweep
<1>1. DataTyped /\ worker \in [Workers -> WorkerRec] /\ WorkerHas(worker[w])
  BY Facts
<1>2. DataTyped'
  BY <1>1 DEF DataTyped
<1>3. PICK b \in WorkerRec : /\ worker' = [worker EXCEPT ![w] = b] /\ b.pc = "running"
                             /\ b.issue = worker[w].issue /\ b.outcome = worker[w].outcome
  BY <1>1, WorkerGoes DEF WorkerStates
<1>4. WorkerHas(b)
  BY <1>1, <1>3 DEF WorkerHas
<1>5. \A j \in Issues : Queued(j) => Queued(j)'
  BY DEF Queued
<1>6. \A j \in Issues : /\ Working(worker[w], j) => Working(b, j)
                        /\ ~Ending(worker[w], j) /\ ~GivingUp(worker[w], j)
  BY <1>3 DEF Working, Ending, GivingUp
<1> QED
  BY <1>2, <1>3, <1>4, <1>5, <1>6, WorkerKeeps

\* The task ends.
LEMMA CompleteKeeps ==
    ASSUME IInv, NEW w \in Workers, Complete(w)
    PROVE  IInv'
<1> DEFINE i == worker[w].issue
<1> USE DEF Complete, On, forgeVars, listing, sweep
<1>1. /\ DataTyped /\ worker \in [Workers -> WorkerRec] /\ WorkerHas(worker[w])
      /\ worker[w].pc \in {"starting", "running"} /\ i \in Issues
  BY Facts DEF WorkerHas
<1>2. PICK o \in Outcomes :
         /\ worker' = [worker EXCEPT ![w].pc = "unlabel", ![w].outcome = o]
         /\ memFailures' = IF o = "success" THEN [memFailures EXCEPT ![i] = 0] ELSE memFailures
  OBVIOUS
<1> DEFINE b1 == [worker[w] EXCEPT !.pc = "unlabel"]
           b == [b1 EXCEPT !.outcome = o]
<1>3. worker' = [worker EXCEPT ![w] = b]
  BY <1>1, <1>2
<1>4. b1 \in WorkerRec /\ b1.pc = "unlabel" /\ b1.issue = i
  BY <1>1 DEF WorkerRec, WorkerStates
<1> HIDE DEF b1
<1>5. b \in WorkerRec /\ b.pc = "unlabel" /\ b.issue = i /\ b.outcome = o
  BY <1>4 DEF WorkerRec
<1> HIDE DEF b
<1>6. WorkerHas(b)
  BY <1>1, <1>5 DEF WorkerHas
<1>7. memFailures' \in [Issues -> Nat] /\ failures' \in [Issues -> Nat]
  BY <1>1, <1>2 DEF DataTyped
<1>8. DataTyped'
  BY <1>1, <1>7 DEF DataTyped
<1>9. \A j \in Issues : Queued(j) => Queued(j)'
  BY DEF Queued
<1>10. \A j \in Issues : /\ Working(worker[w], j) => Working(b, j)
                         /\ ~Ending(worker[w], j) /\ ~GivingUp(worker[w], j)
  BY <1>1, <1>5 DEF Working, Ending, GivingUp
<1> QED
  BY <1>3, <1>5, <1>6, <1>8, <1>9, <1>10, WorkerKeeps

\* The count of the done task's issue is gone.
LEMMA ClearSucceededKeeps ==
    ASSUME IInv, NEW w \in Workers, ClearSucceeded(w)
    PROVE  IInv'
<1> DEFINE i == worker[w].issue
<1> USE DEF ClearSucceeded, On, forgeVars, memory, listing, sweep
<1>1. /\ DataTyped /\ worker \in [Workers -> WorkerRec] /\ WorkerHas(worker[w])
      /\ worker[w].pc = "clear" /\ i \in Issues
  BY Facts DEF WorkerHas
<1>2. /\ persisted' \in [Numbers -> Nat]
      /\ \A j \in Issues : persisted'[j.number] \in {0, persisted[j.number]}
  BY <1>1, Cleared
<1>3. \A j \in Issues : persisted'[j.number] >= Limit => persisted[j.number] >= Limit
  BY <1>2, LimitFacts
<1>4. DataTyped'
  BY <1>1, <1>2 DEF DataTyped
<1>5. PICK b \in WorkerRec : /\ worker' = [worker EXCEPT ![w] = b] /\ b.pc = "qc"
                             /\ b.issue = i /\ b.outcome = worker[w].outcome
  BY <1>1, WorkerGoes DEF WorkerStates
<1>6. WorkerHas(b)
  BY <1>1, <1>5 DEF WorkerHas
<1>7. \A j \in Issues : Queued(j) => Queued(j)'
  BY DEF Queued
<1>8. \A j \in Issues : /\ ~Working(worker[w], j) /\ ~GivingUp(worker[w], j)
                        /\ Ending(worker[w], j) => Ending(b, j)
  BY <1>1, <1>5 DEF Working, Ending, GivingUp
<1> QED
  BY <1>3, <1>4, <1>5, <1>6, <1>7, <1>8, WorkerKeeps

\* The failure is counted, unless it is nobody's fault.
LEMMA RecordFailureKeeps ==
    ASSUME IInv, NEW w \in Workers, RecordFailure(w)
    PROVE  IInv'
<1> DEFINE i == worker[w].issue
<1> USE DEF RecordFailure, On, forgeVars, memory, listing, sweep
<1>1. /\ DataTyped /\ worker \in [Workers -> WorkerRec] /\ WorkerHas(worker[w])
      /\ worker[w].pc = "record" /\ i \in Issues
  BY Facts DEF WorkerHas
<1>2. /\ persisted' \in [Numbers -> Nat]
      /\ Settled => \A j \in Issues : \/ persisted'[j.number] = persisted[j.number]
                                      \/ j = i /\ worker[w].outcome # "uncounted"
  <2>1. CASE worker[w].outcome = "uncounted"
    BY <1>1, <2>1 DEF DataTyped
  <2>2. CASE worker[w].outcome # "uncounted"
    BY <1>1, <2>2, Counted
  <2> QED
    BY <2>1, <2>2
<1>3. budgetOpen' \in BOOLEAN
  OBVIOUS
<1>4. DataTyped'
  BY <1>1, <1>2, <1>3 DEF DataTyped
<1>5. PICK b \in WorkerRec : /\ worker' = [worker EXCEPT ![w] = b] /\ b.pc = "decide"
                             /\ b.issue = i /\ b.outcome = worker[w].outcome
  BY <1>1, WorkerGoes DEF WorkerStates
<1>6. WorkerHas(b)
  BY <1>1, <1>5 DEF WorkerHas
<1>7. \A j \in Issues : Queued(j) => Queued(j)'
  BY DEF Queued
<1>8. \A j \in Issues : /\ ~Working(worker[w], j) /\ ~GivingUp(worker[w], j)
                        /\ Ending(worker[w], j) => Ending(b, j)
                        /\ j = i /\ worker[w].outcome # "uncounted" => GivingUp(b, j)
  BY <1>1, <1>5 DEF Working, Ending, GivingUp
<1>9. \A j \in Issues : Settled /\ persisted'[j.number] >= Limit =>
         GivingUp(b, j) \/ persisted[j.number] >= Limit
  BY <1>2, <1>8
<1> QED
  BY <1>4, <1>5, <1>6, <1>7, <1>8, <1>9, WorkerKeeps

\* A failure at the limits is given up.
LEMMA DecideKeeps ==
    ASSUME IInv, NEW w \in Workers, Decide(w)
    PROVE  IInv'
<1> DEFINE i == worker[w].issue
           hopeless == Hopeless(worker[w].outcome, persisted[i.number])
           label == IF hopeless THEN "give-up" ELSE "requeue"
<1> USE DEF Decide, On, forgeVars, memory, listing, sweep
<1>1. /\ DataTyped /\ worker \in [Workers -> WorkerRec] /\ WorkerHas(worker[w])
      /\ worker[w].pc = "decide" /\ i \in Issues
  BY Facts DEF WorkerHas
<1>2. DataTyped'
  BY <1>1 DEF DataTyped
<1>3. PICK b \in WorkerRec : /\ worker' = [worker EXCEPT ![w] = b] /\ b.pc = label
                             /\ b.issue = i /\ b.outcome = worker[w].outcome
  <2>1. label \in WorkerStates /\ WorkerGoto(w, label)
    BY DEF WorkerStates
  <2> HIDE DEF label
  <2> QED
    BY <1>1, <2>1, WorkerGoes
<1>4. WorkerHas(b)
  BY <1>1, <1>3 DEF WorkerHas
<1>5. \A j \in Issues : Queued(j) => Queued(j)'
  BY DEF Queued
<1>6. worker[w].outcome # "uncounted" /\ persisted[i.number] >= Limit => hopeless
  <2>1. worker[w].outcome \in Outcomes /\ worker[w].outcome # "success"
    BY <1>1 DEF WorkerHas
  <2>2. worker[w].outcome \in {"counted", "uncounted", "permanent", "budget"}
    BY <2>1, ClaimAssumption
  <2>3. persisted[i.number] \in Nat
    BY <1>1 DEF DataTyped, Numbers
  <2> QED
    BY <2>2, <2>3, LimitFacts DEF Hopeless
<1>7. \A j \in Issues : /\ ~Working(worker[w], j)
                        /\ Ending(worker[w], j) => Ending(b, j)
  BY <1>1, <1>3 DEF Working, Ending
<1>8. \A j \in Issues : persisted[j.number] >= Limit => GivingUp(b, j) \/ ~GivingUp(worker[w], j)
  BY <1>1, <1>3, <1>6 DEF GivingUp
<1> QED
  BY <1>2, <1>3, <1>4, <1>5, <1>7, <1>8, WorkerKeeps

\* The ended task's claimed label is off.
LEMMA UnlabelCompletedKeeps ==
    ASSUME IInv, NEW w \in Workers, UnlabelCompleted(w)
    PROVE  IInv'
<1> DEFINE i == worker[w].issue
<1> USE DEF UnlabelCompleted, On, memory, listing, sweep
<1>1. /\ DataTyped /\ worker \in [Workers -> WorkerRec] /\ WorkerHas(worker[w])
      /\ i \in Issues
  BY Facts DEF WorkerHas
<1>2. /\ labels' \in [Issues -> SUBSET Labels] /\ faults' \in 0..MaxFaults
      /\ faults' = 0 => /\ faults = 0
                        /\ \A j \in Issues : labels'[j] = IF j = i THEN labels[i] \ {"claimed"}
                                                                   ELSE labels[j]
  BY <1>1, Unlabelled DEF Labels
<1>3. DataTyped'
  BY <1>1, <1>2 DEF DataTyped
<1>4. \A j \in Issues : Queued(j) => Queued(j)'
  BY DEF Queued
<1>5. PICK b \in WorkerRec : /\ worker' = [worker EXCEPT ![w] = b] /\ WorkerHas(b)
                             /\ b.issue = i /\ b.pc \in {"clear", "record"}
  <2> DEFINE label == IF worker[w].outcome = "success" THEN "clear" ELSE "record"
  <2>1. label \in WorkerStates /\ WorkerGoto(w, label)
    BY DEF WorkerStates
  <2>2. PICK b \in WorkerRec : /\ worker' = [worker EXCEPT ![w] = b] /\ b.pc = label
                               /\ b.issue = i /\ b.outcome = worker[w].outcome
    BY <1>1, <2>1, WorkerGoes
  <2> QED
    BY <1>1, <2>2 DEF WorkerHas
<1>6. faults' = 0 => \A j \in Issues :
        /\ "claimed" \in labels'[j] => "claimed" \in labels[j] /\ ~Working(worker[w], j)
        /\ labels'[j] = {} => Ending(b, j) \/ (labels[j] = {} /\ ~Ending(worker[w], j))
        /\ persisted'[j.number] >= Limit =>
              \/ "needs-human" \in labels'[j] \/ GivingUp(b, j)
              \/ /\ persisted[j.number] >= Limit /\ "needs-human" \notin labels[j]
                 /\ ~GivingUp(worker[w], j)
  BY <1>1, <1>2, <1>5 DEF Working, Ending, GivingUp
<1> QED
  BY <1>2, <1>3, <1>4, <1>5, <1>6, WorkerKeeps

\* The done task's issue waits for a check.
LEMMA LabelQCKeeps ==
    ASSUME IInv, NEW w \in Workers, LabelQC(w)
    PROVE  IInv'
<1> DEFINE i == worker[w].issue
<1> USE DEF LabelQC, On, memory, listing, sweep
<1>1. /\ DataTyped /\ worker \in [Workers -> WorkerRec] /\ WorkerHas(worker[w])
      /\ i \in Issues
  BY Facts DEF WorkerHas
<1>2. /\ labels' \in [Issues -> SUBSET Labels] /\ faults' \in 0..MaxFaults
      /\ faults' = 0 => /\ faults = 0
                        /\ \A j \in Issues : labels'[j] = IF j = i THEN labels[i] \cup {"needs-qc"}
                                                                   ELSE labels[j]
  BY <1>1, Labelled DEF Labels
<1>3. DataTyped'
  BY <1>1, <1>2 DEF DataTyped
<1>4. \A j \in Issues : Queued(j) => Queued(j)'
  BY DEF Queued
<1>5. PICK b \in WorkerRec : /\ worker' = [worker EXCEPT ![w] = b] /\ WorkerHas(b)
                             /\ b.pc = "idle"
  BY IdleFacts DEF WorkerHas
<1>6. faults' = 0 => \A j \in Issues :
        /\ "claimed" \in labels'[j] => "claimed" \in labels[j] /\ ~Working(worker[w], j)
        /\ labels'[j] = {} => Ending(b, j) \/ (labels[j] = {} /\ ~Ending(worker[w], j))
        /\ persisted'[j.number] >= Limit =>
              \/ "needs-human" \in labels'[j] \/ GivingUp(b, j)
              \/ /\ persisted[j.number] >= Limit /\ "needs-human" \notin labels[j]
                 /\ ~GivingUp(worker[w], j)
  BY <1>1, <1>2, <1>5 DEF Working, Ending, GivingUp
<1> QED
  BY <1>2, <1>3, <1>4, <1>5, <1>6, WorkerKeeps

\* The failed task's issue is queued again.
LEMMA RequeueFailedKeeps ==
    ASSUME IInv, NEW w \in Workers, RequeueFailed(w)
    PROVE  IInv'
<1> DEFINE i == worker[w].issue
<1> USE DEF RequeueFailed, On, memory, listing, sweep
<1>1. /\ DataTyped /\ worker \in [Workers -> WorkerRec] /\ WorkerHas(worker[w])
      /\ i \in Issues
  BY Facts DEF WorkerHas
<1>2. /\ labels' \in [Issues -> SUBSET Labels] /\ faults' \in 0..MaxFaults
      /\ faults' = 0 => /\ faults = 0
                        /\ \A j \in Issues : labels'[j] = IF j = i THEN labels[i] \cup {"queued"}
                                                                   ELSE labels[j]
  BY <1>1, Labelled DEF Labels
<1>3. DataTyped'
  BY <1>1, <1>2 DEF DataTyped
<1>4. \A j \in Issues : Queued(j) => Queued(j)'
  BY DEF Queued
<1>5. PICK b \in WorkerRec : /\ worker' = [worker EXCEPT ![w] = b] /\ WorkerHas(b)
                             /\ b.pc = "idle"
  BY IdleFacts DEF WorkerHas
<1>6. faults' = 0 => \A j \in Issues :
        /\ "claimed" \in labels'[j] => "claimed" \in labels[j] /\ ~Working(worker[w], j)
        /\ labels'[j] = {} => Ending(b, j) \/ (labels[j] = {} /\ ~Ending(worker[w], j))
        /\ persisted'[j.number] >= Limit =>
              \/ "needs-human" \in labels'[j] \/ GivingUp(b, j)
              \/ /\ persisted[j.number] >= Limit /\ "needs-human" \notin labels[j]
                 /\ ~GivingUp(worker[w], j)
  BY <1>1, <1>2, <1>5 DEF Working, Ending, GivingUp
<1> QED
  BY <1>2, <1>3, <1>4, <1>5, <1>6, WorkerKeeps

\* The failed task's issue is on its way to a human.
LEMMA GiveUpFailedKeeps ==
    ASSUME IInv, NEW w \in Workers, GiveUpFailed(w)
    PROVE  IInv'
<1> DEFINE i == worker[w].issue
<1> USE DEF GiveUpFailed, On, memory, listing, sweep
<1>1. /\ DataTyped /\ worker \in [Workers -> WorkerRec] /\ WorkerHas(worker[w])
      /\ i \in Issues
  BY Facts DEF WorkerHas
<1>2. /\ labels' \in [Issues -> SUBSET Labels] /\ faults' \in 0..MaxFaults
      /\ faults' = 0 => /\ faults = 0
                        /\ \A j \in Issues : labels'[j] = IF j = i THEN labels[i] \ {"claimed"}
                                                                   ELSE labels[j]
  BY <1>1, Unlabelled DEF Labels
<1>3. DataTyped'
  BY <1>1, <1>2 DEF DataTyped
<1>4. \A j \in Issues : Queued(j) => Queued(j)'
  BY DEF Queued
<1>5. PICK b \in WorkerRec : /\ worker' = [worker EXCEPT ![w] = b] /\ WorkerHas(b)
                             /\ b.issue = i /\ b.pc = "escalate"
  <2>1. PICK b \in WorkerRec : /\ worker' = [worker EXCEPT ![w] = b] /\ b.pc = "escalate"
                               /\ b.issue = i /\ b.outcome = worker[w].outcome
    BY <1>1, WorkerGoes DEF WorkerStates
  <2> QED
    BY <1>1, <2>1 DEF WorkerHas
<1>6. faults' = 0 => \A j \in Issues :
        /\ "claimed" \in labels'[j] => "claimed" \in labels[j] /\ ~Working(worker[w], j)
        /\ labels'[j] = {} => Ending(b, j) \/ (labels[j] = {} /\ ~Ending(worker[w], j))
        /\ persisted'[j.number] >= Limit =>
              \/ "needs-human" \in labels'[j] \/ GivingUp(b, j)
              \/ /\ persisted[j.number] >= Limit /\ "needs-human" \notin labels[j]
                 /\ ~GivingUp(worker[w], j)
  BY <1>1, <1>2, <1>5 DEF Working, Ending, GivingUp
<1> QED
  BY <1>2, <1>3, <1>4, <1>5, <1>6, WorkerKeeps

\* A human has the failed task's issue.
LEMMA EscalateFailedKeeps ==
    ASSUME IInv, NEW w \in Workers, EscalateFailed(w)
    PROVE  IInv'
<1> DEFINE i == worker[w].issue
<1> USE DEF EscalateFailed, On, memory, listing, sweep
<1>1. /\ DataTyped /\ worker \in [Workers -> WorkerRec] /\ WorkerHas(worker[w])
      /\ i \in Issues
  BY Facts DEF WorkerHas
<1>2. /\ labels' \in [Issues -> SUBSET Labels] /\ faults' \in 0..MaxFaults
      /\ faults' = 0 => /\ faults = 0
                        /\ \A j \in Issues : labels'[j] = IF j = i THEN labels[i] \cup {"needs-human"}
                                                                   ELSE labels[j]
  BY <1>1, Labelled DEF Labels
<1>3. DataTyped'
  BY <1>1, <1>2 DEF DataTyped
<1>4. \A j \in Issues : Queued(j) => Queued(j)'
  BY DEF Queued
<1>5. PICK b \in WorkerRec : /\ worker' = [worker EXCEPT ![w] = b] /\ WorkerHas(b)
                             /\ b.pc = "idle"
  BY IdleFacts DEF WorkerHas
<1>6. faults' = 0 => \A j \in Issues :
        /\ "claimed" \in labels'[j] => "claimed" \in labels[j] /\ ~Working(worker[w], j)
        /\ labels'[j] = {} => Ending(b, j) \/ (labels[j] = {} /\ ~Ending(worker[w], j))
        /\ persisted'[j.number] >= Limit =>
              \/ "needs-human" \in labels'[j] \/ GivingUp(b, j)
              \/ /\ persisted[j.number] >= Limit /\ "needs-human" \notin labels[j]
                 /\ ~GivingUp(worker[w], j)
  BY <1>1, <1>2, <1>5 DEF Working, Ending, GivingUp
<1> QED
  BY <1>2, <1>3, <1>4, <1>5, <1>6, WorkerKeeps

(***************************************************************************)
(* The Run loop's steps, people, time and crashes.                         *)
(***************************************************************************)

\* The Run loop takes the next stale claim, or waits.
LEMMA NextFacts ==
    /\ NextTimedOut \in LoopRec /\ NextTimedOut.pc \in {"select", "next"}
    /\ [Selecting EXCEPT !.pc = "next"] \in LoopRec
    /\ [Selecting EXCEPT !.pc = "next"].pc = "next"
<1> DEFINE l == [Selecting EXCEPT !.pc = "next"]
<1>1. Selecting \in LoopRec /\ Selecting.pc = "select"
  BY IdleFacts
<1>2. l \in LoopRec /\ l.pc = "next"
  BY <1>1 DEF LoopRec, LoopStates
<1>3. NextTimedOut = Selecting \/ NextTimedOut = l
  BY DEF NextTimedOut
<1> QED
  BY <1>1, <1>2, <1>3

\* The Run loop goes on with its claim.
LEMMA LoopGoes ==
    ASSUME loop \in LoopRec, NEW label \in LoopStates
    PROVE  LET l == [loop EXCEPT !.pc = label]
           IN  l \in LoopRec /\ l.pc = label /\ l.issue = loop.issue /\ l.count = loop.count
BY DEF LoopRec

\* The stale claims are collected.
LEMMA CheckTimeoutsKeeps ==
    ASSUME IInv, CheckTimeouts
    PROVE  IInv'
<1> USE DEF CheckTimeouts, LoopAt, forgeVars, memory, pool, listing
<1>1. DataTyped'
  BY Facts DEF DataTyped
<1>2. loop' \in LoopRec /\ loop'.pc = "next" /\ LoopHas(loop')
  BY NextFacts DEF LoopHas
<1>3. \A j \in Issues : ~Requeueing(loop, j) /\ ~Exhausting(loop, j)
  BY DEF Requeueing, Exhausting
<1> QED
  BY <1>1, <1>2, <1>3, LoopKeeps

\* A stale claim is released.
LEMMA ReleaseTimedOutKeeps ==
    ASSUME IInv, NEW i \in Issues, ReleaseTimedOut(i)
    PROVE  IInv'
<1> USE DEF ReleaseTimedOut, LoopAt, forgeVars, memory, pool, listing
<1>1. DataTyped /\ loop \in LoopRec /\ loop.pc = "next"
  BY Facts
<1>2. \A j \in Issues : ~Requeueing(loop, j) /\ ~Exhausting(loop, j)
  BY <1>1 DEF Requeueing, Exhausting
<1>3. CASE i \notin claimed
  <2>1. DataTyped'
    BY <1>1, <1>3 DEF DataTyped
  <2>2. loop' \in LoopRec /\ LoopHas(loop')
    BY <1>1, <1>3, IdleFacts DEF LoopHas
  <2> QED
    BY <1>2, <2>1, <2>2, LoopKeeps
<1>4. CASE i \in claimed
  <2>1. failures[i] \in Nat
    BY <1>1 DEF DataTyped
  <2>2. loop' = [pc |-> "record", issue |-> i, count |-> failures[i] + 1]
    BY <1>4
  <2>3. loop' \in LoopRec /\ LoopHas(loop')
    BY <2>1, <2>2 DEF LoopHas, LoopRec, LoopStates
  <2>4. memFailures' \in [Issues -> Nat] /\ failures' \in [Issues -> Nat]
    <3>1. failures[i] + 1 \in Nat /\ memFailures' = [memFailures EXCEPT ![i] = failures[i] + 1]
      BY <1>4, <2>1
    <3>2. failures \in [Issues -> Nat] /\ memFailures \in [Issues -> Nat]
      BY <1>1 DEF DataTyped
    <3>3. failures' = [failures EXCEPT ![i] = 0]
      BY <1>4
    <3> HIDE DEF ReleaseTimedOut
    <3>4. memFailures' \in [Issues -> Nat]
      BY <3>1, <3>2
    <3> QED
      BY <3>2, <3>3, <3>4
  <2>5. DataTyped'
    BY <1>1, <1>4, <2>4 DEF DataTyped
  <2> QED
    BY <1>2, <2>3, <2>5, LoopKeeps
<1> QED
  BY <1>3, <1>4

\* The timeout is counted.
LEMMA RecordTimeoutKeeps ==
    ASSUME IInv, RecordTimeout
    PROVE  IInv'
<1> DEFINE i == loop.issue
<1> USE DEF RecordTimeout, LoopAt, forgeVars, memory, pool, listing
<1>1. DataTyped /\ loop \in LoopRec /\ loop.pc = "record" /\ i \in Issues
  BY Facts DEF LoopHas
<1>2. /\ persisted' \in [Numbers -> Nat]
      /\ Settled => \A j \in Issues : j # i => persisted'[j.number] = persisted[j.number]
  BY <1>1, Counted
<1>3. DataTyped'
  BY <1>1, <1>2 DEF DataTyped
<1>4. loop' \in LoopRec /\ loop'.pc = "read" /\ loop'.issue = i
  BY <1>1, LoopGoes DEF LoopStates
<1>5. LoopHas(loop')
  BY <1>1, <1>4 DEF LoopHas
<1>6. \A j \in Issues : /\ ~Requeueing(loop, j) /\ ~Exhausting(loop, j)
                        /\ j = i => Exhausting(loop', j)
  BY <1>1, <1>4 DEF Requeueing, Exhausting
<1>7. \A j \in Issues : Settled /\ persisted'[j.number] >= Limit =>
         Exhausting(loop', j) \/ persisted[j.number] >= Limit
  BY <1>2, <1>6
<1> QED
  BY <1>3, <1>4, <1>5, <1>6, <1>7, LoopKeeps

\* A count at the limit is seen.
LEMMA ReadFailureCountKeeps ==
    ASSUME IInv, ReadFailureCount
    PROVE  IInv'
<1> DEFINE i == loop.issue
           n == Larger(persisted[i.number], loop.count)
           l1 == [loop EXCEPT !.pc = "unlabel"]
           l == [l1 EXCEPT !.count = n]
<1> USE DEF ReadFailureCount, LoopAt, forgeVars, memory, pool, listing
<1>1. DataTyped /\ loop \in LoopRec /\ loop.pc = "read" /\ i \in Issues
  BY Facts DEF LoopHas
<1>2. persisted[i.number] \in Nat /\ loop.count \in Nat
  BY <1>1 DEF DataTyped, Numbers, LoopRec
<1>3. n \in Nat /\ n >= persisted[i.number]
  BY <1>2 DEF Larger
<1>4. memFailures' \in [Issues -> Nat]
  BY <1>1, <1>3 DEF DataTyped
<1>5. loop' = l
  BY <1>1
<1> HIDE DEF n
<1>6. l1 \in LoopRec /\ l1.issue = i /\ l1.pc = "unlabel"
  BY <1>1, LoopGoes DEF LoopStates
<1> HIDE DEF l1
<1>7. l \in LoopRec /\ l.pc = "unlabel" /\ l.issue = i /\ l.count = n
  BY <1>3, <1>6 DEF LoopRec
<1> HIDE DEF l
<1>8. DataTyped'
  BY <1>1, <1>4 DEF DataTyped
<1>9. LoopHas(loop')
  BY <1>1, <1>5, <1>7 DEF LoopHas
<1>10. \A j \in Issues : ~Requeueing(loop, j)
  BY <1>1 DEF Requeueing
<1>11. \A j \in Issues : persisted[j.number] >= Limit =>
          Exhausting(loop', j) \/ ~Exhausting(loop, j)
  <2>1. persisted[i.number] >= Limit => n >= MaxConsecutiveFailures
    BY <1>2, <1>3, LimitFacts
  <2> QED
    BY <1>1, <1>5, <1>7, <2>1 DEF Exhausting
<1> QED
  BY <1>5, <1>7, <1>8, <1>9, <1>10, <1>11, LoopKeeps

\* The released claim's label is off.
LEMMA UnlabelTimedOutKeeps ==
    ASSUME IInv, UnlabelTimedOut
    PROVE  IInv'
<1> DEFINE i == loop.issue
<1> USE DEF UnlabelTimedOut, LoopAt, memory, pool, listing
<1>1. DataTyped /\ loop \in LoopRec /\ loop.pc = "unlabel" /\ i \in Issues
  BY Facts DEF LoopHas
<1>2. /\ labels' \in [Issues -> SUBSET Labels] /\ faults' \in 0..MaxFaults
      /\ faults' = 0 => /\ faults = 0
                        /\ \A j \in Issues : labels'[j] = IF j = i THEN labels[i] \ {"claimed"}
                                                                   ELSE labels[j]
  BY <1>1, Unlabelled DEF Labels
<1>3. DataTyped'
  BY <1>1, <1>2 DEF DataTyped
<1>4. loop' \in LoopRec /\ loop'.pc = "requeue" /\ loop'.issue = i /\ loop'.count = loop.count
  BY <1>1, LoopGoes DEF LoopStates
<1>5. LoopHas(loop')
  BY <1>1, <1>4 DEF LoopHas
<1>6. \A j \in Issues : /\ ~Requeueing(loop, j)
                        /\ j = i => Requeueing(loop', j)
                        /\ Exhausting(loop, j) => Exhausting(loop', j)
  BY <1>1, <1>4 DEF Requeueing, Exhausting
<1>7. faults' = 0 => \A j \in Issues :
        /\ "claimed" \in labels'[j] => "claimed" \in labels[j]
        /\ labels'[j] = {} => Requeueing(loop', j) \/ labels[j] = {}
        /\ "needs-human" \in labels[j] => "needs-human" \in labels'[j]
  BY <1>2, <1>6
<1> QED
  BY <1>2, <1>3, <1>4, <1>5, <1>6, <1>7, LoopKeeps

\* It is queued again, and is escalated when it is at the limit.
LEMMA RequeueTimedOutKeeps ==
    ASSUME IInv, RequeueTimedOut
    PROVE  IInv'
<1> DEFINE i == loop.issue
<1> USE DEF RequeueTimedOut, LoopAt, memory, pool, listing
<1>1. DataTyped /\ loop \in LoopRec /\ loop.pc = "requeue" /\ i \in Issues
  BY Facts DEF LoopHas
<1>2. /\ labels' \in [Issues -> SUBSET Labels] /\ faults' \in 0..MaxFaults
      /\ faults' = 0 => /\ faults = 0
                        /\ \A j \in Issues : labels'[j] = IF j = i THEN labels[i] \cup {"queued"}
                                                                   ELSE labels[j]
  BY <1>1, Labelled DEF Labels
<1>3. DataTyped'
  BY <1>1, <1>2 DEF DataTyped
<1>4. /\ loop' \in LoopRec /\ LoopHas(loop')
      /\ \A j \in Issues : Exhausting(loop, j) => Exhausting(loop', j)
  <2>1. CASE loop.count >= MaxConsecutiveFailures
    <3>1. loop' \in LoopRec /\ loop'.pc = "escalate" /\ loop'.issue = i
      BY <1>1, <2>1, LoopGoes DEF LoopStates
    <3> QED
      BY <1>1, <3>1 DEF LoopHas, Exhausting
  <2>2. CASE ~(loop.count >= MaxConsecutiveFailures)
    <3>1. loop' \in LoopRec /\ loop'.pc \in {"select", "next"}
      BY <2>2, NextFacts
    <3> QED
      BY <1>1, <2>2, <3>1 DEF LoopHas, Exhausting
  <2> QED
    BY <2>1, <2>2
<1>5. faults' = 0 => \A j \in Issues :
        /\ "claimed" \in labels'[j] => "claimed" \in labels[j]
        /\ labels'[j] = {} => labels[j] = {} /\ ~Requeueing(loop, j)
        /\ "needs-human" \in labels[j] => "needs-human" \in labels'[j]
  BY <1>1, <1>2 DEF Requeueing
<1> QED
  BY <1>2, <1>3, <1>4, <1>5, LoopKeeps

\* A human has it.
LEMMA EscalateTimedOutKeeps ==
    ASSUME IInv, EscalateTimedOut
    PROVE  IInv'
<1> DEFINE i == loop.issue
<1> USE DEF EscalateTimedOut, LoopAt, memory, pool, listing
<1>1. DataTyped /\ loop \in LoopRec /\ loop.pc = "escalate" /\ i \in Issues
  BY Facts DEF LoopHas
<1>2. /\ labels' \in [Issues -> SUBSET Labels] /\ faults' \in 0..MaxFaults
      /\ faults' = 0 => /\ faults = 0
                        /\ \A j \in Issues : labels'[j] = IF j = i THEN labels[i] \cup {"needs-human"}
                                                                   ELSE labels[j]
  BY <1>1, Labelled DEF Labels
<1>3. DataTyped'
  BY <1>1, <1>2 DEF DataTyped
<1>4. loop' \in LoopRec /\ loop'.pc \in {"select", "next"} /\ LoopHas(loop')
  BY NextFacts DEF LoopHas
<1>5. faults' = 0 => \A j \in Issues :
        /\ "claimed" \in labels'[j] => "claimed" \in labels[j]
        /\ labels'[j] = {} => labels[j] = {} /\ ~Requeueing(loop, j)
        /\ "needs-human" \in labels'[j] \/ ("needs-human" \notin labels[j] /\ ~Exhausting(loop, j))
  BY <1>1, <1>2 DEF Requeueing, Exhausting
<1> QED
  BY <1>2, <1>3, <1>4, <1>5, LoopKeeps

\* A claim goes stale.
LEMMA AgeKeeps ==
    ASSUME IInv, NEW i \in Issues, Age(i)
    PROVE  IInv'
<1> USE DEF Age, forgeVars, pool, listing, sweep
<1>1. DataTyped'
  BY Facts DEF DataTyped
<1>2. loop' \in LoopRec /\ LoopHas(loop')
  BY Facts
<1> QED
  BY <1>1, <1>2, LoopKeeps

\* People never take a claimed label off, nor the last label.
LEMMA PersonKeeps ==
    ASSUME IInv, PersonActs
    PROVE  IInv'
<1> USE DEF PersonActs, Person, memory, pool, listing, sweep
<1>1. DataTyped /\ loop' \in LoopRec /\ LoopHas(loop')
  BY Facts
<1>2. acts' \in 0..MaxActs
  BY <1>1, ClaimAssumption DEF DataTyped
<1>3. /\ open' \subseteq Issues /\ labels' \in [Issues -> SUBSET Labels]
      /\ \A j \in Issues :
           /\ "claimed" \in labels'[j] => "claimed" \in labels[j]
           /\ labels'[j] = {} => labels[j] = {}
           /\ Settled /\ "needs-human" \in labels[j] => "needs-human" \in labels'[j]
  <2>1. PICK i \in Issues :
          \/ "open" \in Deeds /\ Open(i)
          \/ "close" \in Deeds /\ Close(i)
          \/ "send-back" \in Deeds /\ SendBack(i)
          \/ "take-over" \in Deeds /\ TakeOver(i)
    OBVIOUS
  <2>2. CASE Open(i)
    BY <1>1, <2>2 DEF Open, DataTyped
  <2>3. CASE Close(i)
    BY <1>1, <2>3 DEF Close, DataTyped
  <2>4. CASE "send-back" \in Deeds /\ SendBack(i)
    <3>1. labels \in [Issues -> SUBSET Labels] /\ "queued" \in Labels
      BY <1>1 DEF DataTyped, Labels
    <3>2. labels' = [labels EXCEPT ![i] = (labels[i] \ {"needs-human", "needs-qc"}) \cup {"queued"}]
      BY <2>4 DEF SendBack
    <3>3. /\ labels' \in [Issues -> SUBSET Labels]
          /\ \A j \in Issues : labels'[j] =
               IF j = i THEN (labels[i] \ {"needs-human", "needs-qc"}) \cup {"queued"} ELSE labels[j]
      BY <3>1, <3>2
    <3>4. ~Settled /\ open' \subseteq Issues
      BY <1>1, <2>4 DEF Settled, SendBack, DataTyped
    <3> QED
      BY <3>3, <3>4
  <2>5. CASE TakeOver(i)
    <3>1. labels \in [Issues -> SUBSET Labels] /\ "needs-human" \in Labels
      BY <1>1 DEF DataTyped, Labels
    <3>2. labels' = [labels EXCEPT ![i] = labels[i] \cup {"needs-human"}]
      BY <2>5 DEF TakeOver
    <3>3. /\ labels' \in [Issues -> SUBSET Labels]
          /\ \A j \in Issues : labels'[j] =
               IF j = i THEN labels[i] \cup {"needs-human"} ELSE labels[j]
      BY <3>1, <3>2
    <3>4. open' \subseteq Issues
      BY <1>1, <2>5 DEF TakeOver, DataTyped
    <3> QED
      BY <3>3, <3>4
  <2> QED
    BY <2>1, <2>2, <2>3, <2>4, <2>5
<1>4. DataTyped'
  BY <1>1, <1>2, <1>3 DEF DataTyped
<1> QED
  BY <1>1, <1>3, <1>4, LoopKeeps

\* What the forge and the store hold.
Stored ==
    /\ open \subseteq Issues /\ labels \in [Issues -> SUBSET Labels]
    /\ acts \in 0..MaxActs /\ faults \in 0..MaxFaults /\ crashes \in 0..MaxCrashes
    /\ persisted \in [Numbers -> Nat]

\* A fresh process is well-formed.
LEMMA MemorylessFacts == Memoryless /\ Stored => TypeOK /\ PlaceInv
<1> SUFFICES ASSUME Memoryless, Stored
             PROVE  TypeOK /\ PlaceInv
  OBVIOUS
<1>1. DataTyped
  <2>1. failures \in [Issues -> Nat] /\ memFailures \in [Issues -> Nat]
    BY DEF Memoryless
  <2>2. queue \in Seq(Issues)
    BY DEF Memoryless
  <2>3. /\ claimed \subseteq Issues /\ stale \subseteq claimed /\ timedOut \subseteq Issues
        /\ known \subseteq Issues /\ closings \subseteq Issues
        /\ todo \subseteq [issue : Issues, labels : SUBSET Labels]
    BY DEF Memoryless
  <2>4. budgetOpen \in BOOLEAN
    BY DEF Memoryless
  <2> QED
    BY <2>1, <2>2, <2>3, <2>4 DEF DataTyped, Stored
<1>2. /\ watcher = [r \in Repos |-> Disconnected] /\ Disconnected \in WatcherRec
      /\ worker = [w \in Workers |-> IdleWorker] /\ IdleWorker \in WorkerRec
      /\ loop = Selecting /\ Selecting \in LoopRec
  BY IdleFacts DEF Memoryless
<1>3. PlaceInv
  <2>1. \A r \in Repos : WatcherHas(r, watcher[r])
    BY IdleFacts DEF Memoryless, WatcherHas
  <2>2. \A w \in Workers : WorkerHas(worker[w])
    BY IdleFacts DEF Memoryless, WorkerHas
  <2>3. LoopHas(loop)
    BY IdleFacts DEF Memoryless, LoopHas
  <2> QED
    BY <2>1, <2>2, <2>3 DEF PlaceInv
<1>4. TypeOK
  BY <1>1, <1>2 DEF TypeOK, DataTyped, WatcherRec, WorkerRec, LoopRec
<1> QED
  BY <1>3, <1>4

\* A crash keeps the forge and the store.
LEMMA CrashKeeps ==
    ASSUME IInv, Crash
    PROVE  IInv'
<1>1. DataTyped /\ crashes' \in 0..MaxCrashes /\ crashes' # 0
  BY Facts, ClaimAssumption DEF Crash, DataTyped
<1>2. Memoryless'
  BY DEF Crash, Memoryless
<1>3. Stored'
  BY <1>1 DEF Crash, DataTyped, Stored
<1>4. TypeOK' /\ PlaceInv'
  BY <1>2, <1>3, MemorylessFacts, PTL
<1>5. SafeInv'
  BY <1>1 DEF SafeInv, Undisturbed
<1> QED
  BY <1>4, <1>5 DEF IInv

(***************************************************************************)
(* The theorems.                                                           *)
(***************************************************************************)

\* Initially every issue is queued.
LEMMA Initially == Init => IInv
<1> SUFFICES ASSUME Init
             PROVE  IInv
  OBVIOUS
<1>1. \A i \in Issues : labels[i] = {"queued"} /\ i.number \in Numbers /\ persisted[i.number] = 0
  BY DEF Init, Numbers
<1>2. Memoryless
  BY DEF Init
<1>3. Stored
  BY ClaimAssumption DEF Init, Stored, Labels
<1>4. TypeOK /\ PlaceInv
  BY <1>2, <1>3, MemorylessFacts
<1>5. LabelInv /\ DropInv
  BY <1>1 DEF LabelInv, DropInv
<1>6. LimitInv
  BY <1>1, LimitFacts DEF LimitInv
<1> QED
  BY <1>4, <1>5, <1>6 DEF IInv, SafeInv

\* Every step of a watcher, a worker, the Run loop, the clock, a person or a crash keeps it.
LEMMA StepKeeps == IInv /\ [Next]_vars => IInv'
<1> SUFFICES ASSUME IInv, [Next]_vars
             PROVE  IInv'
  OBVIOUS
<1>1. ASSUME NEW r \in Repos, WatcherStep(r) \/ Reconnect(r)
      PROVE  IInv'
  BY <1>1, ConnectKeeps, ReconnectKeeps, PollKeeps, HandleOpenedKeeps, GiveUpKeeps,
     LabelHumanKeeps, UnqueueKeeps, LabelClaimedKeeps, ReadPriorFailuresKeeps, ClaimKeeps,
     CreateSessionKeeps, SubmitKeeps, HandleClosedKeeps, ClearClosedKeeps DEF WatcherStep
<1>2. ASSUME NEW w \in Workers, WorkerStep(w)
      PROVE  IInv'
  BY <1>2, StartKeeps, HeartbeatKeeps, CompleteKeeps, UnlabelCompletedKeeps,
     ClearSucceededKeeps, LabelQCKeeps, RecordFailureKeeps, DecideKeeps, RequeueFailedKeeps,
     GiveUpFailedKeeps, EscalateFailedKeeps DEF WorkerStep
<1>3. CASE LoopStep
  BY <1>3, CheckTimeoutsKeeps, ReleaseTimedOutKeeps, RecordTimeoutKeeps,
     ReadFailureCountKeeps, UnlabelTimedOutKeeps, RequeueTimedOutKeeps,
     EscalateTimedOutKeeps DEF LoopStep
<1>4. CASE UNCHANGED vars
  <2>1. DataTyped' /\ loop' \in LoopRec /\ LoopHas(loop')
    BY <1>4, Facts DEF DataTyped, vars, forgeVars, memory, pool, listing, sweep
  <2> QED
    BY <1>4, <2>1, LoopKeeps DEF vars, forgeVars, memory, pool, listing, sweep
<1> QED
  BY <1>1, <1>2, <1>3, <1>4, AgeKeeps, PersonKeeps, CrashKeeps DEF Next

\* The inductive invariant: who is where, and, undisturbed, who still has to act on a
\* claimed, an unlabelled and an exhausted issue.
THEOREM Inductive == Spec => []IInv
BY Initially, StepKeeps, PTL DEF Spec

\* Every variable of the life of claims keeps its type, whatever fails or crashes.
THEOREM TypeCorrect == Spec => []TypeOK
<1>1. IInv => TypeOK
  BY DEF IInv
<1> QED
  BY <1>1, Inductive, PTL

\* Whoever still has to act on an issue handles it.
LEMMA HandledFacts ==
    ASSUME IInv, NEW i \in Issues, Tasked(i) \/ Between(i) \/ Escalating(i)
    PROVE  Handled(i)
<1>1. ASSUME NEW r \in Repos, watcher[r].issue = i, watcher[r].pc \notin {"disconnected", "ready"}
      PROVE  Handled(i)
  BY <1>1, Facts DEF WatcherHas, Handled
<1>2. ASSUME NEW w \in Workers, worker[w].issue = i
      PROVE  Handled(i)
  BY <1>2 DEF Handled
<1>3. CASE Tasked(i)
  BY <1>1, <1>2, <1>3 DEF Tasked, Tasking, Working, Queued, Handled
<1>4. CASE Between(i)
  BY <1>1, <1>2, <1>4 DEF Between, Routing, Ending, Requeueing, Handled
<1>5. CASE Escalating(i)
  BY <1>1, <1>2, <1>5 DEF Escalating, Refusing, GivingUp, Exhausting, Handled
<1> QED
  BY <1>3, <1>4, <1>5

\* As long as no call fails and the process lives, over every interleaving of watchers,
\* workers, the Run loop and people, an issue with the claimed label is claimed or has a
\* task: route, handleTaskComplete and releaseTimedOut leave no label behind.
THEOREM LabelsComeOff == Spec => [](Undisturbed => NoOrphanedLabel)
<1>1. IInv => (Undisturbed => NoOrphanedLabel)
  BY HandledFacts DEF IInv, SafeInv, LabelInv, NoOrphanedLabel
<1> QED
  BY <1>1, Inductive, PTL

\* Under the same condition, an issue without a label is in somebody's hands: between the
\* RemoveLabel and the AddLabel of several goroutines no issue falls out of the pipeline.
THEOREM IssuesStay == Spec => [](Undisturbed => NoIssueDropped)
<1>1. IInv => (Undisturbed => NoIssueDropped)
  BY HandledFacts DEF IInv, SafeInv, DropInv, NoIssueDropped
<1> QED
  BY <1>1, Inductive, PTL

\* Under the same condition, when issue numbers are unique over the repositories, nobody
\* sends an issue back to the queue and every issue can be decomposed, an issue whose
\* persisted count reached both limits waits for a human or is about to.
THEOREM LimitKept ==
    ASSUME Settled
    PROVE  Spec => [](Undisturbed => EscalatedAtLimit)
<1>1. IInv => (Undisturbed => EscalatedAtLimit)
  BY HandledFacts DEF IInv, SafeInv, LimitInv, EscalatedAtLimit, Limit
<1> QED
  BY <1>1, Inductive, PTL
=============================================================================
