-------------------------- MODULE AgentPool_proofs --------------------------
(***************************************************************************)
(* Proofs about AgentPool, for any callers, tasks, bounds and buffer sizes. *)
(*                                                                         *)
(* Neither TypeOK nor the accounting of goroutines is inductive by itself. *)
(* They need to know that only a RemoveWorkers in progress owes quit       *)
(* signals, who may hold p.mu and in which order Shutdown moves            *)
(* (CallerInv), that a task is never both queued and running (TaskInv),    *)
(* that one worker is always kept (CountInv), and that nothing starts      *)
(* again after the drain (DrainInv).                                       *)
(***************************************************************************)
EXTENDS AgentPool, FiniteSetTheorems, SequenceTheorems, TLAPS

(***************************************************************************)
(* The inductive invariant.                                                *)
(***************************************************************************)
\* Program counters, p.mu and the local variables of a call agree.
CallerInv ==
    /\ \A c \in Callers :
        /\ unsent[c] > 0 => pc[c] \in {"quitting", "restoring"}
        /\ pc[c] = "quitting" => unsent[c] > 0
        /\ pc[c] = "sending" <=> mu = c
        /\ pc[c] = "closing" => shutdown /\ ~closed
        /\ pc[c] = "waiting" => closed
    /\ \A c, d \in Callers :
        pc[c] = "closing" /\ pc[d] = "closing" => c = d
    /\ mu # NoCaller => ~shutdown /\ task \in Tasks \ accepted
    /\ closed => shutdown

\* A task is in exactly one of: the buffer (once), running, completed.
TaskInv ==
    /\ \A i \in 1..Len(tasks) :
        /\ tasks[i] \in accepted
        /\ tasks[i] \notin running
        /\ tasks[i] \notin completed
    /\ \A i, j \in 1..Len(tasks) : tasks[i] = tasks[j] => i = j
    /\ running \subseteq accepted
    /\ completed \subseteq accepted
    /\ running \cap completed = {}
    /\ \A t \in accepted : \/ t \in running
                           \/ t \in completed
                           \/ \E i \in 1..Len(tasks) : tasks[i] = t

CountInv ==
    /\ workers >= 1
    /\ IsFiniteSet(running)
    /\ IsFiniteSet(Owed)
    /\ WorkerAccounting

DrainInv ==
    drained => /\ closed /\ tasks = <<>>
               /\ receiving = 0 /\ finished = 0 /\ running = {}

IInv == TypeOK /\ CallerInv /\ TaskInv /\ CountInv /\ DrainInv

(***************************************************************************)
(* Type correctness.                                                       *)
(***************************************************************************)
LEMMA TypeInit == Init => TypeOK /\ CallerInv
<1> SUFFICES ASSUME Init PROVE TypeOK /\ CallerInv
  OBVIOUS
<1>1. tasks \in Seq(Tasks)
  BY EmptySeq DEF Init
<1>2. TypeOK
  <2>1. pc \in [Callers -> PcStates] /\ delta \in [Callers -> Int]
        /\ unsent \in [Callers -> Nat]
    BY DEF Init, PcStates
  <2>2. shutdown \in BOOLEAN /\ closed \in BOOLEAN /\ drained \in BOOLEAN
    BY Zenon DEF Init
  <2>3. /\ mu \in Callers \cup {NoCaller} /\ task \in Tasks \cup {NoTask}
        /\ running \subseteq Tasks /\ accepted \subseteq Tasks
        /\ completed \subseteq Tasks
    BY DEF Init
  <2>4. workers \in Nat /\ receiving \in Nat /\ finished \in Nat /\ quits \in 0..QuitBuf
    BY PoolAssumption DEF PoolAssumption, Init
  <2> QED
    BY <1>1, <2>1, <2>2, <2>3, <2>4 DEF TypeOK
<1>3. CallerInv
  BY PoolAssumption DEF PoolAssumption, Init, CallerInv
<1> QED
  BY <1>2, <1>3

\* A reservation keeps one worker.
LEMMA RemovableRange ==
  ASSUME workers \in Nat, workers - 1 > 0, NEW n \in Nat \ {0}
  PROVE  /\ Removable(n) \in Nat \ {0}
         /\ workers - Removable(n) \in Nat \ {0}
  BY DEF Removable

\* The start of RemoveWorkers keeps the types.
LEMMA ReserveType ==
  ASSUME TypeOK, NEW c \in Callers, NEW n \in Nat \ {0}, Reserve(c, n),
         delta' \in [Callers -> Int]
  PROVE  TypeOK'
<1>1. CASE workers - 1 <= 0
  BY <1>1 DEF Reserve, TypeOK, PcStates, Goto, liveVars, history
<1>2. CASE ~(workers - 1 <= 0)
  <2>1. /\ Removable(n) \in Nat \ {0}
        /\ workers - Removable(n) \in Nat \ {0}
    BY <1>2, RemovableRange DEF TypeOK
  <2> QED
    BY <1>2, <2>1 DEF Reserve, TypeOK, PcStates, Goto, liveVars, history
<1> QED
  BY <1>1, <1>2

\* The start of RemoveWorkers keeps mutex, program counters and locals in agreement.
LEMMA ReserveCaller ==
  ASSUME TypeOK, CallerInv, NEW c \in Callers, NEW n \in Nat \ {0}, Reserve(c, n),
         pc[c] \in {"idle", "scaling"}
  PROVE  CallerInv'
<1> DEFINE n1 == Removable(n)
<1>1. /\ mu = NoCaller /\ mu' = mu
      /\ shutdown' = shutdown /\ closed' = closed
    BY DEF Reserve, Unlocked
<1>2. CASE workers - 1 <= 0
  <2>1. pc' = [pc EXCEPT ![c] = "idle"] /\ unsent' = unsent
    BY <1>2 DEF Reserve, Goto
  <2> QED
    BY <1>1, <2>1, PoolAssumption DEF PoolAssumption, CallerInv, TypeOK
<1>3. CASE ~(workers - 1 <= 0)
  <2>1. n1 \in Nat \ {0}
    BY <1>3, RemovableRange DEF TypeOK
  <2>2. /\ pc' = [pc EXCEPT ![c] = "quitting"]
        /\ unsent' = [unsent EXCEPT ![c] = n1]
    BY <1>3 DEF Reserve, Goto
  <2> HIDE DEF n1
  <2>3. /\ pc'[c] = "quitting" /\ unsent'[c] = n1
        /\ \A d \in Callers : d # c => pc'[d] = pc[d] /\ unsent'[d] = unsent[d]
    BY <2>2 DEF TypeOK
  <2> QED
    BY <1>1, <2>1, <2>3, PoolAssumption DEF PoolAssumption, CallerInv
<1> QED
  BY <1>2, <1>3

\* Every step keeps the types.
LEMMA TypeStep == TypeOK /\ CallerInv /\ [Next]_vars => TypeOK'
<1> SUFFICES ASSUME TypeOK, CallerInv, [Next]_vars PROVE TypeOK'
  OBVIOUS
<1> USE PoolAssumption DEF PoolAssumption, TypeOK, PcStates, Goto, callVars, liveVars, history
<1>1. CASE Receive
  BY <1>1, HeadTailProperties DEF Receive
<1>2. ASSUME NEW t \in Tasks, ProcessTask(t) PROVE TypeOK'
  BY <1>2 DEF ProcessTask
<1>3. CASE TakeQuit
  BY <1>3 DEF TakeQuit
<1>4. CASE NoQuit
  BY <1>4 DEF NoQuit
<1>5. CASE ExitOnClosed
  BY <1>5 DEF ExitOnClosed
<1>6. ASSUME NEW c \in Callers, CallerStep(c) PROVE TypeOK'
  <2>1. CASE SendQuit(c)
    BY <2>1 DEF SendQuit, At, CallerInv
  <2>2. CASE QuitBufferFull(c)
    BY <2>2 DEF QuitBufferFull
  <2>3. CASE RestoreUnsent(c)
    BY <2>3 DEF RestoreUnsent
  <2>4. CASE ResizeGrow(c)
    BY <2>4 DEF ResizeGrow
  <2>5. CASE ResizeShrink(c)
    <3>1. -delta[c] \in Nat \ {0}
      BY <2>5 DEF ResizeShrink
    <3>2. delta' \in [Callers -> Int] /\ Reserve(c, -delta[c])
      BY <2>5, <3>1 DEF ResizeShrink
    <3> HIDE DEF TypeOK, PcStates, Goto
    <3> QED
      BY <3>1, <3>2, ReserveType
  <2>6. CASE SubmitSend(c)
    <3>1. task \in Tasks /\ mu = c
      BY <2>6 DEF SubmitSend, At, CallerInv
    <3>2. tasks' \in Seq(Tasks)
      BY <2>6, <3>1, AppendProperties DEF SubmitSend
    <3> QED
      BY <2>6, <3>1, <3>2 DEF SubmitSend
  <2>7. CASE CloseTasks(c)
    BY <2>7 DEF CloseTasks
  <2>8. CASE ShutdownReturn(c)
    BY <2>8 DEF ShutdownReturn
  <2> QED
    BY <1>6, <2>1, <2>2, <2>3, <2>4, <2>5, <2>6, <2>7, <2>8 DEF CallerStep
<1>7. ASSUME NEW c \in Callers, CallerCall(c) PROVE TypeOK'
  <2>1. ASSUME NEW n \in Amounts, AddWorkers(c, n) PROVE TypeOK'
    BY <2>1 DEF AddWorkers
  <2>2. ASSUME NEW n \in Amounts, RemoveWorkers(c, n) PROVE TypeOK'
    <3>1. delta' \in [Callers -> Int] /\ Reserve(c, n) /\ n \in Nat \ {0}
      BY <2>2 DEF RemoveWorkers
    <3> HIDE DEF TypeOK, PcStates, Goto
    <3> QED
      BY <3>1, ReserveType
  <2>3. ASSUME NEW n \in Amounts, ResizeBegin(c, n) PROVE TypeOK'
    BY <2>3 DEF ResizeBegin
  <2>4. ASSUME NEW t \in Tasks, SubmitLock(c, t) PROVE TypeOK'
    BY <2>4 DEF SubmitLock
  <2>5. CASE ShutdownBegin(c)
    BY <2>5 DEF ShutdownBegin
  <2> QED
    BY <1>7, <2>1, <2>2, <2>3, <2>4, <2>5 DEF CallerCall
<1>8. CASE UNCHANGED vars
  BY <1>8 DEF vars
<1> QED
  BY <1>1, <1>2, <1>3, <1>4, <1>5, <1>6, <1>7, <1>8 DEF Next, WorkerStep

(***************************************************************************)
(* Calls in progress.                                                      *)
(***************************************************************************)
LEMMA CallerStepInv == TypeOK /\ CallerInv /\ [Next]_vars => CallerInv'
<1> SUFFICES ASSUME TypeOK, CallerInv, [Next]_vars PROVE CallerInv'
  OBVIOUS
<1> USE PoolAssumption DEF PoolAssumption, TypeOK, PcStates, CallerInv, Goto,
        At, Unlocked, callVars, liveVars, history
<1>1. CASE WorkerStep
  BY <1>1 DEF WorkerStep, Receive, ProcessTask, TakeQuit, NoQuit, ExitOnClosed
<1>2. ASSUME NEW c \in Callers, CallerStep(c) PROVE CallerInv'
  <2>1. CASE SendQuit(c)
    BY <2>1 DEF SendQuit
  <2>2. CASE QuitBufferFull(c)
    BY <2>2 DEF QuitBufferFull
  <2>3. CASE RestoreUnsent(c)
    BY <2>3 DEF RestoreUnsent
  <2>4. CASE ResizeGrow(c)
    BY <2>4 DEF ResizeGrow
  <2>5. CASE ResizeShrink(c)
    <3>1. -delta[c] \in Nat \ {0} /\ pc[c] = "scaling"
      BY <2>5 DEF ResizeShrink
    <3> QED
      BY <2>5, <3>1, ReserveCaller DEF ResizeShrink
  <2>6. CASE SubmitSend(c)
    BY <2>6 DEF SubmitSend
  <2>7. CASE CloseTasks(c)
    BY <2>7 DEF CloseTasks
  <2>8. CASE ShutdownReturn(c)
    BY <2>8 DEF ShutdownReturn
  <2> QED
    BY <1>2, <2>1, <2>2, <2>3, <2>4, <2>5, <2>6, <2>7, <2>8 DEF CallerStep
<1>3. ASSUME NEW c \in Callers, CallerCall(c) PROVE CallerInv'
  <2>1. ASSUME NEW n \in Amounts, AddWorkers(c, n) PROVE CallerInv'
    BY <2>1 DEF AddWorkers
  <2>2. ASSUME NEW n \in Amounts, RemoveWorkers(c, n) PROVE CallerInv'
    BY <2>2, ReserveCaller DEF RemoveWorkers
  <2>3. ASSUME NEW n \in Amounts, ResizeBegin(c, n) PROVE CallerInv'
    BY <2>3 DEF ResizeBegin
  <2>4. ASSUME NEW t \in Tasks, SubmitLock(c, t) PROVE CallerInv'
    BY <2>4 DEF SubmitLock
  <2>5. CASE ShutdownBegin(c)
    BY <2>5 DEF ShutdownBegin
  <2> QED
    BY <1>3, <2>1, <2>2, <2>3, <2>4, <2>5 DEF CallerCall
<1>4. CASE UNCHANGED vars
  BY <1>4 DEF vars
<1> QED
  BY <1>1, <1>2, <1>3, <1>4 DEF Next

\* Every variable keeps its type, for any number of callers, tasks and workers.
THEOREM TypeCorrect == Spec => []TypeOK
<1>1. Init => TypeOK /\ CallerInv
  BY TypeInit
<1>2. TypeOK /\ CallerInv /\ [Next]_vars => TypeOK' /\ CallerInv'
  BY TypeStep, CallerStepInv
<1> QED
  BY <1>1, <1>2, PTL DEF Spec

\* The comment on Submit (pool.go:255): because p.mu is held across the send, no
\* send ever meets the channel that Shutdown closed.
THEOREM SubmitNeverPanics == Spec => []NoSendOnClosed
<1>1. Init => TypeOK /\ CallerInv
  BY TypeInit
<1>2. TypeOK /\ CallerInv /\ [Next]_vars => TypeOK' /\ CallerInv'
  BY TypeStep, CallerStepInv
<1>3. TypeOK /\ CallerInv => NoSendOnClosed
  BY PoolAssumption DEF PoolAssumption, TypeOK, CallerInv, NoSendOnClosed, At
<1> QED
  BY <1>1, <1>2, <1>3, PTL DEF Spec

(***************************************************************************)
(* Tasks: queued once, then running, then completed.                       *)
(***************************************************************************)
LEMMA TaskStep ==
  TypeOK /\ CallerInv /\ TaskInv /\ [Next]_vars => TaskInv'
<1> SUFFICES ASSUME TypeOK, CallerInv, TaskInv, [Next]_vars PROVE TaskInv'
  OBVIOUS
<1>0. \A i \in 1..Len(tasks) : tasks[i] \in Tasks
  BY ElementOfSeq DEF TypeOK
<1>1. ASSUME NEW c \in Callers, SubmitSend(c) PROVE TaskInv'
  <2>1. task \in Tasks \ accepted
    BY <1>1, PoolAssumption DEF PoolAssumption, SubmitSend, At, CallerInv
  <2>2. /\ Len(tasks) \in Nat
        /\ Len(tasks') = Len(tasks) + 1
        /\ \A i \in 1..Len(tasks) : tasks'[i] = tasks[i]
        /\ tasks'[Len(tasks) + 1] = task
    BY <1>1, <2>1, AppendProperties, LenProperties DEF SubmitSend, TypeOK
  <2>3. /\ accepted' = accepted \cup {task}
        /\ running' = running /\ completed' = completed
    BY <1>1 DEF SubmitSend, liveVars
  <2>4. \A i \in 1..Len(tasks)' : i \in 1..Len(tasks) \/ i = Len(tasks) + 1
    BY <2>2
  <2> QED
    BY <2>1, <2>2, <2>3, <2>4 DEF TaskInv
<1>2. CASE Receive
  <2>1. /\ tasks # <<>> /\ tasks' = Tail(tasks)
        /\ running' = running \cup {tasks[1]}
        /\ accepted' = accepted /\ completed' = completed
    BY <1>2 DEF Receive, history
  <2>2. /\ Len(tasks) \in Nat \ {0}
        /\ Len(tasks') = Len(tasks) - 1
        /\ \A i \in 1..Len(tasks') : tasks'[i] = tasks[i + 1]
    BY <2>1, HeadTailProperties, EmptySeq, LenProperties DEF TypeOK
  <2>3. \A i \in 1..Len(tasks) : i = 1 \/ i - 1 \in 1..Len(tasks')
    BY <2>2
  <2>4. \A i \in 1..Len(tasks') : i + 1 \in 1..Len(tasks) /\ i + 1 # 1
    BY <2>2
  <2>5. 1 \in 1..Len(tasks)
    BY <2>2
  <2>6. \A i \in 1..Len(tasks) : i = 1 \/ tasks'[i - 1] = tasks[i]
    BY <2>2, <2>3
  <2>7. \A t \in accepted : \/ t \in running \cup {tasks[1]}
                            \/ t \in completed
                            \/ \E i \in 1..Len(tasks') : tasks'[i] = t
    BY <2>3, <2>6 DEF TaskInv
  <2>8. \A i, j \in 1..Len(tasks') : tasks'[i] = tasks'[j] => i = j
    BY <2>2, <2>4 DEF TaskInv
  <2>9. \A i \in 1..Len(tasks') : /\ tasks'[i] \in accepted
                                  /\ tasks'[i] \notin running \cup {tasks[1]}
                                  /\ tasks'[i] \notin completed
    BY <2>2, <2>4, <2>5 DEF TaskInv
  <2> QED
    BY <2>1, <2>5, <2>7, <2>8, <2>9 DEF TaskInv
<1>3. ASSUME NEW t \in Tasks, ProcessTask(t) PROVE TaskInv'
  BY <1>3 DEF ProcessTask, TaskInv
<1>4. CASE UNCHANGED <<tasks, running, accepted, completed>>
  BY <1>4 DEF TaskInv
<1> QED
  <2>1. CASE UNCHANGED vars
    BY <1>4, <2>1 DEF vars, liveVars, history
  <2>2. CASE WorkerStep
    BY <1>2, <1>3, <1>4, <2>2
    DEF WorkerStep, TakeQuit, NoQuit, ExitOnClosed, history
  <2>3. ASSUME NEW c \in Callers, CallerStep(c) PROVE TaskInv'
    BY <1>1, <1>4, <2>3
    DEF CallerStep, SendQuit, QuitBufferFull, RestoreUnsent, ResizeGrow,
        ResizeShrink, Reserve, CloseTasks, ShutdownReturn, liveVars, history
  <2>4. ASSUME NEW c \in Callers, CallerCall(c) PROVE TaskInv'
    BY <1>4, <2>4
    DEF CallerCall, AddWorkers, RemoveWorkers, Reserve, ResizeBegin,
        SubmitLock, ShutdownBegin, liveVars, history
  <2> QED
    BY <2>1, <2>2, <2>3, <2>4 DEF Next

(***************************************************************************)
(* The quit signals owed, as a set with one element per signal.            *)
(***************************************************************************)
OwedBy(u) == UNION {{c} \X (1..u[c]) : c \in Callers}

\* An element stands for one signal of one caller.
LEMMA OwedMember ==
  ASSUME NEW u, NEW x
  PROVE  x \in OwedBy(u) <=> \E c \in Callers : \E i \in 1..u[c] : x = <<c, i>>
  BY DEF OwedBy

\* One signal sent: the set loses one element.
LEMMA OwedMinusOne ==
  ASSUME NEW u \in [Callers -> Nat], IsFiniteSet(OwedBy(u)),
         NEW c \in Callers, u[c] > 0
  PROVE  LET v == [u EXCEPT ![c] = @ - 1]
         IN  /\ IsFiniteSet(OwedBy(v))
             /\ Cardinality(OwedBy(u)) \in Nat
             /\ Cardinality(OwedBy(v)) = Cardinality(OwedBy(u)) - 1
<1> DEFINE v == [u EXCEPT ![c] = @ - 1]
           e == <<c, u[c]>>
<1>1. e \in OwedBy(u)
  BY OwedMember
<1>a. v[c] = u[c] - 1 /\ \A d \in Callers : d # c => v[d] = u[d]
  OBVIOUS
<1> HIDE DEF v
<1>2. OwedBy(v) = OwedBy(u) \ {e}
  <2>1. ASSUME NEW x \in OwedBy(v) PROVE x \in OwedBy(u) \ {e}
    <3>1. PICK d \in Callers : \E i \in 1..v[d] : x = <<d, i>>
      BY OwedMember
    <3>a. PICK i \in 1..v[d] : x = <<d, i>>
      BY <3>1
    <3>2. i \in 1..u[d] /\ <<d, i>> # e
      BY <3>a, <1>a
    <3> QED
      BY <3>a, <3>2, OwedMember
  <2>2. ASSUME NEW x \in OwedBy(u) \ {e} PROVE x \in OwedBy(v)
    <3>1. PICK d \in Callers : \E i \in 1..u[d] : x = <<d, i>>
      BY OwedMember
    <3>a. PICK i \in 1..u[d] : x = <<d, i>>
      BY <3>1
    <3>2. i \in 1..v[d]
      BY <3>a, <1>a
    <3> QED
      BY <3>a, <3>2, OwedMember
  <2> QED
    BY <2>1, <2>2
<1> HIDE DEF e
<1>3. /\ IsFiniteSet(OwedBy(v))
      /\ Cardinality(OwedBy(v)) = Cardinality(OwedBy(u)) - 1
      /\ Cardinality(OwedBy(u)) \in Nat
  BY <1>1, <1>2, FS_RemoveElement, FS_CardinalityType
<1> QED
  BY <1>3 DEF v

\* What one caller owes counts as many elements as signals.
LEMMA Column ==
  ASSUME NEW c, NEW n \in Nat
  PROVE  IsFiniteSet({c} \X (1..n)) /\ Cardinality({c} \X (1..n)) = n
<1>1. IsFiniteSet({c}) /\ Cardinality({c}) = 1
  BY FS_Singleton, Zenon
<1>2. IsFiniteSet(1..n) /\ Cardinality(1..n) = n
  BY FS_Interval
<1> DEFINE S == {c}
           T == 1..n
<1> HIDE DEF S, T
<1>3. IsFiniteSet(S \X T) /\ Cardinality(S \X T) = Cardinality(S) * Cardinality(T)
  BY <1>1, <1>2, FS_Product DEF S, T
<1>4. Cardinality(S) = 1 /\ Cardinality(T) = n
  BY <1>1, <1>2 DEF S, T
<1> QED
  BY <1>3, <1>4 DEF S, T

\* A caller that owed nothing owes n signals: the set gains n elements.
LEMMA OwedPlus ==
  ASSUME NEW u \in [Callers -> Nat], IsFiniteSet(OwedBy(u)),
         NEW c \in Callers, u[c] = 0, NEW n \in Nat
  PROVE  LET v == [u EXCEPT ![c] = n]
         IN  /\ IsFiniteSet(OwedBy(v))
             /\ Cardinality(OwedBy(u)) \in Nat
             /\ Cardinality(OwedBy(v)) = Cardinality(OwedBy(u)) + n
<1> DEFINE v == [u EXCEPT ![c] = n]
           col == {c} \X (1..n)
<1>a. v[c] = n /\ \A d \in Callers : d # c => v[d] = u[d]
  OBVIOUS
<1> HIDE DEF v
<1>1. OwedBy(v) = OwedBy(u) \cup col
  <2>1. ASSUME NEW x \in OwedBy(v) PROVE x \in OwedBy(u) \cup col
    <3>1. PICK d \in Callers : \E i \in 1..v[d] : x = <<d, i>>
      BY OwedMember
    <3>a. PICK i \in 1..v[d] : x = <<d, i>>
      BY <3>1
    <3>2. CASE d = c
      BY <3>a, <3>2, <1>a
    <3>3. CASE d # c
      BY <3>a, <3>3, <1>a, OwedMember
    <3> QED
      BY <3>2, <3>3
  <2>2. ASSUME NEW x \in OwedBy(u) PROVE x \in OwedBy(v)
    <3>1. PICK d \in Callers : \E i \in 1..u[d] : x = <<d, i>>
      BY OwedMember
    <3>a. PICK i \in 1..u[d] : x = <<d, i>>
      BY <3>1
    <3>2. d # c
      BY <3>a
    <3> QED
      BY <3>a, <3>2, <1>a, OwedMember
  <2>3. ASSUME NEW x \in col PROVE x \in OwedBy(v)
    <3>1. PICK i \in 1..n : x = <<c, i>>
      OBVIOUS
    <3> QED
      BY <3>1, <1>a, OwedMember
  <2> QED
    BY <2>1, <2>2, <2>3
<1>2. OwedBy(u) \cap col = {}
  <2>1. ASSUME NEW x \in OwedBy(u), x \in col PROVE FALSE
    <3>1. PICK d \in Callers : \E i \in 1..u[d] : x = <<d, i>>
      BY OwedMember
    <3>a. PICK i \in 1..u[d] : x = <<d, i>>
      BY <3>1
    <3> QED
      BY <2>1, <3>a
  <2> QED
    BY <2>1
<1>3. IsFiniteSet(col) /\ Cardinality(col) = n
  BY Column
<1> HIDE DEF col
<1>4. /\ IsFiniteSet(OwedBy(v))
      /\ Cardinality(OwedBy(v)) = Cardinality(OwedBy(u)) + n - Cardinality({})
      /\ Cardinality(OwedBy(u)) \in Nat
  BY <1>1, <1>2, <1>3, FS_Union, FS_CardinalityType
<1>5. /\ IsFiniteSet(OwedBy(v))
      /\ Cardinality(OwedBy(v)) = Cardinality(OwedBy(u)) + n
      /\ Cardinality(OwedBy(u)) \in Nat
  BY <1>4, FS_EmptySet
<1> QED
  BY <1>5 DEF v

\* A caller gives its unsent signals back: the set loses as many elements.
LEMMA OwedReset ==
  ASSUME NEW u \in [Callers -> Nat], IsFiniteSet(OwedBy(u)), NEW c \in Callers
  PROVE  LET v == [u EXCEPT ![c] = 0]
         IN  /\ IsFiniteSet(OwedBy(v))
             /\ Cardinality(OwedBy(v)) \in Nat
             /\ Cardinality(OwedBy(u)) = Cardinality(OwedBy(v)) + u[c]
<1> DEFINE v == [u EXCEPT ![c] = 0]
<1>1. v \in [Callers -> Nat] /\ v[c] = 0 /\ u[c] \in Nat
  OBVIOUS
<1>2. u = [v EXCEPT ![c] = u[c]]
  OBVIOUS
<1>a. \A d \in Callers : v[d] <= u[d]
  OBVIOUS
<1> HIDE DEF v
<1>3. OwedBy(v) \subseteq OwedBy(u)
  <2>1. ASSUME NEW x \in OwedBy(v) PROVE x \in OwedBy(u)
    <3>1. PICK d \in Callers : \E i \in 1..v[d] : x = <<d, i>>
      BY OwedMember
    <3>a. PICK i \in 1..v[d] : x = <<d, i>>
      BY <3>1
    <3>2. i \in 1..u[d]
      BY <3>a, <1>1, <1>a
    <3> QED
      BY <3>a, <3>2, OwedMember
  <2> QED
    BY <2>1
<1>4. IsFiniteSet(OwedBy(v))
  BY <1>3, FS_Subset
<1>5. /\ Cardinality(OwedBy(v)) \in Nat
      /\ Cardinality(OwedBy([v EXCEPT ![c] = u[c]])) = Cardinality(OwedBy(v)) + u[c]
  BY <1>1, <1>4, OwedPlus
<1> QED
  BY <1>2, <1>4, <1>5 DEF v

(***************************************************************************)
(* The goroutines.                                                         *)
(***************************************************************************)
LEMMA ReserveCount ==
  ASSUME TypeOK, CallerInv, CountInv, NEW c \in Callers, NEW n \in Nat \ {0},
         Reserve(c, n), pc[c] \in {"idle", "scaling"}
  PROVE  CountInv'
<1>1. /\ unsent \in [Callers -> Nat] /\ unsent[c] = 0
      /\ IsFiniteSet(OwedBy(unsent)) /\ Owed = OwedBy(unsent)
      /\ Owed' = OwedBy(unsent')
  <2>1. unsent \in [Callers -> Nat]
    BY DEF TypeOK
  <2>2. ~(unsent[c] > 0)
    BY DEF CallerInv
  <2> QED
    BY <2>1, <2>2 DEF CountInv, Owed, OwedBy
<1>2. /\ closed' = closed /\ tasks' = tasks /\ quits' = quits
      /\ receiving' = receiving /\ finished' = finished /\ running' = running
  BY DEF Reserve, liveVars
<1>3. Live' = Live
  BY <1>2 DEF Live
<1>4. CASE workers - 1 <= 0
  BY <1>1, <1>2, <1>3, <1>4 DEF CountInv, WorkerAccounting, Reserve
<1>5. CASE ~(workers - 1 <= 0)
  <2>1. /\ Removable(n) \in Nat \ {0}
        /\ workers - Removable(n) \in Nat \ {0}
        /\ workers \in Nat /\ quits \in Nat
    BY <1>5, RemovableRange, PoolAssumption DEF TypeOK, PoolAssumption
  <2>2. /\ workers' = workers - Removable(n)
        /\ unsent' = [unsent EXCEPT ![c] = Removable(n)]
    BY <1>5 DEF Reserve
  <2>3. /\ IsFiniteSet(Owed') /\ Cardinality(Owed) \in Nat
        /\ Cardinality(Owed') = Cardinality(Owed) + Removable(n)
    BY <1>1, <2>1, <2>2, OwedPlus
  <2> QED
    BY <1>2, <1>3, <2>1, <2>2, <2>3 DEF CountInv, WorkerAccounting
<1> QED
  BY <1>4, <1>5

\* Every step keeps the count of goroutines.
LEMMA CountStep ==
  TypeOK /\ CallerInv /\ TaskInv /\ CountInv /\ [Next]_vars => CountInv'
<1> SUFFICES ASSUME TypeOK, CallerInv, TaskInv, CountInv, [Next]_vars
             PROVE  CountInv'
  OBVIOUS
<1>0. /\ workers \in Nat /\ quits \in Nat
      /\ receiving \in Nat /\ finished \in Nat
      /\ delta \in [Callers -> Int]
      /\ unsent \in [Callers -> Nat] /\ IsFiniteSet(running)
      /\ Cardinality(running) \in Nat
      /\ IsFiniteSet(Owed) /\ Cardinality(Owed) \in Nat
  BY PoolAssumption, FS_CardinalityType DEF TypeOK, CountInv, PoolAssumption
<1>f. /\ unsent' = unsent => Owed' = Owed
      /\ Owed = OwedBy(unsent) /\ Owed' = OwedBy(unsent')
  BY DEF Owed, OwedBy
<1> USE DEF CountInv, WorkerAccounting, Live
<1>1. CASE Receive
  <2>1. tasks[1] \notin running
    <3>1. 1 \in 1..Len(tasks)
      BY <1>1, EmptySeq, LenProperties DEF Receive, TypeOK
    <3> QED
      BY <3>1 DEF TaskInv
  <2>2. IsFiniteSet(running') /\ Cardinality(running') = Cardinality(running) + 1
    BY <1>0, <1>1, <2>1, FS_AddElement DEF Receive
  <2> QED
    BY <1>0, <1>1, <1>f, <2>2 DEF Receive, callVars
<1>2. ASSUME NEW t \in Tasks, ProcessTask(t) PROVE CountInv'
  <2>1. IsFiniteSet(running') /\ Cardinality(running') = Cardinality(running) - 1
    BY <1>0, <1>2, FS_RemoveElement DEF ProcessTask
  <2> QED
    BY <1>0, <1>2, <1>f, <2>1 DEF ProcessTask, callVars
<1>3. CASE TakeQuit
  BY <1>0, <1>3, <1>f DEF TakeQuit, callVars
<1>4. CASE NoQuit
  BY <1>0, <1>4, <1>f DEF NoQuit, callVars
<1>5. CASE ExitOnClosed
  BY <1>0, <1>5, <1>f DEF ExitOnClosed, callVars
<1>6. ASSUME NEW c \in Callers, CallerStep(c) PROVE CountInv'
  <2>1. CASE SendQuit(c)
    <3>1. unsent[c] > 0 /\ unsent' = [unsent EXCEPT ![c] = @ - 1]
      BY <2>1 DEF SendQuit, At, CallerInv
    <3>2. /\ IsFiniteSet(Owed')
          /\ Cardinality(Owed') = Cardinality(Owed) - 1
      BY <1>0, <1>f, <3>1, OwedMinusOne
    <3> QED
      BY <1>0, <2>1, <3>2 DEF SendQuit, liveVars
  <2>2. CASE QuitBufferFull(c)
    BY <1>0, <1>f, <2>2 DEF QuitBufferFull, liveVars
  <2>3. CASE RestoreUnsent(c)
    <3>1. unsent' = [unsent EXCEPT ![c] = 0] /\ unsent[c] \in Nat
      BY <1>0, <2>3 DEF RestoreUnsent
    <3>2. /\ IsFiniteSet(Owed') /\ Cardinality(Owed') \in Nat
          /\ Cardinality(Owed) = Cardinality(Owed') + unsent[c]
      BY <1>0, <1>f, <3>1, OwedReset
    <3> QED
      BY <1>0, <2>3, <3>1, <3>2 DEF RestoreUnsent, liveVars
  <2>4. CASE ResizeGrow(c)
    <3>1. delta[c] \in Nat \ {0}
      BY <1>0, <2>4 DEF ResizeGrow
    <3>2. CASE MayGrow(delta[c])
      <4>1. PICK n \in Nat \ {0} : n = delta[c]
        BY <3>1
      <4>2. /\ workers' = workers + n
            /\ receiving' = receiving + n
            /\ unsent' = unsent
        BY <2>4, <3>2, <4>1 DEF ResizeGrow
      <4>3. /\ (closed' <=> closed) /\ tasks' = tasks /\ quits' = quits
            /\ running' = running /\ finished' = finished
        BY <2>4 DEF ResizeGrow
      <4>4. Live' = Live + n
        BY <1>0, <4>1, <4>2, <4>3
      <4>5. Owed' = Owed
        BY <1>f, <4>2
      <4>6. workers' >= 1
        BY <1>0, <4>1, <4>2
      <4>7. WorkerAccounting'
        <5> SUFFICES ASSUME ~closed' \/ tasks' # <<>>
                     PROVE  Live' = workers' + quits' + Cardinality(Owed')
          OBVIOUS
        <5>1. ~closed \/ tasks # <<>>
          BY <4>3
        <5>2. receiving + finished + Cardinality(running) = workers + quits + Cardinality(Owed)
          BY <5>1
        <5>3. /\ Cardinality(running') = Cardinality(running)
              /\ Cardinality(Owed') = Cardinality(Owed)
          BY <4>3, <4>5
        <5>4. n \in Nat
          OBVIOUS
        <5>5. (receiving + n) + finished + Cardinality(running)
                = (workers + n) + quits + Cardinality(Owed)
          BY <1>0, <5>2, <5>4
        <5>6. receiving' + finished' + Cardinality(running') = workers' + quits' + Cardinality(Owed')
          BY <4>2, <4>3, <5>3, <5>5
        <5> QED
          BY <5>6
      <4> QED
        BY <4>3, <4>5, <4>6, <4>7, <1>0
    <3>3. CASE ~MayGrow(delta[c])
      BY <1>0, <1>f, <2>4, <3>3 DEF ResizeGrow
    <3> QED
      BY <3>2, <3>3
  <2>5. CASE ResizeShrink(c)
    <3>1. -delta[c] \in Nat \ {0} /\ pc[c] = "scaling"
      BY <1>0, <2>5 DEF ResizeShrink, At
    <3> QED
      BY <2>5, <3>1, ReserveCount DEF ResizeShrink
  <2>6. CASE SubmitSend(c)
    <3>1. ~closed /\ unsent' = unsent
      BY <2>6, PoolAssumption DEF SubmitSend, At, CallerInv, PoolAssumption
    <3> QED
      BY <1>0, <1>f, <2>6, <3>1 DEF SubmitSend, liveVars
  <2>7. CASE CloseTasks(c)
    <3>1. ~closed
      BY <2>7 DEF CloseTasks, At, CallerInv
    <3> QED
      BY <1>0, <1>f, <2>7, <3>1 DEF CloseTasks, liveVars
  <2>8. CASE ShutdownReturn(c)
    BY <1>0, <1>f, <2>8 DEF ShutdownReturn, liveVars
  <2> QED
    BY <1>6, <2>1, <2>2, <2>3, <2>4, <2>5, <2>6, <2>7, <2>8 DEF CallerStep
<1>7. ASSUME NEW c \in Callers, CallerCall(c) PROVE CountInv'
  <2>1. ASSUME NEW n \in Amounts, AddWorkers(c, n) PROVE CountInv'
    <3>1. n \in Nat \ {0}
      BY PoolAssumption DEF PoolAssumption
    <3> QED
      BY <1>0, <1>f, <2>1, <3>1 DEF AddWorkers, callVars
  <2>2. ASSUME NEW n \in Amounts, RemoveWorkers(c, n) PROVE CountInv'
    <3>1. n \in Nat \ {0} /\ pc[c] = "idle"
      BY <2>2, PoolAssumption DEF PoolAssumption, RemoveWorkers, At
    <3> QED
      BY <2>2, <3>1, ReserveCount DEF RemoveWorkers
  <2>3. ASSUME NEW n \in Amounts, ResizeBegin(c, n) PROVE CountInv'
    BY <1>0, <1>f, <2>3 DEF ResizeBegin, liveVars
  <2>4. ASSUME NEW t \in Tasks, SubmitLock(c, t) PROVE CountInv'
    BY <1>0, <1>f, <2>4 DEF SubmitLock, liveVars
  <2>5. CASE ShutdownBegin(c)
    BY <1>0, <1>f, <2>5 DEF ShutdownBegin, liveVars
  <2> QED
    BY <1>7, <2>1, <2>2, <2>3, <2>4, <2>5 DEF CallerCall
<1>8. CASE UNCHANGED vars
  BY <1>0, <1>f, <1>8 DEF vars, callVars, liveVars
<1> QED
  BY <1>1, <1>2, <1>3, <1>4, <1>5, <1>6, <1>7, <1>8 DEF Next, WorkerStep

(***************************************************************************)
(* The drain.                                                              *)
(***************************************************************************)
LEMMA DrainStep ==
  TypeOK /\ CallerInv /\ CountInv /\ DrainInv /\ [Next]_vars => DrainInv'
<1> SUFFICES ASSUME TypeOK, CallerInv, CountInv, DrainInv, [Next]_vars
             PROVE  DrainInv'
  OBVIOUS
<1> USE DEF DrainInv
<1>1. ASSUME NEW c \in Callers, ShutdownReturn(c) PROVE DrainInv'
  <2>1. closed /\ Live = 0
    BY <1>1 DEF ShutdownReturn, At, CallerInv
  <2>2. /\ workers >= 1 /\ workers \in Nat /\ quits \in Nat
        /\ receiving \in Nat /\ finished \in Nat
        /\ Cardinality(running) \in Nat /\ Cardinality(Owed) \in Nat
    BY PoolAssumption, FS_CardinalityType DEF TypeOK, CountInv, PoolAssumption
  <2>3. receiving = 0 /\ finished = 0 /\ Cardinality(running) = 0
    BY <2>1, <2>2 DEF Live
  <2>4. running = {}
    BY <2>3, FS_EmptySet DEF CountInv
  <2>5. tasks = <<>>
    BY <2>1, <2>2 DEF CountInv, WorkerAccounting
  <2> QED
    BY <1>1, <2>1, <2>3, <2>4, <2>5 DEF ShutdownReturn, liveVars
<1>2. CASE WorkerStep
  <2>1. drained' = drained
    BY <1>2 DEF WorkerStep, Receive, ProcessTask, TakeQuit, NoQuit, ExitOnClosed
  <2>2. ~drained
    BY <1>2 DEF WorkerStep, Receive, ProcessTask, TakeQuit, NoQuit, ExitOnClosed
  <2> QED
    BY <2>1, <2>2
<1>3. ASSUME NEW c \in Callers, CallerStep(c) PROVE DrainInv'
  <2>1. drained => shutdown /\ mu = NoCaller
    BY DEF CallerInv
  <2> QED
    BY <1>1, <1>3, <2>1, PoolAssumption
    DEF PoolAssumption, CallerStep, SendQuit, QuitBufferFull, RestoreUnsent,
        ResizeGrow, MayGrow, ResizeShrink, Reserve, SubmitSend, CloseTasks,
        At, CallerInv, liveVars
<1>4. ASSUME NEW c \in Callers, CallerCall(c) PROVE DrainInv'
  <2>1. drained => shutdown
    BY DEF CallerInv
  <2> QED
    BY <1>4, <2>1
    DEF CallerCall, AddWorkers, MayGrow, RemoveWorkers, Reserve, ResizeBegin,
        SubmitLock, ShutdownBegin, liveVars
<1>5. CASE UNCHANGED vars
  BY <1>5 DEF vars, liveVars
<1> QED
  BY <1>2, <1>3, <1>4, <1>5 DEF Next

(***************************************************************************)
(* The theorems.                                                           *)
(***************************************************************************)
LEMMA InitInv == Init => IInv
<1> SUFFICES ASSUME Init PROVE IInv
  OBVIOUS
<1>1. TypeOK /\ CallerInv
  BY TypeInit
<1>2. Len(tasks) = 0 /\ 1..0 = {}
  BY EmptySeq DEF Init
<1>3. TaskInv
  BY <1>2 DEF Init, TaskInv
<1>4. Owed = {}
  <2>1. \A c \in Callers : 1..unsent[c] = {}
    BY DEF Init
  <2> QED
    BY <2>1 DEF Owed
<1>5. CountInv
  <2>1. IsFiniteSet({}) /\ Cardinality({}) = 0
    BY FS_EmptySet, Zenon
  <2>2. InitialWorkers \in Nat /\ InitialWorkers >= 1
    BY PoolAssumption DEF PoolAssumption
  <2> QED
    BY <1>4, <2>1, <2>2 DEF Init, CountInv, WorkerAccounting, Live
<1>6. DrainInv
  BY DEF Init, DrainInv
<1> QED
  BY <1>1, <1>3, <1>5, <1>6 DEF IInv

\* Every step keeps the inductive invariant.
LEMMA StepInv == IInv /\ [Next]_vars => IInv'
  BY TypeStep, CallerStepInv, TaskStep, CountStep, DrainStep DEF IInv

\* The inductive invariant holds of every reachable state.
THEOREM Inductive == Spec => []IInv
  BY InitInv, StepInv, PTL DEF Spec

\* While there is or may be work, the live goroutines are exactly the target
\* count plus the quit signals pending or still owed, whatever the interleaving
\* of AddWorkers, RemoveWorkers, Resize, Submit and Shutdown.
THEOREM Accounting == Spec => []WorkerAccounting
<1>1. IInv => WorkerAccounting
  BY DEF IInv, CountInv
<1> QED
  BY <1>1, Inductive, PTL

\* Scaling down never leaves the queue without a goroutine to serve it.
THEOREM AlwaysServed == Spec => []QueueServed
<1>1. IInv => QueueServed
  <2> SUFFICES ASSUME IInv, ~closed \/ tasks # <<>> PROVE Live >= 1
    BY DEF QueueServed
  <2>1. /\ workers >= 1 /\ workers \in Nat /\ quits \in Nat
        /\ Cardinality(Owed) \in Nat
    BY PoolAssumption, FS_CardinalityType DEF IInv, TypeOK, CountInv, PoolAssumption
  <2>2. Live = workers + quits + Cardinality(Owed)
    BY DEF IInv, CountInv, WorkerAccounting
  <2> QED
    BY <2>1, <2>2
<1> QED
  BY <1>1, Inductive, PTL

\* Once the pool has drained, nobody is left and nothing waits.
LEMMA DrainedDone == IInv => DrainedMeansDone
<1> SUFFICES ASSUME IInv, drained PROVE Live = 0 /\ completed = accepted
  BY DEF DrainedMeansDone
<1>1. receiving = 0 /\ finished = 0 /\ running = {} /\ tasks = <<>>
  BY DEF IInv, DrainInv
<1>2. Cardinality({}) = 0
  BY FS_EmptySet, Zenon
<1>3. Len(tasks) = 0 /\ 1..0 = {}
  BY <1>1, EmptySeq
<1>4. completed = accepted
  BY <1>1, <1>3 DEF IInv, TaskInv
<1> QED
  BY <1>1, <1>2, <1>4 DEF Live

\* When Shutdown reports the drain, every accepted task has completed and no
\* goroutine is left.
THEOREM ShutdownDrains == Spec => []DrainedMeansDone
  BY DrainedDone, Inductive, PTL

\* The pool implements the task service: tasks are accepted only before Shutdown,
\* complete exactly once, and the drain is reported after the last of them.
THEOREM Refinement == Spec => ImplementsTaskService
<1>1. Init => Service!Init
  BY DEF Init, Service!Init
<1>a. IInv' => DrainedMeansDone'
  BY DrainedDone, PTL
<1>2. IInv /\ IInv' /\ [Next]_vars => [Service!Next]_Service!vars
  <2> SUFFICES ASSUME IInv, IInv', [Next]_vars
               PROVE  [Service!Next]_Service!vars
    OBVIOUS
  <2> USE DEF Service!vars, Service!Next
  <2>1. ASSUME NEW c \in Callers, SubmitSend(c) PROVE Service!Next
    <3>1. task \in Tasks \ accepted /\ ~shutdown
      BY <2>1, PoolAssumption
      DEF PoolAssumption, SubmitSend, At, IInv, CallerInv
    <3>2. Service!Accept(task)
      BY <2>1, <3>1 DEF SubmitSend, Service!Accept
    <3> QED
      BY <3>1, <3>2
  <2>2. ASSUME NEW t \in Tasks, ProcessTask(t) PROVE Service!Next
    <3>1. t \in accepted \ completed
      BY <2>2 DEF ProcessTask, IInv, TaskInv
    <3>2. Service!Complete(t)
      BY <2>2, <3>1 DEF ProcessTask, Service!Complete
    <3> QED
      BY <3>2
  <2>3. ASSUME NEW c \in Callers, ShutdownBegin(c) PROVE Service!Next
    <3>1. Service!Close
      BY <2>3 DEF ShutdownBegin, Service!Close, history
    <3> QED
      BY <3>1
  <2>4. ASSUME NEW c \in Callers, ShutdownReturn(c) PROVE Service!Next
    <3>1. shutdown
      BY <2>4 DEF ShutdownReturn, At, IInv, CallerInv
    <3>2. completed = accepted
      <4>1. DrainedMeansDone'
        BY <1>a
      <4> QED
        BY <2>4, <4>1 DEF DrainedMeansDone, ShutdownReturn, history
    <3>3. Service!Drain
      BY <2>4, <3>1, <3>2 DEF ShutdownReturn, Service!Drain, history
    <3> QED
      BY <3>3
  <2>5. CASE UNCHANGED <<accepted, completed, shutdown, drained>>
    BY <2>5
  <2>6. CASE WorkerStep
    BY <2>2, <2>5, <2>6
    DEF WorkerStep, Receive, TakeQuit, NoQuit, ExitOnClosed, history
  <2>7. ASSUME NEW c \in Callers, CallerStep(c)
        PROVE  [Service!Next]_Service!vars
    BY <2>1, <2>4, <2>5, <2>7
    DEF CallerStep, SendQuit, QuitBufferFull, RestoreUnsent, ResizeGrow,
        ResizeShrink, Reserve, CloseTasks, history
  <2>8. ASSUME NEW c \in Callers, CallerCall(c)
        PROVE  [Service!Next]_Service!vars
    BY <2>3, <2>5, <2>8
    DEF CallerCall, AddWorkers, RemoveWorkers, Reserve, ResizeBegin,
        SubmitLock, history
  <2>9. CASE UNCHANGED vars
    BY <2>5, <2>9 DEF vars, history
  <2> QED
    BY <2>6, <2>7, <2>8, <2>9 DEF Next
<1> QED
  BY <1>1, <1>2, Inductive, PTL DEF Spec, Service!Spec, ImplementsTaskService
=============================================================================
