--------------------------- MODULE Service_proofs ---------------------------
(***************************************************************************)
(* The parts of MCService that keep state over several steps, for any      *)
(* number of clients, tasks, requests, workers, providers and issues: the  *)
(* event streams, the two processes and their databases, the memory        *)
(* client, the Gitea client, the registry of workers and the circuit       *)
(* breaker.  And the autoscaler, for any policy, pool and orders, and the  *)
(* health monitor of the providers.                                        *)
(***************************************************************************)
EXTENDS MCService, MCAutoscaler, MCProviders, Integers, Sequences, FiniteSetTheorems,
        SequenceTheorems, WellFoundedInduction, TLAPS

(***************************************************************************)
(* EventHub.  A client is asked for once: until Run has taken it from the  *)
(* queue nothing has been sent to it, and as long as Run knows it, its     *)
(* channel is open.                                                        *)
(***************************************************************************)
HubTyped ==
    /\ taken \in Nat
    /\ registerQ \in Seq(Clients) /\ unregisterQ \in Seq(Clients)
    /\ clients \subseteq Clients
    /\ send \in [Clients -> 0..SendCap] /\ closes \in [Clients -> Nat]
    /\ joined \in [Clients -> Nat] /\ got \in [Clients -> Nat]
    /\ pump \in [Clients -> {"none", "running", "leaving", "gone"}]

Waits(c) == \E k \in 1..Len(registerQ) : registerQ[k] = c

\* Nothing has happened to a client.
Fresh(c) == c \notin clients /\ closes[c] = 0 /\ send[c] = 0 /\ got[c] = 0

JoinInv ==
    /\ \A c \in Clients : pump[c] = "none" => ~Waits(c)
    /\ \A c \in Clients : pump[c] = "none" \/ Waits(c) => Fresh(c)
    /\ \A j, k \in 1..Len(registerQ) : registerQ[j] = registerQ[k] => j = k

OpenInv == \A c \in clients : closes[c] = 0

HubInv == HubTyped /\ JoinInv /\ OpenInv /\ Hub!ClosedOnce /\ Hub!NothingSkipped

\* The first client of the queue is taken: the others wait, and it is none of them.
LEMMA QueueTail ==
    ASSUME NEW S, NEW q \in Seq(S), q # <<>>
    PROVE  /\ Head(q) \in S /\ Head(q) = q[1] /\ Len(q) \in Nat \ {0}
           /\ Tail(q) \in Seq(S) /\ Len(Tail(q)) = Len(q) - 1
           /\ \A k \in 1..Len(Tail(q)) : k + 1 \in 1..Len(q) /\ Tail(q)[k] = q[k + 1]
OBVIOUS

\* A client is put in the queue: it is the last.
LEMMA QueueAppend ==
    ASSUME NEW S, NEW q \in Seq(S), NEW c \in S
    PROVE  /\ Append(q, c) \in Seq(S) /\ Len(q) \in Nat /\ Len(Append(q, c)) = Len(q) + 1
           /\ Append(q, c)[Len(q) + 1] = c
           /\ \A k \in 1..Len(q) : Append(q, c)[k] = q[k]
OBVIOUS

\* The hub starts with nobody.
LEMMA HubStart == Init => HubInv
<1> SUFFICES ASSUME Hub!Init
             PROVE  HubInv
  BY DEF Init
<1> USE DEF Hub!Init
<1>1. SendCap \in Nat
  BY ServiceAssumption DEF Hub!HubAssumption
<1>2. HubTyped
  BY <1>1 DEF HubTyped
<1>3. JoinInv
  BY DEF JoinInv, Waits, Fresh
<1> QED
  BY <1>2, <1>3 DEF HubInv, OpenInv, Hub!ClosedOnce, Hub!NothingSkipped

\* Channels are closed for clients that Run knows, which forgets them by that.
LEMMA CloseKeeps ==
    ASSUME HubInv, NEW C \in SUBSET clients,
           closes' = Hub!Close(C), clients' = clients \ C
    PROVE  /\ closes' \in [Clients -> Nat] /\ clients' \subseteq Clients
           /\ OpenInv' /\ Hub!ClosedOnce'
           /\ \A c \in Clients : c \notin clients => closes'[c] = closes[c]
<1>1. HubTyped /\ OpenInv /\ Hub!ClosedOnce
  BY DEF HubInv
<1>2. \A c \in Clients : closes'[c] = IF c \in C THEN closes[c] + 1 ELSE closes[c]
  BY DEF Hub!Close
<1>3. closes' \in [Clients -> Nat] /\ clients' \subseteq Clients
  BY <1>1 DEF Hub!Close, HubTyped
<1>4. \A c \in C : closes[c] = 0 /\ c \in Clients
  BY <1>1 DEF OpenInv, HubTyped
<1>5. OpenInv'
  BY <1>1, <1>2 DEF OpenInv, HubTyped
<1>6. Hub!ClosedOnce'
  BY <1>1, <1>2, <1>4 DEF Hub!ClosedOnce
<1> QED
  BY <1>2, <1>3, <1>5, <1>6

\* The cases of Run's select.
LEMMA RunKeeps ==
    ASSUME HubInv, Hub!RunDone \/ Hub!RunRegister \/ Hub!RunUnregister \/ Hub!RunBroadcast
    PROVE  HubInv'
<1>1. HubTyped /\ JoinInv /\ OpenInv /\ Hub!ClosedOnce /\ Hub!NothingSkipped /\ SendCap \in Nat
  BY ServiceAssumption DEF HubInv, Hub!HubAssumption
<1>2. CASE Hub!RunDone
  <2>1. closes' = Hub!Close(clients) /\ clients' = clients \ clients /\ clients' = {}
    BY <1>2 DEF Hub!RunDone
  <2>2. UNCHANGED <<registerQ, unregisterQ, send, joined, taken, pump, got>>
    BY <1>2 DEF Hub!RunDone, Hub!queues
  <2>3. /\ closes' \in [Clients -> Nat] /\ OpenInv' /\ Hub!ClosedOnce'
        /\ \A c \in Clients : c \notin clients => closes'[c] = closes[c]
    BY <2>1, CloseKeeps
  <2>4. HubTyped'
    BY <1>1, <2>1, <2>2, <2>3 DEF HubTyped
  <2>5. JoinInv'
    BY <1>1, <2>1, <2>2, <2>3 DEF JoinInv, Waits, Fresh
  <2>6. Hub!NothingSkipped'
    BY <2>1 DEF Hub!NothingSkipped
  <2> QED
    BY <2>3, <2>4, <2>5, <2>6 DEF HubInv
<1>3. CASE Hub!RunRegister
  <2> DEFINE c == Head(registerQ)
  <2>1. /\ registerQ # <<>> /\ registerQ' = Tail(registerQ)
        /\ clients' = clients \cup {c} /\ joined' = [joined EXCEPT ![c] = taken]
        /\ UNCHANGED <<unregisterQ, send, closes, taken, pump, got>>
    BY <1>3 DEF Hub!RunRegister
  <2>2. /\ c \in Clients /\ c = registerQ[1] /\ Len(registerQ) \in Nat \ {0}
        /\ Tail(registerQ) \in Seq(Clients) /\ Len(Tail(registerQ)) = Len(registerQ) - 1
        /\ \A k \in 1..Len(Tail(registerQ)) :
              k + 1 \in 1..Len(registerQ) /\ Tail(registerQ)[k] = registerQ[k + 1]
    BY <1>1, <2>1, QueueTail DEF HubTyped
  <2> HIDE DEF c
  <2>3. 1 \in 1..Len(registerQ) /\ Waits(c)
    BY <2>2 DEF Waits
  <2>4. Fresh(c) /\ pump[c] # "none"
    BY <1>1, <2>2, <2>3 DEF JoinInv
  <2>5. HubTyped'
    BY <1>1, <2>1, <2>2 DEF HubTyped
  <2>6. \A d \in Clients : Waits(d)' => Waits(d) /\ d # c
    BY <1>1, <2>1, <2>2, <2>3 DEF Waits, JoinInv
  <2>7. \A j, k \in 1..Len(registerQ') : registerQ'[j] = registerQ'[k] => j = k
    BY <1>1, <2>1, <2>2 DEF JoinInv
  <2>8. JoinInv'
    BY <1>1, <2>1, <2>4, <2>6, <2>7 DEF JoinInv, Fresh
  <2>9. OpenInv' /\ Hub!ClosedOnce'
    BY <1>1, <2>1, <2>4 DEF OpenInv, Hub!ClosedOnce, Fresh
  <2>10. Hub!NothingSkipped'
    <3>1. joined'[c] = taken /\ \A d \in Clients : d # c => joined'[d] = joined[d]
      BY <1>1, <2>1, <2>2 DEF HubTyped
    <3> QED
      BY <1>1, <2>1, <2>4, <3>1 DEF Hub!NothingSkipped, Fresh, HubTyped
  <2> QED
    BY <2>5, <2>8, <2>9, <2>10 DEF HubInv
<1>4. CASE Hub!RunUnregister
  <2> DEFINE C == Hub!Known({Head(unregisterQ)})
  <2>1. /\ unregisterQ # <<>> /\ unregisterQ' = Tail(unregisterQ)
        /\ clients' = clients \ {Head(unregisterQ)} /\ closes' = Hub!Close(C)
        /\ UNCHANGED <<registerQ, send, joined, taken, pump, got>>
    BY <1>4 DEF Hub!RunUnregister
  <2>2. C \in SUBSET clients /\ clients' = clients \ C
    BY <2>1 DEF Hub!Known
  <2> HIDE DEF C
  <2>3. /\ closes' \in [Clients -> Nat] /\ OpenInv' /\ Hub!ClosedOnce'
        /\ \A c \in Clients : c \notin clients => closes'[c] = closes[c]
    BY <2>1, <2>2, CloseKeeps
  <2>4. unregisterQ' \in Seq(Clients)
    BY <1>1, <2>1, QueueTail DEF HubTyped
  <2>5. HubTyped'
    BY <1>1, <2>1, <2>3, <2>4 DEF HubTyped
  <2>6. JoinInv'
    BY <1>1, <2>1, <2>3 DEF JoinInv, Waits, Fresh
  <2>7. Hub!NothingSkipped'
    BY <1>1, <2>1 DEF Hub!NothingSkipped
  <2> QED
    BY <2>3, <2>5, <2>6, <2>7 DEF HubInv
<1>5. CASE Hub!RunBroadcast
  <2> DEFINE C == Hub!Slow
  <2>1. /\ taken' = taken + 1 /\ clients' = clients \ C /\ closes' = Hub!Close(C)
        /\ send' = [c \in Clients |->
                      IF c \in clients /\ send[c] < SendCap THEN send[c] + 1 ELSE send[c]]
        /\ UNCHANGED <<registerQ, unregisterQ, joined, pump, got>>
    BY <1>5 DEF Hub!RunBroadcast, Hub!queues
  <2>2. C \in SUBSET clients /\ \A c \in clients \ C : send[c] # SendCap
    BY DEF Hub!Slow
  <2> HIDE DEF C
  <2>3. /\ closes' \in [Clients -> Nat] /\ OpenInv' /\ Hub!ClosedOnce'
        /\ \A c \in Clients : c \notin clients => closes'[c] = closes[c]
    BY <2>1, <2>2, CloseKeeps
  <2>4. send' \in [Clients -> 0..SendCap]
    BY <1>1, <2>1 DEF HubTyped
  <2>5. HubTyped'
    BY <1>1, <2>1, <2>3, <2>4 DEF HubTyped
  <2>6. JoinInv'
    BY <1>1, <2>1, <2>3 DEF JoinInv, Waits, Fresh
  <2>7. \A c \in clients' : c \in clients /\ c \in Clients /\ send'[c] = send[c] + 1
    BY <1>1, <2>1, <2>2 DEF HubTyped
  <2>8. \A c \in clients' : joined[c] + got[c] + (send[c] + 1) = taken + 1
    <3> SUFFICES ASSUME NEW c \in clients'
                 PROVE  joined[c] + got[c] + (send[c] + 1) = taken + 1
      OBVIOUS
    <3>1. joined[c] + got[c] + send[c] = taken
      BY <1>1, <2>7 DEF Hub!NothingSkipped
    <3>2. /\ joined[c] \in Nat /\ got[c] \in Nat /\ send[c] \in 0..SendCap
          /\ send[c] \in Nat /\ taken \in Nat
      BY <1>1, <2>7 DEF HubTyped
    <3> QED
      BY <3>1, <3>2
  <2>9. Hub!NothingSkipped'
    BY <2>1, <2>7, <2>8 DEF Hub!NothingSkipped
  <2> QED
    BY <2>3, <2>5, <2>6, <2>9 DEF HubInv
<1> QED
  BY <1>2, <1>3, <1>4, <1>5

\* The steps of a client's handler and pump.
LEMMA PumpKeeps ==
    ASSUME HubInv, NEW c \in Clients,
           Hub!HandleWS(c) \/ Hub!PumpWrite(c) \/ Hub!PumpClosed(c) \/ Hub!PumpPing(c)
             \/ Hub!PumpLeave(c)
    PROVE  HubInv'
<1>1. HubTyped /\ JoinInv /\ OpenInv /\ Hub!ClosedOnce /\ Hub!NothingSkipped /\ SendCap \in Nat
  BY ServiceAssumption DEF HubInv, Hub!HubAssumption
<1>2. CASE Hub!HandleWS(c)
  <2>1. /\ pump[c] = "none" /\ registerQ' = Append(registerQ, c)
        /\ pump' = [pump EXCEPT ![c] = "running"]
        /\ UNCHANGED <<unregisterQ, clients, send, closes, joined, taken, got>>
    BY <1>2 DEF Hub!HandleWS, Hub!members
  <2>2. /\ registerQ' \in Seq(Clients) /\ Len(registerQ) \in Nat
        /\ Len(registerQ') = Len(registerQ) + 1 /\ registerQ'[Len(registerQ) + 1] = c
        /\ \A k \in 1..Len(registerQ) : registerQ'[k] = registerQ[k]
    BY <1>1, <2>1, QueueAppend DEF HubTyped
  <2>3. \A k \in 1..Len(registerQ') : k \in 1..Len(registerQ) \/ k = Len(registerQ) + 1
    BY <2>2
  <2>4. HubTyped'
    BY <1>1, <2>1, <2>2 DEF HubTyped
  <2>5. \A d \in Clients : Waits(d)' => Waits(d) \/ d = c
    BY <2>2, <2>3 DEF Waits
  <2>6. ~Waits(c) /\ Fresh(c)
    BY <1>1, <2>1 DEF JoinInv
  <2>7. \A j, k \in 1..Len(registerQ') : registerQ'[j] = registerQ'[k] => j = k
    BY <1>1, <2>2, <2>3, <2>6 DEF JoinInv, Waits
  <2>8. \A d \in Clients : pump'[d] = "none" => pump[d] = "none" /\ d # c
    BY <1>1, <2>1 DEF HubTyped
  <2>9. JoinInv'
    BY <1>1, <2>1, <2>5, <2>6, <2>7, <2>8 DEF JoinInv, Fresh
  <2> QED
    BY <1>1, <2>1, <2>4, <2>9 DEF HubInv, OpenInv, Hub!ClosedOnce, Hub!NothingSkipped
<1>3. CASE Hub!PumpWrite(c)
  <2>1. /\ pump[c] = "running" /\ send[c] > 0
        /\ send' = [send EXCEPT ![c] = send[c] - 1] /\ got' = [got EXCEPT ![c] = got[c] + 1]
        /\ (pump' = pump \/ pump' = [pump EXCEPT ![c] = "leaving"])
        /\ UNCHANGED <<registerQ, unregisterQ, clients, closes, joined, taken>>
    BY <1>3 DEF Hub!PumpWrite, Hub!queues
  <2>2. /\ send[c] \in 0..SendCap /\ send[c] \in Nat \ {0} /\ got[c] \in Nat
        /\ send'[c] = send[c] - 1 /\ got'[c] = got[c] + 1
        /\ \A d \in Clients : d # c => send'[d] = send[d] /\ got'[d] = got[d]
    BY <1>1, <2>1 DEF HubTyped
  <2>3. HubTyped'
    <3>1. send[c] - 1 \in 0..SendCap /\ got[c] + 1 \in Nat
      BY <1>1, <2>2
    <3>2. send' \in [Clients -> 0..SendCap] /\ got' \in [Clients -> Nat]
      BY <1>1, <2>1, <3>1 DEF HubTyped
    <3> QED
      BY <1>1, <2>1, <3>2 DEF HubTyped
  <2>4. ~Fresh(c)
    BY <2>2 DEF Fresh
  <2>5. \A d \in Clients : pump'[d] = "none" => pump[d] = "none"
    BY <1>1, <2>1 DEF HubTyped
  <2>6. JoinInv'
    BY <1>1, <2>1, <2>2, <2>4, <2>5 DEF JoinInv, Waits, Fresh
  <2>7. Hub!NothingSkipped'
    BY <1>1, <2>1, <2>2 DEF Hub!NothingSkipped, HubTyped
  <2> QED
    BY <1>1, <2>1, <2>3, <2>6, <2>7 DEF HubInv, OpenInv, Hub!ClosedOnce
<1>4. CASE Hub!PumpClosed(c) \/ Hub!PumpPing(c) \/ Hub!PumpLeave(c)
  <2>1. /\ pump[c] # "none"
        /\ \/ pump' = [pump EXCEPT ![c] = "leaving"]
           \/ pump' = [pump EXCEPT ![c] = "gone"]
        /\ (unregisterQ' = unregisterQ \/ unregisterQ' = Append(unregisterQ, c))
        /\ UNCHANGED <<registerQ, clients, send, closes, joined, taken, got>>
    BY <1>4 DEF Hub!PumpClosed, Hub!PumpPing, Hub!PumpLeave, Hub!queues, Hub!members
  <2>2. unregisterQ' \in Seq(Clients)
    <3>1. unregisterQ \in Seq(Clients)
      BY <1>1 DEF HubTyped
    <3>2. Append(unregisterQ, c) \in Seq(Clients)
      BY <3>1, QueueAppend
    <3> QED
      BY <2>1, <3>1, <3>2
  <2>3. HubTyped'
    BY <1>1, <2>1, <2>2 DEF HubTyped
  <2>4. \A d \in Clients : pump'[d] = "none" => pump[d] = "none"
    BY <1>1, <2>1 DEF HubTyped
  <2>5. JoinInv'
    BY <1>1, <2>1, <2>4 DEF JoinInv, Waits, Fresh
  <2> QED
    BY <1>1, <2>1, <2>3, <2>5 DEF HubInv, OpenInv, Hub!ClosedOnce, Hub!NothingSkipped
<1> QED
  BY <1>2, <1>3, <1>4

\* Every step of the service keeps the hub's invariant.
LEMMA HubKeeps == HubInv /\ [Next]_vars => HubInv'
<1> SUFFICES ASSUME HubInv, [Next]_vars
             PROVE  HubInv'
  OBVIOUS
<1>1. CASE UNCHANGED hubVars
  BY <1>1 DEF hubVars, HubInv, HubTyped, JoinInv, OpenInv, Waits, Fresh,
              Hub!ClosedOnce, Hub!NothingSkipped
<1>2. CASE Hub!Next
  <2>1. CASE Hub!Broadcast \/ Hub!Cancel
    BY <2>1 DEF Hub!Broadcast, Hub!Cancel, Hub!members, Hub!queues, HubInv, HubTyped, JoinInv,
                OpenInv, Waits, Fresh, Hub!ClosedOnce, Hub!NothingSkipped
  <2> QED
    BY <1>2, <2>1, RunKeeps, PumpKeeps DEF Hub!Next
<1>3. Hub!Next \/ UNCHANGED hubVars
  BY DEF Next, Others, vars
<1> QED
  BY <1>1, <1>2, <1>3

(***************************************************************************)
(* DispatchProcess.  The pool's Shutdown is the first deferred call, if    *)
(* there is a pool: as long as it has not ended the databases are open,    *)
(* and after it there is no task and nobody can hand one over.             *)
(***************************************************************************)
Calls == {"pool", "logs", "store", "cancel"}
PoolFirst(q) == q \in Seq(Calls) /\ \A k \in 2..Len(q) : q[k] # "pool"
PoolNext == deferred # <<>> /\ Head(deferred) = "pool"
Idle == queue = 0 /\ running = 0 /\ handler # "submitting"

DispatchInv ==
    /\ config \subseteq Dispatch!Options
    /\ members \in [Dispatch!Members -> {"absent", "running", "returned"}]
    /\ queue \in Nat /\ running \in Nat
    /\ process \in {"waiting", "deferred", "exited"}
    /\ PoolFirst(deferred)
    /\ "pool" \notin config => Idle
    /\ refusing => handler # "submitting"
    /\ process = "waiting" =>
          deferred = Dispatch!Deferred(config) /\ open = config \cap {"store", "logs"}
    /\ PoolNext => open = config \cap {"store", "logs"}
    /\ process # "waiting" => \A m \in Dispatch!Members : members[m] # "running"
    /\ process # "waiting" /\ ~PoolNext => Idle /\ ("pool" \in config => refusing)

\* Another call after those of a sequence that begins with the pool, if it has the pool.
LEMMA PoolFirstMore ==
    ASSUME NEW q, PoolFirst(q), NEW t \in Seq(Calls \ {"pool"})
    PROVE  PoolFirst(q \o t) /\ (q # <<>> => q \o t # <<>> /\ Head(q \o t) = Head(q))
<1>1. q \in Seq(Calls) /\ t \in Seq(Calls) /\ Len(q) \in Nat /\ Len(t) \in Nat
  BY DEF PoolFirst, Calls
<1>2. /\ q \o t \in Seq(Calls) /\ Len(q \o t) = Len(q) + Len(t)
      /\ \A k \in 1..Len(q \o t) : (q \o t)[k] = IF k <= Len(q) THEN q[k] ELSE t[k - Len(q)]
  BY <1>1
<1>3. \A k \in 1..Len(t) : t[k] # "pool"
  OBVIOUS
<1>4. ASSUME NEW k \in 2..Len(q \o t) PROVE (q \o t)[k] # "pool"
  <2>1. k \in 1..Len(q \o t)
    BY <1>1, <1>2
  <2>2. CASE k <= Len(q)
    <3>1. k \in 2..Len(q)
      BY <1>1, <1>2, <2>2
    <3> QED
      BY <1>2, <2>1, <2>2, <3>1 DEF PoolFirst
  <2>3. CASE ~(k <= Len(q))
    <3>1. k - Len(q) \in 1..Len(t)
      BY <1>1, <1>2, <2>3
    <3> QED
      BY <1>2, <1>3, <2>1, <2>3, <3>1
  <2> QED
    BY <2>2, <2>3
<1>5. ASSUME q # <<>> PROVE q \o t # <<>> /\ Head(q \o t) = Head(q)
  <2>1. Len(q) >= 1 /\ 1 \in 1..Len(q \o t)
    BY <1>1, <1>2, <1>5
  <2> QED
    BY <1>1, <1>2, <2>1
<1> QED
  BY <1>2, <1>4, <1>5 DEF PoolFirst

\* The deferred calls begin with the pool, if there is one.
LEMMA DeferredCalls ==
    ASSUME NEW c
    PROVE  LET q == Dispatch!Deferred(c)
           IN  PoolFirst(q) /\ ("pool" \in c => q # <<>> /\ Head(q) = "pool")
<1> DEFINE p == Dispatch!DeferredIf("pool", c)
           l == Dispatch!DeferredIf("logs", c)
           s == Dispatch!DeferredIf("store", c)
<1>1. PoolFirst(p) /\ ("pool" \in c => p # <<>> /\ Head(p) = "pool")
  BY SMTT(20) DEF PoolFirst, Calls, Dispatch!DeferredIf
<1>2. /\ l \in Seq(Calls \ {"pool"}) /\ s \in Seq(Calls \ {"pool"})
      /\ <<"cancel">> \in Seq(Calls \ {"pool"})
  <2>1. {"logs", "store", "cancel"} \subseteq Calls \ {"pool"}
    BY DEF Calls
  <2>2. \A d \in Calls \ {"pool"} : <<>> \in Seq(Calls \ {"pool"}) /\ <<d>> \in Seq(Calls \ {"pool"})
    OBVIOUS
  <2> QED
    BY <2>1, <2>2 DEF Dispatch!DeferredIf
<1>3. Dispatch!Deferred(c) = ((p \o l) \o s) \o <<"cancel">>
  BY DEF Dispatch!Deferred
<1> HIDE DEF p, l, s
<1>4. PoolFirst(p \o l) /\ (p # <<>> => p \o l # <<>> /\ Head(p \o l) = Head(p))
  BY <1>1, <1>2, PoolFirstMore
<1>5. PoolFirst((p \o l) \o s) /\ (p # <<>> => (p \o l) \o s # <<>> /\ Head((p \o l) \o s) = Head(p))
  BY <1>2, <1>4, PoolFirstMore
<1>6. /\ PoolFirst(((p \o l) \o s) \o <<"cancel">>)
      /\ p # <<>> => /\ ((p \o l) \o s) \o <<"cancel">> # <<>>
                     /\ Head(((p \o l) \o s) \o <<"cancel">>) = Head(p)
  BY <1>2, <1>5, PoolFirstMore
<1> QED
  BY <1>1, <1>3, <1>6

\* After the first call the pool is not among the rest.
LEMMA PoolGone ==
    ASSUME PoolFirst(deferred), deferred # <<>>, deferred' = Tail(deferred)
    PROVE  PoolFirst(deferred') /\ ~PoolNext'
<1>1. /\ deferred \in Seq(Calls) /\ Len(deferred) \in Nat \ {0}
      /\ Tail(deferred) \in Seq(Calls) /\ Len(Tail(deferred)) = Len(deferred) - 1
      /\ \A k \in 1..Len(Tail(deferred)) :
            k + 1 \in 1..Len(deferred) /\ Tail(deferred)[k] = deferred[k + 1]
  BY QueueTail DEF PoolFirst
<1>2. \A k \in 1..Len(deferred') : deferred'[k] # "pool"
  <2> SUFFICES ASSUME NEW k \in 1..Len(deferred')
               PROVE  deferred'[k] # "pool"
    OBVIOUS
  <2>1. k + 1 \in 2..Len(deferred) /\ deferred'[k] = deferred[k + 1]
    BY <1>1
  <2> QED
    BY <2>1 DEF PoolFirst
<1>3. ~PoolNext'
  <2> SUFFICES ASSUME deferred' # <<>>
               PROVE  Head(deferred') # "pool"
    BY DEF PoolNext
  <2>1. Head(deferred') = deferred'[1] /\ 1 \in 1..Len(deferred')
    BY <1>1
  <2> QED
    BY <1>2, <2>1
<1>4. \A k \in 2..Len(deferred') : k \in 1..Len(deferred')
  BY <1>1
<1> QED
  BY <1>1, <1>2, <1>3, <1>4 DEF PoolFirst

\* The dispatch process starts with all its databases open.
LEMMA DispatchStart == Init => DispatchInv
<1> SUFFICES ASSUME Dispatch!Init
             PROVE  DispatchInv
  BY DEF Init
<1>1. PoolFirst(deferred) /\ deferred = Dispatch!Deferred(config)
  BY DeferredCalls DEF Dispatch!Init
<1>2. members \in [Dispatch!Members -> {"absent", "running", "returned"}]
  BY DEF Dispatch!Init
<1> QED
  BY <1>1, <1>2 DEF Dispatch!Init, DispatchInv, Idle

\* The group and the pool: nothing starts where the process is taken down behind the pool.
LEMMA WorkKeeps ==
    ASSUME DispatchInv,
           Dispatch!Signal \/ Dispatch!Group \/ Dispatch!Handle \/ Dispatch!BeginSubmit
             \/ Dispatch!EndSubmit \/ Dispatch!Pool \/ \E b \in DOMAIN background : Dispatch!BackgroundStep(b)
    PROVE  DispatchInv'
<1>1. UNCHANGED <<config, refusing, open, deferred, process>>
  BY DEF Dispatch!Signal, Dispatch!Group, Dispatch!DispatcherFails, Dispatch!MemberStops,
         Dispatch!Handle, Dispatch!BeginSubmit, Dispatch!EndSubmit, Dispatch!Pool,
         Dispatch!TaskStarts, Dispatch!TaskEnds, Dispatch!BackgroundStep, Dispatch!poolVars
<1>2. /\ members' \in [Dispatch!Members -> {"absent", "running", "returned"}]
      /\ \A m \in Dispatch!Members : members'[m] = "running" => members[m] = "running"
  BY DEF Dispatch!Signal, Dispatch!Group, Dispatch!DispatcherFails, Dispatch!MemberStops,
         Dispatch!Handle, Dispatch!BeginSubmit, Dispatch!EndSubmit, Dispatch!Pool,
         Dispatch!TaskStarts, Dispatch!TaskEnds, Dispatch!BackgroundStep, Dispatch!poolVars,
         DispatchInv
<1>3. /\ queue' \in Nat /\ running' \in Nat
      /\ Idle => Idle' \/ Dispatch!BeginSubmit
  BY DEF Dispatch!Signal, Dispatch!Group, Dispatch!DispatcherFails, Dispatch!MemberStops,
         Dispatch!Handle, Dispatch!EndSubmit, Dispatch!Pool, Dispatch!BeginSubmit,
         Dispatch!TaskStarts, Dispatch!TaskEnds, Dispatch!BackgroundStep, Dispatch!poolVars,
         DispatchInv, Idle
<1>4. Dispatch!BeginSubmit =>
         /\ UNCHANGED <<queue, running>>
         /\ handler' # "submitting" \/ ("pool" \in config /\ ~refusing)
  BY DEF Dispatch!BeginSubmit, Dispatch!poolVars
<1>5. refusing /\ handler # "submitting" => handler' # "submitting"
  BY DEF Dispatch!Signal, Dispatch!Group, Dispatch!DispatcherFails, Dispatch!MemberStops,
         Dispatch!Handle, Dispatch!BeginSubmit, Dispatch!EndSubmit, Dispatch!Pool,
         Dispatch!TaskStarts, Dispatch!TaskEnds, Dispatch!BackgroundStep, Dispatch!poolVars
<1>6. Idle /\ ("pool" \notin config \/ refusing) => Idle'
  BY <1>3, <1>4 DEF Idle
<1>7. PoolNext' = PoolNext
  BY <1>1 DEF PoolNext
<1> QED
  BY <1>1, <1>2, <1>3, <1>5, <1>6, <1>7 DEF DispatchInv

\* The main goroutine: g.Wait and the deferred calls.
LEMMA MainKeeps ==
    ASSUME DispatchInv, Dispatch!Main
    PROVE  DispatchInv'
<1>1. CASE Dispatch!GroupReturns
  <2>1. "pool" \in config => PoolNext
    BY <1>1, DeferredCalls DEF DispatchInv, PoolNext, Dispatch!GroupReturns
  <2>2. /\ process' = "deferred" /\ \A m \in Dispatch!Members : members[m] # "running"
        /\ UNCHANGED <<config, members, handler, queue, running, refusing, open, deferred>>
    BY <1>1 DEF Dispatch!GroupReturns, Dispatch!poolVars
  <2> QED
    BY <2>1, <2>2 DEF DispatchInv, PoolNext, Idle
<1>2. CASE Dispatch!ShutdownBegins
  BY <1>2 DEF Dispatch!ShutdownBegins, Dispatch!Runs, DispatchInv, PoolNext, Idle
<1>3. CASE Dispatch!ShutdownEnds \/ Dispatch!CloseDatabase("logs") \/ Dispatch!CloseDatabase("store")
           \/ Dispatch!Exit
  <2>1. /\ process = "deferred" /\ process' \in {"deferred", "exited"}
        /\ deferred # <<>> /\ deferred' = Tail(deferred)
        /\ UNCHANGED <<config, members, queue, running, refusing>>
        /\ handler' = handler \/ handler' = "idle"
    BY <1>3 DEF Dispatch!ShutdownEnds, Dispatch!CloseDatabase, Dispatch!Exit, Dispatch!Runs,
                Dispatch!poolVars
  <2>2. Dispatch!ShutdownEnds \/ ~PoolNext
    BY <1>3 DEF Dispatch!CloseDatabase, Dispatch!Exit, Dispatch!Runs, PoolNext
  <2>3. Dispatch!ShutdownEnds => refusing /\ queue = 0 /\ running = 0
    BY DEF Dispatch!ShutdownEnds
  <2>4. Idle /\ ("pool" \in config => refusing)
    BY <2>1, <2>2, <2>3 DEF DispatchInv, Idle
  <2>5. PoolFirst(deferred') /\ ~PoolNext'
    BY <2>1, PoolGone DEF DispatchInv
  <2> QED
    BY <2>1, <2>4, <2>5 DEF DispatchInv, Idle
<1> QED
  BY <1>1, <1>2, <1>3 DEF Dispatch!Main

\* Every step of the service keeps the dispatch process's invariant.
LEMMA DispatchKeeps == DispatchInv /\ [Next]_vars => DispatchInv'
<1> SUFFICES ASSUME DispatchInv, [Next]_vars
             PROVE  DispatchInv'
  OBVIOUS
<1>1. CASE UNCHANGED dispatchVars
  BY <1>1 DEF dispatchVars, DispatchInv, PoolNext, Idle
<1>2. CASE Dispatch!Next
  BY <1>2, WorkKeeps, MainKeeps DEF Dispatch!Next
<1>3. Dispatch!Next \/ UNCHANGED dispatchVars
  BY DEF Next, Others, vars
<1> QED
  BY <1>1, <1>2, <1>3

\* Who works finds the databases open.
LEMMA TasksServed == DispatchInv => Dispatch!DatabasesOutliveTasks
<1> SUFFICES ASSUME DispatchInv,
                    queue + running > 0 \/ \E m \in Dispatch!Members : members[m] = "running"
             PROVE  open = config \cap {"store", "logs"}
  BY DEF Dispatch!DatabasesOutliveTasks
<1>1. CASE queue + running > 0
  BY <1>1 DEF DispatchInv, Idle
<1>2. CASE \E m \in Dispatch!Members : members[m] = "running"
  BY <1>2 DEF DispatchInv
<1> QED
  BY <1>1, <1>2

(***************************************************************************)
(* ServeProcess.  The databases are open until the deferred calls, which   *)
(* follow a drained listener or a broken one.                              *)
(***************************************************************************)
ServeInv ==
    /\ listener \in [Serve!Listeners -> {"open", "closed", "failed"}]
    /\ requests \in [Serve!Listeners -> Nat]
    /\ serveProcess \in {"serving", "draining"} => serveOpen = serveConfig
    /\ serveProcess # "serving" => listener["dashboard"] # "open"
    /\ serveProcess \notin {"serving", "draining"} =>
          requests["dashboard"] = 0 \/ listener["dashboard"] = "failed"

\* The serve process starts with its databases open.
LEMMA ServeStart == Init => ServeInv
<1>1. Init => Serve!Init
  BY DEF Init
<1>2. Serve!Init => ServeInv
  BY DEF Serve!Init, ServeInv, Serve!Listeners
<1> QED
  BY <1>1, <1>2

\* Every step of the service keeps the serve process's invariant.
LEMMA ServeKeeps == ServeInv /\ [Next]_vars => ServeInv'
<1> SUFFICES ASSUME ServeInv, [Next]_vars
             PROVE  ServeInv'
  OBVIOUS
<1> USE DEF ServeInv, Serve!Listeners
<1>1. CASE UNCHANGED serveVars
  BY <1>1 DEF serveVars
<1>2. CASE Serve!Signal
  BY <1>2 DEF Serve!Signal
<1>3. ASSUME NEW l \in Serve!Listeners, Serve!Arrives(l) PROVE ServeInv'
  BY <1>3 DEF Serve!Arrives
<1>4. ASSUME NEW l \in Serve!Listeners, Serve!Ends(l) PROVE ServeInv'
  BY <1>4 DEF Serve!Ends
<1>5. ASSUME NEW l \in Serve!Listeners, Serve!ListenerFails(l) PROVE ServeInv'
  BY <1>5 DEF Serve!ListenerFails
<1>6. CASE Serve!McpShutdown
  BY <1>6 DEF Serve!McpShutdown
<1>7. ASSUME NEW s \in services, Serve!ServiceStops(s) PROVE ServeInv'
  BY <1>7 DEF Serve!ServiceStops
<1>8. CASE Serve!StartShutsDown
  BY <1>8 DEF Serve!StartShutsDown
<1>9. CASE Serve!StartDrained
  BY <1>9 DEF Serve!StartDrained, Serve!Drained
<1>10. CASE Serve!StartFails
  BY <1>10 DEF Serve!StartFails
<1>11. CASE Serve!CloseDatabase("logs") \/ Serve!CloseDatabase("store") \/ Serve!Exit
  BY <1>11 DEF Serve!CloseDatabase, Serve!Exit
<1>12. Serve!Next \/ UNCHANGED serveVars
  BY DEF Next, Others, vars
<1> QED
  BY <1>1, <1>2, <1>3, <1>4, <1>5, <1>6, <1>7, <1>8, <1>9, <1>10, <1>11, <1>12,
     SMTT(20) DEF Serve!Next, Serve!Main

\* A request finds its databases open.
LEMMA RequestsServed == ServeInv => Serve!DatabasesOutliveRequests
  BY DEF ServeInv, Serve!DatabasesOutliveRequests

(***************************************************************************)
(* StoreSchema.  Whoever has come to a statement finds done what those     *)
(* before it do, by whomever: columns are never taken away, and a column   *)
(* is added only to a table that has been created.                         *)
(***************************************************************************)
Tables == Schema!Tables
Added == Schema!Added
Id(i) == <<Tables[i], "id">>

\* What the statements before the n-th do is done.
Through(n) ==
    /\ \A i \in 1..13 : i < n => Id(i) \in columns
    /\ \A i \in 1..13 : i + 13 < n => Added[i] \in columns

SchemaInv ==
    /\ statement \in [Processes -> 0..26]
    /\ state \in [Processes -> {"closed", "migrating", "open", "failed"}]
    /\ columns \subseteq Schema!Complete
    /\ \A i \in 1..13 : Schema!Exists(Tables[i]) => Id(i) \in columns
    /\ \A p \in Processes : state[p] = "migrating" => statement[p] \in 1..26 /\ Through(statement[p])
    /\ \A p \in Processes : state[p] = "open" => Through(27)

\* The statements, and the columns of a new table.
LEMMA SchemaFacts ==
    /\ Len(Schema!Tables) = 13 /\ Len(Schema!Added) = 13 /\ Schema!Statements = 26
    /\ \A i \in 1..13 : Added[i] \in Schema!Complete /\ Id(i) \in Schema!Complete
    /\ \A i \in 1..13 : \A c \in Schema!Created(Tables[i]) : <<Tables[i], c>> \in Schema!Complete
    /\ \A table : "id" \in Schema!Created(table)
    /\ \A i \in 1..13 : \E m \in 1..13 : Added[i][1] = Tables[m]
<1>1. Len(Schema!Tables) = 13 /\ Len(Schema!Added) = 13
  BY DEF Schema!Tables, Schema!Added
<1>2. Schema!Statements = 26
  BY <1>1 DEF Schema!Statements
<1>3. \A i \in 1..13 : \A c \in Schema!Created(Tables[i]) : <<Tables[i], c>> \in Schema!Complete
  BY <1>1 DEF Schema!Complete, Tables
<1>4. \A table : "id" \in Schema!Created(table)
  BY DEF Schema!Created
<1>5. \A i \in 1..13 : Added[i] \in Schema!Complete /\ Id(i) \in Schema!Complete
  BY <1>1, <1>3, <1>4 DEF Schema!Complete, Added, Id
<1>6. \A i \in 1..13 : \E m \in 1..13 : Added[i][1] = Tables[m]
  <2>1. Tables[1] = "sessions" /\ Tables[7] = "failure_events"
    BY DEF Tables, Schema!Tables
  <2>2. \A i \in 1..13 : Added[i][1] = "sessions" \/ Added[i][1] = "failure_events"
    BY DEF Added, Schema!Added
  <2> QED
    BY <2>1, <2>2
<1> QED
  BY <1>1, <1>2, <1>3, <1>4, <1>5, <1>6

\* A schema that all statements have been through is complete.
LEMMA ThroughAll ==
    ASSUME SchemaInv, Through(27)
    PROVE  columns = Schema!Complete
<1> SUFFICES ASSUME NEW x \in Schema!Complete
             PROVE  x \in columns
  BY DEF SchemaInv
<1>1. CASE \E i \in 1..13 : x = Added[i]
  BY <1>1 DEF Through
<1>2. CASE \E i \in 1..13 : \E c \in Schema!Created(Tables[i]) : x = <<Tables[i], c>>
  <2>1. PICK i \in 1..13 : \E c \in Schema!Created(Tables[i]) : x = <<Tables[i], c>>
    BY <1>2
  <2>0. PICK c \in Schema!Created(Tables[i]) : x = <<Tables[i], c>>
    BY <2>1
  <2>2. CASE c = "id"
    BY <2>0, <2>2 DEF Through, Id
  <2>3. CASE c # "id"
    <3>1. Tables[i] = "sessions" /\ c \in {"partial_output", "checkpoint_hash", "estimated_timeout_ms"}
      BY <2>0, <2>3 DEF Schema!Created, Schema!Checkpoints
    <3>2. /\ <<"sessions", "partial_output">> = Added[1]
          /\ <<"sessions", "checkpoint_hash">> = Added[2]
          /\ <<"sessions", "estimated_timeout_ms">> = Added[3]
      BY DEF Added, Schema!Added
    <3> QED
      BY <2>0, <3>1, <3>2 DEF Through
  <2> QED
    BY <2>2, <2>3
<1>3. (\E i \in 1..13 : x = Added[i])
        \/ \E i \in 1..13 : \E c \in Schema!Created(Tables[i]) : x = <<Tables[i], c>>
  <2>1. Len(Schema!Tables) = 13 /\ Len(Schema!Added) = 13
    BY SchemaFacts
  <2>2. \/ \E s \in {{<<Tables[i], c>> : c \in Schema!Created(Tables[i])} : i \in 1..13} : x \in s
        \/ x \in {Added[i] : i \in 1..13}
    BY <2>1 DEF Schema!Complete, Tables, Added
  <2> QED
    BY <2>2
<1> QED
  BY <1>1, <1>2, <1>3

\* Any earlier release's file is a part of the schema whose tables have an id.
LEMMA SchemaStart == Init => SchemaInv
<1> SUFFICES ASSUME Schema!Init
             PROVE  SchemaInv
  BY DEF Init
<1>1. PICK n \in {0, 1, 7, Len(Schema!Tables)}, k \in {0, 2, 3, Len(Schema!Added)} :
         columns = Schema!Release(n, k)
  BY DEF Schema!Init
<1>2. n \in 0..13 /\ k \in 0..13
  BY SchemaFacts
<1>3. \A x \in columns : \/ \E i \in 1..n : x = Id(i)
                         \/ \E i \in 1..k : x = Added[i] /\ \E m \in 1..n : Tables[m] = x[1]
  BY <1>1 DEF Schema!Release, Id, Tables, Added
<1>4. \A i \in 1..n : Id(i) \in columns
  BY <1>1 DEF Schema!Release, Id, Tables
<1>5. columns \subseteq Schema!Complete
  BY <1>2, <1>3, SchemaFacts
<1>6. ASSUME NEW i \in 1..13, Schema!Exists(Tables[i]) PROVE Id(i) \in columns
  <2>1. PICK x \in columns : x[1] = Tables[i]
    BY <1>6 DEF Schema!Exists
  <2>2. PICK m \in 1..n : Tables[m] = Tables[i]
    BY <1>3, <2>1 DEF Id
  <2> QED
    BY <1>4, <2>2 DEF Id
<1>7. /\ statement = [p \in Processes |-> 0] /\ state = [p \in Processes |-> "closed"]
  BY DEF Schema!Init
<1> QED
  BY <1>5, <1>6, <1>7 DEF SchemaInv

\* What is required of the processes after a step that leaves done what is done.
LEMMA StatesKeep ==
    ASSUME SchemaInv, columns' \subseteq Schema!Complete,
           \A i \in 1..13 : Schema!Exists(Tables[i])' => Id(i) \in columns',
           statement' \in [Processes -> 0..26],
           state' \in [Processes -> {"closed", "migrating", "open", "failed"}],
           \A j : Through(j) => Through(j)',
           \A q \in Processes :
              \/ state'[q] = state[q] /\ statement'[q] = statement[q]
              \/ state'[q] = "migrating" /\ statement'[q] \in 1..26
                   /\ \A j : j = statement'[q] => Through(j)'
              \/ state'[q] = "open" /\ Through(27)'
              \/ state'[q] \in {"closed", "failed"}
    PROVE  SchemaInv'
<1>1. ASSUME NEW q \in Processes, state'[q] = "open" PROVE Through(27)'
  BY <1>1 DEF SchemaInv
<1>2. ASSUME NEW q \in Processes, state'[q] = "migrating"
      PROVE  statement'[q] \in 1..26 /\ \A j : j = statement'[q] => Through(j)'
  <2>1. CASE state[q] = "migrating" /\ statement'[q] = statement[q]
    <3>1. statement[q] \in 1..26 /\ Through(statement[q])
      BY <2>1 DEF SchemaInv
    <3>2. \A j : j = statement[q] => Through(j)
      BY <3>1
    <3> QED
      BY <2>1, <3>1, <3>2
  <2> QED
    BY <1>2, <2>1
<1>3. \A q \in Processes : state'[q] = "migrating" => (statement[q] \in 1..26 /\ Through(statement[q]))'
  BY <1>2 DEF Through, Id
<1> QED
  BY <1>1, <1>3 DEF SchemaInv, Through, Id

\* A process goes on from a statement that is done.
LEMMA SchemaKeeps ==
    ASSUME SchemaInv, NEW p \in Processes, columns \subseteq columns', columns' \subseteq Schema!Complete,
           \A i \in 1..13 : Schema!Exists(Tables[i])' => Id(i) \in columns',
           NEW n \in 1..27, Schema!Proceed(p, n), Through(n)', state[p] = "migrating"
    PROVE  SchemaInv'
<1>3. \A j : Through(j) => Through(j)'
  BY DEF Through
<1>1. CASE n <= 26
  <2>1. statement' = [statement EXCEPT ![p] = n] /\ state' = state
    BY <1>1, SchemaFacts DEF Schema!Proceed
  <2>2. /\ statement' \in [Processes -> 0..26]
        /\ \A q \in Processes : IF q = p THEN statement'[q] = n ELSE statement'[q] = statement[q]
    BY <1>1, <2>1 DEF SchemaInv
  <2>3. /\ state' \in [Processes -> {"closed", "migrating", "open", "failed"}]
        /\ state'[p] = "migrating" /\ statement'[p] = n /\ n \in 1..26
    BY <1>1, <2>1, <2>2 DEF SchemaInv
  <2>4. \A j : j = statement'[p] => Through(j)'
    BY <2>3
  <2> QED
    BY <1>3, <2>1, <2>2, <2>3, <2>4, StatesKeep
<1>2. CASE n = 27
  <2>1. statement' = [statement EXCEPT ![p] = 0] /\ state' = [state EXCEPT ![p] = "open"]
    BY <1>2, SchemaFacts DEF Schema!Proceed
  <2>2. /\ statement' \in [Processes -> 0..26]
        /\ state' \in [Processes -> {"closed", "migrating", "open", "failed"}]
        /\ state'[p] = "open"
        /\ \A q \in Processes : q # p => statement'[q] = statement[q] /\ state'[q] = state[q]
    BY <2>1 DEF SchemaInv
  <2> QED
    BY <1>2, <1>3, <2>2, StatesKeep
<1> QED
  BY <1>1, <1>2

\* The statements.
LEMMA StatementKeeps ==
    ASSUME SchemaInv, NEW p \in Processes, Schema!CreateTable(p) \/ Schema!AddColumn(p)
    PROVE  SchemaInv'
<1>1. PICK n \in 1..26 : n = statement[p] /\ Through(n)
  BY DEF SchemaInv, Schema!CreateTable, Schema!AddColumn
<1>4. state[p] = "migrating"
  BY DEF Schema!CreateTable, Schema!AddColumn
<1>2. CASE Schema!CreateTable(p)
  <2>1. /\ n \in 1..13 /\ Schema!Proceed(p, n + 1)
        /\ columns' = IF Schema!Exists(Tables[n]) THEN columns
                      ELSE columns \cup {<<Tables[n], c>> : c \in Schema!Created(Tables[n])}
    BY <1>1, <1>2, SchemaFacts DEF Schema!CreateTable, Tables
  <2>2. columns \subseteq columns' /\ columns' \subseteq Schema!Complete
    BY <2>1, SchemaFacts DEF SchemaInv
  <2>3. Id(n) \in columns'
    BY <2>1, SchemaFacts DEF SchemaInv, Id
  <2>4. ASSUME NEW i \in 1..13, Schema!Exists(Tables[i])' PROVE Id(i) \in columns'
    <3>1. PICK x \in columns' : x[1] = Tables[i]
      BY <2>4 DEF Schema!Exists, Tables
    <3>2. CASE x \in columns
      BY <2>2, <3>1, <3>2 DEF SchemaInv, Schema!Exists
    <3>3. CASE x \notin columns
      <4>1. Tables[i] = Tables[n]
        BY <2>1, <3>1, <3>3
      <4> QED
        BY <2>3, <4>1 DEF Id
    <3> QED
      BY <3>2, <3>3
  <2>5. n + 1 \in 1..27 /\ \A i \in 1..13 : (i < n + 1 <=> i < n \/ i = n) /\ ~(i + 13 < n + 1)
    BY <2>1
  <2>6. Through(n + 1)'
    BY <1>1, <2>2, <2>3, <2>5 DEF Through
  <2> QED
    BY <1>4, <2>1, <2>2, <2>4, <2>5, <2>6, SchemaKeeps
<1>3. CASE Schema!AddColumn(p)
  <2>1. PICK k \in 1..13 : n = k + 13
    <3>1. n \in 14..26 /\ n - 13 \in 1..13 /\ n = (n - 13) + 13
      BY <1>1, <1>3, SchemaFacts DEF Schema!AddColumn
    <3> QED
      BY <3>1
  <2>2. /\ Schema!Proceed(p, n + 1)
        /\ \/ Added[k] \in columns /\ columns' = columns
           \/ Added[k] \notin columns /\ columns' = columns \cup {Added[k]}
    <3>1. Len(Schema!Tables) = 13 /\ n - 13 = k
      BY <2>1, SchemaFacts
    <3> QED
      BY <1>1, <1>3, <3>1 DEF Schema!AddColumn, Schema!AfterDuplicate, Added
  <2>3. /\ columns \subseteq columns' /\ columns' \subseteq Schema!Complete
        /\ Added[k] \in columns' /\ \A x \in columns' : x \in columns \/ x = Added[k]
    BY <2>1, <2>2, SchemaFacts DEF SchemaInv
  <2>4. \A i \in 1..13 : Id(i) \in columns
    BY <1>1, <2>1 DEF Through
  <2>5. \A i \in 1..13 : Schema!Exists(Tables[i])' => Id(i) \in columns'
    BY <2>3, <2>4 DEF Id
  <2>6. n + 1 \in 1..27 /\ \A i \in 1..13 : i + 13 < n + 1 <=> i + 13 < n \/ i = k
    BY <2>1
  <2>7. Through(n + 1)'
    BY <1>1, <2>3, <2>4, <2>6 DEF Through
  <2> QED
    BY <1>4, <2>2, <2>3, <2>5, <2>6, <2>7, SchemaKeeps
<1> QED
  BY <1>2, <1>3

\* Opening, failing and ending.
LEMMA OpeningKeeps ==
    ASSUME SchemaInv, NEW p \in Processes, Schema!Open(p) \/ Schema!Busy(p) \/ Schema!Exit(p)
    PROVE  SchemaInv'
<1>1. /\ columns' = columns
      /\ \/ state' = [state EXCEPT ![p] = "migrating"] /\ statement' = [statement EXCEPT ![p] = 1]
         \/ \E s \in {"failed", "closed"} :
               state' = [state EXCEPT ![p] = s] /\ statement' = [statement EXCEPT ![p] = 0]
  BY DEF Schema!Open, Schema!Busy, Schema!Exit, Schema!Fail
<1>2. Through(1)
  BY DEF Through
<1>3. /\ \A i : Id(i)' = Id(i)
      /\ \A i \in 1..13 : Schema!Exists(Tables[i])' => Id(i) \in columns
  BY <1>1 DEF SchemaInv, Schema!Exists, Id, Tables
<1>4. \A j : Through(j) => Through(j)'
  BY <1>1 DEF Through, Id
<1>5. /\ statement' \in [Processes -> 0..26]
      /\ state' \in [Processes -> {"closed", "migrating", "open", "failed"}]
  BY <1>1 DEF SchemaInv
<1>6. \A q \in Processes : state'[q] = "migrating" => statement'[q] \in 1..26 /\ Through(statement'[q])
  BY <1>1, <1>2 DEF SchemaInv
<1>7. \A q \in Processes : state'[q] = "open" => state[q] = "open"
  BY <1>1 DEF SchemaInv
<1> QED
  BY <1>1, <1>3, <1>4, <1>5, <1>6, <1>7 DEF SchemaInv, Through, Id

\* Every step of the service keeps the schema's invariant.
LEMMA SchemaStep == SchemaInv /\ [Next]_vars => SchemaInv'
<1> SUFFICES ASSUME SchemaInv, [Next]_vars
             PROVE  SchemaInv'
  OBVIOUS
<1>1. CASE UNCHANGED schemaVars
  BY <1>1 DEF schemaVars, SchemaInv, Schema!Exists, Through, Id
<1>2. CASE Schema!Next
  BY <1>2, StatementKeeps, OpeningKeeps DEF Schema!Next
<1>3. Schema!Next \/ UNCHANGED schemaVars
  BY DEF Next, Others, vars
<1> QED
  BY <1>1, <1>2, <1>3

\* Whoever has the database open finds the schema complete.
LEMMA SchemaOpened == SchemaInv => Schema!SchemaComplete
  BY ThroughAll DEF SchemaInv, Schema!SchemaComplete

(***************************************************************************)
(* Synapset.  Whoever tries again opened the session it uses itself, unless *)
(* somebody disturbed it: it finds no session that the server has          *)
(* forgotten.                                                              *)
(***************************************************************************)
ClientTyped ==
    /\ sessionID \in {"none", "live", "stale"}
    /\ pc \in [Callers -> {"idle", "ensure", "initialize", "adopt", "settle", "call", "reset"}]
    /\ opened \in [Callers -> {"none", "live", "stale"}]
    /\ retrying \in [Callers -> BOOLEAN] /\ disturbed \in [Callers -> BOOLEAN]
    /\ result \in [Callers -> {"none", "ok", "error"}]
    /\ \A c \in Callers : pc[c] = "adopt" => opened[c] # "none"

\* Where a second attempt stands that nobody has disturbed.
Retries(c) == pc[c] # "idle" /\ retrying[c] /\ ~disturbed[c]

RetryInv == \A c \in Callers : Retries(c) =>
    /\ sessionID # "stale"
    /\ pc[c] = "adopt" => opened[c] = "live"
    /\ pc[c] \in {"settle", "call"} => sessionID = "live"

ClientInv == ClientTyped /\ RetryInv /\ Client!ExpiredSessionHealed

\* The client starts without a session and without callers.
LEMMA ClientStart == Init => ClientInv
<1>1. Init => Client!Init
  BY DEF Init
<1> QED
  BY <1>1 DEF Client!Init, ClientInv, ClientTyped, RetryInv, Retries, Client!ExpiredSessionHealed

\* A step of one caller that leaves the session alone keeps the others' attempts.
LEMMA CallerKeeps ==
    ASSUME ClientInv, NEW c \in Callers, ClientTyped', UNCHANGED sessionID,
           \A d \in Callers : d # c =>
              /\ pc'[d] = pc[d] /\ opened'[d] = opened[d] /\ retrying'[d] = retrying[d]
              /\ result'[d] = result[d] /\ disturbed'[d] = disturbed[d],
           Retries(c)' =>
              /\ sessionID # "stale"
              /\ pc'[c] = "adopt" => opened'[c] = "live"
              /\ pc'[c] \in {"settle", "call"} => sessionID = "live",
           result'[c] = "error" => disturbed'[c]
    PROVE  ClientInv'
<1>1. RetryInv'
  <2> SUFFICES ASSUME NEW d \in Callers, Retries(d)'
               PROVE  /\ sessionID' # "stale"
                      /\ pc'[d] = "adopt" => opened'[d] = "live"
                      /\ pc'[d] \in {"settle", "call"} => sessionID' = "live"
    BY DEF RetryInv, Retries
  <2>1. CASE d = c
    BY <2>1
  <2>2. CASE d # c
    BY <2>2 DEF ClientInv, RetryInv, Retries
  <2> QED
    BY <2>1, <2>2
<1>2. Client!ExpiredSessionHealed'
  BY DEF ClientInv, Client!ExpiredSessionHealed
<1> QED
  BY <1>1, <1>2 DEF ClientInv

\* Every step of the client keeps its invariant.
LEMMA ClientStep == ClientInv /\ Client!Next => ClientInv'
<1> SUFFICES ASSUME ClientInv, Client!Next
             PROVE  ClientInv'
  OBVIOUS
<1> USE DEF Client!Goto, Client!Arrived, Client!Lost, Client!Disturb
<1>1. ASSUME NEW c \in Callers, Client!CallTool(c) PROVE ClientInv'
  <2>1. ClientTyped'
    BY <1>1 DEF Client!CallTool, ClientInv, ClientTyped
  <2>2. ~retrying'[c] /\ result'[c] = "none"
    BY <1>1 DEF Client!CallTool, ClientInv, ClientTyped
  <2>3. UNCHANGED sessionID /\ \A d \in Callers : d # c =>
              /\ pc'[d] = pc[d] /\ opened'[d] = opened[d] /\ retrying'[d] = retrying[d]
              /\ result'[d] = result[d] /\ disturbed'[d] = disturbed[d]
    BY <1>1 DEF Client!CallTool, ClientInv, ClientTyped
  <2>4. ~Retries(c)'
    BY <2>2 DEF Retries
  <2> QED
    BY <2>1, <2>2, <2>3, <2>4, CallerKeeps
<1>2. ASSUME NEW c \in Callers, Client!EnsureSession(c) PROVE ClientInv'
  <2>1. ClientTyped'
    BY <1>2 DEF Client!EnsureSession, ClientInv, ClientTyped
  <2>2. /\ pc[c] = "ensure"
        /\ pc'[c] = IF sessionID = "none" THEN "initialize" ELSE "call"
    BY <1>2 DEF Client!EnsureSession, ClientInv, ClientTyped
  <2>3. Retries(c)' => sessionID # "stale" /\ (sessionID # "none" => sessionID = "live")
    BY <1>2, <2>2 DEF Client!EnsureSession, ClientInv, ClientTyped, RetryInv, Retries
  <2>4. UNCHANGED <<sessionID, opened, retrying, result, disturbed>>
        /\ \A d \in Callers : d # c => pc'[d] = pc[d]
    BY <1>2 DEF Client!EnsureSession, ClientInv, ClientTyped
  <2>5. pc'[c] \in {"initialize", "call"} /\ (Retries(c)' /\ pc'[c] = "call" => sessionID = "live")
    BY <2>2, <2>3
  <2>6. result'[c] = "error" => disturbed'[c]
    BY <2>4 DEF ClientInv, Client!ExpiredSessionHealed
  <2> QED
    BY <2>1, <2>3, <2>4, <2>5, <2>6, CallerKeeps
<1>3. ASSUME NEW c \in Callers, Client!Initialize(c) \/ Client!Settle(c) PROVE ClientInv'
  <2>0. /\ pc[c] # "idle" /\ UNCHANGED <<sessionID, retrying>>
        /\ \/ /\ pc' = [pc EXCEPT ![c] = "idle"] /\ opened' = [opened EXCEPT ![c] = "none"]
              /\ result' = [result EXCEPT ![c] = "error"]
              /\ disturbed' = [d \in Callers |-> disturbed[d] \/ d \in {c}]
           \/ /\ pc[c] = "initialize" /\ UNCHANGED <<result, disturbed>>
              /\ pc' = [pc EXCEPT ![c] = "adopt"] /\ opened' = [opened EXCEPT ![c] = "live"]
           \/ /\ pc[c] = "settle" /\ UNCHANGED <<result, disturbed>>
              /\ pc' = [pc EXCEPT ![c] = "call"] /\ opened' = [opened EXCEPT ![c] = "none"]
    BY <1>3 DEF Client!Initialize, Client!Settle, Client!Return
  <2>1. ClientTyped'
    BY <2>0, ZenonT(30) DEF ClientInv, ClientTyped
  <2>2. \/ pc[c] = "initialize" /\ pc'[c] = "adopt" /\ opened'[c] = "live"
        \/ pc[c] = "settle" /\ pc'[c] = "call"
        \/ pc'[c] = "idle" /\ result'[c] = "error" /\ disturbed'[c]
    BY <2>0 DEF ClientInv, ClientTyped
  <2>3. \/ pc'[c] = "idle" /\ disturbed'[c]
        \/ /\ retrying'[c] = retrying[c] /\ disturbed'[c] = disturbed[c] /\ result'[c] = result[c]
           /\ pc[c] # "idle"
    BY <2>0 DEF ClientInv, ClientTyped
  <2>4. UNCHANGED sessionID /\ \A d \in Callers : d # c =>
              /\ pc'[d] = pc[d] /\ opened'[d] = opened[d] /\ retrying'[d] = retrying[d]
              /\ result'[d] = result[d] /\ disturbed'[d] = disturbed[d]
    BY <2>0 DEF ClientInv, ClientTyped
  <2>5. Retries(c)' =>
              /\ sessionID # "stale"
              /\ pc'[c] = "adopt" => opened'[c] = "live"
              /\ pc'[c] \in {"settle", "call"} => sessionID = "live"
    BY <2>2, <2>3 DEF ClientInv, RetryInv, Retries
  <2>6. result'[c] = "error" => disturbed'[c]
    BY <2>3 DEF ClientInv, Client!ExpiredSessionHealed
  <2> QED
    BY <2>1, <2>4, <2>5, <2>6, CallerKeeps
<1>4. ASSUME NEW c \in Callers, Client!Adopt(c) PROVE ClientInv'
  <2>1. ClientTyped'
    BY <1>4 DEF Client!Adopt, ClientInv, ClientTyped
  <2>2. /\ pc[c] = "adopt" /\ sessionID' = opened[c] /\ sessionID' \in {"live", "stale"}
        /\ opened' = opened /\ retrying' = retrying /\ result' = result
        /\ \A d \in Callers : d # c => pc'[d] = pc[d]
        /\ \A d \in Callers : disturbed[d] => disturbed'[d]
        /\ \A d \in Callers : d # c /\ pc[d] # "idle" /\ opened[c] = "stale" => disturbed'[d]
    BY <1>4 DEF Client!Adopt, Client!Busy, ClientInv, ClientTyped
  <2>3. ASSUME NEW d \in Callers, Retries(d)'
        PROVE  /\ sessionID' = "live"
               /\ pc'[d] = "adopt" => opened'[d] = "live"
    <3>1. CASE d = c
      <4>1. Retries(c) /\ pc'[c] = "settle"
        BY <1>4, <2>2, <2>3, <3>1 DEF Client!Adopt, ClientInv, ClientTyped, Retries
      <4> QED
        BY <2>2, <3>1, <4>1 DEF ClientInv, RetryInv
    <3>2. CASE d # c
      BY <2>2, <2>3, <3>2 DEF ClientInv, RetryInv, Retries
    <3> QED
      BY <3>1, <3>2
  <2>4. RetryInv' /\ Client!ExpiredSessionHealed'
    BY <2>2, <2>3 DEF RetryInv, ClientInv, Client!ExpiredSessionHealed
  <2> QED
    BY <2>1, <2>4 DEF ClientInv
<1>5. ASSUME NEW c \in Callers, Client!DoToolCall(c) PROVE ClientInv'
  <2>1. ClientTyped'
    BY <1>5, ZenonT(30) DEF Client!DoToolCall, Client!Return, ClientInv, ClientTyped
  <2>2. /\ pc[c] = "call" /\ pc'[c] \in {"idle", "reset"}
        /\ pc'[c] = "reset" => ~retrying'[c] /\ result'[c] = result[c]
        /\ disturbed[c] => disturbed'[c]
    BY <1>5 DEF Client!DoToolCall, Client!Return, ClientInv, ClientTyped
  <2>3. result'[c] = "error" => disturbed'[c]
    <3>1. CASE pc'[c] = "reset"
      BY <2>2, <3>1 DEF ClientInv, Client!ExpiredSessionHealed
    <3>2. CASE pc'[c] = "idle"
      <4>1. \/ result'[c] = "ok"
            \/ retrying[c] /\ (disturbed'[c] \/ sessionID # "live")
        BY <1>5, <2>2, <3>2 DEF Client!DoToolCall, Client!Return, ClientInv, ClientTyped
      <4>2. retrying[c] /\ sessionID # "live" => disturbed[c]
        BY <2>2 DEF ClientInv, ClientTyped, RetryInv, Retries
      <4> QED
        BY <2>2, <4>1, <4>2
    <3> QED
      BY <2>2, <3>1, <3>2
  <2>4. UNCHANGED sessionID /\ \A d \in Callers : d # c =>
              /\ pc'[d] = pc[d] /\ opened'[d] = opened[d] /\ retrying'[d] = retrying[d]
              /\ result'[d] = result[d] /\ disturbed'[d] = disturbed[d]
    BY <1>5 DEF Client!DoToolCall, Client!Return, ClientInv, ClientTyped
  <2>5. ~Retries(c)'
    BY <2>2 DEF Retries
  <2> QED
    BY <2>1, <2>3, <2>4, <2>5, CallerKeeps
<1>6. ASSUME NEW c \in Callers, Client!ResetSession(c) PROVE ClientInv'
  <2>1. ClientTyped'
    BY <1>6 DEF Client!ResetSession, ClientInv, ClientTyped
  <2>2. /\ sessionID' = "none" /\ pc'[c] = "ensure" /\ result' = result
        /\ \A d \in Callers : disturbed[d] => disturbed'[d]
        /\ \A d \in Callers : d # c /\ pc'[d] # "idle" => disturbed'[d]
    BY <1>6 DEF Client!ResetSession, Client!Busy, ClientInv, ClientTyped
  <2> QED
    BY <2>1, <2>2 DEF ClientInv, RetryInv, Retries, Client!ExpiredSessionHealed
<1>7. ASSUME Client!Restart PROVE ClientInv'
  <2>1. ClientTyped'
    BY <1>7 DEF Client!Restart, Client!Stale, ClientInv, ClientTyped
  <2>2. /\ result' = result
        /\ \A d \in Callers : disturbed[d] => disturbed'[d]
        /\ \A d \in Callers : pc'[d] # "idle" => disturbed'[d]
    BY <1>7 DEF Client!Restart, Client!Busy, ClientInv, ClientTyped
  <2> QED
    BY <2>1, <2>2 DEF ClientInv, RetryInv, Retries, Client!ExpiredSessionHealed
<1> QED
  BY <1>1, <1>2, <1>3, <1>4, <1>5, <1>6, <1>7 DEF Client!Next

\* Every step of the service keeps the client's invariant.
LEMMA ClientKeeps == ClientInv /\ [Next]_vars => ClientInv'
<1> SUFFICES ASSUME ClientInv, [Next]_vars
             PROVE  ClientInv'
  OBVIOUS
<1>1. CASE UNCHANGED clientVars
  BY <1>1 DEF clientVars, ClientInv, ClientTyped, RetryInv, Retries, Client!ExpiredSessionHealed
<1>2. Client!Next \/ UNCHANGED clientVars
  BY DEF Next, Others, vars
<1> QED
  BY <1>1, <1>2, ClientStep

(***************************************************************************)
(* GiteaClient.  A job names issues or branches, and values, that fit its  *)
(* action, and so does what was promised; a file is never written over by  *)
(* somebody who has not read it.                                           *)
(***************************************************************************)
ForgeTyped ==
    /\ labels \in [Issues -> SUBSET Labels] /\ assignees \in [Issues -> SUBSET People]
    /\ content \in [Branches -> Contents \cup {NoFile, NoBranch}]
    /\ content[MainBranch] # NoBranch

Actions == {"none", "close", "label", "assign", "set", "unlabel", "write", "branch"}
Places == Issues \cup Branches
Values == Labels \cup People \cup Contents \cup {"made"}
Reads == (SUBSET People) \cup Contents \cup {NoFile, NoBranch}

Jobs == [action : Actions, value : SUBSET Values, todo : Seq(Places), done : Seq(Places),
         read : Seq(Reads)]

\* What a job names fits its action.
Suits(action, value, todo) ==
    /\ action \in {"close", "label", "assign", "set", "unlabel"} => todo \in Seq(Issues)
    /\ action \in {"write", "branch"} => todo \in Seq(Branches)
    /\ action \in {"label", "set", "unlabel"} => value \subseteq Labels
    /\ action = "assign" => value \subseteq People
    /\ action = "write" => \E c \in Contents : value = {c}
Fits(j) ==
    /\ Suits(j.action, j.value, j.todo)
    /\ j.action = "assign" => j.read \in Seq(SUBSET People)

JobInv == job \in [Requests -> Jobs] /\ \A r \in Requests : Fits(job[r])

PromiseFits(p) ==
    \/ p[2] \in {"label", "set"} /\ p[1] \in Issues /\ p[3] \in Labels
    \/ p[2] = "assign" /\ p[1] \in Issues /\ p[3] \in People
    \/ p[2] = "close" /\ p[1] \in Issues /\ p[3] = "closed"
    \/ p[2] = "write" /\ p[1] \in Branches /\ p[3] \in Contents
    \/ p[2] = "branch" /\ p[1] \in Branches

\* What was promised is so.
IsSo(p) ==
    /\ p[2] \in {"label", "set"} => p[3] \in labels[p[1]]
    /\ p[2] = "assign" => p[3] \in assignees[p[1]]
    /\ p[2] = "close" => p[1] \in closed
    /\ p[2] = "write" => content[p[1]] = p[3]
    /\ p[2] = "branch" => content[p[1]] # NoBranch

PromiseInv == \A p \in promised : PromiseFits(p) /\ IsSo(p)

GiteaInv == ForgeTyped /\ JobInv /\ PromiseInv

\* The promises of the invariant are those of the property.
LEMMA PromisesHold == GiteaInv => Gitea!ReportedHolds
<1> SUFFICES ASSUME GiteaInv, NEW p \in promised
             PROVE  Gitea!Holds(p)
  BY DEF Gitea!ReportedHolds
<1>1. PromiseFits(p) /\ IsSo(p)
  BY DEF GiteaInv, PromiseInv
<1> QED
  BY <1>1 DEF PromiseFits, IsSo, Gitea!Holds

\* At first nothing is promised.
LEMMA GiteaStart == Init => GiteaInv
<1> SUFFICES ASSUME Init
             PROVE  GiteaInv
  OBVIOUS
<1>1. Gitea!Init
  BY DEF Init
<1>2. ForgeTyped
  BY <1>1, ServiceAssumption DEF Gitea!Init, ForgeTyped, ServiceAssumption, Gitea!GiteaAssumption
<1>3. Gitea!Idle \in Jobs /\ Fits(Gitea!Idle)
  BY DEF Gitea!Idle, Jobs, Fits, Suits, Actions
<1>4. JobInv /\ PromiseInv
  BY <1>1, <1>3 DEF Gitea!Init, JobInv, PromiseInv
<1> QED
  BY <1>2, <1>4 DEF GiteaInv

\* One job changes to another that fits.
LEMMA JobMoves ==
    ASSUME JobInv, NEW r \in Requests, NEW j \in Jobs, Fits(j), job' = [job EXCEPT ![r] = j]
    PROVE  JobInv'
  BY DEF JobInv

\* A request begins with an action it fits.
LEMMA BeginFits ==
    ASSUME JobInv, NEW r \in Requests, NEW action \in Actions, NEW value \in SUBSET Values,
           NEW todo \in Seq(Places), Suits(action, value, todo),
           Gitea!Begin(r, action, value, todo)
    PROVE  JobInv'
<1> DEFINE k1 == [Gitea!Idle EXCEPT !.action = action]
           k2 == [k1 EXCEPT !.value = value]
           k3 == [k2 EXCEPT !.todo = todo]
<1>1. Gitea!Idle \in Jobs
  BY DEF Gitea!Idle, Jobs, Actions
<1>2. k1 \in Jobs /\ k1.action = action /\ k1.read = <<>>
  <2>1. Gitea!Idle.read = <<>>
    BY DEF Gitea!Idle
  <2> QED
    BY <1>1, <2>1 DEF Jobs
<1>3. k2 \in Jobs /\ k2.action = action /\ k2.value = value /\ k2.read = <<>>
  <2> HIDE DEF k1
  <2> QED
    BY <1>2 DEF Jobs
<1>4. /\ k3 \in Jobs /\ k3.action = action /\ k3.value = value /\ k3.todo = todo
      /\ k3.read = <<>>
  <2> HIDE DEF k2
  <2> QED
    BY <1>3 DEF Jobs
<1>5. job' = [job EXCEPT ![r] = k3]
  BY DEF Gitea!Begin
<1> HIDE DEF k3
<1>6. Fits(k3)
  BY <1>4 DEF Fits
<1> QED
  BY <1>4, <1>5, <1>6, JobMoves

\* The loop goes on: one place less is to be done.
LEMMA NextFits ==
    ASSUME JobInv, NEW r \in Requests, NEW ok, Gitea!NextIssue(r, ok), job[r].todo # <<>>
    PROVE  JobInv'
<1> DEFINE k1 == [job[r] EXCEPT !.todo = Tail(@)]
           k2 == [k1 EXCEPT !.done = IF ok THEN Append(@, Gitea!Issue(r)) ELSE @]
           k3 == [k2 EXCEPT !.read = <<>>]
<1>1. job[r] \in Jobs /\ Fits(job[r])
  BY DEF JobInv
<1>2. job[r].todo \in Seq(Places) /\ job[r].done \in Seq(Places)
  BY <1>1 DEF Jobs
<1>3. Gitea!Issue(r) \in Places /\ Tail(job[r].todo) \in Seq(Places)
  BY <1>2 DEF Gitea!Issue
<1>4. \A S : job[r].todo \in Seq(S) => Tail(job[r].todo) \in Seq(S)
  OBVIOUS
<1>5. /\ k1 \in Jobs /\ k1.action = job[r].action /\ k1.value = job[r].value
      /\ k1.todo = Tail(job[r].todo)
  BY <1>1, <1>3 DEF Jobs
<1>6. /\ k2 \in Jobs /\ k2.action = job[r].action /\ k2.value = job[r].value
      /\ k2.todo = Tail(job[r].todo)
  <2> HIDE DEF k1
  <2>1. k1.done \in Seq(Places)
    BY <1>5 DEF Jobs
  <2>2. (IF ok THEN Append(k1.done, Gitea!Issue(r)) ELSE k1.done) \in Seq(Places)
    BY <2>1, <1>3
  <2> QED
    BY <2>2, <1>5 DEF Jobs
<1>7. /\ k3 \in Jobs /\ k3.action = job[r].action /\ k3.value = job[r].value
      /\ k3.todo = Tail(job[r].todo) /\ k3.read = <<>>
  <2> HIDE DEF k2
  <2>1. <<>> \in Seq(Reads)
    OBVIOUS
  <2> QED
    BY <1>6, <2>1 DEF Jobs
<1>8. job' = [job EXCEPT ![r] = k3]
  BY DEF Gitea!NextIssue
<1> HIDE DEF k3
<1>9. Fits(k3)
  BY <1>1, <1>4, <1>7 DEF Fits, Suits
<1> QED
  BY <1>7, <1>8, <1>9, JobMoves

\* The place a job is at.
LEMMA AtPlace ==
    ASSUME JobInv, NEW r \in Requests, NEW action, Gitea!Working(r, action)
    PROVE  /\ job[r].todo # <<>>
           /\ action \in {"close", "label", "assign", "set", "unlabel"} => Gitea!Issue(r) \in Issues
           /\ action \in {"write", "branch"} => Gitea!Issue(r) \in Branches
           /\ action \in {"label", "set", "unlabel"} => job[r].value \subseteq Labels
           /\ action = "assign" => job[r].value \subseteq People
           /\ action = "write" => \E c \in Contents : job[r].value = {c}
<1>1. Fits(job[r]) /\ job[r].action = action /\ job[r].todo # <<>>
  BY DEF JobInv, Gitea!Working
<1>2. \A S : job[r].todo \in Seq(S) => Head(job[r].todo) \in S
  BY <1>1
<1> QED
  BY <1>1, <1>2 DEF Fits, Suits, Gitea!Issue

\* A request begins.
LEMMA BeginKeeps ==
    ASSUME GiteaInv, NEW r \in Requests,
           \/ Gitea!HandleBulkIssues(r) \/ Gitea!HandleSetLabels(r) \/ Gitea!HandleRemoveLabel(r)
           \/ Gitea!HandleWriteFile(r) \/ Gitea!HandleCreateBranch(r)
    PROVE  GiteaInv'
<1>1. ASSUME NEW action \in Actions, NEW value \in SUBSET Values, NEW todo \in Seq(Places),
             Suits(action, value, todo), Gitea!Begin(r, action, value, todo)
      PROVE  GiteaInv'
  <2>1. JobInv'
    BY <1>1, BeginFits DEF GiteaInv
  <2>2. UNCHANGED <<labels, assignees, closed, content, promised>>
    BY <1>1 DEF Gitea!Begin, Gitea!forge
  <2> QED
    BY <2>1, <2>2 DEF GiteaInv, ForgeTyped, PromiseInv, IsSo
<1>2. CASE Gitea!HandleBulkIssues(r)
  <2>1. PICK n \in 1..Gitea!Cardinality(Issues) : \E todo \in [1..n -> Issues] :
          \/ Gitea!Begin(r, "close", {}, todo)
          \/ \E l \in Labels : Gitea!Begin(r, "label", {l}, todo)
          \/ \E p \in People : Gitea!Begin(r, "assign", {p}, todo)
    BY <1>2 DEF Gitea!HandleBulkIssues
  <2>2. PICK todo \in [1..n -> Issues] :
          \/ Gitea!Begin(r, "close", {}, todo)
          \/ \E l \in Labels : Gitea!Begin(r, "label", {l}, todo)
          \/ \E p \in People : Gitea!Begin(r, "assign", {p}, todo)
    BY <2>1
  <2>3. Gitea!Cardinality(Issues) \in Nat
    <3>1. IsFiniteSet(Issues)
      BY ServiceAssumption
      DEF ServiceAssumption, Gitea!GiteaAssumption, Gitea!IsFiniteSet, IsFiniteSet
    <3>2. Gitea!Cardinality(Issues) = Cardinality(Issues)
      BY DEF Gitea!Cardinality, Cardinality
    <3> QED
      BY <3>1, <3>2, FS_CardinalityType
  <2>4. todo \in Seq(Issues) /\ todo \in Seq(Places)
    BY <2>3 DEF Places
  <2>5. ASSUME NEW action \in {"close", "label", "assign"}, NEW value \in SUBSET (Labels \cup People),
               action = "label" => value \subseteq Labels,
               action = "assign" => value \subseteq People, Gitea!Begin(r, action, value, todo)
        PROVE  GiteaInv'
    <3>1. Suits(action, value, todo) /\ action \in Actions /\ value \in SUBSET Values
      BY <2>4, <2>5 DEF Suits, Actions, Values
    <3> QED
      BY <1>1, <2>4, <2>5, <3>1
  <2>6. ASSUME Gitea!Begin(r, "close", {}, todo) PROVE GiteaInv'
    BY <2>5, <2>6
  <2>7. ASSUME NEW l \in Labels, Gitea!Begin(r, "label", {l}, todo) PROVE GiteaInv'
    BY <2>5, <2>7
  <2>8. ASSUME NEW p \in People, Gitea!Begin(r, "assign", {p}, todo) PROVE GiteaInv'
    BY <2>5, <2>8
  <2> QED
    BY <2>2, <2>6, <2>7, <2>8
<1>3. CASE Gitea!HandleSetLabels(r) \/ Gitea!HandleRemoveLabel(r)
  <2>1. PICK i \in Issues, value \in SUBSET Labels, action \in {"set", "unlabel"} :
           Gitea!Begin(r, action, value, <<i>>)
    BY <1>3 DEF Gitea!HandleSetLabels, Gitea!HandleRemoveLabel
  <2>2. <<i>> \in Seq(Issues) /\ <<i>> \in Seq(Places)
    BY DEF Places
  <2>3. Suits(action, value, <<i>>) /\ action \in Actions /\ value \in SUBSET Values
    BY <2>1, <2>2 DEF Suits, Actions, Values
  <2> QED
    BY <1>1, <2>1, <2>2, <2>3
<1>4. CASE Gitea!HandleWriteFile(r)
  <2>1. PICK b \in Branches, c \in Contents : Gitea!Begin(r, "write", {c}, <<b>>)
    BY <1>4 DEF Gitea!HandleWriteFile
  <2>2. <<b>> \in Seq(Branches) /\ <<b>> \in Seq(Places)
    BY DEF Places
  <2>3. Suits("write", {c}, <<b>>) /\ "write" \in Actions /\ {c} \in SUBSET Values
    BY <2>2 DEF Suits, Actions, Values
  <2> QED
    BY <1>1, <2>1, <2>2, <2>3
<1>5. CASE Gitea!HandleCreateBranch(r)
  <2>1. PICK b \in Branches : Gitea!Begin(r, "branch", {"made"}, <<b>>)
    BY <1>5 DEF Gitea!HandleCreateBranch
  <2>2. <<b>> \in Seq(Branches) /\ <<b>> \in Seq(Places)
    BY DEF Places
  <2>3. Suits("branch", {"made"}, <<b>>) /\ "branch" \in Actions /\ {"made"} \in SUBSET Values
    BY <2>2 DEF Suits, Actions, Values
  <2> QED
    BY <1>1, <2>1, <2>2, <2>3
<1> QED
  BY <1>2, <1>3, <1>4, <1>5

\* A job that has looked goes on with what it has read.
LEMMA ReadFits ==
    ASSUME JobInv, NEW r \in Requests, NEW x \in Reads, job' = [job EXCEPT ![r].read = <<x>>],
           job[r].action = "assign" => x \in SUBSET People
    PROVE  JobInv'
<1> DEFINE k1 == [job[r] EXCEPT !.read = <<x>>]
<1>1. job[r] \in Jobs /\ Fits(job[r])
  BY DEF JobInv
<1>2. <<x>> \in Seq(Reads) /\ (job[r].action = "assign" => <<x>> \in Seq(SUBSET People))
  OBVIOUS
<1>3. /\ k1 \in Jobs /\ k1.action = job[r].action /\ k1.value = job[r].value
      /\ k1.todo = job[r].todo /\ k1.read = <<x>>
  BY <1>1, <1>2 DEF Jobs
<1>4. job' = [job EXCEPT ![r] = k1]
  OBVIOUS
<1> HIDE DEF k1
<1>5. Fits(k1)
  BY <1>1, <1>2, <1>3 DEF Fits, Suits
<1> QED
  BY <1>3, <1>4, <1>5, JobMoves

\* A change of the labels of one issue keeps the promises that go with it.
LEMMA LabelsKeep ==
    ASSUME GiteaInv, JobInv', NEW i \in Issues, NEW ls \in SUBSET Labels, NEW vows, NEW gone,
           labels' = [labels EXCEPT ![i] = ls], UNCHANGED <<assignees, closed, content>>,
           promised' \subseteq (promised \ gone) \cup vows,
           \A p \in vows : p[1] = i /\ p[2] \in {"label", "set"} /\ p[3] \in ls,
           \A p \in promised \ gone : p[1] = i /\ p[2] \in {"label", "set"} => p[3] \in ls
    PROVE  GiteaInv'
<1>1. ForgeTyped'
  BY DEF GiteaInv, ForgeTyped
<1>2. ASSUME NEW p \in promised'
      PROVE  (PromiseFits(p) /\ IsSo(p)')
  <2>1. CASE p \in vows
    BY <2>1 DEF GiteaInv, ForgeTyped, PromiseFits, IsSo
  <2>2. CASE p \in promised \ gone
    <3>1. PromiseFits(p) /\ IsSo(p)
      BY <2>2 DEF GiteaInv, PromiseInv
    <3> QED
      BY <2>2, <3>1 DEF GiteaInv, ForgeTyped, PromiseFits, IsSo
  <2> QED
    BY <2>1, <2>2
<1> QED
  BY <1>1, <1>2 DEF GiteaInv, PromiseInv

\* The same for the assignees of one issue.
LEMMA AssigneesKeep ==
    ASSUME GiteaInv, JobInv', NEW i \in Issues, NEW ps \in SUBSET People, NEW vows, NEW gone,
           assignees' = [assignees EXCEPT ![i] = ps], UNCHANGED <<labels, closed, content>>,
           promised' \subseteq (promised \ gone) \cup vows,
           \A p \in vows : p[1] = i /\ p[2] = "assign" /\ p[3] \in ps,
           \A p \in promised \ gone : p[1] = i /\ p[2] = "assign" => p[3] \in ps
    PROVE  GiteaInv'
<1>1. ForgeTyped'
  BY DEF GiteaInv, ForgeTyped
<1>2. ASSUME NEW p \in promised'
      PROVE  (PromiseFits(p) /\ IsSo(p)')
  <2>1. CASE p \in vows
    BY <2>1 DEF GiteaInv, ForgeTyped, PromiseFits, IsSo
  <2>2. CASE p \in promised \ gone
    <3>1. PromiseFits(p) /\ IsSo(p)
      BY <2>2 DEF GiteaInv, PromiseInv
    <3> QED
      BY <2>2, <3>1 DEF GiteaInv, ForgeTyped, PromiseFits, IsSo
  <2> QED
    BY <2>1, <2>2
<1> QED
  BY <1>1, <1>2 DEF GiteaInv, PromiseInv

\* The same for what a branch holds: it stays a branch.
LEMMA ContentKeeps ==
    ASSUME GiteaInv, JobInv', NEW b \in Branches, NEW c \in Contents \cup {NoFile, NoBranch},
           content' = [content EXCEPT ![b] = c], UNCHANGED <<labels, assignees, closed>>,
           content[b] # NoBranch => c # NoBranch, NEW vows, NEW gone,
           promised' \subseteq (promised \ gone) \cup vows,
           \A p \in vows : \/ p[1] = b /\ p[2] = "write" /\ p[3] \in Contents /\ p[3] = c
                           \/ p[1] = b /\ p[2] = "branch" /\ c # NoBranch,
           \A p \in promised \ gone : p[1] = b /\ p[2] = "write" => p[3] = c
    PROVE  GiteaInv'
<1>1. ForgeTyped'
  BY DEF GiteaInv, ForgeTyped
<1>2. ASSUME NEW p \in promised'
      PROVE  (PromiseFits(p) /\ IsSo(p)')
  <2>1. CASE p \in vows
    BY <2>1 DEF GiteaInv, ForgeTyped, PromiseFits, IsSo
  <2>2. CASE p \in promised \ gone
    <3>1. PromiseFits(p) /\ IsSo(p)
      BY <2>2 DEF GiteaInv, PromiseInv
    <3> QED
      BY <2>2, <3>1 DEF GiteaInv, ForgeTyped, PromiseFits, IsSo
  <2> QED
    BY <2>1, <2>2
<1> QED
  BY <1>1, <1>2 DEF GiteaInv, PromiseInv

\* The same for which issues are closed.
LEMMA ClosedKeeps ==
    ASSUME GiteaInv, JobInv', NEW vows, NEW gone, UNCHANGED <<labels, assignees, content>>,
           promised' \subseteq (promised \ gone) \cup vows,
           \A p \in vows : p[1] \in Issues /\ p[2] = "close" /\ p[3] = "closed" /\ p[1] \in closed',
           \A p \in promised \ gone : p[2] = "close" /\ p[1] \in closed => p[1] \in closed'
    PROVE  GiteaInv'
<1>1. ForgeTyped'
  BY DEF GiteaInv, ForgeTyped
<1>2. ASSUME NEW p \in promised'
      PROVE  (PromiseFits(p) /\ IsSo(p)')
  <2>1. CASE p \in vows
    BY <2>1 DEF PromiseFits, IsSo
  <2>2. CASE p \in promised \ gone
    <3>1. PromiseFits(p) /\ IsSo(p)
      BY <2>2 DEF GiteaInv, PromiseInv
    <3> QED
      BY <2>2, <3>1 DEF PromiseFits, IsSo
  <2> QED
    BY <2>1, <2>2
<1> QED
  BY <1>1, <1>2 DEF GiteaInv, PromiseInv

\* Nothing changes on the forge, nor in what was promised.
LEMMA ForgeStays ==
    ASSUME GiteaInv, JobInv', UNCHANGED <<labels, assignees, closed, content, promised>>
    PROVE  GiteaInv'
  BY DEF GiteaInv, ForgeTyped, PromiseInv, IsSo

\* What a label call does, whichever it is: nothing, or its change of the labels.
LEMMA LabelCallKeeps ==
    ASSUME GiteaInv, NEW r \in Requests, NEW action \in {"label", "set", "unlabel"},
           NEW ls \in SUBSET Labels, NEW vows, NEW gone,
           Gitea!LabelCall(r, action, ls, vows, gone),
           \A p \in vows : p[1] = Gitea!Issue(r) /\ p[2] \in {"label", "set"} /\ p[3] \in ls,
           \A p \in promised \ gone :
              p[1] = Gitea!Issue(r) /\ p[2] \in {"label", "set"} => p[3] \in ls
    PROVE  GiteaInv'
<1> DEFINE i == Gitea!Issue(r)
<1>1. /\ Gitea!Working(r, action) /\ \E ok \in BOOLEAN : Gitea!NextIssue(r, ok)
      /\ UNCHANGED <<assignees, closed, content>>
      /\ \/ UNCHANGED <<labels, promised>>
         \/ /\ labels' = [labels EXCEPT ![i] = ls]
            /\ promised' \subseteq (promised \ gone) \cup vows
  BY DEF Gitea!LabelCall
<1>2. job[r].todo # <<>> /\ i \in Issues
  BY <1>1, AtPlace DEF GiteaInv
<1>3. JobInv'
  BY <1>1, <1>2, NextFits DEF GiteaInv
<1>4. CASE UNCHANGED <<labels, promised>>
  BY <1>1, <1>3, <1>4, ForgeStays
<1>5. CASE /\ labels' = [labels EXCEPT ![i] = ls]
           /\ promised' \subseteq (promised \ gone) \cup vows
  <2>1. /\ \A p \in vows : p[1] = i /\ p[2] \in {"label", "set"} /\ p[3] \in ls
        /\ \A p \in promised \ gone : p[1] = i /\ p[2] \in {"label", "set"} => p[3] \in ls
    OBVIOUS
  <2> HIDE DEF i
  <2> QED
    BY <1>1, <1>2, <1>3, <1>5, <2>1, LabelsKeep
<1> QED
  BY <1>1, <1>4, <1>5

\* The three label calls.
LEMMA LabelsMove ==
    ASSUME GiteaInv, NEW r \in Requests,
           Gitea!AddLabel(r) \/ Gitea!RemoveLabel(r) \/ Gitea!SetLabels(r)
    PROVE  GiteaInv'
<1> DEFINE i == Gitea!Issue(r)
           value == job[r].value
<1>1. ASSUME NEW action \in {"label", "set", "unlabel"}, Gitea!Working(r, action)
      PROVE  i \in Issues /\ value \subseteq Labels /\ labels[i] \subseteq Labels
  BY <1>1, AtPlace DEF GiteaInv, ForgeTyped
<1>2. ASSUME NEW p \in promised, p[1] = i, p[2] \in {"label", "set"}
      PROVE  p[3] \in labels[i] /\ p[3] \in Labels
  BY <1>2 DEF GiteaInv, PromiseInv, IsSo, PromiseFits
<1>3. CASE Gitea!AddLabel(r)
  <2> DEFINE ls == labels[i] \cup value
  <2>1. Gitea!LabelCall(r, "label", ls, Gitea!Says(i, "label", value), {})
    BY <1>3 DEF Gitea!AddLabel
  <2>2. ls \in SUBSET Labels
    BY <1>1, <2>1 DEF Gitea!LabelCall
  <2>3. \A p \in Gitea!Says(i, "label", value) : p[1] = i /\ p[2] \in {"label", "set"} /\ p[3] \in ls
    BY DEF Gitea!Says
  <2> QED
    BY <1>2, <2>1, <2>2, <2>3, LabelCallKeeps
<1>4. CASE Gitea!RemoveLabel(r)
  <2> DEFINE ls == labels[i] \ value
             gone == Gitea!Undone(i, {"label", "set"}, value)
  <2>1. Gitea!LabelCall(r, "unlabel", ls, {}, gone)
    BY <1>4 DEF Gitea!RemoveLabel
  <2>2. ls \in SUBSET Labels
    BY <1>1, <2>1 DEF Gitea!LabelCall
  <2>3. \A p \in promised \ gone : p[1] = i /\ p[2] \in {"label", "set"} => p[3] \in ls
    BY <1>2 DEF Gitea!Undone
  <2> HIDE DEF gone, ls
  <2> QED
    BY <2>1, <2>2, <2>3, LabelCallKeeps
<1>5. CASE Gitea!SetLabels(r)
  <2> DEFINE gone == Gitea!Undone(i, {"label", "set"}, Labels \ value)
  <2>1. Gitea!LabelCall(r, "set", value, Gitea!Says(i, "set", value), gone)
    BY <1>5 DEF Gitea!SetLabels
  <2>2. value \in SUBSET Labels
    BY <1>1, <2>1 DEF Gitea!LabelCall
  <2>3. \A p \in promised \ gone : p[1] = i /\ p[2] \in {"label", "set"} => p[3] \in value
    BY <1>2 DEF Gitea!Undone
  <2>4. \A p \in Gitea!Says(i, "set", value) :
           p[1] = i /\ p[2] \in {"label", "set"} /\ p[3] \in value
    BY DEF Gitea!Says
  <2> HIDE DEF gone
  <2> QED
    BY <2>1, <2>2, <2>3, <2>4, LabelCallKeeps
<1> QED
  BY <1>3, <1>4, <1>5

\* An issue is closed.
LEMMA CloseIssueKeeps ==
    ASSUME GiteaInv, NEW r \in Requests, Gitea!CloseIssue(r)
    PROVE  GiteaInv'
<1> DEFINE i == Gitea!Issue(r)
<1>1. /\ Gitea!Working(r, "close") /\ \E ok \in BOOLEAN : Gitea!NextIssue(r, ok)
      /\ UNCHANGED <<labels, assignees, content>>
      /\ \/ closed' = closed \cup {i} /\ promised' = promised \cup {<<i, "close", "closed">>}
         \/ closed' = closed \cup {i} /\ promised' = promised
         \/ UNCHANGED <<closed, promised>>
  BY DEF Gitea!CloseIssue
<1>2. job[r].todo # <<>> /\ i \in Issues
  BY <1>1, AtPlace DEF GiteaInv
<1>3. JobInv'
  BY <1>1, <1>2, NextFits DEF GiteaInv
<1>4. ASSUME closed' = closed \cup {i}, promised' \subseteq promised \cup {<<i, "close", "closed">>}
      PROVE  GiteaInv'
  <2> DEFINE vows == {<<i, "close", "closed">>}
             gone == {}
  <2>1. promised' \subseteq (promised \ gone) \cup vows
    BY <1>4
  <2>2. \A p \in vows : p[1] \in Issues /\ p[2] = "close" /\ p[3] = "closed" /\ p[1] \in closed'
    BY <1>2, <1>4
  <2>3. \A p \in promised \ gone : p[2] = "close" /\ p[1] \in closed => p[1] \in closed'
    BY <1>4
  <2> HIDE DEF vows, gone
  <2> QED
    BY <1>1, <1>3, <2>1, <2>2, <2>3, ClosedKeeps
<1>5. CASE UNCHANGED <<closed, promised>>
  BY <1>1, <1>3, <1>5, ForgeStays
<1> QED
  BY <1>1, <1>4, <1>5

\* The assignees are read.
LEMMA ReadAssigneesKeeps ==
    ASSUME GiteaInv, NEW r \in Requests, Gitea!ReadAssignees(r)
    PROVE  GiteaInv'
<1> DEFINE i == Gitea!Issue(r)
           vows == Gitea!Says(i, "assign", job[r].value)
<1>1. /\ Gitea!Working(r, "assign") /\ UNCHANGED <<labels, assignees, closed, content>>
      /\ \/ /\ job[r].value \subseteq assignees[i] /\ Gitea!NextIssue(r, TRUE)
            /\ promised' = promised \cup vows
         \/ job' = [job EXCEPT ![r].read = <<assignees[i]>>] /\ UNCHANGED promised
         \/ Gitea!NextIssue(r, FALSE) /\ UNCHANGED promised
  BY DEF Gitea!ReadAssignees, Gitea!forge
<1>2. job[r].todo # <<>> /\ i \in Issues
  BY <1>1, AtPlace DEF GiteaInv
<1>3. assignees[i] \in SUBSET People /\ assignees = [assignees EXCEPT ![i] = assignees[i]]
  BY <1>2 DEF GiteaInv, ForgeTyped
<1>4. CASE job[r].value \subseteq assignees[i] /\ Gitea!NextIssue(r, TRUE)
           /\ promised' = promised \cup vows
  <2>1. JobInv'
    BY <1>2, <1>4, NextFits DEF GiteaInv
  <2>2. \A p \in vows : p[1] = i /\ p[2] = "assign" /\ p[3] \in assignees[i]
    BY <1>4 DEF Gitea!Says
  <2>3. \A p \in promised : p[1] = i /\ p[2] = "assign" => p[3] \in assignees[i]
    BY DEF GiteaInv, PromiseInv, IsSo
  <2> DEFINE gone == {}
  <2>4. promised' \subseteq (promised \ gone) \cup vows
    BY <1>4
  <2>5. \A p \in promised \ gone : p[1] = i /\ p[2] = "assign" => p[3] \in assignees[i]
    BY <2>3
  <2>6. /\ assignees' = [assignees EXCEPT ![i] = assignees[i]]
        /\ UNCHANGED <<labels, closed, content>>
    BY <1>1, <1>3
  <2> HIDE DEF vows, gone, i
  <2> QED
    BY <1>2, <1>3, <2>1, <2>2, <2>4, <2>5, <2>6, AssigneesKeep
<1>5. CASE job' = [job EXCEPT ![r].read = <<assignees[i]>>] /\ UNCHANGED promised
  <2>1. JobInv'
    BY <1>3, <1>5, ReadFits DEF GiteaInv, Reads
  <2> QED
    BY <1>1, <1>5, <2>1, ForgeStays
<1>6. CASE Gitea!NextIssue(r, FALSE) /\ UNCHANGED promised
  <2>1. JobInv'
    BY <1>2, <1>6, NextFits DEF GiteaInv
  <2> QED
    BY <1>1, <1>6, <2>1, ForgeStays
<1> QED
  BY <1>1, <1>4, <1>5, <1>6

\* The assignees are written back: who was assigned meanwhile is lost, and with
\* them what was promised about them.
LEMMA WriteAssigneesKeeps ==
    ASSUME GiteaInv, NEW r \in Requests, Gitea!WriteAssignees(r)
    PROVE  GiteaInv'
<1> DEFINE i == Gitea!Issue(r)
           ps == job[r].read[1] \cup job[r].value
           vows == Gitea!Says(i, "assign", job[r].value)
           gone == Gitea!Undone(i, {"assign"}, People \ job[r].read[1])
<1>1. /\ Gitea!Working(r, "assign") /\ job[r].read # <<>>
      /\ UNCHANGED <<labels, closed, content>> /\ \E ok \in BOOLEAN : Gitea!NextIssue(r, ok)
      /\ \/ UNCHANGED <<assignees, promised>>
         \/ /\ assignees' = [assignees EXCEPT ![i] = ps]
            /\ promised' \subseteq (promised \ gone) \cup vows
  BY DEF Gitea!WriteAssignees, Gitea!Assigned
<1>2. job[r].todo # <<>> /\ i \in Issues /\ job[r].value \subseteq People
  BY <1>1, AtPlace DEF GiteaInv
<1>3. job[r].read \in Seq(SUBSET People)
  BY <1>1 DEF GiteaInv, JobInv, Fits, Gitea!Working
<1>4. ps \in SUBSET People
  <2>1. job[r].read[1] \in SUBSET People
    BY <1>1, <1>3
  <2> QED
    BY <1>2, <2>1
<1>5. JobInv'
  BY <1>1, <1>2, NextFits DEF GiteaInv
<1>6. \A p \in vows : p[1] = i /\ p[2] = "assign" /\ p[3] \in ps
  BY DEF Gitea!Says
<1>7. \A p \in promised \ gone : p[1] = i /\ p[2] = "assign" => p[3] \in ps
  <2>1. \A p \in promised : p[2] = "assign" => p[3] \in People
    BY DEF GiteaInv, PromiseInv, PromiseFits
  <2> QED
    BY <2>1 DEF Gitea!Undone
<1> HIDE DEF ps, vows, gone, i
<1> QED
  BY <1>1, <1>2, <1>4, <1>5, <1>6, <1>7, AssigneesKeep, ForgeStays

\* A file is looked for.
LEMMA ReadFileKeeps ==
    ASSUME GiteaInv, NEW r \in Requests, Gitea!ReadFile(r)
    PROVE  GiteaInv'
<1> DEFINE b == Gitea!Issue(r)
<1>1. /\ Gitea!Working(r, "write") /\ UNCHANGED <<labels, assignees, closed, content, promised>>
      /\ \/ job' = [job EXCEPT ![r].read = <<IF content[b] = NoBranch THEN NoFile ELSE content[b]>>]
         \/ job' = [job EXCEPT ![r].read = <<NoFile>>]
  BY DEF Gitea!ReadFile, Gitea!forge
<1>2. job[r].action = "write" /\ b \in Branches
  BY <1>1, AtPlace DEF GiteaInv, Gitea!Working
<1>3. content[b] \in Reads /\ NoFile \in Reads
  BY <1>2 DEF GiteaInv, ForgeTyped, Reads
<1>4. PICK x \in Reads : job' = [job EXCEPT ![r].read = <<x>>]
  BY <1>1, <1>3
<1>5. JobInv'
  BY <1>2, <1>4, ReadFits DEF GiteaInv
<1> QED
  BY <1>1, <1>5, ForgeStays

\* A file is written over by somebody who has read what it holds, and what was
\* promised about that is undone with it.
LEMMA WriteFileKeeps ==
    ASSUME GiteaInv, NEW r \in Requests, Gitea!WriteFile(r)
    PROVE  GiteaInv'
<1> DEFINE b == Gitea!Issue(r)
           vows == Gitea!Says(b, "write", job[r].value)
           gone == Gitea!Undone(b, {"write"}, {job[r].read[1]})
<1>1. /\ Gitea!Working(r, "write") /\ UNCHANGED <<labels, assignees, closed>>
      /\ \E ok \in BOOLEAN : Gitea!NextIssue(r, ok)
      /\ \/ UNCHANGED <<content, promised>>
         \/ /\ content[b] = job[r].read[1]
            /\ \E c \in job[r].value : content' = [content EXCEPT ![b] = c]
            /\ promised' \subseteq (promised \ gone) \cup vows
  BY DEF Gitea!WriteFile, Gitea!Accepted
<1>2. job[r].todo # <<>> /\ b \in Branches /\ \E c \in Contents : job[r].value = {c}
  BY <1>1, AtPlace DEF GiteaInv
<1>3. JobInv'
  BY <1>1, <1>2, NextFits DEF GiteaInv
<1>4. CASE UNCHANGED <<content, promised>>
  BY <1>1, <1>3, <1>4, ForgeStays
<1>5. CASE /\ content[b] = job[r].read[1]
           /\ \E c \in job[r].value : content' = [content EXCEPT ![b] = c]
           /\ promised' \subseteq (promised \ gone) \cup vows
  <2>1. PICK c \in Contents : job[r].value = {c} /\ content' = [content EXCEPT ![b] = c]
    BY <1>2, <1>5
  <2>2. c # NoBranch
    BY ServiceAssumption DEF ServiceAssumption, Gitea!GiteaAssumption
  <2>3. \A p \in vows : \/ p[1] = b /\ p[2] = "write" /\ p[3] \in Contents /\ p[3] = c
                        \/ p[1] = b /\ p[2] = "branch" /\ c # NoBranch
    BY <2>1 DEF Gitea!Says
  <2>4. \A p \in promised \ gone : p[1] = b /\ p[2] = "write" => p[3] = c
    <3>1. \A p \in promised : p[1] = b /\ p[2] = "write" => p[3] = content[b]
      BY DEF GiteaInv, PromiseInv, IsSo
    <3> QED
      BY <1>5, <3>1 DEF Gitea!Undone
  <2>5. /\ UNCHANGED <<labels, assignees, closed>>
        /\ content' = [content EXCEPT ![b] = c]
        /\ promised' \subseteq (promised \ gone) \cup vows
    BY <1>1, <1>5, <2>1
  <2>6. c \in Contents \cup {NoFile, NoBranch} /\ (content[b] # NoBranch => c # NoBranch)
    BY <2>2
  <2>7. b \in Branches
    BY <1>2
  <2> HIDE DEF vows, gone, b
  <2> QED
    BY <2>7, <1>3, <2>3, <2>4, <2>5, <2>6, ContentKeeps
<1> QED
  BY <1>1, <1>4, <1>5

\* A branch is made of the default branch, or was there.
LEMMA CreateBranchKeeps ==
    ASSUME GiteaInv, NEW r \in Requests, Gitea!CreateBranch(r)
    PROVE  GiteaInv'
<1> DEFINE b == Gitea!Issue(r)
           new == content[b] = NoBranch
           c == IF new THEN content[MainBranch] ELSE content[b]
           vows == Gitea!Says(b, "branch", {"made"})
           gone == {}
<1>1. /\ Gitea!Working(r, "branch") /\ UNCHANGED <<labels, assignees, closed>>
      /\ Gitea!NextIssue(r, new) \/ Gitea!NextIssue(r, FALSE)
      /\ \/ UNCHANGED <<content, promised>>
         \/ /\ content' = [content EXCEPT ![b] = c]
            /\ promised' \subseteq (promised \ gone) \cup vows
  BY DEF Gitea!CreateBranch
<1>2. job[r].todo # <<>> /\ b \in Branches
  BY <1>1, AtPlace DEF GiteaInv
<1>3. JobInv'
  BY <1>1, <1>2, NextFits DEF GiteaInv
<1>4. CASE UNCHANGED <<content, promised>>
  BY <1>1, <1>3, <1>4, ForgeStays
<1>5. CASE /\ content' = [content EXCEPT ![b] = c]
           /\ promised' \subseteq (promised \ gone) \cup vows
  <2>1. c \in Contents \cup {NoFile, NoBranch} /\ c # NoBranch /\ (content[b] # NoBranch => c # NoBranch)
    BY <1>2, ServiceAssumption DEF GiteaInv, ForgeTyped, ServiceAssumption, Gitea!GiteaAssumption
  <2>2. \A p \in vows : \/ p[1] = b /\ p[2] = "write" /\ p[3] \in Contents /\ p[3] = c
                        \/ p[1] = b /\ p[2] = "branch" /\ c # NoBranch
    BY <2>1 DEF Gitea!Says
  <2>3. \A p \in promised \ gone : p[1] = b /\ p[2] = "write" => p[3] = c
    <3>1. \A p \in promised : p[1] = b /\ p[2] = "write" => p[3] = content[b] /\ p[3] \in Contents
      BY DEF GiteaInv, PromiseInv, IsSo, PromiseFits
    <3>2. NoBranch \notin Contents
      BY ServiceAssumption DEF ServiceAssumption, Gitea!GiteaAssumption
    <3> QED
      BY <3>1, <3>2
  <2>4. /\ UNCHANGED <<labels, assignees, closed>>
        /\ content' = [content EXCEPT ![b] = c]
        /\ promised' \subseteq (promised \ gone) \cup vows
    BY <1>1, <1>5
  <2> HIDE DEF vows, gone, b, c, new
  <2> QED
    BY <1>2, <1>3, <2>1, <2>2, <2>3, <2>4, ContentKeeps
<1> QED
  BY <1>1, <1>4, <1>5

\* A person undoes what was done.
LEMMA PersonKeeps == GiteaInv /\ Gitea!Person => GiteaInv'
<1> SUFFICES ASSUME GiteaInv, Gitea!Person
             PROVE  GiteaInv'
  OBVIOUS
<1>1. JobInv'
  BY DEF Gitea!Person, GiteaInv, JobInv
<1>2. CASE UNCHANGED <<labels, assignees, closed, content, promised>>
  BY <1>1, <1>2, ForgeStays
<1>3. ASSUME NEW i \in closed, closed' = closed \ {i}, UNCHANGED <<labels, assignees, content>>,
             promised' = promised \ Gitea!Undone(i, {"close"}, {"closed"})
      PROVE  GiteaInv'
  <2> DEFINE gone == Gitea!Undone(i, {"close"}, {"closed"})
             vows == {}
  <2>1. \A p \in promised \ gone : p[2] = "close" /\ p[1] \in closed => p[1] \in closed'
    <3>1. \A p \in promised : p[2] = "close" => p[3] = "closed"
      BY DEF GiteaInv, PromiseInv, PromiseFits
    <3> QED
      BY <1>3, <3>1 DEF Gitea!Undone
  <2>2. \A p \in vows : p[1] \in Issues /\ p[2] = "close" /\ p[3] = "closed" /\ p[1] \in closed'
    OBVIOUS
  <2>3. promised' \subseteq (promised \ gone) \cup vows
    BY <1>3
  <2> HIDE DEF gone, vows
  <2> QED
    BY <1>1, <1>3, <2>1, <2>2, <2>3, ClosedKeeps
<1>4. ASSUME NEW i \in Issues, NEW q \in assignees[i], assignees' = [assignees EXCEPT ![i] = @ \ {q}],
             UNCHANGED <<labels, closed, content>>,
             promised' = promised \ Gitea!Undone(i, {"assign"}, {q})
      PROVE  GiteaInv'
  <2> DEFINE gone == Gitea!Undone(i, {"assign"}, {q})
             vows == {}
             ps == assignees[i] \ {q}
  <2>1. ps \in SUBSET People /\ assignees' = [assignees EXCEPT ![i] = ps]
    BY <1>4 DEF GiteaInv, ForgeTyped
  <2>2. \A p \in promised \ gone : p[1] = i /\ p[2] = "assign" => p[3] \in ps
    BY DEF GiteaInv, PromiseInv, IsSo, Gitea!Undone
  <2>3. \A p \in vows : p[1] = i /\ p[2] = "assign" /\ p[3] \in ps
    OBVIOUS
  <2>4. promised' \subseteq (promised \ gone) \cup vows
    BY <1>4
  <2> HIDE DEF gone, vows, ps
  <2> QED
    BY <1>1, <1>4, <2>1, <2>2, <2>3, <2>4, AssigneesKeep, ZenonT(30)
<1>5. ASSUME NEW b \in Branches, NEW c \in Contents, content' = [content EXCEPT ![b] = c],
             UNCHANGED <<labels, assignees, closed>>,
             promised' = promised \ Gitea!Undone(b, {"write"}, Contents)
      PROVE  GiteaInv'
  <2> DEFINE gone == Gitea!Undone(b, {"write"}, Contents)
             vows == {}
  <2>1. c # NoBranch
    BY ServiceAssumption DEF ServiceAssumption, Gitea!GiteaAssumption
  <2>2. \A p \in promised \ gone : p[1] = b /\ p[2] = "write" => p[3] = c
    <3>1. \A p \in promised : p[2] = "write" => p[3] \in Contents
      BY DEF GiteaInv, PromiseInv, PromiseFits
    <3> QED
      BY <3>1 DEF Gitea!Undone
  <2>3. \A p \in vows : \/ p[1] = b /\ p[2] = "write" /\ p[3] \in Contents /\ p[3] = c
                        \/ p[1] = b /\ p[2] = "branch" /\ c # NoBranch
    OBVIOUS
  <2>4. promised' \subseteq (promised \ gone) \cup vows
    BY <1>5
  <2> HIDE DEF gone, vows
  <2> QED
    BY <1>1, <1>5, <2>1, <2>2, <2>3, <2>4, ContentKeeps
<1>6. \/ UNCHANGED <<labels, assignees, closed, content, promised>>
      \/ \E i \in closed :
            /\ closed' = closed \ {i} /\ UNCHANGED <<labels, assignees, content>>
            /\ promised' = promised \ Gitea!Undone(i, {"close"}, {"closed"})
      \/ \E i \in Issues : \E q \in assignees[i] :
            /\ assignees' = [assignees EXCEPT ![i] = @ \ {q}]
            /\ UNCHANGED <<labels, closed, content>>
            /\ promised' = promised \ Gitea!Undone(i, {"assign"}, {q})
      \/ \E b \in Branches, c \in Contents :
            /\ content' = [content EXCEPT ![b] = c] /\ UNCHANGED <<labels, assignees, closed>>
            /\ promised' = promised \ Gitea!Undone(b, {"write"}, Contents)
  BY DEF Gitea!Person
<1> QED
  BY <1>2, <1>3, <1>4, <1>5, <1>6

\* Every step of the client keeps its invariant.
LEMMA GiteaStep == GiteaInv /\ Gitea!Next => GiteaInv'
<1> SUFFICES ASSUME GiteaInv, Gitea!Next
             PROVE  GiteaInv'
  OBVIOUS
<1>1. ASSUME NEW r \in Requests, Gitea!EnsureLabelCache(r) PROVE GiteaInv'
  <2>1. UNCHANGED <<labels, assignees, closed, content, promised, job>>
    BY <1>1 DEF Gitea!EnsureLabelCache, Gitea!forge
  <2>2. JobInv'
    BY <2>1 DEF GiteaInv, JobInv
  <2> QED
    BY <2>1, <2>2, ForgeStays
<1>2. ASSUME NEW r \in Requests, Gitea!Respond(r) PROVE GiteaInv'
  <2>1. /\ UNCHANGED <<labels, assignees, closed, content, promised>>
        /\ job' = [job EXCEPT ![r] = Gitea!Idle]
    BY <1>2 DEF Gitea!Respond, Gitea!forge
  <2>2. Gitea!Idle \in Jobs /\ Fits(Gitea!Idle)
    BY DEF Gitea!Idle, Jobs, Fits, Suits, Actions
  <2>3. JobInv'
    BY <2>1, <2>2, JobMoves DEF GiteaInv
  <2> QED
    BY <2>1, <2>3, ForgeStays
<1> QED
  BY <1>1, <1>2, BeginKeeps, LabelsMove, CloseIssueKeeps, ReadAssigneesKeeps, WriteAssigneesKeeps,
     ReadFileKeeps, WriteFileKeeps, CreateBranchKeeps, PersonKeeps DEF Gitea!Next

\* Every step of the service keeps the client's invariant.
LEMMA GiteaKeeps == GiteaInv /\ [Next]_vars => GiteaInv'
<1> SUFFICES ASSUME GiteaInv, [Next]_vars
             PROVE  GiteaInv'
  OBVIOUS
<1>1. CASE UNCHANGED giteaVars
  BY <1>1 DEF giteaVars, GiteaInv, ForgeTyped, JobInv, PromiseInv, IsSo
<1>2. Gitea!Next \/ UNCHANGED giteaVars
  BY DEF Next, Others, vars
<1> QED
  BY <1>1, <1>2, GiteaStep

(***************************************************************************)
(* WorkerRegistry.  A worker that is not listed has said nothing since the *)
(* start, and a default registration that is under way is either of a      *)
(* worker that has said nothing or known to have been overtaken.           *)
(***************************************************************************)
RegistryTyped ==
    /\ worker \in [Agents -> Registry!WorkerRecords \cup {None}]
    /\ handling \in [Handlers -> [at : {"ready", "register", "again"}, agent : Agents \cup {None},
                                  busy : BOOLEAN]]
    /\ \A h \in Handlers : handling[h].at # "ready" => handling[h].agent \in Agents
    /\ said \in [Agents -> Capacities \cup {None}] /\ overtaken \in [Agents -> BOOLEAN]

\* What is listed of a worker is what it said.
Told(a) ==
    said[a] # None => worker[a].capacity = said[a] \/ overtaken[a]

RegistryInv ==
    /\ RegistryTyped
    /\ \A a \in Agents : IF worker[a] = None THEN said[a] = None ELSE Told(a)
    /\ \A h \in Handlers : handling[h].at = "register" =>
         said[handling[h].agent] = None \/ overtaken[handling[h].agent]

\* The list adds nothing but who is offline.
LEMMA ListTrue == RegistryInv => Registry!ListedAsRegistered
<1> SUFFICES ASSUME RegistryInv, NEW a \in Agents, worker[a] # None
             PROVE  said[a] # None => Registry!List[a].capacity = said[a] \/ overtaken[a]
  BY DEF Registry!ListedAsRegistered, Registry!List
<1> DEFINE w == worker[a]
           entry == IF w.silent > StaleAfter THEN [w EXCEPT !.status = "offline"] ELSE w
<1>1. Registry!List[a] = entry
  BY DEF Registry!List
<1>2. w \in Registry!WorkerRecords /\ Told(a)
  BY DEF RegistryInv, RegistryTyped
<1>3. entry.capacity = w.capacity
  BY <1>2 DEF Registry!WorkerRecords
<1> HIDE DEF entry
<1> QED
  BY <1>1, <1>2, <1>3 DEF Told

\* After a start nobody is known.
LEMMA RegistryFresh ==
    Registry!NoWorkers \in [Agents -> {None}] /\ Registry!Ready.at = "ready"
    /\ Registry!Ready \in [at : {"ready", "register", "again"}, agent : Agents \cup {None}, busy : BOOLEAN]
  BY DEF Registry!NoWorkers, Registry!Ready

LEMMA RegistryStart == Init => RegistryInv
<1>1. Init => Registry!Init
  BY DEF Init
<1> QED
  BY <1>1, RegistryFresh
  DEF Registry!Init, RegistryInv, RegistryTyped, Registry!NoWorkers, Registry!AllReady, Registry!Untouched

\* A registration lists the worker with the capacity given, and its task.
LEMMA Registers ==
    ASSUME RegistryTyped, NEW a \in Agents, NEW c \in Nat, Registry!Register(a, c)
    PROVE  /\ worker' \in [Agents -> Registry!WorkerRecords \cup {None}]
           /\ worker'[a] # None /\ worker'[a].capacity = c
           /\ \A b \in Agents : b # a => worker'[b] = worker[b]
<1> DEFINE w == [capacity |-> c, status |-> "idle", silent |-> 0,
                 task |-> IF worker[a] = None THEN FALSE ELSE worker[a].task]
<1>1. w \in Registry!WorkerRecords /\ w.capacity = c
  <2>1. (IF worker[a] = None THEN FALSE ELSE worker[a].task) \in BOOLEAN
    BY DEF RegistryTyped, Registry!WorkerRecords
  <2> QED
    BY <2>1 DEF Registry!WorkerRecords
<1>2. worker' = [worker EXCEPT ![a] = w]
  BY DEF Registry!Register
<1>3. w # None
  BY <1>1, ServiceAssumption DEF ServiceAssumption, Registry!RegistryAssumption
<1> HIDE DEF w
<1> QED
  BY <1>1, <1>2, <1>3 DEF RegistryTyped

\* A heartbeat of a listed worker changes neither who is listed nor with what capacity.
LEMMA Refreshes ==
    ASSUME RegistryInv, NEW a \in Agents, NEW on \in BOOLEAN, Registry!Refresh(a, on)
    PROVE  /\ worker' \in [Agents -> Registry!WorkerRecords \cup {None}]
           /\ worker[a] # None /\ worker'[a] # None /\ worker'[a].capacity = worker[a].capacity
           /\ \A b \in Agents : b # a => worker'[b] = worker[b]
<1> DEFINE w1 == [worker[a] EXCEPT !.status = IF on THEN "busy" ELSE "idle"]
           w2 == [w1 EXCEPT !.task = on]
           w3 == [w2 EXCEPT !.silent = 0]
<1>1. worker[a] # None /\ worker[a] \in Registry!WorkerRecords
  BY DEF Registry!Refresh, RegistryInv, RegistryTyped
<1>2. /\ w1 \in Registry!WorkerRecords /\ w1.capacity = worker[a].capacity
  BY <1>1 DEF Registry!WorkerRecords
<1>3. /\ w2 \in Registry!WorkerRecords /\ w2.capacity = worker[a].capacity
  <2> HIDE DEF w1
  <2> QED
    BY <1>2 DEF Registry!WorkerRecords
<1>4. /\ w3 \in Registry!WorkerRecords /\ w3.capacity = worker[a].capacity
  <2> HIDE DEF w2
  <2> QED
    BY <1>3 DEF Registry!WorkerRecords
<1>5. worker' = [worker EXCEPT ![a] = w3]
  BY DEF Registry!Refresh
<1>6. w3 # None
  BY <1>4, ServiceAssumption DEF ServiceAssumption, Registry!RegistryAssumption
<1> HIDE DEF w3
<1> QED
  BY <1>1, <1>4, <1>5, <1>6 DEF RegistryInv, RegistryTyped

\* Every call of the registry keeps its invariant.
LEMMA RegistryStep == RegistryInv /\ Registry!Next => RegistryInv'
<1> SUFFICES ASSUME RegistryInv, Registry!Next
             PROVE  RegistryInv'
  OBVIOUS
<1>1. ASSUME NEW a \in Agents, Registry!HandleRegisterWorker(a) PROVE RegistryInv'
  <2>1. PICK c \in Capacities : Registry!Register(a, c) /\ said' = [said EXCEPT ![a] = c]
    BY <1>1 DEF Registry!HandleRegisterWorker
  <2>2. c \in Nat
    BY ServiceAssumption DEF ServiceAssumption, Registry!RegistryAssumption
  <2>3. /\ worker' \in [Agents -> Registry!WorkerRecords \cup {None}]
        /\ worker'[a] # None /\ worker'[a].capacity = c
        /\ \A b \in Agents : b # a => worker'[b] = worker[b]
    BY <2>1, <2>2, Registers DEF RegistryInv
  <2>4. /\ overtaken' = [overtaken EXCEPT ![a] = Registry!Defaulting(a)]
        /\ UNCHANGED handling
    BY <1>1 DEF Registry!HandleRegisterWorker
  <2>5. Registry!Defaulting(a) \in BOOLEAN
    BY DEF Registry!Defaulting
  <2>6. RegistryTyped'
    BY <2>1, <2>3, <2>4, <2>5 DEF RegistryInv, RegistryTyped
  <2>7. \A b \in Agents : IF worker'[b] = None THEN said'[b] = None ELSE Told(b)'
    BY <2>1, <2>3, <2>4 DEF RegistryInv, RegistryTyped, Told
  <2>8. \A h \in Handlers : handling'[h].at = "register" =>
           said'[handling'[h].agent] = None \/ overtaken'[handling'[h].agent]
    <3> SUFFICES ASSUME NEW h \in Handlers, handling[h].at = "register"
                 PROVE  said'[handling[h].agent] = None \/ overtaken'[handling[h].agent]
      BY <2>4
    <3>1. handling[h].agent \in Agents /\ (handling[h].agent = a => Registry!Defaulting(a))
      BY DEF RegistryInv, RegistryTyped, Registry!Defaulting
    <3> QED
      BY <2>1, <2>4, <2>5, <3>1 DEF RegistryInv, RegistryTyped
  <2> QED
    BY <2>6, <2>7, <2>8 DEF RegistryInv
<1>2. ASSUME NEW h \in Handlers, NEW a \in Agents, NEW on \in BOOLEAN, Registry!Refresh(a, on),
             UNCHANGED <<said, overtaken>>,
             handling' = handling \/ handling' = [handling EXCEPT ![h] = Registry!Ready]
      PROVE  RegistryInv'
  <2>1. /\ worker' \in [Agents -> Registry!WorkerRecords \cup {None}]
        /\ worker[a] # None /\ worker'[a] # None /\ worker'[a].capacity = worker[a].capacity
        /\ \A b \in Agents : b # a => worker'[b] = worker[b]
    BY <1>2, Refreshes
  <2>2. \A g \in Handlers : handling'[g] = handling[g] \/ handling'[g].at = "ready"
    BY <1>2, RegistryFresh DEF RegistryInv, RegistryTyped
  <2>3. RegistryTyped'
    <3>1. handling' \in [Handlers -> [at : {"ready", "register", "again"}, agent : Agents \cup {None},
                                      busy : BOOLEAN]]
      BY <1>2, RegistryFresh DEF RegistryInv, RegistryTyped
    <3> QED
      BY <1>2, <2>1, <2>2, <3>1 DEF RegistryInv, RegistryTyped
  <2>4. \A b \in Agents : IF worker'[b] = None THEN said'[b] = None ELSE Told(b)'
    BY <1>2, <2>1 DEF RegistryInv, Told
  <2> QED
    BY <1>2, <2>2, <2>3, <2>4 DEF RegistryInv
<1>3. ASSUME NEW h \in Handlers, Registry!HandleWorkerHeartbeat(h) PROVE RegistryInv'
  <2>1. PICK a \in Agents, on \in BOOLEAN :
           \/ Registry!Refresh(a, on) /\ UNCHANGED handling
           \/ /\ worker[a] = None /\ UNCHANGED worker
              /\ handling' = [handling EXCEPT ![h] = [at |-> "register", agent |-> a, busy |-> on]]
    BY <1>3 DEF Registry!HandleWorkerHeartbeat
  <2>2. UNCHANGED <<said, overtaken>>
    BY <1>3 DEF Registry!HandleWorkerHeartbeat
  <2>3. CASE Registry!Refresh(a, on) /\ UNCHANGED handling
    BY <1>2, <2>2, <2>3
  <2>4. CASE /\ worker[a] = None /\ UNCHANGED worker
             /\ handling' = [handling EXCEPT ![h] = [at |-> "register", agent |-> a, busy |-> on]]
    <3>1. RegistryTyped'
      BY <2>2, <2>4 DEF RegistryInv, RegistryTyped
    <3>2. \A g \in Handlers : handling'[g].at = "register" =>
             said[handling'[g].agent] = None \/ overtaken[handling'[g].agent]
      BY <2>4 DEF RegistryInv, RegistryTyped
    <3> QED
      BY <2>2, <2>4, <3>1, <3>2 DEF RegistryInv, Told
  <2> QED
    BY <2>1, <2>3, <2>4
<1>4. ASSUME NEW h \in Handlers, Registry!AutoRegister(h) PROVE RegistryInv'
  <2> DEFINE a == handling[h].agent
  <2>1. /\ a \in Agents /\ (said[a] = None \/ overtaken[a])
        /\ handling' = [handling EXCEPT ![h].at = "again"] /\ UNCHANGED <<said, overtaken>>
        /\ Registry!Register(a, 1)
    BY <1>4 DEF Registry!AutoRegister, RegistryInv, RegistryTyped
  <2>2. /\ worker' \in [Agents -> Registry!WorkerRecords \cup {None}]
        /\ worker'[a] # None
        /\ \A b \in Agents : b # a => worker'[b] = worker[b]
    <3> HIDE DEF a
    <3> QED
      BY <2>1, Registers DEF RegistryInv
  <2>3. \A g \in Handlers : /\ handling'[g].agent = handling[g].agent
                            /\ handling'[g].at = "register" => handling[g].at = "register"
                            /\ handling'[g].at # "ready" => handling[g].at # "ready"
    BY <1>4, <2>1 DEF Registry!AutoRegister, RegistryInv, RegistryTyped
  <2>4. RegistryTyped'
    <3>1. handling' \in [Handlers -> [at : {"ready", "register", "again"}, agent : Agents \cup {None},
                                      busy : BOOLEAN]]
      BY <2>1 DEF RegistryInv, RegistryTyped
    <3> HIDE DEF a
    <3> QED
      BY <2>1, <2>2, <2>3, <3>1 DEF RegistryInv, RegistryTyped
  <2>5. \A b \in Agents : IF worker'[b] = None THEN said'[b] = None ELSE Told(b)'
    <3> HIDE DEF a
    <3> QED
      BY <2>1, <2>2 DEF RegistryInv, Told
  <2> HIDE DEF a
  <2> QED
    BY <2>1, <2>3, <2>4, <2>5 DEF RegistryInv
<1>5. ASSUME NEW h \in Handlers, Registry!HeartbeatAgain(h) PROVE RegistryInv'
  <2>1. handling[h].agent \in Agents /\ handling[h].busy \in BOOLEAN
    BY <1>5 DEF Registry!HeartbeatAgain, RegistryInv, RegistryTyped
  <2> QED
    BY <1>2, <1>5, <2>1 DEF Registry!HeartbeatAgain
<1>6. ASSUME Registry!Tick PROVE RegistryInv'
  <2>1. \A a \in Agents : \/ worker'[a] = worker[a]
                          \/ worker[a] # None /\ worker'[a] = [worker[a] EXCEPT !.silent = @ + 1]
    BY <1>6 DEF Registry!Tick
  <2>2. ASSUME NEW a \in Agents
        PROVE  /\ worker'[a] \in Registry!WorkerRecords \cup {None}
               /\ worker'[a] # None <=> worker[a] # None
               /\ worker'[a].capacity = worker[a].capacity
    <3>1. CASE worker'[a] = worker[a]
      BY <3>1 DEF RegistryInv, RegistryTyped
    <3>2. CASE worker[a] # None /\ worker'[a] = [worker[a] EXCEPT !.silent = @ + 1]
      <4>1. worker[a] \in Registry!WorkerRecords
        BY <3>2 DEF RegistryInv, RegistryTyped
      <4>2. /\ worker'[a] \in Registry!WorkerRecords /\ worker'[a].capacity = worker[a].capacity
        BY <3>2, <4>1 DEF Registry!WorkerRecords
      <4> QED
        BY <3>2, <4>2, ServiceAssumption DEF ServiceAssumption, Registry!RegistryAssumption
    <3> QED
      BY <2>1, <3>1, <3>2
  <2>3. RegistryTyped'
    BY <1>6, <2>2 DEF Registry!Tick, RegistryInv, RegistryTyped
  <2> QED
    BY <1>6, <2>2, <2>3 DEF Registry!Tick, RegistryInv, Told
<1>7. ASSUME Registry!Restart PROVE RegistryInv'
  BY <1>7, RegistryFresh
  DEF Registry!Restart, RegistryInv, RegistryTyped, Registry!NoWorkers, Registry!AllReady,
      Registry!Untouched
<1> QED
  BY <1>1, <1>3, <1>4, <1>5, <1>6, <1>7 DEF Registry!Next

\* Every step of the service keeps the registry's invariant.
LEMMA RegistryKeeps == RegistryInv /\ [Next]_vars => RegistryInv'
<1> SUFFICES ASSUME RegistryInv, [Next]_vars
             PROVE  RegistryInv'
  OBVIOUS
<1>1. CASE UNCHANGED registryVars
  BY <1>1 DEF registryVars, RegistryInv, RegistryTyped, Told
<1>2. Registry!Next \/ UNCHANGED registryVars
  BY DEF Next, Others, vars
<1> QED
  BY <1>1, <1>2, RegistryStep

(***************************************************************************)
(* CircuitBreaker.  What a circuit counts is what was recorded since it    *)
(* was closed, and it is open over the failure that was recorded as long   *)
(* ago as it has been open.                                                *)
(***************************************************************************)
Failures == [immediate : BOOLEAN, age : 0..Cooldown]
Circuits == [open : BOOLEAN, failures : Nat, since : 0..Cooldown]

BreakerTyped ==
    /\ DOMAIN circuit \subseteq Keys
    /\ \A k \in DOMAIN circuit : circuit[k] \in Circuits
    /\ record \in [Keys -> Seq(Failures)]

\* The failures of a record that trip at once, those that are counted, and the
\* counted ones of the last cooldown.
Tripping(q) == {n \in DOMAIN q : q[n].immediate}
Counting(q) == {n \in DOMAIN q : ~q[n].immediate}
Lately(q) == {n \in Counting(q) : q[n].age < Cooldown}

\* The failure over which a circuit was opened so long ago.
OpenedOver(q, since, n) ==
    /\ n \in DOMAIN q /\ q[n].age = since
    /\ q[n].immediate \/ Cardinality(Counting(q) \cap (1..n)) >= Threshold

CircuitInv(c, q) ==
    /\ c.failures <= Cardinality(Counting(q))
    /\ c.open => \E n \in DOMAIN q : OpenedOver(q, c.since, n)
    /\ \A n \in Tripping(q) : q[n].age < Cooldown => c.open /\ c.since <= q[n].age
    /\ Tripping(q) = {} =>
         /\ c.open <=> c.failures >= Threshold
         /\ c.open => \A n \in DOMAIN q : c.since <= q[n].age
         /\ Cardinality(Lately(q)) <= c.failures

BreakerInv ==
    /\ BreakerTyped
    /\ \A k \in Keys : IF k \in DOMAIN circuit THEN CircuitInv(circuit[k], record[k])
                                               ELSE record[k] = <<>>

LEMMA BreakerBounds == Threshold \in Nat /\ Threshold > 0 /\ Cooldown \in Nat
  BY ServiceAssumption DEF ServiceAssumption, Breaker!BreakerAssumption

\* The library's count is the one the breaker's module uses.
LEMMA BreakerCounts == \A S : Breaker!Cardinality(S) = Cardinality(S)
  BY DEF Breaker!Cardinality, Cardinality

\* A record is counted in numbers.
LEMMA RecordCounted ==
    ASSUME NEW q \in Seq(Failures)
    PROVE  /\ IsFiniteSet(Counting(q)) /\ Cardinality(Counting(q)) \in Nat
           /\ IsFiniteSet(Lately(q)) /\ Cardinality(Lately(q)) \in Nat
           /\ \A n : Cardinality(Counting(q) \cap (1..n)) \in Nat
<1>1. IsFiniteSet(DOMAIN q)
  BY FS_Interval
<1>2. /\ Counting(q) \subseteq DOMAIN q /\ Lately(q) \subseteq DOMAIN q
      /\ \A n : Counting(q) \cap (1..n) \subseteq DOMAIN q
  BY DEF Counting, Lately
<1> QED
  BY <1>1, <1>2, FS_Subset, FS_CardinalityType

\* A provider is blocked for cause.
LEMMA BlockedTrue == BreakerInv => Breaker!BlockedForCause
<1> SUFFICES ASSUME BreakerInv, NEW k \in Keys
             PROVE  /\ k \in Breaker!Status =>
                         \/ Breaker!Recent(k, TRUE) # {}
                         \/ \E last \in Breaker!Recent(k, FALSE) :
                              Breaker!Cardinality(Breaker!Failed(k, FALSE) \cap (1..last)) >= Threshold
                    /\ Breaker!Recent(k, TRUE) # {} => k \in Breaker!Status
                    /\ Breaker!Failed(k, TRUE) = {}
                         /\ Breaker!Cardinality(Breaker!Recent(k, FALSE)) >= Threshold
                       => k \in Breaker!Status
  BY DEF Breaker!BlockedForCause
<1> DEFINE q == record[k]
           c == circuit[k]
<1>1. q \in Seq(Failures)
  BY DEF BreakerInv, BreakerTyped
<1>6. \A n \in DOMAIN q : q[n].age \in 0..Cooldown
  <2>1. \A n \in DOMAIN q : q[n] \in Failures
    <3> HIDE DEF q
    <3> QED
      BY <1>1
  <2> HIDE DEF q
  <2> QED
    BY <2>1 DEF Failures
<1>2. /\ Breaker!Failed(k, TRUE) = Tripping(q) /\ Breaker!Failed(k, FALSE) = Counting(q)
      /\ Breaker!Recent(k, FALSE) = Lately(q)
      /\ Breaker!Recent(k, TRUE) = {n \in Tripping(q) : q[n].age < Cooldown}
  BY <1>1 DEF Breaker!Failed, Breaker!Recent, Tripping, Counting, Lately, Failures
<1>3. k \in Breaker!Status <=> k \in DOMAIN circuit /\ c.open /\ c.since < Cooldown
  BY DEF Breaker!Status, Breaker!Blocked
<1>4. CASE k \notin DOMAIN circuit
  <2>1. q = <<>>
    BY <1>4 DEF BreakerInv
  <2>2. Tripping(q) = {} /\ Lately(q) = {}
    BY <2>1 DEF Tripping, Lately, Counting
  <2>3. Breaker!Cardinality(Lately(q)) = 0
    BY <2>2, FS_EmptySet, BreakerCounts
  <2>4. k \notin Breaker!Status /\ Breaker!Recent(k, TRUE) = {}
    BY <1>2, <1>3, <1>4, <2>2
  <2>5. Breaker!Cardinality(Breaker!Recent(k, FALSE)) = 0
    BY <1>2, <2>3
  <2>6. ~(Breaker!Cardinality(Breaker!Recent(k, FALSE)) >= Threshold)
    <3>1. \A x : x = 0 => ~(x >= Threshold)
      BY BreakerBounds
    <3> QED
      BY <2>5, <3>1, Zenon
  <2> QED
    BY <2>4, <2>6, Zenon
<1>5. CASE k \in DOMAIN circuit
  <2>1. CircuitInv(c, q) /\ c \in Circuits
    BY <1>5 DEF BreakerInv, BreakerTyped
  <2>2. ASSUME c.open, c.since < Cooldown
        PROVE  \/ Breaker!Recent(k, TRUE) # {}
               \/ \E last \in Breaker!Recent(k, FALSE) :
                    Breaker!Cardinality(Breaker!Failed(k, FALSE) \cap (1..last)) >= Threshold
    <3>1. PICK n \in DOMAIN q : OpenedOver(q, c.since, n)
      BY <2>1, <2>2 DEF CircuitInv
    <3>2. CASE q[n].immediate
      BY <1>2, <2>2, <3>1, <3>2 DEF OpenedOver, Tripping
    <3>3. CASE ~q[n].immediate
      <4>1. n \in Lately(q) /\ Cardinality(Counting(q) \cap (1..n)) >= Threshold
        BY <2>2, <3>1, <3>3 DEF OpenedOver, Lately, Counting
      <4> HIDE DEF q
      <4> QED
        BY <1>2, <4>1, BreakerCounts
    <3> QED
      BY <3>2, <3>3
  <2>3. Breaker!Recent(k, TRUE) # {} => c.open /\ c.since < Cooldown
    <3> SUFFICES ASSUME NEW n \in Tripping(q), q[n].age < Cooldown
                 PROVE  c.open /\ c.since < Cooldown
      BY <1>2
    <3>1. c.open /\ c.since <= q[n].age
      BY <2>1 DEF CircuitInv
    <3>2. q[n].age \in 0..Cooldown /\ c.since \in 0..Cooldown
      BY <1>6, <2>1 DEF Circuits, Tripping
    <3> QED
      BY <3>1, <3>2, BreakerBounds
  <2>4. ASSUME Tripping(q) = {}, Cardinality(Lately(q)) >= Threshold
        PROVE  c.open /\ c.since < Cooldown
    <3>1. Cardinality(Lately(q)) \in Nat /\ c.failures \in Nat /\ c.since \in 0..Cooldown
      BY <1>1, <2>1, RecordCounted DEF Circuits
    <3>2. c.open /\ \A n \in DOMAIN q : c.since <= q[n].age
      BY <2>1, <2>4, <3>1, BreakerBounds DEF CircuitInv
    <3>3. Lately(q) # {}
      BY <2>4, FS_EmptySet, BreakerBounds
    <3>4. PICK n \in DOMAIN q : q[n].age < Cooldown
      BY <3>3 DEF Lately, Counting
    <3>5. q[n].age \in 0..Cooldown
      BY <1>6, <3>4
    <3> QED
      BY <3>1, <3>2, <3>4, <3>5, BreakerBounds
  <2> HIDE DEF q, c
  <2> QED
    BY <1>2, <1>3, <1>5, <2>2, <2>3, <2>4, BreakerCounts
<1> QED
  BY <1>4, <1>5

\* One more failure in a record: what was counted before is counted still.
LEMMA FailureAdded ==
    ASSUME NEW q \in Seq(Failures), NEW f \in Failures, f.age = 0
    PROVE  LET q2 == Append(q, f)
               last == Len(q) + 1
           IN /\ q2 \in Seq(Failures) /\ last \in DOMAIN q2 /\ q2[last] = f
              /\ DOMAIN q2 = DOMAIN q \cup {last}
              /\ \A n \in DOMAIN q : q2[n] = q[n]
              /\ Tripping(q2) = Tripping(q) \cup (IF f.immediate THEN {last} ELSE {})
              /\ \A n \in DOMAIN q : Counting(q2) \cap (1..n) = Counting(q) \cap (1..n)
              /\ Counting(q2) \cap (1..last) = Counting(q2)
              /\ Cardinality(Counting(q2)) = IF f.immediate THEN Cardinality(Counting(q))
                                                            ELSE Cardinality(Counting(q)) + 1
              /\ ~f.immediate => Cardinality(Lately(q2)) <= Cardinality(Lately(q)) + 1
<1> DEFINE q2 == Append(q, f)
           last == Len(q) + 1
<1>1. /\ q2 \in Seq(Failures) /\ DOMAIN q2 = 1..last /\ DOMAIN q = 1..Len(q) /\ q2[last] = f
      /\ \A n \in 1..Len(q) : q2[n] = q[n]
      /\ Len(q) \in Nat
  OBVIOUS
<1>2. DOMAIN q2 = DOMAIN q \cup {last} /\ last \notin DOMAIN q
  BY <1>1
<1> HIDE DEF q2, last
<1>3. /\ Tripping(q2) = Tripping(q) \cup (IF f.immediate THEN {last} ELSE {})
      /\ Counting(q2) = Counting(q) \cup (IF f.immediate THEN {} ELSE {last})
      /\ ~f.immediate => Lately(q2) \subseteq Lately(q) \cup {last}
  BY <1>1, <1>2 DEF Tripping, Counting, Lately
<1>4. /\ \A n \in DOMAIN q : Counting(q2) \cap (1..n) = Counting(q) \cap (1..n)
      /\ Counting(q2) \cap (1..last) = Counting(q2)
  <2>1. \A n \in DOMAIN q : last \notin 1..n
    BY <1>1 DEF last
  <2> QED
    BY <1>1, <1>3, <2>1 DEF Counting
<1>5. Cardinality(Counting(q2)) = IF f.immediate THEN Cardinality(Counting(q))
                                                 ELSE Cardinality(Counting(q)) + 1
  <2>1. last \notin Counting(q)
    BY <1>2 DEF Counting
  <2>2. Cardinality(Counting(q) \cup {last}) = Cardinality(Counting(q)) + 1
    BY <2>1, RecordCounted, FS_AddElement
  <2>3. CASE f.immediate
    BY <1>3, <2>3
  <2>4. CASE ~f.immediate
    BY <1>3, <2>2, <2>4
  <2> QED
    BY <2>3, <2>4
<1>6. ~f.immediate => Cardinality(Lately(q2)) <= Cardinality(Lately(q)) + 1
  <2>1. last \notin Lately(q)
    BY <1>2 DEF Lately, Counting
  <2>2. /\ IsFiniteSet(Lately(q) \cup {last})
        /\ Cardinality(Lately(q) \cup {last}) = Cardinality(Lately(q)) + 1
    BY <2>1, RecordCounted, FS_AddElement
  <2> QED
    BY <1>3, <2>2, FS_Subset
<1> QED
  BY <1>1, <1>2, <1>3, <1>4, <1>5, <1>6 DEF q2, last

\* A failure of authentication opens the circuit at once.
LEMMA TripKeeps ==
    ASSUME NEW c \in Circuits, NEW q \in Seq(Failures), CircuitInv(c, q)
    PROVE  LET c2 == Breaker!Trip(c)
           IN c2 \in Circuits /\ CircuitInv(c2, Append(q, [immediate |-> TRUE, age |-> 0]))
<1> DEFINE f == [immediate |-> TRUE, age |-> 0]
           q2 == Append(q, f)
           k1 == [c EXCEPT !.open = TRUE]
           c2 == [k1 EXCEPT !.since = 0]
           last == Len(q) + 1
<1>1. f \in Failures /\ f.age = 0 /\ f.immediate
  BY BreakerBounds DEF Failures
<1>2. c2 \in Circuits /\ c2.open /\ c2.since = 0 /\ c2.failures = c.failures
  <2>1. k1 \in Circuits /\ k1.open /\ k1.failures = c.failures
    BY DEF Circuits
  <2> HIDE DEF k1
  <2> QED
    BY <2>1, BreakerBounds DEF Circuits
<1>3. c2 = Breaker!Trip(c)
  BY DEF Breaker!Trip
<1> HIDE DEF f
<1>4. /\ q2 \in Seq(Failures) /\ last \in DOMAIN q2 /\ q2[last] = f
      /\ last \in Tripping(q2) /\ Cardinality(Counting(q2)) = Cardinality(Counting(q))
  BY <1>1, FailureAdded
<1>5. \A n \in Tripping(q2) : 0 <= q2[n].age
  <2>1. \A n \in DOMAIN q2 : q2[n] \in Failures
    BY <1>4
  <2> QED
    BY <2>1, BreakerBounds DEF Failures, Tripping
<1>6. OpenedOver(q2, 0, last)
  BY <1>1, <1>4 DEF OpenedOver
<1> HIDE DEF q2, c2, last
<1>7. CircuitInv(c2, q2)
  BY <1>2, <1>4, <1>5, <1>6 DEF CircuitInv
<1> QED
  BY <1>2, <1>3, <1>7 DEF f, q2

\* A failure that is counted opens the circuit, or opens it anew, when there have been enough.
LEMMA CountKeeps ==
    ASSUME NEW c \in Circuits, NEW q \in Seq(Failures), CircuitInv(c, q)
    PROVE  LET c1 == [c EXCEPT !.failures = @ + 1]
               c2 == IF c1.failures >= Threshold THEN Breaker!Trip(c1) ELSE c1
           IN c2 \in Circuits /\ CircuitInv(c2, Append(q, [immediate |-> FALSE, age |-> 0]))
<1> DEFINE f == [immediate |-> FALSE, age |-> 0]
           q2 == Append(q, f)
           last == Len(q) + 1
           c1 == [c EXCEPT !.failures = @ + 1]
           k1 == [c1 EXCEPT !.open = TRUE]
           k2 == [k1 EXCEPT !.since = 0]
           c2 == IF c1.failures >= Threshold THEN Breaker!Trip(c1) ELSE c1
<1>1. f \in Failures /\ f.age = 0 /\ f.immediate = FALSE
  BY BreakerBounds DEF Failures
<1>2. /\ c1 \in Circuits /\ c1.failures = c.failures + 1 /\ c1.open = c.open /\ c1.since = c.since
      /\ c.failures \in Nat
  BY DEF Circuits
<1>3. k2 \in Circuits /\ k2.open /\ k2.since = 0 /\ k2.failures = c.failures + 1
  <2> HIDE DEF c1
  <2>1. k1 \in Circuits /\ k1.open /\ k1.failures = c.failures + 1
    BY <1>2 DEF Circuits
  <2> HIDE DEF k1
  <2> QED
    BY <2>1, BreakerBounds DEF Circuits
<1>4. k2 = Breaker!Trip(c1)
  BY DEF Breaker!Trip
<1> HIDE DEF f
<1>5. /\ q2 \in Seq(Failures) /\ last \in DOMAIN q2 /\ q2[last] = f
      /\ DOMAIN q2 = DOMAIN q \cup {last} /\ \A n \in DOMAIN q : q2[n] = q[n]
      /\ Tripping(q2) = Tripping(q)
      /\ \A n \in DOMAIN q : Counting(q2) \cap (1..n) = Counting(q) \cap (1..n)
      /\ Counting(q2) \cap (1..last) = Counting(q2)
      /\ Cardinality(Counting(q2)) = Cardinality(Counting(q)) + 1
      /\ Cardinality(Lately(q2)) <= Cardinality(Lately(q)) + 1
  <2>1. /\ q2 \in Seq(Failures) /\ last \in DOMAIN q2 /\ q2[last] = f
        /\ DOMAIN q2 = DOMAIN q \cup {last} /\ \A n \in DOMAIN q : q2[n] = q[n]
        /\ Tripping(q2) = Tripping(q) \cup (IF f.immediate THEN {last} ELSE {})
        /\ \A n \in DOMAIN q : Counting(q2) \cap (1..n) = Counting(q) \cap (1..n)
        /\ Counting(q2) \cap (1..last) = Counting(q2)
        /\ Cardinality(Counting(q2)) = IF f.immediate THEN Cardinality(Counting(q))
                                                      ELSE Cardinality(Counting(q)) + 1
        /\ ~f.immediate => Cardinality(Lately(q2)) <= Cardinality(Lately(q)) + 1
    BY <1>1, FailureAdded
  <2> HIDE DEF q2, last
  <2> QED
    BY <1>1, <2>1
<1>6. /\ Cardinality(Counting(q)) \in Nat /\ Cardinality(Counting(q2)) \in Nat
      /\ Cardinality(Lately(q)) \in Nat /\ Cardinality(Lately(q2)) \in Nat
  BY <1>5, RecordCounted
<1>7. \A n \in DOMAIN q2 : 0 <= q2[n].age
  <2>1. \A n \in DOMAIN q2 : q2[n] \in Failures
    BY <1>5
  <2> QED
    BY <2>1, BreakerBounds DEF Failures
<1>8. CASE c1.failures >= Threshold
  <2>1. OpenedOver(q2, 0, last)
    <3> HIDE DEF q2, last, c1
    <3>1. Cardinality(Counting(q2)) >= Threshold
      BY <1>2, <1>5, <1>6, <1>8, BreakerBounds DEF CircuitInv
    <3> QED
      BY <1>1, <1>5, <3>1 DEF OpenedOver
  <2>2. c2 = k2
    BY <1>4, <1>8
  <2> HIDE DEF q2, k2, last, c1, c2
  <2>3. k2.failures <= Cardinality(Counting(q2))
    BY <1>2, <1>3, <1>5, <1>6 DEF CircuitInv
  <2>4. \A n \in Tripping(q2) : n \in DOMAIN q2
    BY DEF Tripping
  <2>5. Tripping(q2) = {} => Cardinality(Lately(q2)) <= k2.failures
    BY <1>2, <1>3, <1>5, <1>6 DEF CircuitInv
  <2>6. CircuitInv(k2, q2)
    BY <1>2, <1>3, <1>5, <1>7, <1>8, <2>1, <2>3, <2>4, <2>5 DEF CircuitInv
  <2> QED
    BY <1>3, <2>2, <2>6 DEF q2, f, c2, c1
<1>9. CASE ~(c1.failures >= Threshold)
  <2>1. c2 = c1
    BY <1>9
  <2> HIDE DEF q2, k2, last, c1, c2
  <2>2. c1.failures <= Cardinality(Counting(q2))
    BY <1>2, <1>5, <1>6 DEF CircuitInv
  <2>3. c1.open => \E n \in DOMAIN q2 : OpenedOver(q2, c1.since, n)
    BY <1>2, <1>5 DEF CircuitInv, OpenedOver
  <2>4. \A n \in Tripping(q2) : q2[n].age < Cooldown => c1.open /\ c1.since <= q2[n].age
    BY <1>2, <1>5 DEF CircuitInv, Tripping
  <2>5. ASSUME Tripping(q2) = {}
        PROVE  ~c1.open /\ Cardinality(Lately(q2)) <= c1.failures
    BY <1>2, <1>5, <1>6, <1>9, <2>5, BreakerBounds DEF CircuitInv
  <2>6. CircuitInv(c1, q2)
    BY <1>9, <2>2, <2>3, <2>4, <2>5 DEF CircuitInv
  <2> QED
    BY <1>2, <2>1, <2>6 DEF q2, f, c2, c1
<1> QED
  BY <1>8, <1>9

\* A circuit whose cooldown is over starts anew: all that was counted is as old.
LEMMA AllowKeeps ==
    ASSUME NEW c \in Circuits, NEW q \in Seq(Failures), CircuitInv(c, q),
           c.open, ~(c.since < Cooldown)
    PROVE  LET c2 == [c EXCEPT !.open = FALSE, !.failures = 0]
           IN c2 \in Circuits /\ CircuitInv(c2, q)
<1> DEFINE k1 == [c EXCEPT !.open = FALSE]
           c2 == [k1 EXCEPT !.failures = 0]
<1>1. c2 \in Circuits /\ ~c2.open /\ c2.failures = 0
  <2>1. k1 \in Circuits /\ ~k1.open
    BY DEF Circuits
  <2> HIDE DEF k1
  <2> QED
    BY <2>1 DEF Circuits
<1>2. c.since \in 0..Cooldown
  BY DEF Circuits
<1>3. \A n \in DOMAIN q : q[n].age \in 0..Cooldown
  <2>1. \A n \in DOMAIN q : q[n] \in Failures
    OBVIOUS
  <2> QED
    BY <2>1 DEF Failures
<1>4. \A n \in Tripping(q) : ~(q[n].age < Cooldown)
  <2> SUFFICES ASSUME NEW n \in Tripping(q), q[n].age < Cooldown
               PROVE  FALSE
    OBVIOUS
  <2>1. c.since <= q[n].age /\ q[n].age \in 0..Cooldown
    BY <1>3 DEF CircuitInv, Tripping
  <2> QED
    BY <1>2, <2>1, BreakerBounds
<1>5. ASSUME Tripping(q) = {}
      PROVE  Cardinality(Lately(q)) = 0
  <2>1. \A n \in DOMAIN q : c.since <= q[n].age
    BY <1>5 DEF CircuitInv
  <2>2. \A n \in DOMAIN q : ~(q[n].age < Cooldown)
    BY <1>2, <1>3, <2>1, BreakerBounds
  <2>3. Lately(q) = {}
    BY <2>2 DEF Lately, Counting
  <2> QED
    BY <2>3, FS_EmptySet
<1>6. Cardinality(Counting(q)) \in Nat
  BY RecordCounted
<1>7. c2 = [c EXCEPT !.open = FALSE, !.failures = 0]
  OBVIOUS
<1> HIDE DEF c2
<1>8. CircuitInv(c2, q)
  BY <1>1, <1>4, <1>5, <1>6, BreakerBounds DEF CircuitInv
<1> QED
  BY <1>1, <1>7, <1>8

\* Time passes for a circuit and its record alike.
LEMMA AgeKeeps ==
    ASSUME NEW c \in Circuits, NEW q \in Seq(Failures), CircuitInv(c, q)
    PROVE  LET c2 == [c EXCEPT !.since = Breaker!Older(@)]
               q2 == [n \in DOMAIN q |-> [q[n] EXCEPT !.age = Breaker!Older(@)]]
           IN c2 \in Circuits /\ q2 \in Seq(Failures) /\ CircuitInv(c2, q2)
<1> DEFINE c2 == [c EXCEPT !.since = Breaker!Older(@)]
           q2 == [n \in DOMAIN q |-> [q[n] EXCEPT !.age = Breaker!Older(@)]]
<1>1. \A n \in 0..Cooldown : /\ Breaker!Older(n) \in 0..Cooldown /\ n <= Breaker!Older(n)
                             /\ \A m \in 0..Cooldown : n <= m => Breaker!Older(n) <= Breaker!Older(m)
  BY BreakerBounds DEF Breaker!Older
<1>2. /\ c2 \in Circuits /\ c2.open = c.open /\ c2.failures = c.failures
      /\ c.since \in 0..Cooldown /\ c2.since = Breaker!Older(c.since) /\ c.failures \in Nat
  BY <1>1 DEF Circuits
<1>3. /\ Len(q) \in Nat /\ DOMAIN q = 1..Len(q) /\ \A n \in DOMAIN q : q[n] \in Failures
  OBVIOUS
<1>4. \A n \in DOMAIN q : /\ [q[n] EXCEPT !.age = Breaker!Older(@)] \in Failures
                          /\ q[n].age \in 0..Cooldown
                          /\ [q[n] EXCEPT !.age = Breaker!Older(@)].age = Breaker!Older(q[n].age)
                          /\ [q[n] EXCEPT !.age = Breaker!Older(@)].immediate = q[n].immediate
  BY <1>1, <1>3 DEF Failures
<1>5. /\ q2 \in Seq(Failures) /\ DOMAIN q2 = DOMAIN q
      /\ \A n \in DOMAIN q : /\ q[n].age \in 0..Cooldown
                             /\ q2[n].age = Breaker!Older(q[n].age)
                             /\ q2[n].immediate = q[n].immediate
  <2>1. /\ DOMAIN q2 = DOMAIN q
        /\ \A n \in DOMAIN q : q2[n] = [q[n] EXCEPT !.age = Breaker!Older(@)]
    OBVIOUS
  <2>2. q2 \in [1..Len(q) -> Failures]
    BY <1>3, <1>4
  <2> HIDE DEF q2
  <2>3. q2 \in Seq(Failures)
    BY <1>3, <2>2
  <2> QED
    BY <1>4, <2>1, <2>3
<1> HIDE DEF c2, q2
<1>6. Tripping(q2) = Tripping(q) /\ Counting(q2) = Counting(q)
  BY <1>5 DEF Tripping, Counting
<1>7. \A n \in DOMAIN q : q2[n].age < Cooldown => q[n].age < Cooldown
  BY <1>1, <1>5, BreakerBounds
<1>8. Lately(q2) \subseteq Lately(q)
  BY <1>5, <1>6, <1>7 DEF Lately, Counting
<1>9. /\ Cardinality(Lately(q2)) <= Cardinality(Lately(q))
      /\ Cardinality(Lately(q2)) \in Nat /\ Cardinality(Lately(q)) \in Nat
  BY <1>5, <1>8, RecordCounted, FS_Subset
<1>10. c2.open => \E n \in DOMAIN q2 : OpenedOver(q2, c2.since, n)
  BY <1>2, <1>5, <1>6 DEF CircuitInv, OpenedOver
<1>11. \A n \in Tripping(q2) : q2[n].age < Cooldown => c2.open /\ c2.since <= q2[n].age
  BY <1>1, <1>2, <1>5, <1>6, <1>7 DEF CircuitInv, Tripping
<1>12. ASSUME Tripping(q2) = {}
       PROVE  /\ c2.open <=> c2.failures >= Threshold
              /\ c2.open => \A n \in DOMAIN q2 : c2.since <= q2[n].age
              /\ Cardinality(Lately(q2)) <= c2.failures
  <2>1. /\ c2.open <=> c2.failures >= Threshold
        /\ c2.open => \A n \in DOMAIN q : c.since <= q[n].age
        /\ Cardinality(Lately(q)) <= c.failures
    BY <1>2, <1>6, <1>12 DEF CircuitInv
  <2> QED
    BY <1>1, <1>2, <1>5, <1>9, <2>1
<1>13. CircuitInv(c2, q2)
  BY <1>2, <1>6, <1>10, <1>11, <1>12 DEF CircuitInv
<1> QED
  BY <1>2, <1>5, <1>13 DEF c2, q2

\* A circuit that is made anew has an empty record.
LEMMA FreshKeeps == Breaker!Fresh \in Circuits /\ CircuitInv(Breaker!Fresh, <<>>)
<1>1. /\ Breaker!Fresh \in Circuits /\ ~Breaker!Fresh.open /\ Breaker!Fresh.failures = 0
  BY BreakerBounds DEF Breaker!Fresh, Circuits
<1>2. Tripping(<<>>) = {} /\ Counting(<<>>) = {} /\ Lately(<<>>) = {}
  BY DEF Tripping, Counting, Lately
<1>3. Cardinality(Counting(<<>>)) = 0 /\ Cardinality(Lately(<<>>)) = 0
  BY <1>2, FS_EmptySet
<1> QED
  BY <1>1, <1>2, <1>3, BreakerBounds DEF CircuitInv

\* A circuit and its record change together, and no other.
LEMMA KeyMoves ==
    ASSUME BreakerInv, NEW k \in Keys, NEW c \in Circuits, NEW q \in Seq(Failures), CircuitInv(c, q),
           Breaker!Put(k, c), record' = [record EXCEPT ![k] = q]
    PROVE  BreakerInv'
<1>1. /\ DOMAIN circuit' = DOMAIN circuit \cup {k} /\ circuit'[k] = c
      /\ \A x \in DOMAIN circuit : x # k => circuit'[x] = circuit[x]
  BY DEF Breaker!Put
<1>2. BreakerTyped'
  BY <1>1 DEF BreakerInv, BreakerTyped
<1>3. record'[k] = q /\ \A x \in Keys : x # k => record'[x] = record[x]
  BY DEF BreakerInv, BreakerTyped
<1> QED
  BY <1>1, <1>2, <1>3 DEF BreakerInv

\* The circuit a call finds or makes.
LEMMA CircuitFound ==
    ASSUME BreakerInv, NEW k \in Keys
    PROVE  /\ Breaker!GetOrCreate(k) \in Circuits /\ record[k] \in Seq(Failures)
           /\ CircuitInv(Breaker!GetOrCreate(k), record[k])
  BY FreshKeeps DEF BreakerInv, BreakerTyped, Breaker!GetOrCreate

LEMMA BreakerStart == Init => BreakerInv
<1> SUFFICES ASSUME Init
             PROVE  BreakerInv
  OBVIOUS
<1>1. circuit = <<>> /\ record = [k \in Keys |-> <<>>]
  BY DEF Init, Breaker!Init
<1>2. DOMAIN circuit = {}
  BY <1>1
<1> QED
  BY <1>1, <1>2 DEF BreakerInv, BreakerTyped

\* A failure is recorded.
LEMMA FailureKeeps ==
    ASSUME BreakerInv, NEW class, NEW k \in Keys \cup {Breaker!NoKey},
           Breaker!RecordFailure(class, k)
    PROVE  BreakerInv'
<1> DEFINE counted == k # Breaker!NoKey /\ class \in Breaker!Immediate \cup Breaker!Counted
           f == [immediate |-> class \in Breaker!Immediate, age |-> 0]
<1> USE DEF Breaker!Immediate, Breaker!Counted, Breaker!Ignored
<1>1. CASE ~counted
  <2>1. UNCHANGED <<circuit, record>>
    BY <1>1 DEF Breaker!RecordFailure
  <2> QED
    BY <2>1 DEF BreakerInv, BreakerTyped
<1>2. CASE counted
  <2>1. k \in Keys /\ record' = [record EXCEPT ![k] = Append(@, f)]
    BY <1>2 DEF Breaker!RecordFailure
  <2>2. /\ Breaker!GetOrCreate(k) \in Circuits /\ record[k] \in Seq(Failures)
        /\ CircuitInv(Breaker!GetOrCreate(k), record[k])
    BY <2>1, CircuitFound
  <2>3. CASE class \in Breaker!Immediate
    <3>1. Breaker!Put(k, Breaker!Trip(Breaker!GetOrCreate(k))) /\ f = [immediate |-> TRUE, age |-> 0]
      BY <1>2, <2>3 DEF Breaker!RecordFailure
    <3>2. /\ Breaker!Trip(Breaker!GetOrCreate(k)) \in Circuits
          /\ CircuitInv(Breaker!Trip(Breaker!GetOrCreate(k)), Append(record[k], f))
      BY <2>2, <3>1, TripKeeps
    <3>3. Append(record[k], f) \in Seq(Failures)
      BY <2>2, <3>1, BreakerBounds DEF Failures
    <3> HIDE DEF f
    <3> QED
      BY <2>1, <3>1, <3>2, <3>3, KeyMoves
  <2>4. CASE class \in Breaker!Counted
    <3> DEFINE c1 == [Breaker!GetOrCreate(k) EXCEPT !.failures = @ + 1]
               c2 == IF c1.failures >= Threshold THEN Breaker!Trip(c1) ELSE c1
    <3>4. class \notin Breaker!Immediate /\ class \notin Breaker!Ignored /\ class # "budget"
      BY <2>4
    <3>5. Breaker!Count(k)
      BY <1>2, <3>4 DEF Breaker!RecordFailure
    <3>1. Breaker!Put(k, c2) /\ f = [immediate |-> FALSE, age |-> 0]
      <4>1. Breaker!Put(k, c2)
        BY <3>5 DEF Breaker!Count
      <4>2. (class \in Breaker!Immediate) = FALSE
        BY <3>4
      <4>3. f = [immediate |-> FALSE, age |-> 0]
        BY <4>2, Zenon
      <4> QED
        BY <4>1, <4>3
    <3>2. c2 \in Circuits /\ CircuitInv(c2, Append(record[k], f))
      BY <2>2, <3>1, CountKeeps
    <3>3. Append(record[k], f) \in Seq(Failures)
      BY <2>2, <3>1, BreakerBounds DEF Failures
    <3> HIDE DEF f, c2
    <3> QED
      BY <2>1, <3>1, <3>2, <3>3, KeyMoves
  <2> QED
    BY <1>2, <2>3, <2>4
<1> QED
  BY <1>1, <1>2

\* Every call of the circuit breaker keeps its invariant.
LEMMA BreakerStep == BreakerInv /\ Breaker!Next => BreakerInv'
<1> SUFFICES ASSUME BreakerInv, Breaker!Next
             PROVE  BreakerInv'
  OBVIOUS
<1>1. ASSUME NEW k \in Keys, Breaker!RecordSuccess(k) PROVE BreakerInv'
  <2>1. /\ DOMAIN circuit' = DOMAIN circuit \ {k}
        /\ \A x \in DOMAIN circuit' : circuit'[x] = circuit[x]
        /\ record' = [record EXCEPT ![k] = <<>>]
    BY <1>1 DEF Breaker!RecordSuccess
  <2>2. BreakerTyped'
    BY <2>1 DEF BreakerInv, BreakerTyped
  <2>3. record'[k] = <<>> /\ \A x \in Keys : x # k => record'[x] = record[x]
    BY <2>1 DEF BreakerInv, BreakerTyped
  <2> QED
    BY <2>1, <2>2, <2>3 DEF BreakerInv
<1>2. ASSUME NEW k \in Keys, Breaker!AllowProvider(k) PROVE BreakerInv'
  <2> DEFINE c2 == [circuit[k] EXCEPT !.open = FALSE, !.failures = 0]
  <2>1. /\ k \in DOMAIN circuit /\ circuit[k].open /\ ~(circuit[k].since < Cooldown)
        /\ Breaker!Put(k, c2) /\ UNCHANGED record
    BY <1>2 DEF Breaker!AllowProvider, Breaker!Blocked
  <2>2. circuit[k] \in Circuits /\ record[k] \in Seq(Failures) /\ CircuitInv(circuit[k], record[k])
    BY <2>1 DEF BreakerInv, BreakerTyped
  <2>3. c2 \in Circuits /\ CircuitInv(c2, record[k])
    BY <2>1, <2>2, AllowKeeps
  <2>4. record' = [record EXCEPT ![k] = record[k]]
    BY <2>1 DEF BreakerInv, BreakerTyped
  <2> HIDE DEF c2
  <2> QED
    BY <2>1, <2>2, <2>3, <2>4, KeyMoves
<1>3. ASSUME Breaker!ResetBudget PROVE BreakerInv'
  BY <1>3 DEF Breaker!ResetBudget, BreakerInv, BreakerTyped
<1>4. ASSUME Breaker!Tick PROVE BreakerInv'
  <2>1. /\ DOMAIN circuit' = DOMAIN circuit
        /\ \A k \in DOMAIN circuit : circuit'[k] = [circuit[k] EXCEPT !.since = Breaker!Older(@)]
        /\ record' = [k \in Keys |->
             [n \in DOMAIN record[k] |-> [record[k][n] EXCEPT !.age = Breaker!Older(@)]]]
    BY <1>4 DEF Breaker!Tick
  <2>2. ASSUME NEW k \in Keys
        PROVE  /\ record'[k] \in Seq(Failures)
               /\ k \in DOMAIN circuit =>
                    circuit'[k] \in Circuits /\ CircuitInv(circuit'[k], record'[k])
               /\ k \notin DOMAIN circuit => record'[k] = <<>>
    <3> DEFINE q2 == [n \in DOMAIN record[k] |-> [record[k][n] EXCEPT !.age = Breaker!Older(@)]]
               c2 == [circuit[k] EXCEPT !.since = Breaker!Older(@)]
    <3>1. record'[k] = q2
      BY <2>1
    <3>2. record[k] \in Seq(Failures)
      BY DEF BreakerInv, BreakerTyped
    <3>3. CASE k \in DOMAIN circuit
      <4>1. circuit[k] \in Circuits /\ CircuitInv(circuit[k], record[k])
        BY <3>3 DEF BreakerInv, BreakerTyped
      <4>2. c2 \in Circuits /\ q2 \in Seq(Failures) /\ CircuitInv(c2, q2)
        BY <3>2, <4>1, AgeKeeps
      <4>3. circuit'[k] = c2
        BY <2>1, <3>3
      <4> HIDE DEF c2, q2
      <4> QED
        BY <3>1, <3>3, <4>2, <4>3
    <3>4. CASE k \notin DOMAIN circuit
      <4>1. record[k] = <<>>
        BY <3>4 DEF BreakerInv
      <4>2. q2 = <<>>
        BY <4>1
      <4> HIDE DEF q2
      <4> QED
        BY <3>1, <3>4, <4>2
    <3> QED
      BY <3>3, <3>4
  <2>3. record' \in [Keys -> Seq(Failures)]
    BY <2>1, <2>2
  <2>4. BreakerTyped'
    BY <2>1, <2>2, <2>3 DEF BreakerInv, BreakerTyped
  <2> QED
    BY <2>1, <2>2, <2>4 DEF BreakerInv
<1> QED
  BY <1>1, <1>2, <1>3, <1>4, FailureKeeps DEF Breaker!Next

\* Every step of the service keeps the circuit breaker's invariant.
LEMMA BreakerKeeps == BreakerInv /\ [Next]_vars => BreakerInv'
<1> SUFFICES ASSUME BreakerInv, [Next]_vars
             PROVE  BreakerInv'
  OBVIOUS
<1>1. CASE UNCHANGED breakerVars
  BY <1>1 DEF breakerVars, BreakerInv, BreakerTyped
<1>2. Breaker!Next \/ UNCHANGED breakerVars
  BY DEF Next, Others, vars
<1> QED
  BY <1>1, <1>2, BreakerStep

(***************************************************************************)
(* The theorems.                                                           *)
(***************************************************************************)

\* The inductive invariants of the parts hold together.
THEOREM Inductive == Spec => [](/\ HubInv /\ DispatchInv /\ ServeInv /\ SchemaInv
                                /\ ClientInv /\ GiteaInv /\ RegistryInv /\ BreakerInv)
  BY HubStart, HubKeeps, DispatchStart, DispatchKeeps, ServeStart, ServeKeeps, SchemaStart,
     SchemaStep, ClientStart, ClientKeeps, GiteaStart, GiteaKeeps, RegistryStart, RegistryKeeps,
     BreakerStart, BreakerKeeps, PTL DEF Spec

\* Hub.Run, handleWS and writePump: for any number of clients and messages and any capacities, no
\* client's channel is closed twice, and a connected client has been given every message
\* since it joined.
THEOREM StreamsKept == Spec => []StreamsSound
<1>1. HubInv => StreamsSound
  BY DEF HubInv, StreamsSound
<1> QED
  BY <1>1, Inductive, PTL

\* The deferred calls of both commands and the migrations of store.New: for any number of
\* workers, tasks, requests and openings, the databases are open as long as somebody
\* depends on them, and an opened one has all tables and columns.
THEOREM DatabasesKept == Spec => []DatabasesSound
<1>1. DispatchInv /\ ServeInv /\ SchemaInv => DatabasesSound
  BY TasksServed, RequestsServed, SchemaOpened DEF DatabasesSound
<1> QED
  BY <1>1, Inductive, PTL

\* The calls of the Gitea client and of the memory client, workerRegistry and CircuitBreaker,
\* for any number of requests, issues, labels, callers, workers and providers, any failures
\* and restarts, and any threshold and cooldown: what is reported as done holds until
\* somebody undoes it, no call fails over an old session, workers are listed as they
\* registered, and a provider is blocked for cause, and always for cause.
THEOREM ReportsKept == Spec => []ReportsHold
<1>1. ClientInv /\ GiteaInv /\ RegistryInv /\ BreakerInv => ReportsHold
  BY PromisesHold, ListTrue, BlockedTrue DEF ClientInv, ReportsHold
<1> QED
  BY <1>1, Inductive, PTL

\* The behaviours of all parts side by side are behaviours of Answers, where a step of another
\* part stutters: what AnswersKept says of the handlers that answer requests holds beside the
\* hub, the processes and the clients, too.
THEOREM AnswersPart == Spec => AnswersSpec
<1>1. Init => AnswersInit
  BY DEF Init
<1>2. [Next]_vars => [AnswersNext]_answersVars
  <2> SUFFICES ASSUME Next \/ UNCHANGED vars
               PROVE  AnswersNext \/ UNCHANGED answersVars
    OBVIOUS
  <2> QED
    BY DEF Next, Others, vars
<1> QED
  BY <1>1, <1>2, PTL DEF Spec, AnswersSpec

(***************************************************************************)
(* Autoscaler.  The policy's promises, for every choice of its bounds and  *)
(* durations, every size of the pool's channels and every sequence of      *)
(* orders: type correctness, the worker bounds, the cooldown, and the idle *)
(* time before a worker goes.                                              *)
(***************************************************************************)
\* What a decision still rests on when it is applied: the bound it was taken
\* within, a cooldown that is over, idle workers seen for long enough.
DecisionInv ==
    /\ evaluation = "scaling-up" => workers < MaxWorkers /\ sinceScale = CooldownAfterScale
    /\ evaluation = "scaling-down" => workers > MinWorkers /\ sinceScale = CooldownAfterScale
                                          /\ lull = IdleDuration
    /\ Scaler!Autonomous => ~hasIdleStart

\* The policy's clocks against what really happened.
ClockInv ==
    /\ quiet = sinceScale
    /\ Scaler!CoolingDown => ~hasIdleStart
    /\ hasIdleStart => idleFor <= lull

ScalerInv == Scaler!TypeOK /\ DecisionInv /\ ClockInv

\* The smaller of two numbers is at most each of them.
LEMMA SmallerOfNat ==
    ASSUME NEW a \in Nat, NEW b \in Nat
    PROVE  Scaler!Smaller(a, b) \in 0..b /\ Scaler!Smaller(a, b) <= a
  BY DEF Scaler!Smaller

\* What RemoveWorkers is left with keeps at least one worker and fits the channel.
LEMMA RemovableBounds ==
    ASSUME Scaler!TypeOK, NEW n \in Nat
    PROVE  /\ Scaler!Removable(n) \in Int /\ Scaler!Removable(n) >= 0 /\ Scaler!Removable(n) <= n
           /\ workers - Scaler!Removable(n) >= 1
           /\ quits + Scaler!Removable(n) <= QuitBuf
  BY ScalerAssumption DEF Scaler!TypeOK, Scaler!Removable, Scaler!Smaller,
                          Scaler!ScalingAssumption

\* The inductive invariant holds at the start.
LEMMA ScalerStart == Scaler!Init => ScalerInv
<1> SUFFICES ASSUME Scaler!Init PROVE ScalerInv
  OBVIOUS
<1> USE DEF Scaler!Init
<1>1. control \in [paused : BOOLEAN, manual : Targets \cup {0}]
  OBVIOUS
<1>2. quits \in 0..QuitBuf /\ depth \in 0..QueueCap /\ orders \in 0..MaxOrders
  BY ScalerAssumption DEF Scaler!ScalingAssumption
<1>3. Scaler!TypeOK
  <2>1. workers \in Nat \ {0} /\ busy \in Nat /\ memoryOK \in BOOLEAN
    BY ScalerAssumption DEF Scaler!ScalingAssumption
  <2>2. sinceScale \in 0..CooldownAfterScale /\ quiet \in 0..CooldownAfterScale
    BY ScalerAssumption DEF Scaler!ScalingAssumption
  <2>3. idleFor \in 0..IdleDuration /\ lull \in 0..IdleDuration
    BY ScalerAssumption DEF Scaler!ScalingAssumption
  <2>4. /\ hasIdleStart \in BOOLEAN
        /\ evaluation \in {"waiting", "evaluating", "scaling-up", "scaling-down"}
    OBVIOUS
  <2> HIDE DEF Scaler!Init
  <2> QED
    BY <1>1, <1>2, <2>1, <2>2, <2>3, <2>4 DEF Scaler!TypeOK
<1>4. DecisionInv /\ ClockInv
  BY ScalerAssumption DEF DecisionInv, ClockInv, Scaler!ScalingAssumption, Scaler!CoolingDown,
                          Scaler!Autonomous
<1> QED
  BY <1>3, <1>4 DEF ScalerInv

\* Every step keeps the inductive invariant.
LEMMA ScalerStep == ScalerInv /\ [Scaler!Next]_(Scaler!vars) => ScalerInv'
<1> SUFFICES ASSUME ScalerInv, [Scaler!Next]_(Scaler!vars) PROVE ScalerInv'
  OBVIOUS
<1> USE ScalerAssumption DEF Scaler!ScalingAssumption
<1>0. Scaler!TypeOK /\ DecisionInv /\ ClockInv
  BY DEF ScalerInv
<1>1. CASE Scaler!SubmitTask
  BY <1>0, <1>1 DEF Scaler!SubmitTask, ScalerInv, Scaler!TypeOK, DecisionInv, ClockInv,
                    Scaler!CoolingDown, Scaler!Autonomous, Scaler!policy, Scaler!history
<1>2. CASE Scaler!TakeTask
  BY <1>0, <1>2 DEF Scaler!TakeTask, ScalerInv, Scaler!TypeOK, DecisionInv, ClockInv,
                    Scaler!CoolingDown, Scaler!Autonomous, Scaler!policy, Scaler!history
<1>3. CASE Scaler!FinishTask
  BY <1>0, <1>3 DEF Scaler!FinishTask, ScalerInv, Scaler!TypeOK, DecisionInv, ClockInv,
                    Scaler!CoolingDown, Scaler!Autonomous, Scaler!policy, Scaler!history
<1>4. CASE Scaler!Pause \/ Scaler!Resume \/ \E n \in Targets : Scaler!Set(n)
  <2>1. PICK ordered \in [paused : BOOLEAN, manual : Targets \cup {0}] : Scaler!Order(ordered)
    BY <1>4 DEF Scaler!Pause, Scaler!Resume, Scaler!Set
  <2> QED
    BY <1>0, <2>1 DEF Scaler!Order, ScalerInv, Scaler!TypeOK, DecisionInv, ClockInv,
                      Scaler!CoolingDown, Scaler!Autonomous, Scaler!pool, Scaler!policy,
                      Scaler!history
<1>5. CASE Scaler!MemoryChanges
  BY <1>0, <1>5 DEF Scaler!MemoryChanges, ScalerInv, Scaler!TypeOK, DecisionInv, ClockInv,
                    Scaler!CoolingDown, Scaler!Autonomous, Scaler!pool, Scaler!policy,
                    Scaler!history
<1>6. CASE Scaler!Elapse
  <2>1. /\ sinceScale' \in 0..CooldownAfterScale /\ idleFor' \in 0..IdleDuration
        /\ quiet' \in 0..CooldownAfterScale /\ lull' \in 0..IdleDuration
    BY <1>0, <1>6 DEF Scaler!Elapse, Scaler!TypeOK, Scaler!Smaller
  <2>2. Scaler!TypeOK'
    BY <1>0, <1>6, <2>1 DEF Scaler!Elapse, Scaler!TypeOK, Scaler!pool
  <2>3. DecisionInv'
    BY <1>0, <1>6 DEF Scaler!Elapse, Scaler!TypeOK, DecisionInv, Scaler!Autonomous,
                      Scaler!Smaller, Scaler!pool
  <2>4. ClockInv'
    BY <1>0, <1>6 DEF Scaler!Elapse, Scaler!TypeOK, ClockInv, Scaler!CoolingDown,
                      Scaler!Smaller, Scaler!pool
  <2> QED
    BY <2>2, <2>3, <2>4 DEF ScalerInv
<1>7. CASE Scaler!ReadControl
  <2>1. /\ UNCHANGED <<memoryOK, control, orders, Scaler!policy, Scaler!history>>
        /\ evaluation = "waiting"
    BY <1>7 DEF Scaler!ReadControl
  <2>2. CASE evaluation' = "evaluating" /\ UNCHANGED Scaler!pool
    BY <1>0, <2>1, <2>2 DEF ScalerInv, Scaler!TypeOK, DecisionInv, ClockInv, Scaler!CoolingDown,
                            Scaler!Autonomous, Scaler!pool, Scaler!policy, Scaler!history
  <2>3. CASE UNCHANGED <<Scaler!pool, evaluation>>
    BY <1>0, <2>1, <2>3 DEF ScalerInv, Scaler!TypeOK, DecisionInv, ClockInv, Scaler!CoolingDown,
                            Scaler!Autonomous, Scaler!pool, Scaler!policy, Scaler!history
  <2>4. CASE Scaler!ApplyManualOverride(control.manual) /\ UNCHANGED evaluation
    <3> DEFINE n == control.manual
    <3>1. n \in Nat
      <4>1. n \in Targets \cup {0}
        BY <1>0 DEF Scaler!TypeOK
      <4>2. \A t \in Targets : t \in Nat
        BY ScalerAssumption DEF Scaler!ScalingAssumption
      <4>3. 0 \in Nat
        OBVIOUS
      <4> QED
        BY <4>1, <4>2, <4>3, Zenon
    <3>2. workers' \in Nat \ {0} /\ quits' \in 0..QuitBuf /\ UNCHANGED <<busy, depth>>
      <4>1. CASE n > workers
        BY <1>0, <2>4, <3>1, <4>1 DEF Scaler!ApplyManualOverride, Scaler!CanAdd, Scaler!Add,
                                      Scaler!TypeOK, Scaler!pool
      <4>2. CASE ~(n > workers)
        <5>1. workers - n \in Nat
          BY <1>0, <3>1, <4>2 DEF Scaler!TypeOK
        <5>2. Scaler!Remove(Scaler!Removable(workers - n))
          BY <2>4, <4>2 DEF Scaler!ApplyManualOverride
        <5> QED
          BY <1>0, <5>1, <5>2, RemovableBounds DEF Scaler!Remove, Scaler!TypeOK
      <4> QED
        BY <4>1, <4>2
    <3> QED
      BY <1>0, <2>1, <2>4, <3>2 DEF ScalerInv, Scaler!TypeOK, DecisionInv, ClockInv,
                                    Scaler!CoolingDown, Scaler!Autonomous, Scaler!policy,
                                    Scaler!history
  <2> QED
    BY <1>7, <2>2, <2>3, <2>4 DEF Scaler!ReadControl
<1>8. CASE Scaler!ControlUnreadable
  BY <1>0, <1>8 DEF Scaler!ControlUnreadable, ScalerInv, Scaler!TypeOK, DecisionInv, ClockInv,
                    Scaler!CoolingDown, Scaler!Autonomous, Scaler!pool, Scaler!policy,
                    Scaler!history
<1>9. CASE Scaler!HoldWhileCooling
  BY <1>0, <1>9 DEF Scaler!HoldWhileCooling, Scaler!Evaluating, Scaler!Sampled, ScalerInv,
                    Scaler!TypeOK, DecisionInv, ClockInv, Scaler!CoolingDown, Scaler!Autonomous,
                    Scaler!pool
<1>10. CASE Scaler!DecideUp
  <2>1. sinceScale = CooldownAfterScale
    BY <1>0, <1>10 DEF Scaler!DecideUp, Scaler!CoolingDown, Scaler!TypeOK
  <2>2. lull' \in 0..IdleDuration
    BY <1>0, <1>10 DEF Scaler!DecideUp, Scaler!Sampled, Scaler!TypeOK
  <2>3. Scaler!TypeOK'
    BY <1>0, <1>10, <2>2 DEF Scaler!DecideUp, Scaler!Evaluating, Scaler!TypeOK, Scaler!pool
  <2>4. DecisionInv' /\ ClockInv'
    BY <1>0, <1>10, <2>1 DEF Scaler!DecideUp, Scaler!Evaluating, Scaler!WantsMore,
                             Scaler!TypeOK, DecisionInv, ClockInv, Scaler!CoolingDown,
                             Scaler!Autonomous, Scaler!pool
  <2> QED
    BY <2>3, <2>4 DEF ScalerInv
<1>11. CASE Scaler!HoldWhileIdle
  BY <1>0, <1>11 DEF Scaler!HoldWhileIdle, Scaler!Evaluating, Scaler!Sampled, Scaler!IdleTime,
                     ScalerInv, Scaler!TypeOK, DecisionInv, ClockInv, Scaler!CoolingDown,
                     Scaler!Autonomous, Scaler!pool
<1>12. CASE Scaler!DecideDown
  <2>1. lull' = lull /\ Scaler!IdleTime \in 0..IdleDuration /\ Scaler!IdleTime <= lull
    BY <1>0, <1>12 DEF Scaler!DecideDown, Scaler!Sampled, Scaler!IdleTime, Scaler!TypeOK,
                       ClockInv
  <2>2. lull' = IdleDuration
    BY <1>0, <1>12, <2>1 DEF Scaler!DecideDown, Scaler!TypeOK
  <2> QED
    <3>1. sinceScale = CooldownAfterScale
      BY <1>0, <1>12 DEF Scaler!DecideDown, Scaler!CoolingDown, Scaler!TypeOK
    <3>2. Scaler!TypeOK'
      <4>1. lull' \in 0..IdleDuration
        BY <2>2
      <4> QED
        BY <1>0, <1>12, <4>1 DEF Scaler!DecideDown, Scaler!Evaluating, Scaler!TypeOK,
                                 Scaler!pool
    <3>3. DecisionInv' /\ ClockInv'
      BY <1>0, <1>12, <2>2, <3>1 DEF Scaler!DecideDown, Scaler!Evaluating, Scaler!EnoughIdle,
                                     Scaler!TypeOK, DecisionInv, ClockInv, Scaler!CoolingDown,
                                     Scaler!Autonomous, Scaler!pool
    <3> QED
      BY <3>2, <3>3 DEF ScalerInv
<1>13. CASE Scaler!HoldStable
  <2>1. lull' \in 0..IdleDuration
    BY <1>0, <1>13 DEF Scaler!HoldStable, Scaler!Sampled, Scaler!TypeOK
  <2>2. Scaler!TypeOK'
    BY <1>0, <1>13, <2>1 DEF Scaler!HoldStable, Scaler!Evaluating, Scaler!TypeOK, Scaler!pool
  <2>3. DecisionInv' /\ ClockInv'
    BY <1>0, <1>13 DEF Scaler!HoldStable, Scaler!Evaluating, DecisionInv, ClockInv,
                       Scaler!CoolingDown, Scaler!Autonomous, Scaler!pool
  <2> QED
    BY <2>2, <2>3 DEF ScalerInv
<1>14. CASE Scaler!ApplyUp
  BY <1>0, <1>14 DEF Scaler!ApplyUp, Scaler!Applying, Scaler!CanAdd, Scaler!Add, ScalerInv,
                     Scaler!TypeOK, DecisionInv, ClockInv, Scaler!CoolingDown,
                     Scaler!Autonomous, Scaler!pool
<1>15. CASE Scaler!ApplyDown
  <2>1. CASE Scaler!Removable(1) = 1
    <3>1. workers - 1 >= 1 /\ quits + 1 <= QuitBuf
      BY <1>0, <2>1, RemovableBounds
    <3> QED
      BY <1>0, <1>15, <2>1, <3>1 DEF Scaler!ApplyDown, Scaler!Applying, Scaler!Remove,
                                     ScalerInv, Scaler!TypeOK, DecisionInv, ClockInv,
                                     Scaler!CoolingDown, Scaler!Autonomous
  <2>2. CASE Scaler!Removable(1) # 1
    BY <1>0, <1>15, <2>2 DEF Scaler!ApplyDown, Scaler!Applying, ScalerInv, Scaler!TypeOK,
                             DecisionInv, ClockInv, Scaler!CoolingDown, Scaler!Autonomous,
                             Scaler!pool
  <2> QED
    BY <2>1, <2>2
<1>16. CASE UNCHANGED Scaler!vars
  BY <1>0, <1>16 DEF Scaler!vars, Scaler!pool, Scaler!policy, Scaler!history, ScalerInv,
                     Scaler!TypeOK, DecisionInv, ClockInv, Scaler!CoolingDown, Scaler!Autonomous
<1> QED
  BY <1>1, <1>2, <1>3, <1>4, <1>5, <1>6, <1>7, <1>8, <1>9, <1>10, <1>11, <1>12, <1>13, <1>14,
     <1>15, <1>16
  DEF Scaler!Next, Scaler!Tick, Scaler!Scale

\* The policy's clocks and decisions stay consistent with the pool, under any
\* interleaving of tasks, orders, time and evaluations (policy.go, autoscaler.go).
THEOREM ScalerInductive == Scaler!Spec => []ScalerInv
  BY ScalerStart, ScalerStep, PTL DEF Scaler!Spec

\* Every variable keeps its type; in particular the pool never loses its last
\* worker and the quit channel never holds more than it can.
THEOREM ScalerTypeCorrect == Scaler!Spec => []ScalerTypeOK
<1>1. ScalerInv => ScalerTypeOK
  BY DEF ScalerInv, ScalerTypeOK
<1> QED
  BY <1>1, ScalerInductive, PTL

\* Only the two apply steps change the target while a decision is being applied.
LEMMA AutonomousSteps ==
    ASSUME ScalerInv, [Scaler!Next]_(Scaler!vars), Scaler!Autonomous, workers' # workers
    PROVE  Scaler!ApplyUp \/ (Scaler!ApplyDown /\ Scaler!Removable(1) = 1)
<1>1. workers' = workers \/ Scaler!ApplyUp \/ Scaler!ApplyDown
  BY DEF Scaler!Next, Scaler!Tick, Scaler!Scale, Scaler!SubmitTask, Scaler!TakeTask,
         Scaler!FinishTask, Scaler!Pause, Scaler!Resume, Scaler!Set, Scaler!Order,
         Scaler!MemoryChanges, Scaler!Elapse, Scaler!ReadControl, Scaler!ControlUnreadable,
         Scaler!HoldWhileCooling, Scaler!DecideUp, Scaler!HoldWhileIdle, Scaler!DecideDown,
         Scaler!HoldStable, Scaler!Evaluating, Scaler!Autonomous, Scaler!pool, Scaler!vars
<1> QED
  BY <1>1 DEF Scaler!ApplyDown, Scaler!pool

\* No autonomous step takes the target out of the policy's bounds
\* (policy.go:183 and :214, autoscaler.go:199).
THEOREM BoundsKept == Scaler!Spec => ScalesWithinBounds
<1> USE ScalerAssumption DEF Scaler!ScalingAssumption
<1>1. ScalerInv /\ [Scaler!Next]_(Scaler!vars) =>
        [Scaler!Autonomous => /\ workers' > workers => workers' <= MaxWorkers
                              /\ workers' < workers => workers' >= MinWorkers]_(Scaler!vars)
  <2> SUFFICES ASSUME ScalerInv, [Scaler!Next]_(Scaler!vars), Scaler!Autonomous, workers' # workers
               PROVE  /\ workers' > workers => workers' <= MaxWorkers
                      /\ workers' < workers => workers' >= MinWorkers
    BY DEF ScalerInv, Scaler!TypeOK
  <2>1. CASE Scaler!ApplyUp
    BY <2>1 DEF Scaler!ApplyUp, Scaler!Applying, Scaler!CanAdd, Scaler!Add, ScalerInv,
                Scaler!TypeOK, Scaler!pool
  <2>2. CASE Scaler!ApplyDown /\ Scaler!Removable(1) = 1
    BY <2>2 DEF Scaler!ApplyDown, Scaler!Applying, Scaler!Remove, ScalerInv, Scaler!TypeOK,
                DecisionInv
  <2> QED
    BY <2>1, <2>2, AutonomousSteps
<1> QED
  BY <1>1, ScalerInductive, PTL DEF Scaler!Spec, ScalesWithinBounds, Scaler!ScalesWithinBounds

\* CooldownAfterScale passes between two autonomous changes (policy.go:169).
THEOREM CooldownKept == Scaler!Spec => CoolsDown
<1> USE ScalerAssumption DEF Scaler!ScalingAssumption
<1>1. ScalerInv /\ [Scaler!Next]_(Scaler!vars) =>
        [Scaler!Autonomous /\ workers' # workers => quiet >= CooldownAfterScale]_(Scaler!vars)
  <2> SUFFICES ASSUME ScalerInv, [Scaler!Next]_(Scaler!vars), Scaler!Autonomous, workers' # workers
               PROVE  quiet >= CooldownAfterScale
    OBVIOUS
  <2> QED
    BY AutonomousSteps DEF Scaler!ApplyUp, Scaler!ApplyDown, Scaler!Applying, ScalerInv,
                           Scaler!TypeOK, DecisionInv, ClockInv
<1> QED
  BY <1>1, ScalerInductive, PTL DEF Scaler!Spec, CoolsDown, Scaler!CoolsDown

\* A worker goes only after IdleDuration of evaluations that saw enough idle ones
\* (policy.go:214).
THEOREM IdleTimeKept == Scaler!Spec => IdleBeforeDown
<1> USE ScalerAssumption DEF Scaler!ScalingAssumption
<1>1. ScalerInv /\ [Scaler!Next]_(Scaler!vars) =>
        [Scaler!Autonomous /\ workers' < workers => lull >= IdleDuration]_(Scaler!vars)
  <2> SUFFICES ASSUME ScalerInv, [Scaler!Next]_(Scaler!vars), Scaler!Autonomous, workers' < workers
               PROVE  lull >= IdleDuration
    OBVIOUS
  <2>1. workers' # workers
    BY DEF ScalerInv, Scaler!TypeOK
  <2>2. CASE Scaler!ApplyUp
    BY <2>2 DEF Scaler!ApplyUp, Scaler!Applying, Scaler!Add, ScalerInv, Scaler!TypeOK,
                Scaler!pool
  <2>3. CASE Scaler!ApplyDown
    BY <2>3 DEF Scaler!ApplyDown, Scaler!Applying, ScalerInv, Scaler!TypeOK, DecisionInv
  <2> QED
    BY <2>1, <2>2, <2>3, AutonomousSteps
<1> QED
  BY <1>1, ScalerInductive, PTL DEF Scaler!Spec, IdleBeforeDown, Scaler!IdleBeforeDown

(***************************************************************************)
(* Providers.  The health monitor's promises, for any providers, hosts and *)
(* chains, and any interval, duration of a round and cooldown.  A verdict  *)
(* is as old as the round that found it: without a tick that waits, the    *)
(* round has begun since the last one, and a round that begins finds       *)
(* verdicts no older than the longer of an interval and a round.           *)
(***************************************************************************)
Longest == Monitor!Larger(Interval, RoundLimit)

Tasks == [at : {"queued", "offered", "fit", "claimed", "asked", "done", "human"},
          p : Providers \cup {NoHost}, age : Nat, start : Nat, silent : Nat,
          begun : BOOLEAN, second : BOOLEAN]

Rounds == [at : {"idle", "list", "write"}, todo : SUBSET Providers, found : SUBSET Providers,
           age : Nat]

MonitorTyped ==
    /\ up \subseteq Hosts /\ downFor \in [Hosts -> Nat]
    /\ health \in [Providers -> {"unknown", "healthy", "unhealthy"}]
    /\ probe \in Rounds
    /\ phase \in 0 .. Interval - 1 /\ due \in BOOLEAN

TasksTyped == issue \in [Chores -> Tasks]

\* A round that has begun since the last tick is no older than that tick.
RoundInv ==
    /\ probe.age <= RoundLimit
    /\ probe.at # "idle" /\ ~due => probe.age <= phase

\* How long a host that was found healthy may have been silent: since the round under way
\* for what that round has found or written, one round longer for what is still to do.
Age(p) == IF HostOf[p] = NoHost THEN 0 ELSE downFor[HostOf[p]]

VerdictInv ==
    /\ \A h \in up : downFor[h] = 0
    /\ probe.at # "idle" => \A p \in probe.found : Age(p) <= probe.age
    /\ \A p \in Providers : health[p] = "healthy" =>
         /\ probe.at = "idle" => Age(p) <= IF due THEN Longest ELSE phase
         /\ probe.at = "list" => Age(p) <= Longest + probe.age
         /\ probe.at = "write" /\ p \notin probe.todo => Age(p) <= probe.age

\* A packet that was sent was recorded, so that the record is the younger one.
SpacingInv ==
    /\ lastSent \in [Hosts -> 0 .. WakeCooldown] /\ calm \in [Hosts -> 0 .. WakeCooldown]
    /\ \A h \in Hosts : lastSent[h] <= calm[h]

MonitorInv == MonitorTyped /\ TasksTyped /\ RoundInv /\ VerdictInv /\ SpacingInv

\* The bounds are numbers, and a provider's host is a host.
LEMMA MonitorBounds ==
    /\ Interval \in Nat /\ Interval > 0 /\ RoundLimit \in Nat /\ RoundLimit > 0
    /\ WakeCooldown \in Nat /\ WakeCooldown > 0
    /\ Longest \in Nat /\ Interval <= Longest /\ RoundLimit <= Longest
    /\ Monitor!Freshness = RoundLimit + Longest
    /\ HostOf \in [Providers -> Hosts \cup {NoHost}] /\ NoHost \notin Providers \cup Hosts
    /\ WakeTarget \in [Providers -> Hosts \cup {NoHost}]
<1>1. {Interval, RoundLimit, WakeCooldown} \subseteq Nat \ {0}
  BY MonitorAssumption DEF Monitor!ProviderAssumption
<1> QED
  BY <1>1, MonitorAssumption
  DEF Monitor!ProviderAssumption, Longest, Monitor!Larger, Monitor!Freshness

\* How long a provider's host has been silent is a number.
LEMMA AgeCounted == ASSUME MonitorTyped, NEW p \in Providers PROVE Age(p) \in Nat
  BY MonitorBounds DEF MonitorTyped, Age

\* Before the first round is over nothing is known, and nothing has been sent.
LEMMA MonitorStart == Monitor!Init => MonitorInv
<1> SUFFICES ASSUME Monitor!Init PROVE MonitorInv
  OBVIOUS
<1> USE MonitorBounds
<1>1. probe \in Rounds /\ probe.at = "list" /\ probe.found = {} /\ probe.age = 0
  BY DEF Monitor!Init, Monitor!NoRound, Rounds
<1>2. /\ up = Hosts /\ downFor = [h \in Hosts |-> 0] /\ phase = 0 /\ due = FALSE
      /\ health = [p \in Providers |-> "unknown"]
  BY DEF Monitor!Init
<1>3. MonitorTyped /\ RoundInv /\ VerdictInv
  <2>1. MonitorTyped
    <3>1. downFor \in [Hosts -> Nat] /\ health \in [Providers -> {"unknown", "healthy", "unhealthy"}]
      BY <1>2
    <3>2. phase \in 0 .. Interval - 1
      BY <1>2
    <3>3. up \subseteq Hosts /\ due \in BOOLEAN
      BY <1>2
    <3> QED
      BY <1>1, <3>1, <3>2, <3>3 DEF MonitorTyped
  <2>2. RoundInv
    BY <1>1, <1>2 DEF RoundInv
  <2>3. \A p \in Providers : health[p] # "healthy"
    BY <1>2
  <2>4. \A h \in up : downFor[h] = 0
    BY <1>2
  <2> QED
    BY <1>1, <2>1, <2>2, <2>3, <2>4 DEF VerdictInv
<1>4. TasksTyped
  BY DEF Monitor!Init, TasksTyped, Tasks, Monitor!Queued
<1>5. SpacingInv
  BY DEF Monitor!Init, SpacingInv
<1> QED
  BY <1>3, <1>4, <1>5 DEF MonitorInv

(***************************************************************************)
(* The tasks: only the health gate makes an issue fit.                     *)
(***************************************************************************)
Gated == \A i \in Chores : issue[i].at = "offered" /\ issue'[i].at = "fit" => Monitor!PassHealth(i)

\* An issue that is put somewhere else, with a request or without one.
LEMMA TaskMoves ==
    ASSUME TasksTyped, NEW i \in Chores, NEW t \in Tasks, issue' = [issue EXCEPT ![i] = t],
           t.at = "fit" => issue[i].at # "offered" \/ Monitor!PassHealth(i)
    PROVE  TasksTyped' /\ Gated
  BY DEF TasksTyped, Gated

LEMMA TaskPlaced ==
    ASSUME TasksTyped, NEW i \in Chores,
           NEW place \in {"queued", "offered", "fit", "claimed", "done", "human"},
           Monitor!Place(i, place),
           place = "fit" => Monitor!PassHealth(i)
    PROVE  TasksTyped' /\ Gated
<1> DEFINE t == [Monitor!Queued EXCEPT !.at = place]
<1>1. t \in Tasks /\ t.at = place
  BY DEF Tasks, Monitor!Queued
<1>2. issue' = [issue EXCEPT ![i] = t]
  BY DEF Monitor!Place
<1> HIDE DEF t
<1> QED
  BY <1>1, <1>2, TaskMoves

LEMMA TaskAsks ==
    ASSUME TasksTyped, NEW i \in Chores, NEW p \in Providers, NEW age \in Nat,
           NEW second \in BOOLEAN, Monitor!Ask(i, p, age, second)
    PROVE  TasksTyped' /\ Gated
<1> DEFINE t == [Monitor!Queued EXCEPT !.at = "asked", !.p = p, !.age = age, !.start = age,
                                       !.second = second]
<1>1. t \in Tasks /\ t.at = "asked"
  BY DEF Tasks, Monitor!Queued
<1>2. issue' = [issue EXCEPT ![i] = t]
  BY DEF Monitor!Ask
<1> HIDE DEF t
<1> QED
  BY <1>1, <1>2, TaskMoves

LEMMA TaskFails ==
    ASSUME TasksTyped, NEW i \in Chores, NEW error, Monitor!Failed(i, error)
    PROVE  TasksTyped' /\ Gated
<1>1. \E place \in {"queued", "human"} : Monitor!Place(i, place)
  BY DEF Monitor!Failed
<1> QED
  BY <1>1, TaskPlaced

\* A set of numbers has a least member.
LEMMA LeastMember ==
    ASSUME NEW S \in SUBSET Nat, S # {}
    PROVE  \E n \in S : \A k \in S : n <= k
<1>1. PICK n \in S : \A k \in S : <<k, n>> \notin OpToRel(<, Nat)
  BY NatLessThanWellFounded, WFMin
<1>2. \A k \in S : ~(k < n)
  BY <1>1 DEF OpToRel
<1> QED
  BY <1>2

\* The providers that are asked are providers.
LEMMA ChainOf ==
    ASSUME NEW key
    PROVE  Monitor!Chain(key) \in Seq(Providers)
  BY MonitorAssumption DEF Monitor!ProviderAssumption, Monitor!Chain

LEMMA FirstOf ==
    ASSUME NEW q \in Seq(Providers), NEW S \in SUBSET DOMAIN q, S # {}
    PROVE  q[Monitor!First(S)] \in Providers
<1>1. S \in SUBSET Nat
  OBVIOUS
<1>2. Monitor!First(S) \in S
  BY <1>1, LeastMember DEF Monitor!First
<1> QED
  BY <1>2

LEMMA ResolvedIn == ASSUME NEW key PROVE Monitor!Resolve(key) \in Providers \cup {NoHost}
<1> DEFINE own == Monitor!Fit(Monitor!Chain(key))
           fallback == Monitor!Fit(Chains["default"])
<1>1. Chains["default"] \in Seq(Providers)
  BY MonitorAssumption DEF Monitor!ProviderAssumption
<1>2. own \in SUBSET DOMAIN Monitor!Chain(key) /\ fallback \in SUBSET DOMAIN Chains["default"]
  BY DEF Monitor!Fit
<1>3. own # {} => Monitor!Chain(key)[Monitor!First(own)] \in Providers
  BY <1>2, ChainOf, FirstOf
<1>4. fallback # {} => Chains["default"][Monitor!First(fallback)] \in Providers
  BY <1>1, <1>2, FirstOf
<1> QED
  BY <1>3, <1>4 DEF Monitor!Resolve

LEMMA NextIn == ASSUME NEW key, NEW p PROVE Monitor!After(key, p) \in Providers \cup {NoHost}
<1> DEFINE chain == Monitor!Chain(key)
           here == {n \in DOMAIN chain : chain[n] = p}
           next == {n \in Monitor!Fit(chain) : here # {} /\ n > Monitor!First(here)}
<1>1. next \in SUBSET DOMAIN chain
  BY DEF Monitor!Fit
<1>2. next # {} => chain[Monitor!First(next)] \in Providers
  BY <1>1, ChainOf, FirstOf
<1>3. Monitor!After(key, p) = IF next = {} THEN NoHost ELSE chain[Monitor!First(next)]
  BY DEF Monitor!After
<1> QED
  BY <1>2, <1>3

LEMMA TaskGivesUp ==
    ASSUME TasksTyped, NEW i \in Chores, issue[i].at = "asked", NEW error, NEW retryable,
           Monitor!GiveUp(i, error, retryable)
    PROVE  TasksTyped' /\ Gated
<1> DEFINE next == Monitor!After(ChainKey[i], issue[i].p)
<1>1. issue[i].age \in Nat
  BY DEF TasksTyped, Tasks
<1>2. next \in Providers \cup {NoHost}
  BY NextIn
<1>3. CASE next # NoHost /\ Monitor!Ask(i, next, issue[i].age, TRUE)
  BY <1>1, <1>2, <1>3, TaskAsks
<1>4. CASE Monitor!Failed(i, error)
  BY <1>4, TaskFails
<1> QED
  BY <1>3, <1>4 DEF Monitor!GiveUp

\* Every step keeps the types of the tasks, and only the health gate lets an offered one pass.
LEMMA TasksKeep == TasksTyped /\ [Monitor!Next]_(Monitor!vars) => TasksTyped' /\ Gated
<1> SUFFICES ASSUME TasksTyped, [Monitor!Next]_(Monitor!vars)
             PROVE  TasksTyped' /\ Gated
  OBVIOUS
<1>1. CASE UNCHANGED issue
  BY <1>1 DEF TasksTyped, Gated
<1>2. CASE Monitor!Tick
  <2> DEFINE aged(i) == [issue[i] EXCEPT !.age = @ + 1]
             older(i) == [aged(i) EXCEPT
                           !.silent = IF Kind[issue[i].p] = "claude-cli" THEN @ + 1 ELSE 0]
  <2>1. \A i \in Chores : older(i) \in Tasks /\ older(i).at = issue[i].at
    <3> SUFFICES ASSUME NEW i \in Chores
                 PROVE  older(i) \in Tasks /\ older(i).at = issue[i].at
      OBVIOUS
    <3>1. aged(i) \in Tasks /\ aged(i).at = issue[i].at
      BY DEF TasksTyped, Tasks
    <3> HIDE DEF aged
    <3> QED
      BY <3>1 DEF Tasks
  <2>2. issue' = [i \in Chores |-> IF issue[i].at = "asked" THEN older(i) ELSE issue[i]]
    BY <1>2 DEF Monitor!Tick, Monitor!At
  <2> HIDE DEF older
  <2> QED
    BY <2>1, <2>2 DEF TasksTyped, Gated
<1>3. ASSUME NEW i \in Chores, Monitor!Offer(i) \/ Monitor!Route(i) PROVE TasksTyped' /\ Gated
  <2>1. CASE Monitor!PassHealth(i)
    <3>1. Monitor!Place(i, "fit")
      BY <2>1 DEF Monitor!PassHealth
    <3> QED
      BY <2>1, <3>1, TaskPlaced
  <2>2. CASE Monitor!Offer(i) \/ Monitor!Defer(i)
    <3>1. \E place \in {"queued", "offered"} : Monitor!Place(i, place)
      BY <2>2 DEF Monitor!Offer, Monitor!Defer
    <3> QED
      BY <3>1, TaskPlaced
  <2> QED
    BY <1>3, <2>1, <2>2 DEF Monitor!Route
<1>4. ASSUME NEW i \in Chores, Monitor!PassBudget(i) PROVE TasksTyped' /\ Gated
  <2>1. \E place \in {"queued", "claimed"} : Monitor!Place(i, place)
    BY <1>4 DEF Monitor!PassBudget
  <2> QED
    BY <2>1, TaskPlaced
<1>5. ASSUME NEW i \in Chores, Monitor!Serve(i) PROVE TasksTyped' /\ Gated
  <2>1. CASE Monitor!Failed(i, {"no healthy provider"})
    BY <2>1, TaskFails
  <2>2. CASE /\ Monitor!Resolve(ChainKey[i]) # NoHost
             /\ Monitor!Ask(i, Monitor!Resolve(ChainKey[i]), 0, FALSE)
    BY <2>2, ResolvedIn, TaskAsks
  <2> QED
    BY <1>5, <2>1, <2>2 DEF Monitor!Serve
<1>6. ASSUME NEW i \in Chores, Monitor!Output(i) PROVE TasksTyped' /\ Gated
  <2> DEFINE t1 == [issue[i] EXCEPT !.begun = TRUE]
             t2 == [t1 EXCEPT !.silent = 0]
  <2>1. t2 \in Tasks /\ t2.at = issue[i].at
    BY DEF TasksTyped, Tasks
  <2>2. issue' = [issue EXCEPT ![i] = t2]
    BY <1>6 DEF Monitor!Output, TasksTyped
  <2>3. issue[i].at = "asked"
    BY <1>6 DEF Monitor!Output, Monitor!At
  <2> HIDE DEF t2
  <2> QED
    BY <2>1, <2>2, <2>3, TaskMoves
<1>7. ASSUME NEW i \in Chores, Monitor!Answer(i) PROVE TasksTyped' /\ Gated
  BY <1>7, TaskPlaced DEF Monitor!Answer
<1>8. ASSUME NEW i \in Chores, Monitor!Expire(i) \/ Monitor!Refuse(i)
      PROVE  TasksTyped' /\ Gated
  <2>1. issue[i].at = "asked"
    BY <1>8 DEF Monitor!Expire, Monitor!Expired, Monitor!Refuse, Monitor!At
  <2>2. \E error, retryable : Monitor!GiveUp(i, error, retryable)
    BY <1>8 DEF Monitor!Expire, Monitor!Refuse
  <2> QED
    BY <2>1, <2>2, TaskGivesUp
<1>9. ASSUME NEW i \in Chores, Monitor!Reject(i) PROVE TasksTyped' /\ Gated
  BY <1>9, TaskFails DEF Monitor!Reject
<1>10. ASSUME NEW p \in Providers, Monitor!Check(p) \/ Monitor!Write(p) PROVE UNCHANGED issue
  BY <1>10 DEF Monitor!Check, Monitor!Write, Monitor!taskVars
<1>11. ASSUME NEW h \in Hosts, Monitor!GoDown(h) \/ Monitor!ComeUp(h) PROVE UNCHANGED issue
  BY <1>11 DEF Monitor!GoDown, Monitor!ComeUp, Monitor!taskVars
<1>12. CASE Monitor!BeginRound
  BY <1>1, <1>12 DEF Monitor!BeginRound, Monitor!taskVars
<1>13. CASE UNCHANGED Monitor!vars
  BY <1>1, <1>13 DEF Monitor!vars, Monitor!taskVars
<1> QED
  BY <1>1, <1>2, <1>3, <1>4, <1>5, <1>6, <1>7, <1>8, <1>9, <1>10, <1>11, <1>12, <1>13
  DEF Monitor!Next

(***************************************************************************)
(* The monitor.                                                            *)
(***************************************************************************)
CacheInv == MonitorTyped /\ RoundInv /\ VerdictInv

\* The steps of the tasks leave the monitor alone.
LEMMA CacheKept ==
    ASSUME CacheInv, UNCHANGED Monitor!hostVars, UNCHANGED Monitor!cacheVars
    PROVE  CacheInv'
  BY DEF CacheInv, MonitorTyped, RoundInv, VerdictInv, Age, Monitor!hostVars, Monitor!cacheVars

\* Time passes: verdicts, rounds and the ticker grow older together.
LEMMA TickKeeps == CacheInv /\ Monitor!Tick => CacheInv'
<1> SUFFICES ASSUME CacheInv, Monitor!Tick PROVE CacheInv'
  OBVIOUS
<1> USE MonitorBounds
<1> DEFINE mode == probe.at
           age == probe.age
<1>1. mode \in {"idle", "list", "write"} /\ age \in Nat /\ phase \in 0 .. Interval - 1 /\ due \in BOOLEAN
  BY DEF CacheInv, MonitorTyped, Rounds
<1>2. /\ probe'.at = mode /\ probe'.todo = probe.todo /\ probe'.found = probe.found
      /\ probe'.age = (IF mode = "idle" THEN 0 ELSE age + 1)
      /\ probe' \in Rounds
  <2>1. probe' = [probe EXCEPT !.age = IF probe.at = "idle" THEN 0 ELSE @ + 1]
    BY DEF Monitor!Tick
  <2> QED
    BY <2>1, <1>1 DEF CacheInv, MonitorTyped, Rounds
<1>3. /\ ~(mode = "idle" /\ due) /\ (mode # "idle" => age < RoundLimit)
      /\ phase' = (IF phase + 1 = Interval THEN 0 ELSE phase + 1)
      /\ due' = (due \/ phase + 1 = Interval)
      /\ up' = up /\ health' = health
  BY DEF Monitor!Tick
<1>4. phase' \in 0 .. Interval - 1 /\ due' \in BOOLEAN /\ (~due' => phase' = phase + 1 /\ ~due)
  <2> HIDE DEF mode, age
  <2>1. CASE phase + 1 = Interval
    <3>1. due' = TRUE
      BY <1>3, <2>1
    <3> QED
      BY <1>1, <1>3, <2>1, <3>1
  <2>2. CASE phase + 1 # Interval
    <3>1. due' = due
      BY <1>1, <1>3, <2>2
    <3> QED
      BY <1>1, <1>3, <2>2, <3>1
  <2> QED
    BY <2>1, <2>2
<1>5. \A h \in Hosts : /\ downFor'[h] \in Nat /\ downFor'[h] <= downFor[h] + 1
                       /\ h \in up => downFor'[h] = 0
  <2>1. downFor' = [h \in Hosts |->
                      IF h \in up THEN 0 ELSE Monitor!Older(downFor[h], Monitor!Freshness + 1)]
    BY DEF Monitor!Tick
  <2>2. \A h \in Hosts : downFor[h] \in Nat
    BY DEF CacheInv, MonitorTyped
  <2> QED
    BY <2>1, <2>2 DEF Monitor!Older, Monitor!Smaller
<1>6. downFor' \in [Hosts -> Nat]
  <2>1. downFor' = [h \in Hosts |->
                      IF h \in up THEN 0 ELSE Monitor!Older(downFor[h], Monitor!Freshness + 1)]
    BY DEF Monitor!Tick
  <2> QED
    BY <1>5, <2>1
<1>7. MonitorTyped'
  BY <1>2, <1>3, <1>4, <1>5, <1>6 DEF CacheInv, MonitorTyped
<1>8. \A p \in Providers : Age(p)' \in Nat /\ Age(p) \in Nat /\ Age(p)' <= Age(p) + 1
  BY <1>5, AgeCounted DEF CacheInv, MonitorTyped, Age
<1>9. RoundInv'
  <2>1. age <= RoundLimit /\ (mode # "idle" /\ ~due => age <= phase)
    BY DEF CacheInv, RoundInv
  <2>2. probe'.age <= RoundLimit /\ (mode # "idle" /\ ~due' => probe'.age <= phase')
    BY <2>1, <1>1, <1>2, <1>3, <1>4
  <2> QED
    BY <2>2, <1>2 DEF RoundInv
<1>10. VerdictInv'
  <2>1. \A h \in up' : downFor'[h] = 0
    BY <1>3, <1>5 DEF CacheInv, MonitorTyped
  <2>2. ASSUME mode # "idle", NEW p \in probe.found PROVE Age(p)' <= probe'.age
    <3>1. p \in Providers /\ Age(p) <= age
      BY <2>2 DEF CacheInv, VerdictInv, MonitorTyped, Rounds
    <3>2. probe'.age = age + 1
      BY <1>2, <2>2
    <3> HIDE DEF age
    <3> QED
      BY <1>1, <1>8, <3>1, <3>2
  <2>3. ASSUME NEW p \in Providers, health[p] = "healthy"
        PROVE  /\ mode = "idle" => Age(p)' <= IF due' THEN Longest ELSE phase'
               /\ mode = "list" => Age(p)' <= Longest + probe'.age
               /\ mode = "write" /\ p \notin probe.todo => Age(p)' <= probe'.age
    <3>1. /\ mode = "idle" => Age(p) <= IF due THEN Longest ELSE phase
          /\ mode = "list" => Age(p) <= Longest + age
          /\ mode = "write" /\ p \notin probe.todo => Age(p) <= age
      BY <2>3 DEF CacheInv, VerdictInv
    <3>2. Age(p)' \in Nat /\ Age(p) \in Nat /\ Age(p)' <= Age(p) + 1
      BY <1>8
    <3> HIDE DEF age, mode
    <3>3. ASSUME mode = "idle" PROVE Age(p)' <= IF due' THEN Longest ELSE phase'
      <4>1. ~due /\ Age(p) <= phase
        BY <3>1, <3>3, <1>3 DEF mode
      <4> QED
        BY <4>1, <3>2, <1>1, <1>3, <1>4
    <3>4. ASSUME mode # "idle" PROVE probe'.age = age + 1
      BY <3>4, <1>2
    <3> QED
      BY <1>1, <3>1, <3>2, <3>3, <3>4
  <2> QED
    BY <2>1, <2>2, <2>3, <1>2, <1>3 DEF VerdictInv
<1> QED
  BY <1>7, <1>9, <1>10 DEF CacheInv

\* A round begins with what the round before found.
LEMMA RoundBegins == CacheInv /\ Monitor!BeginRound => CacheInv'
<1> SUFFICES ASSUME CacheInv, Monitor!BeginRound PROVE CacheInv'
  OBVIOUS
<1> USE MonitorBounds
<1>1. /\ probe.at = "idle" /\ due /\ due' = FALSE /\ phase' = phase
      /\ up' = up /\ downFor' = downFor /\ health' = health
  BY DEF Monitor!BeginRound, Monitor!hostVars
<1>2. probe' = [at |-> "list", todo |-> Providers, found |-> {}, age |-> 0]
  BY DEF Monitor!BeginRound, Monitor!NoRound
<1>3. MonitorTyped'
  BY <1>1, <1>2 DEF CacheInv, MonitorTyped, Rounds
<1>4. RoundInv'
  BY <1>1, <1>2 DEF CacheInv, MonitorTyped, RoundInv
<1>5. \A p \in Providers : Age(p)' = Age(p)
  BY <1>1 DEF Age
<1>6. \A p \in Providers : health[p] = "healthy" => Age(p) <= Longest
  BY <1>1 DEF CacheInv, VerdictInv
<1>7. VerdictInv'
  BY <1>1, <1>2, <1>5, <1>6, AgeCounted DEF CacheInv, VerdictInv
<1> QED
  BY <1>3, <1>4, <1>7 DEF CacheInv

\* What a round finds answers at that moment.
LEMMA CheckKeeps == ASSUME CacheInv, NEW p \in Providers, Monitor!Check(p) PROVE CacheInv'
<1> USE MonitorBounds
<1> DEFINE left == probe.todo \ {p}
           r1 == [probe EXCEPT !.at = IF left = {} THEN "write" ELSE "list"]
           r2 == [r1 EXCEPT !.todo = IF left = {} THEN Providers ELSE left]
           r3 == [r2 EXCEPT !.found = IF Monitor!Healthy(p) THEN @ \cup {p} ELSE @]
<1>1. /\ probe.at = "list" /\ due' = due /\ phase' = phase
      /\ up' = up /\ downFor' = downFor /\ health' = health
  BY DEF Monitor!Check, Monitor!hostVars
<1>2. probe \in Rounds
  BY DEF CacheInv, MonitorTyped
<1>3. r1 \in Rounds /\ r1.found = probe.found /\ r1.age = probe.age /\ r1.at \in {"write", "list"}
      /\ (r1.at = "write" => left = {})
  BY <1>2 DEF Rounds
<1>4. /\ r2 \in Rounds /\ r2.found = probe.found /\ r2.age = probe.age /\ r2.at = r1.at
      /\ (left = {} => r2.todo = Providers)
  <2> HIDE DEF r1
  <2>1. left \subseteq Providers
    BY <1>2 DEF Rounds
  <2> QED
    BY <1>3, <2>1 DEF Rounds
<1>5. /\ r3 \in Rounds /\ r3.age = probe.age /\ r3.at = r1.at /\ r3.todo = r2.todo
      /\ r3.found = IF Monitor!Healthy(p) THEN probe.found \cup {p} ELSE probe.found
  <2> HIDE DEF r2
  <2> QED
    BY <1>4 DEF Rounds
<1>6. probe' = r3
  BY DEF Monitor!Check
<1> HIDE DEF r3
<1>7. /\ probe' \in Rounds /\ probe'.age = probe.age
      /\ probe'.at = "list" \/ (probe'.at = "write" /\ probe'.todo = Providers)
      /\ probe'.found = IF Monitor!Healthy(p) THEN probe.found \cup {p} ELSE probe.found
  BY <1>3, <1>4, <1>5, <1>6
<1> HIDE DEF left, r1, r2
<1>8. MonitorTyped'
  BY <1>1, <1>7 DEF CacheInv, MonitorTyped
<1>9. RoundInv'
  BY <1>1, <1>7 DEF CacheInv, RoundInv
<1>10. \A q \in Providers : Age(q)' = Age(q)
  BY <1>1 DEF Age
<1>11. Monitor!Healthy(p) => Age(p) <= probe.age
  BY <1>2 DEF Monitor!Healthy, Age, CacheInv, VerdictInv, Rounds
<1>12. \A q \in probe'.found : q \in Providers /\ Age(q)' <= probe'.age
  BY <1>1, <1>2, <1>7, <1>10, <1>11 DEF CacheInv, VerdictInv, Rounds
<1>13. VerdictInv'
  BY <1>1, <1>7, <1>10, <1>12 DEF CacheInv, VerdictInv
<1> QED
  BY <1>8, <1>9, <1>13 DEF CacheInv

\* What a round writes it has found.
LEMMA WriteKeeps == ASSUME CacheInv, NEW p \in Providers, Monitor!Write(p) PROVE CacheInv'
<1> USE MonitorBounds
<1> DEFINE r == [probe EXCEPT !.todo = @ \ {p}]
<1>1. /\ probe.at = "write" /\ p \in probe.todo /\ due' = due /\ phase' = phase
      /\ up' = up /\ downFor' = downFor
      /\ health' = [health EXCEPT ![p] = Monitor!Verdict(p)]
  BY DEF Monitor!Write
<1>2. probe \in Rounds /\ probe.age \in Nat /\ probe.found \subseteq Providers
  BY DEF CacheInv, MonitorTyped, Rounds
<1>3. r \in Rounds /\ r.at = "write" /\ r.age = probe.age /\ r.found = probe.found
      /\ r.todo = probe.todo \ {p}
  BY <1>1, <1>2 DEF Rounds
<1>4. probe' = IF probe.todo = {p} THEN [at |-> "idle", todo |-> {}, found |-> {}, age |-> 0] ELSE r
  BY DEF Monitor!Write, Monitor!NoRound
<1> HIDE DEF r
<1>5. \A q \in Providers : Age(q)' = Age(q) /\ Age(q) \in Nat
  BY <1>1, AgeCounted DEF Age, CacheInv
<1>6. health' \in [Providers -> {"unknown", "healthy", "unhealthy"}]
  BY <1>1 DEF CacheInv, MonitorTyped, Monitor!Verdict
<1>7. \A q \in Providers : health'[q] = "healthy" /\ q \notin probe.todo \ {p} => Age(q) <= probe.age
  <2>1. health'[p] = "healthy" => p \in probe.found
    BY <1>1 DEF CacheInv, MonitorTyped, Monitor!Verdict
  <2>2. \A q \in Providers : q # p => health'[q] = health[q]
    BY <1>1 DEF CacheInv, MonitorTyped
  <2>3. \A q \in probe.found : Age(q) <= probe.age
    BY <1>1 DEF CacheInv, VerdictInv
  <2> QED
    BY <1>1, <2>1, <2>2, <2>3 DEF CacheInv, VerdictInv
<1>8. probe.age <= RoundLimit /\ (~due => probe.age <= phase) /\ phase \in Nat
  BY <1>1 DEF CacheInv, RoundInv, MonitorTyped
<1>9. CASE probe.todo = {p}
  <2>1. probe' = [at |-> "idle", todo |-> {}, found |-> {}, age |-> 0]
    BY <1>4, <1>9
  <2>2. MonitorTyped'
    BY <1>1, <1>6, <2>1 DEF CacheInv, MonitorTyped, Rounds
  <2>3. RoundInv'
    BY <2>1 DEF RoundInv
  <2>4. \A q \in Providers : health'[q] = "healthy" => Age(q) <= IF due THEN Longest ELSE phase
    BY <1>2, <1>5, <1>7, <1>8, <1>9
  <2>5. VerdictInv'
    BY <1>1, <1>5, <2>1, <2>4 DEF CacheInv, VerdictInv
  <2> QED
    BY <2>2, <2>3, <2>5 DEF CacheInv
<1>10. CASE probe.todo # {p}
  <2>1. probe' = r
    BY <1>4, <1>10
  <2>2. MonitorTyped'
    BY <1>1, <1>3, <1>6, <2>1 DEF CacheInv, MonitorTyped
  <2>3. RoundInv'
    BY <1>1, <1>3, <2>1 DEF CacheInv, RoundInv
  <2>4. VerdictInv'
    BY <1>1, <1>2, <1>3, <1>5, <1>7, <2>1 DEF CacheInv, VerdictInv
  <2> QED
    BY <2>2, <2>3, <2>4 DEF CacheInv
<1> QED
  BY <1>9, <1>10

\* A host that goes down was up until now.
LEMMA HostKeeps ==
    ASSUME CacheInv, NEW h \in Hosts, Monitor!GoDown(h) \/ Monitor!ComeUp(h)
    PROVE  CacheInv'
<1> USE MonitorBounds
<1>1. UNCHANGED <<health, probe, phase, due>>
  BY DEF Monitor!GoDown, Monitor!ComeUp, Monitor!cacheVars
<1>2. downFor' = downFor \/ downFor' = [downFor EXCEPT ![h] = 0]
  BY DEF Monitor!GoDown, Monitor!ComeUp
<1>3. up' \subseteq Hosts /\ \A g \in up' : g \in up \/ (g = h /\ downFor'[h] = 0)
  BY DEF Monitor!GoDown, Monitor!ComeUp, CacheInv, MonitorTyped
<1>4. \A g \in Hosts : downFor'[g] \in Nat /\ (downFor'[g] = downFor[g] \/ downFor'[g] = 0)
  BY <1>2 DEF CacheInv, MonitorTyped
<1>5. downFor' \in [Hosts -> Nat]
  BY <1>2 DEF CacheInv, MonitorTyped
<1>6. MonitorTyped' /\ RoundInv'
  BY <1>1, <1>3, <1>5 DEF CacheInv, MonitorTyped, RoundInv
<1>7. \A p \in Providers : Age(p)' \in Nat /\ Age(p) \in Nat /\ Age(p)' <= Age(p)
  <2>1. \A g \in Hosts : downFor[g] \in Nat
    BY DEF CacheInv, MonitorTyped
  <2> QED
    BY <1>4, <2>1 DEF Age
<1>8. \A g \in up' : downFor'[g] = 0
  BY <1>3, <1>4 DEF CacheInv, MonitorTyped, VerdictInv
<1>9. VerdictInv'
  <2>1. probe.at # "idle" => \A p \in probe.found : Age(p)' <= probe.age
    <3> SUFFICES ASSUME probe.at # "idle", NEW p \in probe.found PROVE Age(p)' <= probe.age
      OBVIOUS
    <3>1. p \in Providers /\ Age(p) <= probe.age /\ probe.age \in Nat
      BY DEF CacheInv, VerdictInv, MonitorTyped, Rounds
    <3> QED
      BY <1>7, <3>1
  <2>2. ASSUME NEW p \in Providers, health[p] = "healthy"
        PROVE  /\ probe.at = "idle" => Age(p)' <= IF due THEN Longest ELSE phase
               /\ probe.at = "list" => Age(p)' <= Longest + probe.age
               /\ probe.at = "write" /\ p \notin probe.todo => Age(p)' <= probe.age
    <3>1. /\ probe.at = "idle" => Age(p) <= IF due THEN Longest ELSE phase
          /\ probe.at = "list" => Age(p) <= Longest + probe.age
          /\ probe.at = "write" /\ p \notin probe.todo => Age(p) <= probe.age
      BY <2>2 DEF CacheInv, VerdictInv
    <3>2. probe.age \in Nat /\ phase \in Nat
      BY DEF CacheInv, MonitorTyped, Rounds
    <3>3. Age(p)' \in Nat /\ Age(p) \in Nat /\ Age(p)' <= Age(p)
      BY <1>7
    <3> QED
      BY <3>1, <3>2, <3>3
  <2> QED
    BY <1>1, <1>8, <2>1, <2>2 DEF VerdictInv
<1> QED
  BY <1>6, <1>9 DEF CacheInv

\* The steps that the tasks take.
LEMMA TaskSteps ==
    ASSUME NEW i \in Chores,
           \/ Monitor!Offer(i) \/ Monitor!Route(i) \/ Monitor!PassBudget(i) \/ Monitor!Serve(i)
           \/ Monitor!Output(i) \/ Monitor!Answer(i) \/ Monitor!Expire(i)
           \/ Monitor!Refuse(i) \/ Monitor!Reject(i)
    PROVE  UNCHANGED <<Monitor!hostVars, Monitor!cacheVars, Monitor!wolVars>>
  BY DEF Monitor!Offer, Monitor!Route, Monitor!PassHealth, Monitor!Defer, Monitor!PassBudget,
         Monitor!Serve, Monitor!Output, Monitor!Answer, Monitor!Expire, Monitor!Refuse,
         Monitor!Reject

LEMMA CacheKeeps == CacheInv /\ [Monitor!Next]_(Monitor!vars) => CacheInv'
<1> SUFFICES ASSUME CacheInv, [Monitor!Next]_(Monitor!vars) PROVE CacheInv'
  OBVIOUS
<1>1. CASE UNCHANGED Monitor!vars
  BY <1>1, CacheKept DEF Monitor!vars
<1>2. ASSUME NEW i \in Chores,
             \/ Monitor!Offer(i) \/ Monitor!Route(i) \/ Monitor!PassBudget(i) \/ Monitor!Serve(i)
             \/ Monitor!Output(i) \/ Monitor!Answer(i) \/ Monitor!Expire(i)
             \/ Monitor!Refuse(i) \/ Monitor!Reject(i)
      PROVE  CacheInv'
  BY <1>2, TaskSteps, CacheKept
<1>3. ASSUME NEW p \in Providers, Monitor!Check(p) \/ Monitor!Write(p) PROVE CacheInv'
  BY <1>3, CheckKeeps, WriteKeeps
<1> QED
  BY <1>1, <1>2, <1>3, TickKeeps, RoundBegins, HostKeeps DEF Monitor!Next

(***************************************************************************)
(* The packets.                                                            *)
(***************************************************************************)
\* Only a provider that is found unhealthy has a packet sent to its host, if the cooldown
\* is over, and the sending is recorded first.
LEMMA PacketSent ==
    ASSUME SpacingInv, NEW p \in Providers, Monitor!Write(p)
    PROVE  \/ UNCHANGED Monitor!wolVars
           \/ \E h \in Hosts :
                /\ lastSent[h] >= WakeCooldown /\ lastSent' = [lastSent EXCEPT ![h] = 0]
                /\ calm' = calm \/ calm' = [calm EXCEPT ![h] = 0]
<1> DEFINE h == WakeTarget[p]
<1>1. CASE p \in probe.found \/ h = NoHost \/ ~Monitor!CooledDown(h)
  BY <1>1 DEF Monitor!Write, Monitor!TryWakeOnLAN, Monitor!RecordSend, Monitor!wolVars
<1>2. CASE p \notin probe.found /\ h # NoHost /\ Monitor!CooledDown(h)
  <2>1. h \in Hosts
    BY <1>2, MonitorBounds
  <2>2. lastSent[h] >= WakeCooldown /\ lastSent' = [lastSent EXCEPT ![h] = 0] /\ Monitor!WakeOnLAN(h)
    BY <1>2 DEF Monitor!Write, Monitor!TryWakeOnLAN, Monitor!RecordSend, Monitor!CooledDown
  <2> QED
    BY <2>1, <2>2 DEF Monitor!WakeOnLAN
<1> QED
  BY <1>1, <1>2

\* The record stays the younger one, and a host that gets a packet had none for a cooldown.
Spaced == \A h \in Hosts : calm'[h] < calm[h] => calm[h] >= WakeCooldown

LEMMA SpacingKeeps == SpacingInv /\ [Monitor!Next]_(Monitor!vars) => SpacingInv' /\ Spaced
<1> SUFFICES ASSUME SpacingInv, [Monitor!Next]_(Monitor!vars)
             PROVE  SpacingInv' /\ Spaced
  OBVIOUS
<1> USE MonitorBounds
<1>1. CASE UNCHANGED Monitor!wolVars
  BY <1>1 DEF SpacingInv, Spaced, Monitor!wolVars
<1>2. CASE Monitor!Tick
  <2>1. /\ lastSent' = [h \in Hosts |-> Monitor!Older(lastSent[h], WakeCooldown)]
        /\ calm' = [h \in Hosts |-> Monitor!Older(calm[h], WakeCooldown)]
    BY <1>2 DEF Monitor!Tick
  <2> QED
    BY <2>1 DEF SpacingInv, Spaced, Monitor!Older, Monitor!Smaller
<1>3. ASSUME NEW p \in Providers, Monitor!Write(p) PROVE SpacingInv' /\ Spaced
  <2>1. CASE UNCHANGED Monitor!wolVars
    BY <1>1, <2>1
  <2>2. ASSUME NEW h \in Hosts, lastSent[h] >= WakeCooldown,
               lastSent' = [lastSent EXCEPT ![h] = 0],
               calm' = calm \/ calm' = [calm EXCEPT ![h] = 0]
        PROVE  SpacingInv' /\ Spaced
    BY <2>2 DEF SpacingInv, Spaced
  <2> QED
    BY <1>3, <2>1, <2>2, PacketSent
<1>4. ASSUME NEW i \in Chores,
             \/ Monitor!Offer(i) \/ Monitor!Route(i) \/ Monitor!PassBudget(i) \/ Monitor!Serve(i)
             \/ Monitor!Output(i) \/ Monitor!Answer(i) \/ Monitor!Expire(i)
             \/ Monitor!Refuse(i) \/ Monitor!Reject(i)
      PROVE  UNCHANGED Monitor!wolVars
  BY <1>4, TaskSteps
<1>5. ASSUME NEW p \in Providers, Monitor!Check(p) PROVE UNCHANGED Monitor!wolVars
  BY <1>5 DEF Monitor!Check
<1>6. ASSUME NEW h \in Hosts, Monitor!GoDown(h) \/ Monitor!ComeUp(h)
      PROVE  UNCHANGED Monitor!wolVars
  BY <1>6 DEF Monitor!GoDown, Monitor!ComeUp
<1>7. Monitor!BeginRound \/ UNCHANGED Monitor!vars => UNCHANGED Monitor!wolVars
  BY DEF Monitor!BeginRound, Monitor!vars
<1> QED
  BY <1>1, <1>2, <1>3, <1>4, <1>5, <1>6, <1>7 DEF Monitor!Next

\* An offered issue passes only over a fresh verdict of a provider of its chain.
LEMMA GateFresh ==
    ASSUME CacheInv, NEW i \in Chores, Monitor!PassHealth(i),
           Monitor!Chain(ChainKey[i]) # << >>
    PROVE  \E p \in Monitor!In(Monitor!Chain(ChainKey[i])) :
              HostOf[p] = NoHost \/ downFor[HostOf[p]] <= Monitor!Freshness
<1> USE MonitorBounds
<1> DEFINE chain == Monitor!Chain(ChainKey[i])
<1>1. Monitor!ChainHealthy(chain) /\ probe.at # "write"
  BY DEF Monitor!PassHealth
<1>2. PICK p \in Monitor!In(chain) : probe.at # "write" /\ health[p] = "healthy"
  BY <1>1 DEF Monitor!ChainHealthy
<1>3. p \in Providers
  BY ChainOf DEF Monitor!In
<1>4. /\ Age(p) <= Longest + probe.age \/ Age(p) <= IF due THEN Longest ELSE phase
      /\ probe.age \in Nat /\ probe.age <= RoundLimit /\ phase \in Nat /\ phase < Interval
  BY <1>2, <1>3 DEF CacheInv, MonitorTyped, VerdictInv, RoundInv, Rounds
<1>5. Age(p) <= RoundLimit + Longest
  BY <1>3, <1>4, AgeCounted DEF CacheInv
<1> QED
  BY <1>2, <1>5 DEF Age

\* The inductive invariant of the monitor.
THEOREM MonitorInductive == Monitor!Spec => []MonitorInv
<1>1. MonitorInv /\ [Monitor!Next]_(Monitor!vars) => MonitorInv'
  BY TasksKeep, CacheKeeps, SpacingKeeps DEF MonitorInv, CacheInv
<1> QED
  BY <1>1, MonitorStart, PTL DEF Monitor!Spec

\* HealthMonitor and wolCooldownTracker, for any providers, hosts, chains and durations: a
\* host gets no two packets within the cooldown, and no issue passes the health gate
\* on a verdict older than a round and the one that replaces it.
THEOREM MonitorKept == Monitor!Spec => MonitorSound
<1>1. MonitorInv /\ [Monitor!Next]_(Monitor!vars) =>
        [\A h \in Hosts : calm'[h] < calm[h] => calm[h] >= WakeCooldown]_(Monitor!vars)
  BY SpacingKeeps DEF MonitorInv, Spaced
<1>2. MonitorInv /\ [Monitor!Next]_(Monitor!vars) =>
        [\A i \in Chores :
            Monitor!At(i) = "offered" /\ issue'[i].at = "fit" /\ Monitor!Chain(ChainKey[i]) # << >> =>
              \E p \in Monitor!In(Monitor!Chain(ChainKey[i])) :
                 HostOf[p] = NoHost \/ downFor[HostOf[p]] <= Monitor!Freshness]_(Monitor!vars)
  BY TasksKeep, GateFresh DEF MonitorInv, CacheInv, Gated, Monitor!At
<1> QED
  BY <1>1, <1>2, MonitorInductive, PTL
  DEF Monitor!Spec, MonitorSound, Monitor!MonitorSound, Monitor!WakeSpaced, Monitor!FreshVerdict
=============================================================================
