------------------------------ MODULE Providers ------------------------------
(***************************************************************************)
(* The AI providers and what the dispatch process knows of them: the       *)
(* health monitor that probes them, caches what it found and wakes hosts   *)
(* that sleep (src/internal/provider), the gates an issue passes before it *)
(* is claimed (route in src/internal/dispatcher/router.go), the request of *)
(* a task and what can cut it short (the clients below src/internal/       *)
(* provider), and what a failure does to the issue and to the budget       *)
(* circuit (failure.go, circuit_breaker.go, correction.go).                *)
(*                                                                         *)
(* Time passes in ticks.  A timer that is due fires before time goes on,   *)
(* and a round of probes ends within RoundLimit, by the timeouts of the    *)
(* health checks.                                                          *)
(*                                                                         *)
(* Labels, claims and heartbeats are ClaimLifecycle's, sessions and        *)
(* workspaces AgentSession's.  The provider circuits are left out: they    *)
(* are opened and closed, and nothing reads them (AllowProvider, Status    *)
(* and ResetBudget have no caller).                                        *)
(***************************************************************************)
EXTENDS Routing, FiniteSets

CONSTANTS
    Providers, Hosts, None,
    HostOf,           \* the host that serves a provider; None for the CLI, which is
                      \* healthy if its binary runs on this machine
    WakeTarget,       \* the host whose MAC a provider is configured with, or None
    Kind,             \* of a provider: "claude-cli", "ollama" or "api"
    Chains,           \* the routing table: chain key -> providers, with "default"
    Issues,
    Text,             \* the issue's record (see Routing), and what follows from it:
    ChainKey,         \* its routing chain,
    Deadline,         \* and the timeout of its task, in ticks
    Interval,         \* ticks between the beginnings of two rounds of probes
    RoundLimit,       \* ticks a round of probes may take
    Cooldown,         \* wolCooldownDuration
    Startup, Stale,   \* startupTimeout and staleOutputTimeout of the CLI client
    ClientTimeout,    \* the timeout of a provider's client for a whole request
    MinutesPerTick,
    MaxUpsets         \* bound: hosts that go down, packets that are not sent and
                      \* requests that are rejected, together

ProviderAssumption ==
    /\ HostOf \in [Providers -> Hosts \cup {None}] /\ None \notin Providers \cup Hosts
    /\ WakeTarget \in [Providers -> Hosts \cup {None}]
    /\ \A p \in Providers : WakeTarget[p] \in {HostOf[p], None}
    /\ Kind \in [Providers -> {"claude-cli", "ollama", "api"}]
    /\ "default" \in DOMAIN Chains /\ \A key \in DOMAIN Chains : Chains[key] \in Seq(Providers)
    /\ ChainKey = [i \in Issues |-> SelectProviderKey(Text[i])]
    /\ Deadline = [i \in Issues |->
                      (EstimateTimeout(Text[i]) + MinutesPerTick - 1) \div MinutesPerTick]
    /\ {Interval, RoundLimit, Cooldown, Startup, Stale, MinutesPerTick} \subseteq Nat \ {0}
    /\ ClientTimeout \in [Providers -> Nat \ {0}]
    /\ MaxUpsets \in Nat

VARIABLES
    up,               \* the hosts that answer
    woken,            \* sleeping hosts that a magic packet has reached
    downFor,          \* ticks since a host last answered
    health,           \* the cache: "unknown", "healthy" or "unhealthy"
    probe,            \* the monitor's round: its place, providers to do, those found
                      \* healthy, and its age
    phase, due,       \* the ticker: time since its last tick, and whether one waits
    lastSent,         \* ticks since shouldSend allowed a packet to a host's MAC
    quiet,            \* ticks since a packet was sent to a host
    issue,            \* where an issue is, and its request
    count,            \* the persisted failure count of an issue
    budgetOpen,       \* the budget circuit
    upsets            \* counts towards MaxUpsets

hostVars  == <<up, woken, downFor>>
cacheVars == <<health, probe, phase, due>>
wolVars   == <<lastSent, quiet>>
taskVars  == <<issue, count, budgetOpen>>
vars == <<hostVars, cacheVars, wolVars, taskVars, upsets>>

\* The oldest a verdict of the cache can be while it is not being replaced.
Freshness == RoundLimit + Larger(Interval, RoundLimit)

\* A request: its provider; the age of its task and the age at which it began; how long
\* the process has been silent, and whether it wrote anything; whether it is the second.
Queued == [at |-> "queued", p |-> None, age |-> 0, start |-> 0, silent |-> 0,
           begun |-> FALSE, second |-> FALSE]
At(i)      == issue[i].at
Healthy(p) == HostOf[p] = None \/ HostOf[p] \in up
Place(i, at)     == issue' = [issue EXCEPT ![i] = [Queued EXCEPT !.at = at]]
Ask(i, p, age, second) ==
    issue' = [issue EXCEPT ![i] = [Queued EXCEPT !.at = "asked", !.p = p, !.age = age,
                                                 !.start = age, !.second = second]]

Upset == upsets < MaxUpsets /\ upsets' = upsets + 1
NoRound == [at |-> "idle", todo |-> {}, found |-> {}, age |-> 0]

\* HealthMonitor.Start probes once before it returns and the dispatcher starts.
Init ==
    /\ up = Hosts /\ woken = {} /\ downFor = [h \in Hosts |-> 0]
    /\ health = [p \in Providers |-> "unknown"]
    /\ probe = [NoRound EXCEPT !.at = "list", !.todo = Providers]
    /\ phase = 0 /\ due = FALSE
    /\ lastSent = [h \in Hosts |-> Cooldown]
    /\ quiet = [h \in Hosts |-> Cooldown]
    /\ issue = [i \in Issues |-> Queued]
    /\ count = [i \in Issues |-> 0]
    /\ budgetOpen = FALSE
    /\ upsets = 0

(***************************************************************************)
(* The hosts.                                                              *)
(***************************************************************************)

GoDown(h) ==
    /\ h \in up /\ Upset
    /\ up' = up \ {h}
    /\ UNCHANGED <<woken, downFor, cacheVars, wolVars, taskVars>>

\* By itself, or because it was woken.
ComeUp(h) ==
    /\ h \notin up
    /\ up' = up \cup {h} /\ woken' = woken \ {h} /\ downFor' = [downFor EXCEPT ![h] = 0]
    /\ UNCHANGED <<cacheVars, wolVars, taskVars, upsets>>

WakeUp(h) == h \in woken /\ ComeUp(h)

(***************************************************************************)
(* The health monitor.                                                     *)
(***************************************************************************)

BeginRound ==
    /\ probe.at = "idle" /\ due
    /\ due' = FALSE
    /\ probe' = [NoRound EXCEPT !.at = "list", !.todo = Providers]
    /\ UNCHANGED <<hostVars, health, phase, wolVars, taskVars, upsets>>

\* Registry.List asks the providers one after another, in the order of a map.
Check(p) ==
    /\ probe.at = "list" /\ p \in probe.todo
    /\ LET left == probe.todo \ {p} IN
       probe' = [probe EXCEPT !.at = IF left = {} THEN "write" ELSE "list",
                              !.todo = IF left = {} THEN Providers ELSE left,
                              !.found = IF Healthy(p) THEN @ \cup {p} ELSE @]
    /\ UNCHANGED <<hostVars, health, phase, due, wolVars, taskVars, upsets>>

\* shouldSend: the cooldown of a MAC is over ...
CooledDown(h) == lastSent[h] >= Cooldown

\* Fault: the sending is not recorded.
RecordNothing(h) == UNCHANGED lastSent

\* Fault: a packet that is held back counts as sent.
RecordAlways(h) == lastSent' = [lastSent EXCEPT ![h] = 0]

\* ... and the sending is recorded before it is done.
RecordSend(h) == lastSent' = IF CooledDown(h) THEN [lastSent EXCEPT ![h] = 0] ELSE lastSent

\* tryWakeOnLAN.  A packet that reaches a host which sleeps wakes it.
WakeOnLAN(h) ==
    \/ /\ quiet' = [quiet EXCEPT ![h] = 0]
       /\ woken' = IF h \in up THEN woken ELSE woken \cup {h}
       /\ UNCHANGED upsets
    \/ Upset /\ UNCHANGED <<quiet, woken>>

TryWakeOnLAN(p) ==
    LET h == WakeTarget[p] IN
    IF h = None THEN UNCHANGED <<wolVars, woken, upsets>>
    ELSE /\ RecordSend(h)
         /\ IF CooledDown(h) THEN WakeOnLAN(h) ELSE UNCHANGED <<quiet, woken, upsets>>

\* Fault: a provider once found healthy stays so.
VerdictSticky(p) == IF p \in probe.found \/ health[p] = "healthy" THEN "healthy" ELSE "unhealthy"

Verdict(p) == IF p \in probe.found THEN "healthy" ELSE "unhealthy"

\* probeAll writes what it found under the lock, which it holds while it sends packets
\* and asks an Ollama server for details.
Write(p) ==
    /\ probe.at = "write" /\ p \in probe.todo
    /\ health' = [health EXCEPT ![p] = Verdict(p)]
    /\ IF p \in probe.found THEN UNCHANGED <<wolVars, woken, upsets>> ELSE TryWakeOnLAN(p)
    /\ probe' = IF probe.todo = {p} THEN NoRound ELSE [probe EXCEPT !.todo = @ \ {p}]
    /\ UNCHANGED <<up, downFor, phase, due, taskVars>>

(***************************************************************************)
(* The dispatcher's gates.                                                 *)
(***************************************************************************)

Chain(key)  == IF key \in DOMAIN Chains THEN Chains[key] ELSE Chains["default"]
In(chain)   == {chain[n] : n \in DOMAIN chain}

\* A watcher reports a queued issue as opened, as it does of every open issue it finds
\* when it connects; the dispatcher starts after the first round.
Offer(i) ==
    /\ At(i) = "queued"
    /\ \A p \in Providers : health[p] # "unknown"
    /\ Place(i, "offered")
    /\ UNCHANGED <<hostVars, cacheVars, wolVars, count, budgetOpen, upsets>>

ChainHealthy(chain) == chain = << >> \/ \E p \in In(chain) : health[p] = "healthy"

\* route, first, reads the cache under the lock: some provider of the issue's chain is
\* healthy, as far as is known ...
PassHealth(i) ==
    /\ At(i) = "offered" /\ probe.at # "write"
    /\ ChainHealthy(Chain(ChainKey[i]))
    /\ Place(i, "fit")
    /\ UNCHANGED <<hostVars, cacheVars, wolVars, count, budgetOpen, upsets>>

\* ... or it returns, and the issue stays queued until it is offered again.
Defer(i) ==
    /\ At(i) = "offered" /\ probe.at # "write"
    /\ ~ChainHealthy(Chain(ChainKey[i]))
    /\ Place(i, "queued")
    /\ UNCHANGED <<hostVars, cacheVars, wolVars, count, budgetOpen, upsets>>

Route(i) == PassHealth(i) \/ Defer(i)

\* Then the budget circuit: the issue is claimed and its task submitted, or it stays
\* queued.
PassBudget(i) ==
    /\ At(i) = "fit"
    /\ Place(i, IF budgetOpen THEN "queued" ELSE "claimed")
    /\ UNCHANGED <<hostVars, cacheVars, wolVars, count, budgetOpen, upsets>>

(***************************************************************************)
(* A failed task: recordFailure and applyCorrection.                       *)
(***************************************************************************)

\* A failure that is the issue's own is counted, up to where the count decides anything.
Counts(class) == class # "shutdown" /\ ~IsProviderFailure(class)

Failed(i, error) ==
    LET class == ClassifyFailure(error)
        attempt == IF Counts(class) THEN Smaller(MaxRetryAttempts, count[i] + 1) ELSE count[i]
    IN  /\ count' = [count EXCEPT ![i] = attempt]
        /\ budgetOpen' = (budgetOpen \/ class = "budget")
        /\ Place(i, IF Correction(class, attempt) = "retry" THEN "queued" ELSE "human")

(***************************************************************************)
(* A task and its request.                                                 *)
(***************************************************************************)

Fit(chain) == {n \in DOMAIN chain : Healthy(chain[n])}
First(S)   == CHOOSE n \in S : \A k \in S : n <= k

\* Registry.Get: the first provider of the chain that is healthy, or of "default".
Resolve(key) ==
    LET own == Fit(Chain(key)) fallback == Fit(Chains["default"])
    IN  IF own # {} THEN Chain(key)[First(own)]
        ELSE IF fallback # {} THEN Chains["default"][First(fallback)] ELSE None

\* Registry.GetAfter: one behind p in the issue's own chain.
After(key, p) ==
    LET chain == Chain(key)
        at == {n \in DOMAIN chain : chain[n] = p}
        next == {n \in Fit(chain) : at # {} /\ n > First(at)}
    IN  IF next = {} THEN None ELSE chain[First(next)]

\* A worker takes the task.
Serve(i) ==
    /\ At(i) = "claimed"
    /\ LET p == Resolve(ChainKey[i]) IN
       IF p = None THEN Failed(i, {"no healthy provider"})
       ELSE Ask(i, p, 0, FALSE) /\ UNCHANGED <<count, budgetOpen>>
    /\ UNCHANGED <<hostVars, cacheVars, wolVars, upsets>>


\* streamOutput: the window for the next output.
Window(i) == IF issue[i].begun THEN Stale ELSE Startup

\* The deadline of the task's context is shared by a second request, the client's is not.
Late(i)    == issue[i].age >= Deadline[i]
Overdue(i) == issue[i].age - issue[i].start >= ClientTimeout[issue[i].p]
Silent(i)  == Kind[issue[i].p] = "claude-cli" /\ issue[i].silent >= Window(i)
Expired(i) == At(i) = "asked" /\ (Late(i) \/ Silent(i) \/ Overdue(i))

\* A retryable error gives the next provider of the chain one attempt, unless the task is
\* late; otherwise the task has failed.
GiveUp(i, error, retryable) ==
    LET next == After(ChainKey[i], issue[i].p) IN
    IF retryable /\ ~issue[i].second /\ ~Late(i) /\ next # None
    THEN /\ Ask(i, next, issue[i].age, TRUE)
         /\ UNCHANGED <<count, budgetOpen>>
    ELSE Failed(i, error)

\* A CLI process writes something.
Output(i) ==
    /\ At(i) = "asked" /\ Kind[issue[i].p] = "claude-cli" /\ ~Expired(i)
    /\ issue[i].silent > 0 \/ ~issue[i].begun
    /\ issue' = [issue EXCEPT ![i].begun = TRUE, ![i].silent = 0]
    /\ UNCHANGED <<hostVars, cacheVars, wolVars, count, budgetOpen, upsets>>

\* The answer, validated and posted: the count is cleared.
Answer(i) ==
    /\ At(i) = "asked" /\ Healthy(issue[i].p)
    /\ Place(i, "done") /\ count' = [count EXCEPT ![i] = 0]
    /\ UNCHANGED <<hostVars, cacheVars, wolVars, budgetOpen, upsets>>

\* A timer fires.  The CLI client and the Ollama client report their own timeouts as
\* ErrProviderTimeout, which is retryable and says "timeout", the latter for every
\* deadline; from the others a deadline that passes is final and says what it is.
Expire(i) ==
    /\ Expired(i)
    /\ \/ /\ Silent(i) \/ Kind[issue[i].p] = "ollama"
          /\ GiveUp(i, {"timeout"}, TRUE)
       \/ /\ (Late(i) \/ Overdue(i)) /\ Kind[issue[i].p] # "ollama"
          /\ GiveUp(i, {"context deadline exceeded"}, FALSE)
    /\ UNCHANGED <<hostVars, cacheVars, wolVars, upsets>>

\* The host does not take the request: ErrProviderUnavailable of the Ollama client is
\* retryable.
Refuse(i) ==
    /\ At(i) = "asked" /\ ~Healthy(issue[i].p)
    /\ GiveUp(i, {"connection refused"}, Kind[issue[i].p] = "ollama")
    /\ UNCHANGED <<hostVars, cacheVars, wolVars, upsets>>

\* A provider or the process rejects the request, or the task fails on its answer; the
\* message of a process has its output in it.
Rejections == {{"401"}, {"rate_limit"}, {"model not found"}, {"signal: killed"},
               {"validation failed"}, {"exit status 143"}}

Reject(i) ==
    /\ At(i) = "asked" /\ Upset
    /\ \E error \in Rejections : Failed(i, error)
    /\ UNCHANGED <<hostVars, cacheVars, wolVars>>

(***************************************************************************)
(* Time.                                                                   *)
(***************************************************************************)

Older(age, bound) == Smaller(bound, age + 1)

Tick ==
    /\ ~(probe.at = "idle" /\ due)
    /\ probe.at # "idle" => probe.age < RoundLimit
    /\ \A i \in Issues : ~Expired(i)
    /\ probe' = [probe EXCEPT !.age = IF probe.at = "idle" THEN 0 ELSE @ + 1]
    /\ phase' = IF phase + 1 = Interval THEN 0 ELSE phase + 1
    /\ due' = (due \/ phase + 1 = Interval)
    /\ downFor' = [h \in Hosts |-> IF h \in up THEN 0 ELSE Older(downFor[h], Freshness + 1)]
    /\ lastSent' = [h \in Hosts |-> Older(lastSent[h], Cooldown)]
    /\ quiet' = [h \in Hosts |-> Older(quiet[h], Cooldown)]
    /\ issue' = [i \in Issues |-> IF At(i) = "asked"
                   THEN [issue[i] EXCEPT !.age = @ + 1,
                            !.silent = IF Kind[issue[i].p] = "claude-cli" THEN @ + 1 ELSE 0]
                   ELSE issue[i]]
    /\ UNCHANGED <<up, woken, health, count, budgetOpen, upsets>>

Next ==
    \/ Tick \/ BeginRound
    \/ \E h \in Hosts : GoDown(h) \/ ComeUp(h)
    \/ \E p \in Providers : Check(p) \/ Write(p)
    \/ \E i \in Issues : Offer(i) \/ Route(i) \/ PassBudget(i) \/ Serve(i) \/ Output(i) \/ Answer(i)
                         \/ Expire(i) \/ Refuse(i) \/ Reject(i)

Spec == Init /\ [][Next]_vars

(***************************************************************************)
(* Properties.                                                             *)
(***************************************************************************)

\* The types, and that a request is under way at a provider or nowhere.
TypeOK ==
    /\ up \subseteq Hosts /\ woken \subseteq Hosts \ up
    /\ downFor \in [Hosts -> 0 .. Freshness + 1]
    /\ health \in [Providers -> {"unknown", "healthy", "unhealthy"}]
    /\ probe.at \in {"idle", "list", "write"} /\ probe.todo \subseteq Providers
    /\ probe.found \subseteq Providers /\ probe.age \in 0 .. RoundLimit
    /\ (probe.at = "idle") = (probe.todo = {})
    /\ phase \in 0 .. Interval - 1 /\ due \in BOOLEAN
    /\ lastSent \in [Hosts -> 0 .. Cooldown] /\ quiet \in [Hosts -> 0 .. Cooldown]
    /\ \A i \in Issues :
          /\ At(i) \in {"queued", "offered", "fit", "claimed", "asked", "done", "human"}
          /\ At(i) = "asked" => issue[i].p \in Providers /\ issue[i].start <= issue[i].age
          /\ At(i) # "asked" => issue[i] = [Queued EXCEPT !.at = At(i)]
    /\ count \in [Issues -> 0 .. MaxRetryAttempts]
    /\ budgetOpen \in BOOLEAN /\ upsets \in 0 .. MaxUpsets

\* A host gets a packet no sooner than the cooldown after the one before, although
\* several providers name its MAC and each of them is found unhealthy in every round.
WakeSpaced == [][\A h \in Hosts : quiet'[h] < quiet[h] => quiet[h] >= Cooldown]_vars

\* An issue passes the health gate only if a host behind its chain answered a short time
\* ago: the cache is stale by one round and the one that replaces it, and no more, however
\* slow a round is.  So an outage stops the claims, which would all fail.  (A chain without
\* providers has no gate.)
FreshVerdict ==
    [][\A i \in Issues :
          At(i) = "offered" /\ issue'[i].at = "fit" /\ Chain(ChainKey[i]) # << >> =>
          \E p \in In(Chain(ChainKey[i])) :
             HostOf[p] = None \/ downFor[HostOf[p]] <= Freshness]_vars

\* The monitor neither floods a host with packets nor lets an issue pass on an old
\* verdict.
MonitorSound == WakeSpaced /\ FreshVerdict

\* An issue whose chain has a host that can be woken is not deferred again and again: the
\* monitor sends packets until one arrives and notices that the host is back, so that of
\* offers that are made over and over one is claimed - unless the budget circuit opens
\* first.  Nothing in the dispatcher offers it: without another report it stays queued.
WaitingIsServed ==
    \A i \in Issues :
       /\ \E p \in In(Chain(ChainKey[i])) : WakeTarget[p] # None
       /\ []<>(At(i) = "offered")
       => (At(i) = "offered" ~> At(i) = "claimed" \/ budgetOpen)
=============================================================================
