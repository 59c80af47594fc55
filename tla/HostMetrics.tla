----------------------------- MODULE HostMetrics -----------------------------
(***************************************************************************)
(* The host metrics of the serve process: the collector and its ring       *)
(* buffer (src/internal/hostmetrics/hostmetrics.go), the capacity advice   *)
(* drawn from the buffer (advisor.go), and the request that shows both     *)
(* (src/internal/api/host_metrics.go).                                     *)
(*                                                                         *)
(* The resources are judged apart from one another, so a behaviour follows *)
(* one of them.  Time is counted in collections, percentages are whole     *)
(* numbers, and the rational numbers of the regression are compared by     *)
(* their numerators.  The code regresses in float64 on Unix seconds, where *)
(* n * sum(x^2) and sum(x)^2 are so large that their difference is lost in *)
(* the rounding while the samples are few and close: what it makes of them *)
(* then is left open (rounding), and exact only of samples further apart.  *)
(***************************************************************************)
EXTENDS Integers, Sequences, FiniteSets

CONSTANTS
    Capacity,     \* size of the ring buffer (2880, a day of collections)
    PerDay,       \* collections in a day
    IdleSamples,  \* samples before a resource is called under-utilised (120)
    Resolution,   \* n * sum(x^2) - sum(x)^2 from which on float64 gets it right
    Readings,     \* percentages a resource may be read at
    MaxSamples    \* bound on the collections

VARIABLES
    resource,           \* the resource that is followed
    history, hIdx, hFull,
    rounding,           \* what rounding makes of the trend of close samples
    log                 \* history variable: every snapshot ever collected

vars == <<resource, history, hIdx, hFull, rounding, log>>

HostAssumption ==
    /\ Capacity \in Nat \ {0} /\ IdleSamples \in Nat /\ Resolution \in Nat
    /\ Readings \subseteq Nat

Resources == {"cpu", "ram", "disk", "swap"}
Warn == [cpu |-> 70, ram |-> 80, disk |-> 70, swap |-> 25]
Crit == [cpu |-> 90, ram |-> 90, disk |-> 85, swap |-> 50]
Unknown == -1

Rec(level, acts) == [level |-> level, acts |-> acts]
Forecasts == {Rec("critical", TRUE), Rec("warn", TRUE), Rec("info", TRUE), Rec("info", FALSE)}

Init ==
    /\ resource \in Resources
    /\ history = [i \in 0..(Capacity - 1) |-> [at |-> 0, value |-> Unknown]]
    /\ hIdx = 0
    /\ hFull = FALSE
    /\ rounding = Rec("info", FALSE)
    /\ log = <<>>

-----------------------------------------------------------------------------
\* What a failed read leaves in the snapshot: no total, which marks the value
\* as unknown, but for the CPU a load of nought.
Unread(r) == IF r = "cpu" THEN 0 ELSE Unknown

Collect ==
    /\ Len(log) < MaxSamples
    /\ \E v \in Readings \cup {Unread(resource)} :
         LET snap == [at |-> Len(log) + 1, value |-> v]
         IN /\ log' = Append(log, snap)
            /\ history' = [history EXCEPT ![hIdx] = snap]
    /\ hIdx' = (hIdx + 1) % Capacity
    /\ hFull' = (hFull \/ hIdx + 1 >= Capacity)
    /\ rounding' \in IF resource = "disk" THEN Forecasts ELSE {rounding}
    /\ UNCHANGED resource

\* Fault: the walk begins at the first slot, full or not.
StartAtZero == 0

\* The slot of the oldest snapshot.
Start == IF hFull THEN hIdx ELSE 0

\* The snapshots as History walks through them ...
Walk ==
    LET count == IF hFull THEN Capacity ELSE hIdx
    IN [i \in 1..count |-> history[(Start + i - 1) % Capacity]]

\* ... and the places of those it keeps.
History(since) == {i \in DOMAIN Walk : Walk[i].at >= since}

AlertLevel(r, v) ==
    CASE v >= Crit[r] -> "critical"
      [] v >= Warn[r] /\ v < Crit[r] -> "warn"
      [] OTHER -> "none"

-----------------------------------------------------------------------------
\* The snapshots in which the resource was read.
Known(kept) == {i \in kept : Walk[i].value # Unknown}

\* Sums over them: sums[i] is that of the first i terms.
Sums(s) ==
    LET sums[i \in 0..Len(s)] == IF i = 0 THEN 0 ELSE sums[i - 1] + s[i]
    IN sums
Total(s) == Sums(s)[Len(s)]
Terms(term, known) == [i \in DOMAIN Walk |-> IF i \in known THEN term[i] ELSE 0]

X == [i \in DOMAIN Walk |-> Walk[i].at]
Y == [i \in DOMAIN Walk |-> Walk[i].value]
Times(u, v) == [i \in DOMAIN Walk |-> u[i] * v[i]]

Share(known, bar) == Cardinality({i \in known : Y[i] >= bar})

\* The smallest value that 95 in 100 of the samples do not exceed.
P95(known) ==
    LET Enough(v) == 100 * Cardinality({i \in known : Y[i] <= v}) >= 95 * Cardinality(known)
        vals      == {Y[i] : i \in known}
    IN CHOOSE v \in vals : Enough(v) /\ \A w \in vals : Enough(w) => v <= w

\* The straight line through the points (X, Y): its slope is rise / run.
LinearRegression(known) ==
    LET n      == Cardinality(known)
        Sum(f) == Total(Terms(f, known))
    IN [n |-> n, sumX |-> Sum(X), sumY |-> Sum(Y),
        last |-> X[CHOOSE i \in known : \A j \in known : j <= i],
        rise |-> n * Sum(Times(X, Y)) - Sum(X) * Sum(Y),
        run  |-> n * Sum(Times(X, X)) - Sum(X) * Sum(X)]

\* The line rises and meets the bar in the future, at most so many days after
\* the last snapshot.
MeetsWithin(known, bar, days) ==
    LET g   == LinearRegression(known)
        num == (bar * g.n - g.sumY) * g.run + g.rise * (g.sumX - g.n * g.last)
    IN /\ g.n >= 2
       /\ g.run # 0 /\ g.rise > 0
       /\ num > 0
       /\ num <= days * PerDay * g.n * g.rise

\* Samples so few and close that the difference is lost.
Cancels(known) ==
    LET g == LinearRegression(known)
    IN g.n >= 2 /\ g.run < Resolution

ComputeStats(r, known) ==
    [n         |-> Cardinality(known),
     sum       |-> Total(Terms(Y, known)),
     p95       |-> P95(known),
     peak      |-> CHOOSE v \in {Y[i] : i \in known} : \A i \in known : Y[i] <= v,
     aboveWarn |-> Share(known, Warn[r]),
     aboveCrit |-> Share(known, Crit[r])]

\* Healthy or under-utilised: nothing to do.
Calm(s, avg, p95) ==
    IF s.sum < avg * s.n /\ s.p95 < p95 /\ s.n >= IdleSamples
      THEN Rec("idle", FALSE) ELSE Rec("info", FALSE)

CpuRecommendations(s) ==
    CASE 100 * s.aboveCrit >= 25 * s.n -> Rec("critical", TRUE)
      [] 100 * s.aboveCrit < 25 * s.n /\ 100 * s.aboveWarn >= 30 * s.n -> Rec("warn", TRUE)
      [] OTHER -> Calm(s, 20, 40)

RamRecommendations(s) ==
    CASE 100 * s.aboveCrit >= 20 * s.n -> Rec("critical", TRUE)
      [] 100 * s.aboveCrit < 20 * s.n /\ 100 * s.aboveWarn >= 25 * s.n -> Rec("warn", TRUE)
      [] OTHER -> Calm(s, 30, 50)

DiskRecommendations(s, known) ==
    IF s.peak >= Crit["disk"] THEN Rec("critical", TRUE)
    ELSE IF Cancels(known) THEN rounding
    ELSE IF MeetsWithin(known, Crit["disk"], 14) THEN Rec("critical", TRUE)
    ELSE IF MeetsWithin(known, Warn["disk"], 30) THEN Rec("warn", TRUE)
    ELSE Rec("info", MeetsWithin(known, Crit["disk"], 90))

SwapRecommendations(s) ==
    CASE s.peak >= Warn["swap"] /\ 100 * s.aboveCrit >= 10 * s.n -> Rec("critical", TRUE)
      [] 100 * s.aboveCrit < 10 * s.n /\ 100 * s.aboveWarn >= 15 * s.n -> Rec("warn", TRUE)
      [] OTHER -> Rec("none", FALSE)

AnalyzeHistory(r, kept) ==
    LET known == Known(kept)
        s     == ComputeStats(r, known)
    IN IF Cardinality(kept) < 2 \/ known = {} THEN Rec("none", FALSE)
       ELSE CASE r = "cpu"  -> CpuRecommendations(s)
              [] r = "ram"  -> RamRecommendations(s)
              [] r = "disk" -> DiskRecommendations(s, known)
              [] r = "swap" -> SwapRecommendations(s)

\* The recommendations always look at the last day.
HandleHostMetrics == AnalyzeHistory(resource, History(Len(log) - Capacity))

Next == Collect

Spec == Init /\ [][Next]_vars

-----------------------------------------------------------------------------
TypeOK ==
    /\ resource \in Resources
    /\ hIdx \in 0..(Capacity - 1)
    /\ hFull \in BOOLEAN
    /\ DOMAIN history = 0..(Capacity - 1)
    /\ \A i \in DOMAIN history : history[i].value \in Readings \cup {0, Unknown}
    /\ rounding \in Forecasts
    /\ Len(log) <= MaxSamples

\* What a reader of the log would call the last day.
LastDay == SubSeq(log, Len(log) - Capacity + 1, Len(log))
Recent == IF Len(log) <= Capacity THEN log ELSE LastDay

\* The buffer shows the last day, in order and whole, and the advice drawn from
\* it agrees with the alerts of that day: what alerted in every snapshot is
\* advised on at that level, and nothing is advised on that never alerted.
\* A disk that has room is advised on only if it is filling, or its samples are
\* too close for the regression to tell, and need not be while it stays above
\* the lower bar (hostmetrics.go:136-158, advisor.go:68-576).
AdviceFollowsAlerts ==
    LET values == {Recent[i].value : i \in DOMAIN Recent} \ {Unknown}
        read   == {AlertLevel(resource, v) : v \in values}
        advice == HandleHostMetrics
        rising == \E i, j \in DOMAIN Recent :
                    i < j /\ Unknown # Recent[i].value /\ Recent[i].value < Recent[j].value
        close  == Cancels(Known(DOMAIN Walk))
    IN /\ Walk = Recent
       /\ Len(Recent) >= 2 /\ read # {} =>
            /\ read = {"critical"} => advice.level = "critical"
            /\ read \subseteq {"warn", "critical"} /\ resource # "disk"
                 => advice.level \in {"warn", "critical"}
            /\ "critical" \notin read /\ advice.level = "critical"
                 => resource = "disk" /\ (rising \/ close)
            /\ read = {"none"} /\ advice.acts => resource = "disk" /\ (rising \/ close)
=============================================================================
