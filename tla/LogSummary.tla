----------------------------- MODULE LogSummary -----------------------------
(***************************************************************************)
(* The structured log and the summaries drawn from it: both processes      *)
(* write one log database (src/internal/logstore), and the serve process   *)
(* answers requests for summaries from it, through a language model and a  *)
(* cache (src/internal/loganalyst, src/internal/api/log_summary.go).       *)
(*                                                                         *)
(* Time is counted in half seconds.  The database compares times as text   *)
(* without trailing zeros of the fraction, in which a whole second comes   *)
(* after its half: "...:07.5Z" < "...:07Z".  The scope of an issue is that *)
(* of a session by another name.                                           *)
(***************************************************************************)
EXTENDS Naturals, FiniteSets, FiniteSetsExt

CONSTANTS
    Requests,     \* goroutines that serve requests
    Sessions,
    Sinces, Untils, \* times a request may name
    Levels,
    Limit,        \* entries a summary looks at (200)
    TTL,          \* how long a summary is cached (5 minutes)
    Patience,     \* how long the language model may take (2 minutes)
    Retention,    \* how long an entry is kept (30 days)
    MaxTime, MaxEntries, MaxRequests  \* bounds

VARIABLES
    now,
    logs,         \* entries in the database
    written,      \* entries ever written
    cache,
    job,          \* what each goroutine is doing
    asked         \* requests so far

vars == <<now, logs, written, cache, job, asked>>

LogAssumption ==
    /\ Sinces \subseteq Nat /\ Untils \subseteq Nat
    /\ Limit \in Nat /\ TTL \in Nat /\ Patience \in Nat /\ Retention \in Nat

Scopes ==
    [type : {"session"}, id : Sessions]
    \cup [type : {"failures"}, since : Sinces]
    \cup [type : {"timerange"}, since : Sinces, until : Untils]

Idle == [step |-> "idle"]

Init ==
    /\ now = 0
    /\ logs = {}
    /\ written = 0
    /\ cache = {}
    /\ job = [r \in Requests |-> Idle]
    /\ asked = 0

-----------------------------------------------------------------------------
Second(t) == t \div 2

\* The order of the texts the database stores.
Text(t) == 2 * Second(t) + 1 - (t % 2)

\* Either process logs a line, and Write stores it.
Insert ==
    /\ written < MaxEntries
    /\ written' = written + 1
    /\ \E level \in Levels, s \in Sessions :
         logs' = logs \cup {[id |-> written', at |-> now, level |-> level, session |-> s]}
    /\ UNCHANGED <<now, cache, job, asked>>

Prune ==
    /\ now >= Retention
    /\ logs' = {e \in logs : Text(e.at) >= Text(now - Retention)}
    /\ logs' # logs
    /\ UNCHANGED <<now, written, cache, job, asked>>

\* buildFilter
Matches(scope, e) ==
    CASE scope.type = "session"   -> e.session = scope.id
      [] scope.type = "failures"  -> e.level = "error" /\ Text(e.at) >= Text(scope.since)
      [] scope.type = "timerange" -> /\ Text(e.at) >= Text(scope.since)
                                     /\ Text(e.at) <= Text(scope.until)

\* ORDER BY ts DESC, id DESC
Newer(e, f) ==
    \/ Text(e.at) > Text(f.at)
    \/ Text(e.at) = Text(f.at) /\ e.id > f.id

Query(scope) ==
    LET found == {e \in logs : Matches(scope, e)}
    IN {e \in found : Cardinality({f \in found : Newer(f, e)}) < Limit}

-----------------------------------------------------------------------------
\* The end of a time range and the fraction of its start are not in the key.
CacheKey(scope) ==
    IF scope.type = "session" THEN <<"session", scope.id>>
                              ELSE <<scope.type, Second(scope.since)>>

\* Fault: an entry is served for as long as it is there.
GetCachedForEver(key) == {c \in cache : c.key = key}

GetCached(key) == {c \in cache : c.key = key /\ now - c.createdAt <= TTL}

HandleLogSummary(r, scope) ==
    /\ job[r].step \in {"idle", "answered"}
    /\ asked < MaxRequests
    /\ asked' = asked + 1
    /\ job' = [job EXCEPT ![r] = [step |-> "asked", scope |-> scope]]
    /\ UNCHANGED <<now, logs, written, cache>>

Answer(r, summary) ==
    job' = [job EXCEPT ![r] = [step |-> "answered", scope |-> @.scope,
                               at |-> now, summary |-> summary]]

\* Summarize answers from the cache, which drops what has expired, ...
Cached(r) ==
    /\ job[r].step = "asked"
    /\ \E c \in GetCached(CacheKey(job[r].scope)) : Answer(r, c.summary)
    /\ UNCHANGED <<now, logs, written, cache, asked>>

\* ... or reads the log, which may fail, and counts what it has read.
\* The snapshot and the entries shown are kept for the properties.
Read(r) ==
    /\ job[r].step = "asked"
    /\ LET scope == job[r].scope
           key   == CacheKey(scope)
           shown == Query(scope)
       IN /\ GetCached(key) = {}
          /\ cache' = {c \in cache : c.key # key}
          /\ \/ job' = [job EXCEPT ![r] = Idle]
             \/ job' = [job EXCEPT ![r] =
                          [step |-> "reading", scope |-> scope, summary |->
                             [scope |-> scope, taken |-> now, log |-> logs, shown |-> shown,
                              total |-> Cardinality(shown),
                              errors |-> Cardinality({e \in shown : e.level = "error"})]]]
    /\ UNCHANGED <<now, logs, written, asked>>

\* The language model has answered or failed; either text is cached.
Summarize(r) ==
    /\ job[r].step = "reading"
    /\ LET key == CacheKey(job[r].scope)
       IN cache' = {c \in cache : c.key # key}
                     \cup {[key |-> key, createdAt |-> now, summary |-> job[r].summary]}
    /\ Answer(r, job[r].summary)
    /\ UNCHANGED <<now, logs, written, asked>>

\* The call to the language model times out; the rest takes no time.
Tick ==
    /\ now < MaxTime
    /\ \A r \in Requests :
         /\ job[r].step # "asked"
         /\ job[r].step = "reading" => now < job[r].summary.taken + Patience
    /\ now' = now + 1
    /\ job' = [r \in Requests |-> IF job[r].step = "answered" THEN Idle ELSE job[r]]
    /\ UNCHANGED <<logs, written, cache, asked>>

Next ==
    \/ Insert \/ Prune \/ Tick
    \/ \E r \in Requests :
         \/ \E scope \in Scopes : HandleLogSummary(r, scope)
         \/ Cached(r) \/ Read(r) \/ Summarize(r)

Spec == Init /\ [][Next]_vars

-----------------------------------------------------------------------------
TypeOK ==
    /\ now \in 0..MaxTime
    /\ \A e \in logs : e.id \in 1..written /\ e.at \in 0..now
    /\ asked \in 0..MaxRequests

Answered == {job[r] : r \in {q \in Requests : job[q].step = "answered"}}

\* The entries a reader of the log would find in the scope: surely, and at
\* most, where the edges of a window are good to a second.
Surely(scope, e) ==
    CASE scope.type = "session"   -> e.session = scope.id
      [] scope.type = "failures"  -> e.level = "error" /\ Second(e.at) > Second(scope.since)
      [] scope.type = "timerange" -> /\ Second(e.at) > Second(scope.since)
                                     /\ Second(e.at) < Second(scope.until)
AtMost(scope, e) ==
    CASE scope.type = "session"   -> e.session = scope.id
      [] scope.type = "failures"  -> e.level = "error" /\ Second(e.at) >= Second(scope.since)
      [] scope.type = "timerange" -> /\ Second(e.at) >= Second(scope.since)
                                     /\ Second(e.at) <= Second(scope.until)

CountsRight(s) ==
    LET surely == {e \in s.log : Surely(s.scope, e)}
    IN /\ s.shown \subseteq {e \in s.log : AtMost(s.scope, e)}
       /\ s.total = Cardinality(s.shown) /\ s.total <= Limit
       /\ s.total < Limit => surely \subseteq s.shown
       /\ \A e \in s.shown, f \in surely \ s.shown : Second(f.at) <= Second(e.at)

\* A summary answers what was asked, but for the end of a time range; it counts
\* the newest entries of the log as it was at one moment, to the second; and
\* that moment is no longer ago than a summary is cached and the language model
\* takes, whatever was written or pruned since and whoever else asked
\* (analyst.go:77-138, cache.go:13-55, logstore.go:113-183).
SummaryRecent ==
    \A a \in Answered :
      /\ CacheKey(a.scope) = CacheKey(a.summary.scope)
      /\ a.at - a.summary.taken <= TTL + Patience
      /\ CountsRight(a.summary)
=============================================================================
