------------------------ MODULE AgentSession_proofs ------------------------
(***************************************************************************)
(* What a worker's run promises, for every number of workers, sessions and *)
(* providers, every chain of providers and every budget: type correctness, *)
(* the bound on what is spent, the workspace that is one session's own,    *)
(* nothing left behind, and an outcome that is told truthfully.            *)
(***************************************************************************)
EXTENDS AgentSession, FiniteSetTheorems, SequenceTheorems, WellFoundedInduction, TLAPS

\* Where a worker is against what it holds: a worktree only between git worktree add
\* and the end of the run, and only for an agent that writes code; an error exactly on
\* the way through failTask; a deadline that passed was one of the upsets.
PlaceInv ==
    \A w \in Busy :
        LET r == worker[w] IN
        /\ r.at \in {"unserved", "activate", "budget", "prune", "add", "reject"} => ~r.isolated
        /\ r.at \in {"prune", "add"} \/ r.isolated => S(w) \in WritesCode
        /\ r.at \in {"commit", "remove", "forget", "delete"} => r.isolated
        /\ r.at \in {"fail", "reject"} => r.error # "none"
        /\ r.at = "complete" => r.error = "none"
        /\ r.at = "post" /\ r.reply = "empty" => S(w) \in WritesCode
        /\ r.late => upsets > 0

\* The places a run reaches only after it has settled its outcome.
Settled == {"unhook", "remove", "forget", "delete", "ran"}

\* A session somebody runs has not been told of, and its row is completed exactly when
\* the run has ended well.
OutcomeInv ==
    \A w \in Busy :
        LET r == worker[w] IN
        /\ told[S(w)] = "no"
        /\ row[S(w)] = "completed" <=> r.at \in Settled /\ r.error = "none"
        /\ r.at = "complete" \/ row[S(w)] = "completed" => S(w) \in WritesCode \cup answered

\* As long as no call failed and no process died, every worktree and every branch has a
\* worker that has still to remove it.
Keeps(w) == w \in Busy /\ worker[w].isolated /\ worker[w].at # "ran"

CleanInv ==
    upsets = 0 =>
        /\ \A s \in Sessions : worktree[s] # "none" =>
              \E w \in Workers : /\ Keeps(w) /\ S(w) = s /\ worker[w].at # "delete"
                                 /\ worker[w].at = "forget" => worktree[s] = "gone"
        /\ \A i \in branch : \E w \in Workers : Keeps(w) /\ I(w) = i

\* The callback a provider holds is one that a run has still to take down.
Hooked == {"chat", "answered", "commit", "post", "complete", "fail", "unhook"}

CallbackInv ==
    \A p \in Providers : onActivity[p] # None =>
        \E w \in Workers : /\ worker[w].at \in Hooked /\ worker[w].provider = p
                           /\ S(w) = onActivity[p] /\ Notifies(p)

\* Workers that may still charge the budget without asking again, and those of them that
\* may do so twice.
MayCharge == {w \in Workers : worker[w].at \in {"prune", "add", "hook", "chat", "answered"}}
MayRetry == {w \in MayCharge : ~worker[w].retried}

SpendInv ==
    spent + Cardinality(MayCharge) + Cardinality(MayRetry)
        <= (Budget - 1) + 2 * Cardinality(Workers)

IInv == TypeOK /\ PlaceInv /\ OutcomeInv /\ OutcomeTold /\ WorkspaceIsMine /\ CleanInv
          /\ CallbackInv /\ SpendInv

(***************************************************************************)
(* What the ways to change a worker do to its fields.                      *)
(***************************************************************************)

\* The records that describe a worker.
WorkerRec ==
    [at : Ats, session : Sessions \cup {None}, provider : Providers \cup {None},
     attempt : 1..2, late : BOOLEAN, work : {"none", "added", "edited"},
     isolated : BOOLEAN, marked : BOOLEAN, reply : {"full", "empty"},
     retried : BOOLEAN, error : {"none", "retryable", "final"}]

\* The steps of a run, from its start to the last deferred call.
RunAction(w) ==
    \/ Activate(w) \/ CheckBudget(w) \/ PruneWorktrees(w) \/ AddWorktree(w) \/ Hook(w)
    \/ Chat(w) \/ Answered(w) \/ Commit(w) \/ PostComment(w)
    \/ Complete(w) \/ FailTask(w)
    \/ Unhook(w) \/ RemoveDir(w) \/ Forget(w) \/ DeleteBranch(w)

\* The worker variable in terms of WorkerRec, for the facts below.
LEMMA WorkerType == TypeOK => worker \in [Workers -> WorkerRec]
  BY DEF TypeOK, WorkerRec

\* A worker that works has a session, and no other worker has the same.
LEMMA OwnSession ==
    ASSUME TypeOK, NEW w \in Busy
    PROVE  w \in Workers /\ S(w) \in Sessions /\ \A v \in Busy \ {w} : S(v) # S(w)
  BY DEF TypeOK, Busy, S

\* Go moves one worker, and nothing but its place.
LEMMA GoFacts ==
    ASSUME TypeOK, NEW w \in Workers, NEW at, Go(w, at)
    PROVE  /\ \A v \in Workers \ {w} : worker'[v] = worker[v]
           /\ worker'[w].at = at
           /\ worker'[w].session = worker[w].session
           /\ worker'[w].provider = worker[w].provider
           /\ worker'[w].late = worker[w].late
           /\ worker'[w].isolated = worker[w].isolated
           /\ worker'[w].reply = worker[w].reply
           /\ worker'[w].retried = worker[w].retried
           /\ worker'[w].error = worker[w].error
           /\ at \in Ats => worker' \in [Workers -> WorkerRec]
<1>1. worker \in [Workers -> WorkerRec]
  BY WorkerType
<1>2. worker' = [worker EXCEPT ![w].at = at]
  BY DEF Go
<1> QED
  BY <1>1, <1>2 DEF WorkerRec

\* Settle moves one worker, sets its error and forgets the answer it had.
LEMMA SettleFacts ==
    ASSUME TypeOK, NEW w \in Workers, NEW at, NEW error, Settle(w, error, at)
    PROVE  /\ \A v \in Workers \ {w} : worker'[v] = worker[v]
           /\ worker'[w].at = at
           /\ worker'[w].session = worker[w].session
           /\ worker'[w].provider = worker[w].provider
           /\ worker'[w].late = worker[w].late
           /\ worker'[w].isolated = worker[w].isolated
           /\ ~worker'[w].retried
           /\ worker'[w].error = error
           /\ at \in Ats /\ error \in {"none", "retryable", "final"} =>
                 worker' \in [Workers -> WorkerRec]
<1>1. worker \in [Workers -> WorkerRec]
  BY WorkerType
<1>2. worker' = [worker EXCEPT ![w] = [Idle EXCEPT
                 !.at = at, !.session = S(w), !.provider = worker[w].provider, !.error = error,
                 !.attempt = worker[w].attempt, !.late = worker[w].late,
                 !.isolated = worker[w].isolated]]
  BY DEF Settle
<1> QED
  BY <1>1, <1>2 DEF WorkerRec, Idle, S

\* The record of a worker that starts a session over.
Fresh(r, at, s, p) ==
    \/ r = [Idle EXCEPT !.at = at, !.session = s, !.provider = p]
    \/ r = [Idle EXCEPT !.at = at, !.session = s, !.provider = p, !.attempt = 2]

\* Nothing of an earlier run is left in it.
LEMMA FreshRec ==
    ASSUME NEW at \in Ats, NEW s \in Sessions \cup {None}, NEW p \in Providers \cup {None},
           NEW r, Fresh(r, at, s, p)
    PROVE  /\ r \in WorkerRec /\ r.at = at /\ r.session = s /\ r.provider = p
           /\ ~r.late /\ ~r.isolated /\ ~r.retried
<1> DEFINE r1 == [Idle EXCEPT !.at = at]
           r2 == [r1 EXCEPT !.session = s]
           r3 == [r2 EXCEPT !.provider = p]
           r4 == [r3 EXCEPT !.attempt = 2]
<1>1. r = r3 \/ r = r4
  BY DEF Fresh
<1>2. Idle \in WorkerRec /\ ~Idle.late /\ ~Idle.isolated /\ ~Idle.retried
  BY DEF WorkerRec, Idle, Ats
<1>3. r1 \in WorkerRec /\ r1.at = at /\ ~r1.late /\ ~r1.isolated /\ ~r1.retried
  BY <1>2 DEF WorkerRec
<1> HIDE DEF r1
<1>4. r2 \in WorkerRec /\ r2.at = at /\ r2.session = s
      /\ ~r2.late /\ ~r2.isolated /\ ~r2.retried
  BY <1>3 DEF WorkerRec
<1> HIDE DEF r2
<1>5. r3 \in WorkerRec /\ r3.at = at /\ r3.session = s /\ r3.provider = p
      /\ ~r3.late /\ ~r3.isolated /\ ~r3.retried
  BY <1>4 DEF WorkerRec
<1> HIDE DEF r3
<1>6. r4 \in WorkerRec /\ r4.at = at /\ r4.session = s /\ r4.provider = p
      /\ ~r4.late /\ ~r4.isolated /\ ~r4.retried
  <2>1. 2 \in 1..2
    OBVIOUS
  <2> QED
    BY <1>5, <2>1 DEF WorkerRec
<1> QED
  BY <1>1, <1>5, <1>6

\* Replacing one worker's record leaves the others as they were.
LEMMA PutFacts ==
    ASSUME TypeOK, NEW w \in Workers, NEW r \in WorkerRec, worker' = [worker EXCEPT ![w] = r]
    PROVE  /\ worker' \in [Workers -> WorkerRec] /\ worker'[w] = r
           /\ \A v \in Workers \ {w} : worker'[v] = worker[v]
  BY WorkerType

\* A worker that has reported is idle.
LEMMA ReportFacts ==
    ASSUME TypeOK, NEW w \in Workers, NEW outcome, Report(w, outcome)
    PROVE  /\ worker' \in [Workers -> WorkerRec]
           /\ \A v \in Workers \ {w} : worker'[v] = worker[v]
           /\ worker'[w].at = "idle"
           /\ told' = [told EXCEPT ![S(w)] = outcome]
<1>1. worker \in [Workers -> WorkerRec]
  BY WorkerType
<1> QED
  BY <1>1 DEF WorkerRec, Idle, Report, Ats

\* After a crash every worker is idle.
LEMMA CrashFacts ==
    ASSUME TypeOK, Crash
    PROVE  worker' \in [Workers -> WorkerRec] /\ \A w \in Workers : worker'[w].at = "idle"
  BY DEF Crash, WorkerRec, Idle, Ats

\* git worktree add gives the worker its worktree, or the run goes on without one.
LEMMA AddFacts ==
    ASSUME TypeOK, NEW w \in Workers, AddWorktree(w)
    PROVE  /\ worker[w].at = "add"
           /\ worker' \in [Workers -> WorkerRec]
           /\ \A v \in Workers \ {w} : worker'[v] = worker[v]
           /\ worker'[w].at = "hook"
           /\ worker'[w].session = worker[w].session
           /\ worker'[w].provider = worker[w].provider
           /\ worker'[w].late = worker[w].late
           /\ worker'[w].reply = worker[w].reply
           /\ worker'[w].retried = worker[w].retried
           /\ worker'[w].error = worker[w].error
           /\ upsets' \in {upsets, upsets + 1}
           /\ \/ /\ ~CheckedOut(I(w)) /\ worker'[w].isolated
                 /\ worktree' = [worktree EXCEPT ![S(w)] = "live"]
                 /\ branch' = branch \cup {I(w)}
              \/ worker'[w].isolated = worker[w].isolated /\ UNCHANGED git
<1>1. worker \in [Workers -> WorkerRec]
  BY WorkerType
<1>2. CASE /\ ~CheckedOut(I(w))
           /\ \/ Fine  /\ worker' = [worker EXCEPT ![w].at = "hook", ![w].isolated = TRUE,
                                                   ![w].marked = TRUE]
              \/ Upset /\ worker' = [worker EXCEPT ![w].at = "hook", ![w].isolated = TRUE]
           /\ worktree' = [worktree EXCEPT ![S(w)] = "live"]
           /\ branch' = branch \cup {I(w)}
  <2>1. worker[w] \in WorkerRec /\ upsets' \in {upsets, upsets + 1}
    BY <1>1, <1>2 DEF Fine, Upset
  <2>2. PICK r : /\ worker' = [worker EXCEPT ![w] = r]
                 /\ \/ r = [worker[w] EXCEPT !.at = "hook", !.isolated = TRUE, !.marked = TRUE]
                    \/ r = [worker[w] EXCEPT !.at = "hook", !.isolated = TRUE]
    <3>1. CASE worker' = [worker EXCEPT ![w].at = "hook", ![w].isolated = TRUE,
                                        ![w].marked = TRUE]
      BY <1>1, <3>1
    <3>2. CASE worker' = [worker EXCEPT ![w].at = "hook", ![w].isolated = TRUE]
      BY <1>1, <3>2
    <3> QED
      BY <1>2, <3>1, <3>2
  <2>3. /\ r \in WorkerRec /\ r.at = "hook" /\ r.isolated
        /\ r.session = worker[w].session /\ r.provider = worker[w].provider
        /\ r.late = worker[w].late /\ r.reply = worker[w].reply
        /\ r.retried = worker[w].retried /\ r.error = worker[w].error
    <3>1. CASE r = [worker[w] EXCEPT !.at = "hook", !.isolated = TRUE, !.marked = TRUE]
      BY <2>1, <3>1 DEF WorkerRec, Ats
    <3>2. CASE r = [worker[w] EXCEPT !.at = "hook", !.isolated = TRUE]
      BY <2>1, <3>2 DEF WorkerRec, Ats
    <3> QED
      BY <2>2, <3>1, <3>2
  <2>4. /\ worker' \in [Workers -> WorkerRec] /\ worker'[w] = r
        /\ \A v \in Workers \ {w} : worker'[v] = worker[v]
    BY <1>1, <2>2, <2>3
  <2> QED
    BY <1>2, <2>1, <2>3, <2>4 DEF AddWorktree
<1>3. CASE (Fine \/ Upset) /\ Go(w, "hook") /\ UNCHANGED git
  <2>1. upsets' \in {upsets, upsets + 1}
    BY <1>3 DEF Fine, Upset
  <2> QED
    BY <1>3, <2>1, GoFacts DEF AddWorktree, Ats
<1> QED
  BY <1>2, <1>3 DEF AddWorktree

\* An answer that came back waits for its judgement; an error settles the run.
LEMMA ChatFacts ==
    ASSUME TypeOK, NEW w \in Workers, Chat(w)
    PROVE  /\ worker[w].at = "chat"
           /\ worker' \in [Workers -> WorkerRec]
           /\ \A v \in Workers \ {w} : worker'[v] = worker[v]
           /\ worker'[w].session = worker[w].session
           /\ worker'[w].provider = worker[w].provider
           /\ worker'[w].late = worker[w].late
           /\ worker'[w].isolated = worker[w].isolated
           /\ \/ worker'[w].at = "answered" /\ worker'[w].retried = worker[w].retried
              \/ worker'[w].at = "fail" /\ worker'[w].error # "none" /\ ~worker'[w].retried
<1>1. worker \in [Workers -> WorkerRec]
  BY WorkerType
<1>2. ASSUME NEW error \in Errors(w), Settle(w, error, "fail")
      PROVE  /\ worker' \in [Workers -> WorkerRec] /\ worker'[w].error # "none"
             /\ worker'[w].at = "fail" /\ ~worker'[w].retried
             /\ \A v \in Workers \ {w} : worker'[v] = worker[v]
             /\ worker'[w].session = worker[w].session
             /\ worker'[w].provider = worker[w].provider
             /\ worker'[w].late = worker[w].late
             /\ worker'[w].isolated = worker[w].isolated
  <2>1. error \in {"retryable", "final"}
    BY DEF Errors
  <2> QED
    BY <1>2, <2>1, SettleFacts DEF Ats
<1>3. ASSUME NEW reply \in {"full", "empty"}, NEW work \in Work(w),
             worker' = [worker EXCEPT ![w].at = "answered", ![w].reply = reply, ![w].work = work]
      PROVE  /\ worker' \in [Workers -> WorkerRec]
             /\ \A v \in Workers \ {w} : worker'[v] = worker[v]
             /\ worker'[w].at = "answered" /\ worker'[w].retried = worker[w].retried
             /\ worker'[w].session = worker[w].session
             /\ worker'[w].provider = worker[w].provider
             /\ worker'[w].late = worker[w].late
             /\ worker'[w].isolated = worker[w].isolated
  <2>1. work \in {"none", "added", "edited"} /\ worker[w] \in WorkerRec
    BY <1>1 DEF Work, WorkerRec
  <2> DEFINE r1 == [worker[w] EXCEPT !.at = "answered"]
             r2 == [r1 EXCEPT !.reply = reply]
             r3 == [r2 EXCEPT !.work = work]
  <2>2. worker' = [worker EXCEPT ![w] = r3]
    BY <1>1, <1>3
  <2>3. /\ r1 \in WorkerRec /\ r1.at = "answered" /\ r1.retried = worker[w].retried
        /\ r1.session = worker[w].session /\ r1.provider = worker[w].provider
        /\ r1.late = worker[w].late /\ r1.isolated = worker[w].isolated
    BY <2>1 DEF WorkerRec, Ats
  <2> HIDE DEF r1
  <2>4. /\ r2 \in WorkerRec /\ r2.at = "answered" /\ r2.retried = worker[w].retried
        /\ r2.session = worker[w].session /\ r2.provider = worker[w].provider
        /\ r2.late = worker[w].late /\ r2.isolated = worker[w].isolated
    BY <2>3 DEF WorkerRec
  <2> HIDE DEF r2
  <2>5. /\ r3 \in WorkerRec /\ r3.at = "answered" /\ r3.retried = worker[w].retried
        /\ r3.session = worker[w].session /\ r3.provider = worker[w].provider
        /\ r3.late = worker[w].late /\ r3.isolated = worker[w].isolated
    BY <2>1, <2>4 DEF WorkerRec
  <2> HIDE DEF r3
  <2> QED
    BY <2>2, <2>5, PutFacts
<1> QED
  BY <1>2, <1>3 DEF Chat

\* The judgement of an answer: it passes, or it is asked for once more, or the run fails;
\* an empty answer passes only where the agent writes code.
LEMMA AnsweredFacts ==
    ASSUME TypeOK, NEW w \in Workers, Answered(w)
    PROVE  /\ worker[w].at = "answered"
           /\ worker' \in [Workers -> WorkerRec]
           /\ \A v \in Workers \ {w} : worker'[v] = worker[v]
           /\ worker'[w].session = worker[w].session
           /\ worker'[w].provider = worker[w].provider
           /\ worker'[w].late = worker[w].late
           /\ worker'[w].isolated = worker[w].isolated
           /\ \/ /\ worker'[w].at = "commit" /\ worker[w].isolated
                 /\ worker'[w].reply = worker[w].reply
              \/ /\ worker'[w].at = "post" /\ ~worker[w].isolated
                 /\ worker'[w].reply = worker[w].reply
                 /\ worker[w].reply = "full" \/ S(w) \in WritesCode
              \/ worker'[w].at = "chat" /\ worker'[w].retried /\ ~worker[w].retried
              \/ worker'[w].at = "fail" /\ worker'[w].error # "none"
           /\ upsets' \in {upsets, upsets + 1}
           /\ spent' \in {spent, spent + 1}
<1>1. worker \in [Workers -> WorkerRec]
  BY WorkerType
<1>2. upsets' \in {upsets, upsets + 1} /\ spent' \in {spent, spent + 1}
  <2>1. spent \in Nat /\ Cost(worker[w].provider) \in {0, 1}
    BY DEF TypeOK, Cost
  <2> QED
    BY <2>1 DEF Answered, RecordUsage, InTime, Fails, Upset
<1>3. PICK judgement \in Judgements(w) :
       \/ judgement = "pass" /\ Go(w, IF worker[w].isolated THEN "commit" ELSE "post")
       \/ /\ judgement = "broken" /\ ~worker[w].retried
          /\ worker' = [worker EXCEPT ![w].at = "chat", ![w].retried = TRUE]
       \/ /\ judgement = "bad" \/ (judgement = "broken" /\ worker[w].retried)
          /\ Settle(w, "final", "fail")
  BY DEF Answered, Validate
<1>4. CASE judgement = "pass" /\ Go(w, IF worker[w].isolated THEN "commit" ELSE "post")
  <2>1. S(w) \in WritesCode \/ worker[w].reply = "full"
    BY <1>3, <1>4 DEF Judgements, Analytical
  <2>2. worker[w].isolated \in BOOLEAN
    BY <1>1 DEF WorkerRec
  <2>3. (IF worker[w].isolated THEN "commit" ELSE "post") \in Ats
    BY DEF Ats
  <2> QED
    BY <1>2, <1>4, <2>1, <2>2, <2>3, GoFacts DEF Answered
<1>5. CASE worker' = [worker EXCEPT ![w].at = "chat", ![w].retried = TRUE] /\ ~worker[w].retried
  BY <1>1, <1>2, <1>5 DEF Answered, WorkerRec, Ats
<1>6. CASE Settle(w, "final", "fail")
  BY <1>2, <1>6, SettleFacts DEF Answered, Ats
<1> QED
  BY <1>3, <1>4, <1>5, <1>6

\* The deadline of a task passes: nothing else of its worker changes.
LEMMA ExpireFacts ==
    ASSUME TypeOK, NEW w \in Workers, Expire(w)
    PROVE  /\ worker' \in [Workers -> WorkerRec]
           /\ \A v \in Workers \ {w} : worker'[v] = worker[v]
           /\ worker'[w].at = worker[w].at
           /\ worker'[w].session = worker[w].session
           /\ worker'[w].provider = worker[w].provider
           /\ worker'[w].isolated = worker[w].isolated
           /\ worker'[w].reply = worker[w].reply
           /\ worker'[w].retried = worker[w].retried
           /\ worker'[w].error = worker[w].error
           /\ worker[w].at # "idle" /\ upsets' = upsets + 1 /\ upsets \in Nat
<1>1. worker \in [Workers -> WorkerRec] /\ upsets \in Nat
  BY WorkerType DEF TypeOK
<1>2. worker[w].at # "idle" /\ upsets' = upsets + 1 /\ worker' = [worker EXCEPT ![w].late = TRUE]
  BY DEF Expire, Upset
<1> DEFINE r == [worker[w] EXCEPT !.late = TRUE]
<1>3. worker' = [worker EXCEPT ![w] = r]
  BY <1>1, <1>2
<1>4. r \in WorkerRec
  <2>1. worker[w] \in WorkerRec /\ TRUE \in BOOLEAN
    BY <1>1
  <2> QED
    BY <2>1 DEF WorkerRec
<1>5. /\ r.at = worker[w].at /\ r.session = worker[w].session
      /\ r.provider = worker[w].provider /\ r.isolated = worker[w].isolated
      /\ r.reply = worker[w].reply /\ r.retried = worker[w].retried
      /\ r.error = worker[w].error
  BY <1>1 DEF WorkerRec
<1> HIDE DEF r
<1> QED
  BY <1>1, <1>2, <1>3, <1>4, <1>5, PutFacts

\* The first healthy provider of a chain is a provider.
LEMMA FirstHealthyType ==
    ASSUME NEW chain \in Seq(Providers), NEW healthy
    PROVE  FirstHealthy(chain, healthy) \in Providers \cup {None}
<1> DEFINE fit == {n \in DOMAIN chain : chain[n] \in healthy}
<1>1. CASE fit = {}
  BY <1>1 DEF FirstHealthy
<1>2. CASE fit # {}
  <2>1. fit \subseteq Nat
    OBVIOUS
  <2>2. \E n \in fit : \A m \in fit : n <= m
    <3>1. IsWellFoundedOn(OpToRel(<, Nat), Nat)
      BY NatLessThanWellFounded, Zenon
    <3>2. PICK n \in fit : \A m \in fit : ~(<<m, n>> \in OpToRel(<, Nat))
      BY <1>2, <2>1, <3>1, WFMin, Zenon
    <3>3. \A m \in fit : ~(m < n)
      BY <2>1, <3>2 DEF OpToRel
    <3> QED
      BY <2>1, <3>3
  <2>3. (CHOOSE n \in fit : \A m \in fit : n <= m) \in fit
    BY <2>2
  <2>4. FirstHealthy(chain, healthy) = chain[CHOOSE n \in fit : \A m \in fit : n <= m]
    BY <1>2 DEF FirstHealthy
  <2> HIDE DEF fit
  <2>5. \A n \in fit : chain[n] \in Providers
    BY DEF fit
  <2> QED
    BY <2>3, <2>4, <2>5
<1> QED
  BY <1>1, <1>2

\* Registry.Get and Registry.GetAfter answer with a provider or with none.
LEMMA ResolveType ==
    ASSUME NEW s \in Sessions, NEW healthy
    PROVE  Resolve(s, healthy) \in Providers \cup {None}
<1>1. Routing[RoutingKey[s]] \in Seq(Providers) /\ Routing["default"] \in Seq(Providers)
  BY SessionAssumption DEF SessionAssumption
<1> QED
  BY <1>1, FirstHealthyType DEF Resolve

\* The chain behind the provider that failed holds providers only.
LEMMA AfterType ==
    ASSUME NEW s \in Sessions, NEW p, NEW healthy
    PROVE  After(s, p, healthy) \in Providers \cup {None}
<1> DEFINE chain == Routing[RoutingKey[s]]
           at == {n \in DOMAIN chain : chain[n] = p}
           first == CHOOSE n \in at : \A m \in at : n <= m
<1>1. chain \in Seq(Providers)
  BY SessionAssumption DEF SessionAssumption
<1>2. CASE at = {}
  BY <1>2 DEF After
<1>3. CASE at # {}
  <2>1. at \subseteq Nat
    BY <1>1
  <2>2. \E n \in at : \A m \in at : n <= m
    <3> HIDE DEF at
    <3>1. IsWellFoundedOn(OpToRel(<, Nat), Nat)
      BY NatLessThanWellFounded, Zenon
    <3>2. PICK n \in at : \A m \in at : ~(<<m, n>> \in OpToRel(<, Nat))
      BY <1>3, <2>1, <3>1, WFMin, Zenon
    <3>3. \A m \in at : ~(m < n)
      BY <2>1, <3>2 DEF OpToRel
    <3> QED
      BY <2>1, <3>3
  <2>3. first \in at
    <3> HIDE DEF at
    <3> QED
      BY <2>2
  <2>4. first \in 1..Len(chain)
    <3> HIDE DEF first, chain
    <3> QED
      BY <1>1, <2>3
  <2>5. SubSeq(chain, first + 1, Len(chain)) \in Seq(Providers)
    <3> HIDE DEF first, chain
    <3>1. first + 1 \in Int /\ Len(chain) \in Int
      BY <1>1, <2>4
    <3>2. \A i \in first + 1 .. Len(chain) : chain[i] \in Providers
      BY <1>1, <2>4
    <3> QED
      BY <3>1, <3>2, SubSeqProperties
  <2>6. After(s, p, healthy) = FirstHealthy(SubSeq(chain, first + 1, Len(chain)), healthy)
    BY <1>3 DEF After
  <2> QED
    BY <2>5, <2>6, FirstHealthyType
<1> QED
  BY <1>2, <1>3

\* A worker takes a session that no worker runs, and nothing else of the state changes.
LEMMA TakeFacts ==
    ASSUME TypeOK, NEW w \in Workers, NEW s \in Sessions, Take(w, s)
    PROVE  /\ worker[w].at = "idle" /\ row[s] = "pending" /\ told[s] = "no" /\ s \notin Running
           /\ worker' \in [Workers -> WorkerRec]
           /\ \A v \in Workers \ {w} : worker'[v] = worker[v]
           /\ worker'[w].at \in {"unserved", "activate"}
           /\ worker'[w].session = s
           /\ worker'[w].provider = None => worker'[w].at = "unserved"
           /\ ~worker'[w].late /\ ~worker'[w].isolated /\ ~worker'[w].retried
           /\ UNCHANGED <<row, spent, forge, git, onActivity, told, upsets>>
<1>1. PICK p, at, r :
          /\ p \in Providers \cup {None} /\ at \in {"unserved", "activate"}
          /\ p = None => at = "unserved"
          /\ Fresh(r, at, s, p)
          /\ worker' = [worker EXCEPT ![w] = r]
  BY ResolveType DEF Take, Fresh
<1>2. at \in Ats
  BY <1>1 DEF Ats
<1>3. /\ r \in WorkerRec /\ r.at = at /\ r.session = s /\ r.provider = p
      /\ ~r.late /\ ~r.isolated /\ ~r.retried
  BY <1>1, <1>2, FreshRec
<1>4. /\ worker' \in [Workers -> WorkerRec] /\ worker'[w] = r
      /\ \A v \in Workers \ {w} : worker'[v] = worker[v]
  BY <1>1, <1>3, PutFacts
<1>5. /\ worker[w].at = "idle" /\ row[s] = "pending" /\ told[s] = "no" /\ s \notin Running
      /\ UNCHANGED <<row, spent, forge, git, onActivity, told, upsets>>
  BY Zenon DEF Take
<1> QED
  BY <1>1, <1>3, <1>4, <1>5, Zenon

\* A failover starts the run of the same session over, with another provider.
LEMMA FailoverFacts ==
    ASSUME TypeOK, NEW w \in Workers, Failover(w)
    PROVE  /\ worker[w].at = "ran" /\ worker[w].error = "retryable"
           /\ worker' \in [Workers -> WorkerRec]
           /\ \A v \in Workers \ {w} : worker'[v] = worker[v]
           /\ worker'[w].at = "activate" /\ worker'[w].session = worker[w].session
           /\ worker'[w].provider # None
           /\ ~worker'[w].late /\ ~worker'[w].isolated /\ ~worker'[w].retried
           /\ UNCHANGED <<row, spent, forge, git, onActivity, told, upsets>>
<1>1. PICK p, r :
          /\ p # None /\ p \in Providers \cup {None}
          /\ Fresh(r, "activate", S(w), p)
          /\ worker' = [worker EXCEPT ![w] = r]
  <2>1. worker[w].at = "ran"
    BY DEF Failover
  <2>2. S(w) \in Sessions
    BY <2>1, OwnSession DEF Busy
  <2> QED
    BY <2>2, AfterType DEF Failover, Fresh
<1>2. S(w) \in Sessions \cup {None} /\ "activate" \in Ats
  BY WorkerType DEF WorkerRec, S, Ats
<1>3. /\ r \in WorkerRec /\ r.at = "activate" /\ r.session = S(w) /\ r.provider = p
      /\ ~r.late /\ ~r.isolated /\ ~r.retried
  BY <1>1, <1>2, FreshRec
<1>4. /\ worker' \in [Workers -> WorkerRec] /\ worker'[w] = r
      /\ \A v \in Workers \ {w} : worker'[v] = worker[v]
  BY <1>1, <1>3, PutFacts
<1>5. /\ worker[w].at = "ran" /\ worker[w].error = "retryable"
      /\ UNCHANGED <<row, spent, forge, git, onActivity, told, upsets>>
  BY Zenon DEF Failover
<1> QED
  BY <1>1, <1>3, <1>4, <1>5, Zenon DEF S

\* The types of the variables beside worker, which only sums and sets need.
StoreTypes ==
    /\ row \in [Sessions -> {"pending", "active", "completed", "failed"}]
    /\ spent \in Nat
    /\ answered \subseteq Sessions
    /\ branch \subseteq Issues
    /\ worktree \in [Sessions -> {"none", "live", "gone"}]
    /\ pushed \subseteq WritesCode
    /\ onActivity \in [Providers -> Sessions \cup {None}]
    /\ told \in [Sessions -> {"no", "success", "failure", "lost"}]
    /\ upsets \in 0..MaxUpsets

\* A busy worker has a session of its own, and a provider once it was given one.
WorkersOwn ==
    \A w \in Busy : /\ S(w) # None
                    /\ worker[w].provider = None => worker[w].at = "unserved"
                    /\ \A v \in Busy \ {w} : S(v) # S(w)

\* The parts of the type invariant.
LEMMA TypeParts ==
    /\ TypeOK => StoreTypes /\ worker \in [Workers -> WorkerRec] /\ WorkersOwn
    /\ StoreTypes' /\ (worker \in [Workers -> WorkerRec])' /\ WorkersOwn' => TypeOK'
  BY DEF TypeOK, StoreTypes, WorkerRec, WorkersOwn

\* A step of a run keeps the types of the shared state.
LEMMA StoreStep ==
    ASSUME TypeOK, PlaceInv, NEW w \in Busy, RunAction(w) PROVE StoreTypes'
<1> USE DEF Fine, Upset, InTime, Fails, git, forge, StoreTypes
<1>0. StoreTypes
  BY TypeParts
<1>1. w \in Workers /\ S(w) \in Sessions /\ I(w) \in Issues
  BY OwnSession DEF I, Issues
<1>2. MaxUpsets \in Nat /\ Budget \in Nat /\ WritesCode \subseteq Sessions
  BY SessionAssumption DEF SessionAssumption
<1>3. CASE Activate(w)
  BY <1>0, <1>1, <1>2, <1>3 DEF Activate, UpdateSession
<1>4. CASE CheckBudget(w)
  BY <1>0, <1>1, <1>2, <1>4 DEF CheckBudget
<1>5. CASE PruneWorktrees(w)
  BY <1>0, <1>1, <1>2, <1>5 DEF PruneWorktrees
<1>6. CASE AddWorktree(w)
  BY <1>0, <1>1, <1>2, <1>6 DEF AddWorktree
<1>7. CASE Hook(w)
  BY <1>0, <1>1, <1>2, <1>7 DEF Hook
<1>8. CASE Chat(w)
  BY <1>0, <1>1, <1>2, <1>8 DEF Chat
<1>9. CASE Answered(w)
  <2>1. spent' \in Nat
    BY <1>0, <1>9 DEF Answered, RecordUsage, Cost
  <2> QED
    BY <1>0, <1>1, <1>2, <1>9, <2>1 DEF Answered, RecordUsage
<1>10. CASE Commit(w)
  <2>1. S(w) \in WritesCode
    BY <1>10 DEF PlaceInv, Commit
  <2> QED
    BY <1>0, <1>1, <1>2, <1>10, <2>1 DEF Commit
<1>11. CASE PostComment(w)
  BY <1>0, <1>1, <1>2, <1>11 DEF PostComment
<1>12. CASE Complete(w)
  BY <1>0, <1>1, <1>2, <1>12 DEF Complete, UpdateSession
<1>13. CASE FailTask(w)
  BY <1>0, <1>1, <1>2, <1>13 DEF FailTask, UpdateSession
<1>14. CASE Unhook(w)
  BY <1>0, <1>1, <1>2, <1>14 DEF Unhook
<1>15. CASE RemoveDir(w)
  BY <1>0, <1>1, <1>2, <1>15 DEF RemoveDir
<1>16. CASE Forget(w)
  BY <1>0, <1>1, <1>2, <1>16 DEF Forget
<1>17. CASE DeleteBranch(w)
  BY <1>0, <1>1, <1>2, <1>17 DEF DeleteBranch
<1> QED
  BY <1>3, <1>4, <1>5, <1>6, <1>7, <1>8, <1>9, <1>10, <1>11, <1>12, <1>13, <1>14, <1>15,
     <1>16, <1>17 DEF RunAction

(***************************************************************************)
(* A step of a run, whichever it is.                                       *)
(***************************************************************************)

\* It moves one busy worker, which keeps its session and its provider.
LEMMA RunFacts ==
    ASSUME TypeOK, NEW w \in Workers, RunAction(w)
    PROVE  /\ worker' \in [Workers -> WorkerRec]
           /\ \A v \in Workers \ {w} : worker'[v] = worker[v]
           /\ worker[w].at \notin {"idle", "unserved"} /\ worker'[w].at \notin {"idle", "unserved"}
           /\ worker'[w].session = worker[w].session
           /\ worker'[w].provider = worker[w].provider
           /\ worker'[w].late = worker[w].late
           /\ upsets' \in {upsets, upsets + 1}
           /\ UNCHANGED told
<1>1. CASE Activate(w)
  BY <1>1, GoFacts, SettleFacts DEF Activate, Fine, Upset, InTime, Fails, Ats
<1>2. CASE CheckBudget(w)
  BY <1>2, GoFacts, SettleFacts DEF CheckBudget, Fine, Upset, InTime, Fails, Ats
<1>3. CASE PruneWorktrees(w)
  BY <1>3, GoFacts, SettleFacts DEF PruneWorktrees, Fine, Upset, InTime, Fails, Ats
<1>4. CASE AddWorktree(w)
  BY <1>4, AddFacts DEF AddWorktree, Fine, Upset, InTime, Fails, Ats
<1>5. CASE Hook(w)
  BY <1>5, GoFacts, SettleFacts DEF Hook, Fine, Upset, InTime, Fails, Ats
<1>6. CASE Chat(w)
  BY <1>6, ChatFacts DEF Chat, Fine, Upset, InTime, Fails, Ats
<1>7. CASE Answered(w)
  BY <1>7, AnsweredFacts DEF Answered, Fine, Upset, InTime, Fails, Ats
<1>8. CASE Commit(w)
  BY <1>8, GoFacts, SettleFacts DEF Commit, Fine, Upset, InTime, Fails, Ats
<1>9. CASE PostComment(w)
  BY <1>9, GoFacts, SettleFacts DEF PostComment, Fine, Upset, InTime, Fails, Ats
<1>10. CASE Complete(w)
  BY <1>10, GoFacts, SettleFacts DEF Complete, Fine, Upset, InTime, Fails, Ats
<1>11. CASE FailTask(w)
  BY <1>11, GoFacts, SettleFacts DEF FailTask, Fine, Upset, InTime, Fails, Ats
<1>12. CASE Unhook(w)
  BY <1>12, GoFacts, SettleFacts DEF Unhook, Fine, Upset, InTime, Fails, Ats
<1>13. CASE RemoveDir(w)
  BY <1>13, GoFacts, SettleFacts DEF RemoveDir, Fine, Upset, InTime, Fails, Ats
<1>14. CASE Forget(w)
  BY <1>14, GoFacts, SettleFacts DEF Forget, Fine, Upset, InTime, Fails, Ats
<1>15. CASE DeleteBranch(w)
  BY <1>15, GoFacts, SettleFacts DEF DeleteBranch, Fine, Upset, InTime, Fails, Ats
<1> QED
  BY <1>1, <1>2, <1>3, <1>4, <1>5, <1>6, <1>7, <1>8, <1>9, <1>10, <1>11, <1>12, <1>13,
     <1>14, <1>15 DEF RunAction

\* Which workers work, and on what, does not change.
LEMMA RunBusy ==
    ASSUME TypeOK, NEW w \in Workers, RunAction(w)
    PROVE  /\ w \in Busy /\ Busy' = Busy /\ Running' = Running
           /\ \A v \in Busy : S(v)' = S(v) /\ I(v)' = I(v)
<1>1. w \in Busy /\ Busy' = Busy
  BY RunFacts DEF Busy
<1>2. \A v \in Busy : S(v)' = S(v) /\ I(v)' = I(v)
  BY RunFacts DEF Busy, S, I
<1>3. Running' = {worker'[v].session : v \in Busy} /\ Running = {worker[v].session : v \in Busy}
  BY <1>1 DEF Running
<1>4. \A v \in Busy : worker'[v].session = worker[v].session
  BY RunFacts DEF Busy
<1>5. Running' = Running
  BY <1>3, <1>4
<1> QED
  BY <1>1, <1>2, <1>5

\* The rest of the type invariant: the workers keep their own sessions.
LEMMA OwnStep ==
    ASSUME TypeOK, NEW w \in Workers, RunAction(w) PROVE WorkersOwn'
<1>1. WorkersOwn
  BY TypeParts
<1>2. \A v \in Busy : worker'[v].provider = worker[v].provider /\ worker'[v].session = worker[v].session
                      /\ (worker'[v].at = worker[v].at \/ worker[v].at # "unserved")
  BY RunFacts DEF Busy
<1> QED
  BY <1>1, <1>2, RunBusy DEF WorkersOwn, S

\* PlaceInv: where a run is and what it holds.
LEMMA PlaceStep ==
    ASSUME TypeOK, PlaceInv, NEW w \in Workers, RunAction(w) PROVE PlaceInv'
<1> DEFINE P(r, u) ==
        /\ r.at \in {"unserved", "activate", "budget", "prune", "add", "reject"} => ~r.isolated
        /\ r.at \in {"prune", "add"} \/ r.isolated => r.session \in WritesCode
        /\ r.at \in {"commit", "remove", "forget", "delete"} => r.isolated
        /\ r.at \in {"fail", "reject"} => r.error # "none"
        /\ r.at = "complete" => r.error = "none"
        /\ r.at = "post" /\ r.reply = "empty" => r.session \in WritesCode
        /\ r.late => u > 0
<1>a. SUFFICES P(worker'[w], upsets')
  <2>1. upsets \in Nat
    BY TypeParts DEF StoreTypes
  <2> QED
    BY <2>1, RunBusy, RunFacts DEF PlaceInv, Busy, S
<1>b. P(worker[w], upsets) /\ worker[w] \in WorkerRec /\ upsets \in Nat
  BY RunBusy, WorkerType, TypeParts DEF PlaceInv, S, StoreTypes
<1>1. CASE Activate(w)
  BY <1>b, <1>1, GoFacts, SettleFacts DEF Activate, Fine, Upset, InTime, Fails
<1>2. CASE CheckBudget(w)
  BY <1>b, <1>2, GoFacts, SettleFacts DEF CheckBudget, Fine, Upset, InTime, Fails, S
<1>3. CASE PruneWorktrees(w)
  BY <1>b, <1>3, GoFacts, SettleFacts DEF PruneWorktrees, Fine, Upset, InTime, Fails
<1>4. CASE AddWorktree(w)
  BY <1>b, <1>4, AddFacts
<1>5. CASE Hook(w)
  BY <1>b, <1>5, GoFacts, SettleFacts DEF Hook, Fine, Upset, InTime, Fails
<1>6. CASE Chat(w)
  BY <1>b, <1>6, ChatFacts DEF Chat, Fine, Upset, InTime, Fails
<1>7. CASE Answered(w)
  BY <1>b, <1>7, AnsweredFacts DEF S
<1>8. CASE Commit(w)
  BY <1>b, <1>8, GoFacts, SettleFacts DEF Commit, Fine, Upset, InTime, Fails
<1>9. CASE PostComment(w)
  BY <1>b, <1>9, GoFacts, SettleFacts DEF PostComment, Fine, Upset, InTime, Fails
<1>10. CASE Complete(w)
  BY <1>b, <1>10, GoFacts, SettleFacts DEF Complete, Fine, Upset, InTime, Fails
<1>11. CASE FailTask(w)
  BY <1>b, <1>11, GoFacts, SettleFacts DEF FailTask, Fine, Upset, InTime, Fails
<1>12. CASE Unhook(w)
  BY <1>b, <1>12, GoFacts, SettleFacts DEF Unhook, Fine, Upset, InTime, Fails
<1>13. CASE RemoveDir(w)
  BY <1>b, <1>13, GoFacts, SettleFacts DEF RemoveDir, Fine, Upset, InTime, Fails
<1>14. CASE Forget(w)
  BY <1>b, <1>14, GoFacts, SettleFacts DEF Forget, Fine, Upset, InTime, Fails
<1>15. CASE DeleteBranch(w)
  BY <1>b, <1>15, GoFacts, SettleFacts DEF DeleteBranch, Fine, Upset, InTime, Fails
<1> QED
  BY <1>1, <1>2, <1>3, <1>4, <1>5, <1>6, <1>7, <1>8, <1>9, <1>10, <1>11, <1>12, <1>13,
     <1>14, <1>15 DEF RunAction

\* OutcomeInv and OutcomeTold: only the row of the worker's own session changes, and
\* nobody has told of it yet.
LEMMA OutcomeStep ==
    ASSUME TypeOK, PlaceInv, OutcomeInv, OutcomeTold, NEW w \in Workers, RunAction(w)
    PROVE  OutcomeInv' /\ OutcomeTold'
<1> DEFINE P(r, line, heard, done) ==
        /\ heard = "no"
        /\ line = "completed" <=> r.at \in Settled /\ r.error = "none"
        /\ r.at = "complete" \/ line = "completed" => done
        Done(s, said) == s \in WritesCode \cup said
<1>a. /\ w \in Busy /\ S(w) \in Sessions /\ \A v \in Busy \ {w} : S(v) # S(w) /\ S(v) \in Sessions
      /\ row \in [Sessions -> {"pending", "active", "completed", "failed"}]
      /\ worker[w] \in WorkerRec /\ pushed \subseteq WritesCode
  BY RunBusy, OwnSession, TypeParts DEF StoreTypes
<1>b. P(worker[w], row[S(w)], told[S(w)], Done(S(w), answered))
  BY <1>a DEF OutcomeInv
<1>c. SUFFICES /\ P(worker'[w], row'[S(w)], told[S(w)], Done(S(w), answered'))
               /\ \A s \in Sessions \ {S(w)} : row'[s] = row[s]
               /\ answered \subseteq answered'
  <2>1. OutcomeInv'
    <3> SUFFICES ASSUME NEW v \in Busy
                 PROVE  P(worker'[v], row'[S(v)], told'[S(v)], Done(S(v), answered'))
      BY RunBusy DEF OutcomeInv
    <3>1. CASE v = w
      BY <1>c, <3>1, RunFacts
    <3>2. CASE v # w
      <4>1. P(worker[v], row[S(v)], told[S(v)], Done(S(v), answered))
        BY DEF OutcomeInv
      <4> QED
        BY <1>a, <1>c, <3>2, <4>1, RunFacts, RunBusy DEF Busy
    <3> QED
      BY <3>1, <3>2
  <2>2. OutcomeTold'
    BY <1>a, <1>b, <1>c, RunFacts DEF OutcomeTold
  <2> QED
    BY <2>1, <2>2
<1>d. /\ worker[w].at \in {"fail", "reject"} => worker[w].error # "none"
      /\ worker[w].at = "complete" => worker[w].error = "none"
      /\ worker[w].at = "post" /\ worker[w].reply = "empty" => S(w) \in WritesCode
  BY <1>a DEF PlaceInv
<1>1. CASE Activate(w)
  BY <1>a, <1>b, <1>1, GoFacts, SettleFacts DEF Activate, Settled, forge,
     UpdateSession
<1>2. CASE CheckBudget(w)
  BY <1>a, <1>b, <1>2, GoFacts, SettleFacts DEF CheckBudget, Settled, forge,
     UpdateSession
<1>3. CASE PruneWorktrees(w)
  BY <1>a, <1>b, <1>3, GoFacts, SettleFacts DEF PruneWorktrees, Settled, forge,
     UpdateSession
<1>4. CASE AddWorktree(w)
  BY <1>a, <1>b, <1>4, AddFacts DEF AddWorktree, Settled, forge, UpdateSession
<1>5. CASE Hook(w)
  BY <1>a, <1>b, <1>5, GoFacts, SettleFacts DEF Hook, Settled, forge, UpdateSession
<1>6. CASE Chat(w)
  BY <1>a, <1>b, <1>6, ChatFacts DEF Chat, Settled, forge, UpdateSession
<1>7. CASE Answered(w)
  BY <1>a, <1>b, <1>7, AnsweredFacts DEF Answered, Settled, forge, UpdateSession
<1>8. CASE Commit(w)
  BY <1>a, <1>b, <1>8, GoFacts, SettleFacts DEF Commit, Settled, forge, UpdateSession
<1>9. CASE PostComment(w)
  BY <1>a, <1>b, <1>d, <1>9, GoFacts, SettleFacts DEF PostComment, Settled, S
<1>10. CASE Complete(w)
  BY <1>a, <1>b, <1>d, <1>10, GoFacts, SettleFacts DEF Complete, Settled, forge, UpdateSession
<1>11. CASE FailTask(w)
  BY <1>a, <1>b, <1>d, <1>11, GoFacts DEF FailTask, Settled, forge, UpdateSession
<1>12. CASE Unhook(w)
  BY <1>a, <1>b, <1>12, GoFacts, SettleFacts DEF Unhook, Settled, forge, UpdateSession
<1>13. CASE RemoveDir(w)
  BY <1>a, <1>b, <1>13, GoFacts, SettleFacts DEF RemoveDir, Settled, forge,
     UpdateSession
<1>14. CASE Forget(w)
  BY <1>a, <1>b, <1>14, GoFacts, SettleFacts DEF Forget, Settled, forge, UpdateSession
<1>15. CASE DeleteBranch(w)
  BY <1>a, <1>b, <1>15, GoFacts, SettleFacts DEF DeleteBranch, Settled, forge,
     UpdateSession
<1> QED
  BY <1>1, <1>2, <1>3, <1>4, <1>5, <1>6, <1>7, <1>8, <1>9, <1>10, <1>11, <1>12, <1>13,
     <1>14, <1>15 DEF RunAction

(***************************************************************************)
(* Workspaces.                                                             *)
(***************************************************************************)

\* Only git worktree add isolates a worker, and no step takes one back from the end of
\* its workspace.
LEMMA IsolatedShrinks ==
    ASSUME TypeOK, NEW w \in Workers, RunAction(w), ~AddWorktree(w)
    PROVE  worker'[w].isolated = worker[w].isolated /\ Isolated' \subseteq Isolated
<1>a. worker[w] \in WorkerRec
  BY WorkerType
<1>b. SUFFICES /\ worker'[w].isolated = worker[w].isolated
               /\ worker[w].at \in {"forget", "delete", "ran"}
                    => worker'[w].at \in {"forget", "delete", "ran"}
  BY RunBusy, RunFacts DEF Isolated, Busy
<1>1. CASE Activate(w)
  BY <1>a, <1>1, GoFacts, SettleFacts DEF Activate
<1>2. CASE CheckBudget(w)
  BY <1>a, <1>2, GoFacts, SettleFacts DEF CheckBudget
<1>3. CASE PruneWorktrees(w)
  BY <1>a, <1>3, GoFacts, SettleFacts DEF PruneWorktrees
<1>4. CASE AddWorktree(w)
  BY <1>a, <1>4
<1>5. CASE Hook(w)
  BY <1>a, <1>5, GoFacts, SettleFacts DEF Hook
<1>6. CASE Chat(w)
  BY <1>a, <1>6, ChatFacts DEF Chat
<1>7. CASE Answered(w)
  BY <1>a, <1>7, AnsweredFacts DEF Answered
<1>8. CASE Commit(w)
  BY <1>a, <1>8, GoFacts, SettleFacts DEF Commit
<1>9. CASE PostComment(w)
  BY <1>a, <1>9, GoFacts, SettleFacts DEF PostComment
<1>10. CASE Complete(w)
  BY <1>a, <1>10, GoFacts, SettleFacts DEF Complete
<1>11. CASE FailTask(w)
  BY <1>a, <1>11, GoFacts, SettleFacts DEF FailTask
<1>12. CASE Unhook(w)
  BY <1>a, <1>12, GoFacts, SettleFacts DEF Unhook
<1>13. CASE RemoveDir(w)
  BY <1>a, <1>13, GoFacts, SettleFacts DEF RemoveDir
<1>14. CASE Forget(w)
  BY <1>a, <1>14, GoFacts, SettleFacts DEF Forget
<1>15. CASE DeleteBranch(w)
  BY <1>a, <1>15, GoFacts, SettleFacts DEF DeleteBranch
<1> QED
  BY <1>1, <1>2, <1>3, <1>4, <1>5, <1>6, <1>7, <1>8, <1>9, <1>10, <1>11, <1>12, <1>13,
     <1>14, <1>15 DEF RunAction

\* The steps that leave git alone.
QuietAction(w) ==
    \/ Activate(w) \/ CheckBudget(w) \/ Hook(w) \/ Chat(w) \/ Answered(w) \/ Commit(w)
    \/ PostComment(w) \/ Complete(w) \/ FailTask(w) \/ Unhook(w)

\* They leave an isolated worker in the use of its workspace.
LEMMA QuietFacts ==
    ASSUME TypeOK, PlaceInv, NEW w \in Workers, QuietAction(w)
    PROVE  /\ UNCHANGED git
           /\ worker[w].isolated => /\ worker[w].at \notin {"forget", "delete", "ran"}
                                    /\ worker'[w].at \notin {"forget", "delete", "ran"}
<1>a. RunAction(w) /\ worker[w] \in WorkerRec
  BY WorkerType DEF RunAction, QuietAction
<1>b. worker[w].at \in {"activate", "budget", "reject"} => ~worker[w].isolated
  BY <1>a, RunBusy DEF PlaceInv
<1>1. CASE Activate(w)
  BY <1>a, <1>b, <1>1, GoFacts, SettleFacts DEF Activate, git
<1>2. CASE CheckBudget(w)
  BY <1>a, <1>b, <1>2, GoFacts, SettleFacts DEF CheckBudget, git
<1>3. CASE Hook(w)
  BY <1>a, <1>b, <1>3, GoFacts, SettleFacts DEF Hook, git
<1>4. CASE Chat(w)
  BY <1>a, <1>b, <1>4, ChatFacts DEF Chat, git
<1>5. CASE Answered(w)
  BY <1>a, <1>b, <1>5, AnsweredFacts DEF Answered, git
<1>6. CASE Commit(w)
  BY <1>a, <1>b, <1>6, GoFacts, SettleFacts DEF Commit, git
<1>7. CASE PostComment(w)
  BY <1>a, <1>b, <1>7, GoFacts, SettleFacts DEF PostComment, git
<1>8. CASE Complete(w)
  BY <1>a, <1>b, <1>8, GoFacts, SettleFacts DEF Complete, git
<1>9. CASE FailTask(w)
  BY <1>a, <1>b, <1>9, GoFacts, SettleFacts DEF FailTask, git
<1>10. CASE Unhook(w)
  BY <1>a, <1>b, <1>10, GoFacts, SettleFacts DEF Unhook, git
<1> QED
  BY <1>1, <1>2, <1>3, <1>4, <1>5, <1>6, <1>7, <1>8, <1>9, <1>10 DEF QuietAction

\* WorkspaceIsMine: what another worker prunes or deletes is never the workspace of this
\* one, because git refuses to check a branch out twice.
LEMMA WorkspaceStep ==
    ASSUME TypeOK, PlaceInv, WorkspaceIsMine, NEW w \in Workers, RunAction(w)
    PROVE  WorkspaceIsMine'
<1>a. /\ w \in Busy /\ Busy' = Busy
      /\ \A v \in Busy : /\ S(v) \in Sessions /\ S(v)' = S(v) /\ I(v)' = I(v)
                         /\ \A u \in Busy \ {v} : S(u) # S(v)
      /\ worktree \in [Sessions -> {"none", "live", "gone"}]
  BY RunBusy, OwnSession, TypeParts DEF StoreTypes
<1>b. Isolated \subseteq Busy /\ Isolated' \subseteq Busy
  BY <1>a DEF Isolated
<1>c. \A v \in Isolated : S(v) \in Running /\ IssueOf[S(v)] = I(v)
  BY <1>b DEF Running, S, I
<1>1. CASE QuietAction(w)
  <2>1. UNCHANGED git /\ Isolated' \subseteq Isolated
    <3>1. ~AddWorktree(w)
      BY <1>1 DEF QuietAction, AddWorktree, Activate, CheckBudget, Hook, Chat, Answered,
                  Commit, PostComment, Complete, FailTask, Unhook
    <3> QED
      BY <1>1, <3>1, QuietFacts, IsolatedShrinks
  <2> QED
    BY <1>a, <1>b, <2>1 DEF WorkspaceIsMine, git
<1>2. CASE PruneWorktrees(w)
  <2>1. ~AddWorktree(w) /\ UNCHANGED branch
    BY <1>2 DEF PruneWorktrees, AddWorktree
  <2>2. Isolated' \subseteq Isolated
    BY <2>1, IsolatedShrinks
  <2>3. \A v \in Isolated : worktree'[S(v)] = worktree[S(v)]
    BY <1>a, <1>b, <1>c, <1>2 DEF PruneWorktrees, Leftover, WorkspaceIsMine
  <2> QED
    BY <1>a, <1>b, <2>1, <2>2, <2>3 DEF WorkspaceIsMine
<1>3. CASE AddWorktree(w)
  <2>1. CASE ~CheckedOut(I(w)) /\ worktree' = [worktree EXCEPT ![S(w)] = "live"]
                               /\ branch' = branch \cup {I(w)}
    <3>1. Isolated' \subseteq Isolated \cup {w}
      BY <1>a, RunFacts DEF Isolated, Busy
    <3>2. \A v \in Isolated \ {w} : I(v) # I(w)
      BY <1>a, <1>b, <1>c, <2>1 DEF WorkspaceIsMine, CheckedOut
    <3> QED
      BY <1>a, <1>b, <2>1, <3>1, <3>2 DEF WorkspaceIsMine
  <2>2. CASE worker'[w].isolated = worker[w].isolated /\ UNCHANGED git
    <3>1. worker[w].at = "add"
      BY <1>3, AddFacts
    <3>2. Isolated' \subseteq Isolated
      BY <1>a, <2>2, <3>1, RunFacts DEF Isolated, Busy
    <3> QED
      BY <1>a, <1>b, <2>2, <3>2 DEF WorkspaceIsMine, git
  <2> QED
    BY <1>3, <2>1, <2>2, AddFacts
<1>4. CASE RemoveDir(w)
  <2>1. ~AddWorktree(w) /\ UNCHANGED branch /\ worker'[w].at = "forget"
    BY <1>4, GoFacts DEF RemoveDir, AddWorktree
  <2>2. Isolated' \subseteq Isolated /\ w \notin Isolated'
    BY <2>1, IsolatedShrinks DEF Isolated
  <2>3. \A v \in Isolated' : worktree'[S(v)] = worktree[S(v)]
    BY <1>a, <1>b, <1>4, <2>2 DEF RemoveDir
  <2> QED
    BY <1>a, <1>b, <2>1, <2>2, <2>3 DEF WorkspaceIsMine
<1>5. CASE Forget(w)
  <2>1. ~AddWorktree(w) /\ UNCHANGED branch
    BY <1>5 DEF Forget, AddWorktree
  <2>2. Isolated' \subseteq Isolated
    BY <2>1, IsolatedShrinks
  <2>3. \A v \in Isolated : worktree'[S(v)] = worktree[S(v)]
    BY <1>a, <1>b, <1>5 DEF Forget, WorkspaceIsMine
  <2> QED
    BY <1>a, <1>b, <2>1, <2>2, <2>3 DEF WorkspaceIsMine
<1>6. CASE DeleteBranch(w)
  <2>1. ~AddWorktree(w) /\ UNCHANGED worktree
    BY <1>6 DEF DeleteBranch, AddWorktree
  <2>2. Isolated' \subseteq Isolated
    BY <2>1, IsolatedShrinks
  <2>3. \A v \in Isolated : I(v) \in branch'
    BY <1>a, <1>b, <1>c, <1>6 DEF DeleteBranch, WorkspaceIsMine, CheckedOut
  <2> QED
    BY <1>a, <1>b, <2>1, <2>2, <2>3 DEF WorkspaceIsMine
<1> QED
  BY <1>1, <1>2, <1>3, <1>4, <1>5, <1>6 DEF RunAction, QuietAction

\* The first half of CleanInv: who will remove the worktree of a session.
Remover(w, s) == /\ Keeps(w) /\ S(w) = s /\ worker[w].at # "delete"
                 /\ worker[w].at = "forget" => worktree[s] = "gone"

\* CleanInv: where no call fails, a worker goes on to remove what it made.
LEMMA CleanStep ==
    ASSUME TypeOK, PlaceInv, CleanInv, NEW w \in Workers, RunAction(w)
    PROVE  CleanInv'
<1> SUFFICES ASSUME upsets' = 0
             PROVE  /\ \A s \in Sessions : worktree'[s] # "none" =>
                          \E v \in Workers : Remover(v, s)'
                    /\ \A i \in branch' : \E v \in Workers : Keeps(v)' /\ I(v)' = i
  BY DEF CleanInv, Remover
<1>a. /\ w \in Busy /\ Busy' = Busy /\ Busy \subseteq Workers
      /\ \A v \in Busy : S(v) \in Sessions /\ S(v)' = S(v) /\ I(v)' = I(v) /\ I(v) = IssueOf[S(v)]
      /\ worktree \in [Sessions -> {"none", "live", "gone"}]
  BY RunBusy, OwnSession, TypeParts DEF StoreTypes, I, Busy
<1>b. upsets = 0 /\ ~Upset
  BY RunFacts, TypeParts DEF StoreTypes, Upset
<1>c. /\ \A s \in Sessions : worktree[s] # "none" => \E v \in Workers : Remover(v, s)
      /\ \A i \in branch : \E v \in Workers : Keeps(v) /\ I(v) = i
  BY <1>b DEF CleanInv, Remover
<1>d. \A v \in Busy \ {w} : worker'[v] = worker[v] /\ (Keeps(v)' <=> Keeps(v))
  BY <1>a, RunFacts DEF Keeps
<1>e. \A v \in Workers : Keeps(v) => v \in Busy
  BY DEF Keeps
<1>1. CASE QuietAction(w)
  <2>1. Keeps(w) => /\ Keeps(w)' /\ worker'[w].at \notin {"forget", "delete", "ran"}
    <3>1. ~AddWorktree(w)
      BY <1>1 DEF QuietAction, AddWorktree, Activate, CheckBudget, Hook, Chat, Answered,
                  Commit, PostComment, Complete, FailTask, Unhook
    <3> QED
      BY <1>a, <1>1, <3>1, QuietFacts, IsolatedShrinks DEF Keeps
  <2>2. UNCHANGED git
    BY <1>1, QuietFacts
  <2> QED
    BY <1>a, <1>c, <1>d, <1>e, <2>1, <2>2 DEF Remover, git
<1>2. CASE PruneWorktrees(w)
  <2>1. ~worker[w].isolated /\ UNCHANGED branch
    BY <1>a, <1>2 DEF PlaceInv, PruneWorktrees
  <2>2. \A s \in Sessions : worktree'[s] # "none" => worktree'[s] = worktree[s]
    BY <1>a, <1>b, <1>2 DEF PruneWorktrees
  <2> QED
    BY <1>a, <1>c, <1>d, <1>e, <2>1, <2>2 DEF Remover, Keeps
<1>3. CASE AddWorktree(w)
  <2>1. CASE /\ worker'[w].isolated
             /\ worktree' = [worktree EXCEPT ![S(w)] = "live"]
             /\ branch' = branch \cup {I(w)}
    <3>1. Keeps(w)' /\ worker'[w].at = "hook" /\ worker[w].at = "add"
      BY <1>a, <1>3, <2>1, AddFacts DEF Keeps
    <3>2. ASSUME NEW s \in Sessions, worktree'[s] # "none"
          PROVE  \E v \in Workers : Remover(v, s)'
      <4>1. CASE s = S(w)
        BY <1>a, <3>1, <4>1 DEF Remover
      <4>2. CASE s # S(w)
        BY <1>a, <1>c, <1>d, <1>e, <2>1, <3>2, <4>2 DEF Remover
      <4> QED
        BY <4>1, <4>2
    <3>3. ASSUME NEW i \in branch' PROVE \E v \in Workers : Keeps(v)' /\ I(v)' = i
      BY <1>a, <1>c, <1>d, <1>e, <2>1, <3>1, <3>3
    <3> QED
      BY <3>2, <3>3
  <2>2. CASE worker'[w].isolated = worker[w].isolated /\ UNCHANGED git
    BY <1>a, <1>c, <1>d, <1>e, <1>3, <2>2, AddFacts DEF Remover, Keeps, git
  <2> QED
    BY <1>3, <2>1, <2>2, AddFacts
<1>4. CASE RemoveDir(w)
  <2>1. /\ worktree' = [worktree EXCEPT ![S(w)] = "gone"] /\ UNCHANGED branch
        /\ worker'[w].at = "forget" /\ ~AddWorktree(w)
    BY <1>b, <1>4, GoFacts DEF RemoveDir, AddWorktree
  <2>2. Keeps(w) /\ Keeps(w)'
    <3>1. worker[w].at = "remove" /\ worker[w].isolated
      BY <1>a, <1>4 DEF RemoveDir, PlaceInv
    <3> QED
      BY <1>a, <2>1, <3>1, IsolatedShrinks DEF Keeps
  <2>3. ASSUME NEW s \in Sessions, worktree'[s] # "none"
        PROVE  \E v \in Workers : Remover(v, s)'
    <3>1. CASE s = S(w)
      BY <1>a, <2>1, <2>2, <3>1 DEF Remover
    <3>2. CASE s # S(w)
      BY <1>a, <1>c, <1>d, <1>e, <2>1, <2>3, <3>2 DEF Remover
    <3> QED
      BY <3>1, <3>2
  <2> QED
    BY <1>a, <1>c, <1>d, <1>e, <2>1, <2>2, <2>3
<1>5. CASE Forget(w)
  <2>1. /\ worktree' = [s \in Sessions |-> IF worktree[s] = "gone" THEN "none" ELSE worktree[s]]
        /\ UNCHANGED branch /\ worker[w].at = "forget"
        /\ worker'[w].at = "delete" /\ ~AddWorktree(w)
    BY <1>b, <1>5, GoFacts DEF Forget, AddWorktree
  <2>2. Keeps(w) => Keeps(w)'
    BY <1>a, <2>1, IsolatedShrinks DEF Keeps
  <2> QED
    BY <1>a, <1>c, <1>d, <1>e, <2>1, <2>2 DEF Remover
<1>6. CASE DeleteBranch(w)
  <2>1. /\ branch' = IF CheckedOut(I(w)) THEN branch ELSE branch \ {I(w)}
        /\ UNCHANGED worktree /\ worker[w].at = "delete"
    BY <1>b, <1>6 DEF DeleteBranch
  <2>2. \A s \in Sessions : worktree[s] # "none" => \E v \in Workers \ {w} : Remover(v, s)
    BY <1>c, <2>1 DEF Remover
  <2>3. \A v \in Workers \ {w}, s \in Sessions : Remover(v, s) => Remover(v, s)'
    BY <1>a, <1>d, <1>e, <2>1 DEF Remover
  <2>4. ASSUME NEW i \in branch' PROVE \E v \in Workers : Keeps(v)' /\ I(v)' = i
    <3>1. CASE i = I(w)
      <4>1. PICK s \in Sessions : IssueOf[s] = i /\ worktree[s] # "none"
        BY <2>1, <2>4, <3>1 DEF CheckedOut
      <4>2. PICK v \in Workers \ {w} : Remover(v, s)
        BY <2>2, <4>1
      <4> QED
        BY <1>a, <1>d, <1>e, <4>1, <4>2 DEF Remover
    <3>2. CASE i # I(w)
      <4>1. i \in branch
        BY <2>1, <2>4
      <4>2. PICK v \in Workers : Keeps(v) /\ I(v) = i
        BY <1>c, <4>1
      <4> QED
        BY <1>a, <1>d, <1>e, <3>2, <4>2
    <3> QED
      BY <3>1, <3>2
  <2> QED
    BY <2>1, <2>2, <2>3, <2>4
<1> QED
  BY <1>1, <1>2, <1>3, <1>4, <1>5, <1>6 DEF RunAction, QuietAction

\* CallbackInv: the deferred call takes down what the run has set up.
LEMMA CallbackStep ==
    ASSUME TypeOK, CallbackInv, NEW w \in Workers, RunAction(w)
    PROVE  CallbackInv'
<1> DEFINE H(v, p) == /\ worker[v].at \in Hooked /\ worker[v].provider = p
                      /\ S(v) = onActivity[p] /\ Notifies(p)
<1>a. /\ w \in Busy /\ Busy' = Busy /\ Busy \subseteq Workers
      /\ \A v \in Busy : S(v)' = S(v)
      /\ onActivity \in [Providers -> Sessions \cup {None}]
  BY RunBusy, TypeParts DEF StoreTypes, Busy
<1>b. \A v \in Workers : worker[v].at \in Hooked => v \in Busy
  BY DEF Hooked, Busy
<1>c. SUFFICES ASSUME NEW p \in Providers, onActivity'[p] # None
               PROVE  \E v \in Workers : H(v, p)'
  BY DEF CallbackInv
<1>1. CASE Hook(w)
  <2>1. /\ worker[w].at = "hook" /\ worker'[w].at = "chat"
        /\ onActivity' = [onActivity EXCEPT ![worker[w].provider] =
                            IF Notifies(worker[w].provider) THEN S(w) ELSE @]
    BY <1>1, GoFacts DEF Hook
  <2>2. CASE p = worker[w].provider /\ Notifies(p)
    <3>1. H(w, p)'
      BY <1>a, <2>1, <2>2, RunFacts DEF Hooked, Notifies
    <3> QED
      BY <3>1
  <2>3. CASE ~(p = worker[w].provider /\ Notifies(p))
    <3>1. onActivity'[p] = onActivity[p]
      BY <1>a, <2>1, <2>3
    <3>2. PICK v \in Workers : H(v, p)
      BY <1>c, <3>1 DEF CallbackInv
    <3>3. v # w
      BY <2>1, <3>2 DEF Hooked
    <3>4. H(v, p)'
      BY <1>a, <1>b, <3>1, <3>2, <3>3, RunFacts DEF Notifies
    <3> QED
      BY <3>4
  <2> QED
    BY <2>2, <2>3
<1>2. CASE Unhook(w)
  <2>1. onActivity' = [onActivity EXCEPT ![worker[w].provider] =
                         IF Notifies(worker[w].provider) THEN None ELSE @]
    BY <1>2 DEF Unhook
  <2>2. onActivity'[p] = onActivity[p] /\ ~(p = worker[w].provider /\ Notifies(p))
    BY <1>a, <1>c, <2>1
  <2>3. PICK v \in Workers : H(v, p)
    BY <1>c, <2>2 DEF CallbackInv
  <2>4. v # w
    BY <2>2, <2>3
  <2>5. H(v, p)'
    BY <1>a, <1>b, <2>2, <2>3, <2>4, RunFacts DEF Notifies
  <2> QED
    BY <2>5
<1>3. CASE ~Hook(w) /\ ~Unhook(w)
  <2>1. UNCHANGED onActivity
    BY <1>3 DEF RunAction, Activate, CheckBudget, PruneWorktrees, AddWorktree, Chat, Answered,
                Commit, PostComment, Complete, FailTask, RemoveDir, Forget, DeleteBranch
  <2>2. PICK v \in Workers : H(v, p)
    BY <1>c, <2>1 DEF CallbackInv
  <2>3. worker[w].at \in Hooked => worker'[w].at \in Hooked
    <3>a. worker[w] \in WorkerRec
      BY WorkerType
    <3>1. CASE Activate(w)
      BY <3>a, <3>1, GoFacts, SettleFacts DEF Activate, Hooked
    <3>2. CASE CheckBudget(w)
      BY <3>a, <3>2, GoFacts, SettleFacts DEF CheckBudget, Hooked
    <3>3. CASE PruneWorktrees(w)
      BY <3>a, <3>3, GoFacts, SettleFacts DEF PruneWorktrees, Hooked
    <3>4. CASE AddWorktree(w)
      BY <3>a, <3>4, AddFacts DEF Hooked
    <3>6. CASE Chat(w)
      BY <3>a, <3>6, ChatFacts DEF Hooked
    <3>7. CASE Answered(w)
      BY <3>a, <3>7, AnsweredFacts DEF Hooked
    <3>8. CASE Commit(w)
      BY <3>a, <3>8, GoFacts, SettleFacts DEF Commit, Hooked
    <3>9. CASE PostComment(w)
      BY <3>a, <3>9, GoFacts, SettleFacts DEF PostComment, Hooked
    <3>10. CASE Complete(w)
      BY <3>a, <3>10, GoFacts, SettleFacts DEF Complete, Hooked
    <3>11. CASE FailTask(w)
      BY <3>a, <3>11, GoFacts, SettleFacts DEF FailTask, Hooked
    <3>13. CASE RemoveDir(w)
      BY <3>a, <3>13, GoFacts, SettleFacts DEF RemoveDir, Hooked
    <3>14. CASE Forget(w)
      BY <3>a, <3>14, GoFacts, SettleFacts DEF Forget, Hooked
    <3>15. CASE DeleteBranch(w)
      BY <3>a, <3>15, GoFacts, SettleFacts DEF DeleteBranch, Hooked
    <3> QED
      BY <1>3, <3>1, <3>2, <3>3, <3>4, <3>6, <3>7, <3>8, <3>9, <3>10, <3>11, <3>13,
         <3>14, <3>15 DEF RunAction
  <2>4. H(v, p)'
    BY <1>a, <1>b, <2>1, <2>2, <2>3, RunFacts DEF Notifies
  <2> QED
    BY <2>4
<1> QED
  BY <1>1, <1>2, <1>3

(***************************************************************************)
(* The budget.                                                             *)
(***************************************************************************)

\* The workers that may charge are finitely many.
LEMMA ChargeCounts ==
    /\ IsFiniteSet(Workers) /\ Cardinality(Workers) \in Nat
    /\ IsFiniteSet(MayCharge) /\ Cardinality(MayCharge) \in Nat
    /\ IsFiniteSet(MayRetry) /\ Cardinality(MayRetry) \in Nat
    /\ Cardinality(MayCharge) <= Cardinality(Workers)
    /\ Cardinality(MayRetry) <= Cardinality(Workers)
<1>1. IsFiniteSet(Workers)
  BY SessionAssumption DEF SessionAssumption
<1>2. MayCharge \in SUBSET Workers /\ MayRetry \in SUBSET Workers
  BY DEF MayCharge, MayRetry
<1> QED
  BY <1>1, <1>2, FS_Subset, FS_CardinalityType

\* The same of the next state, in which Workers is the same set.
LEMMA ChargeCountsNext ==
    /\ IsFiniteSet(MayCharge') /\ Cardinality(MayCharge') \in Nat
    /\ IsFiniteSet(MayRetry') /\ Cardinality(MayRetry') \in Nat
    /\ Cardinality(MayCharge') <= Cardinality(Workers)
    /\ Cardinality(MayRetry') <= Cardinality(Workers)
<1>1. IsFiniteSet(Workers)
  BY SessionAssumption DEF SessionAssumption
<1>2. MayCharge' \in SUBSET Workers /\ MayRetry' \in SUBSET Workers
  BY DEF MayCharge, MayRetry
<1> QED
  BY <1>1, <1>2, FS_Subset, FS_CardinalityType

\* Where no worker may charge that could not before, and nothing is spent, the bound stays.
LEMMA SpendShrinks ==
    ASSUME TypeOK, SpendInv, MayCharge' \subseteq MayCharge, MayRetry' \subseteq MayRetry,
           spent' \in Nat, spent' <= spent
    PROVE  SpendInv'
<1>1. /\ Cardinality(MayCharge') <= Cardinality(MayCharge)
      /\ Cardinality(MayRetry') <= Cardinality(MayRetry)
  BY ChargeCounts, FS_Subset
<1>2. spent \in Nat /\ Budget \in Nat
  BY TypeParts, SessionAssumption DEF StoreTypes, SessionAssumption
<1>3. /\ Cardinality(MayCharge) \in Nat /\ Cardinality(MayRetry) \in Nat
      /\ Cardinality(MayCharge') \in Nat /\ Cardinality(MayRetry') \in Nat
      /\ Cardinality(Workers) \in Nat
  BY ChargeCounts, ChargeCountsNext
<1> QED
  BY <1>1, <1>2, <1>3 DEF SpendInv

\* SpendInv: a charge takes its worker out of those that may charge, or out of those that
\* may charge twice; the check of the budget lets one in only below the budget.
LEMMA SpendStep ==
    ASSUME TypeOK, SpendInv, NEW w \in Workers, RunAction(w)
    PROVE  SpendInv'
<1> DEFINE May == {"prune", "add", "hook", "chat", "answered"}
<1>a. spent \in Nat /\ Budget \in Nat \ {0} /\ worker[w] \in WorkerRec
  BY TypeParts, SessionAssumption DEF StoreTypes, SessionAssumption
<1>b. /\ (worker'[w].at \in May => worker[w].at \in May) => MayCharge' \subseteq MayCharge
      /\ (worker'[w].at \in May /\ ~worker'[w].retried => worker[w].at \in May /\ ~worker[w].retried)
            => MayRetry' \subseteq MayRetry
  BY RunFacts DEF MayCharge, MayRetry
<1>1. CASE CheckBudget(w) /\ spent < Budget
  <2>1. UNCHANGED spent
    BY <1>1 DEF CheckBudget
  <2>2. /\ Cardinality(MayCharge') \in Nat /\ Cardinality(MayRetry') \in Nat
        /\ Cardinality(Workers) \in Nat
        /\ Cardinality(MayCharge') <= Cardinality(Workers)
        /\ Cardinality(MayRetry') <= Cardinality(Workers)
    BY ChargeCounts, ChargeCountsNext
  <2> QED
    BY <1>a, <1>1, <2>1, <2>2 DEF SpendInv
<1>2. CASE Answered(w)
  <2>1. /\ worker[w].at = "answered" /\ spent' \in {spent, spent + 1}
        /\ \/ worker'[w].at \notin May
           \/ worker'[w].at = "chat" /\ worker'[w].retried /\ ~worker[w].retried
    BY <1>2, AnsweredFacts
  <2>2. /\ Cardinality(MayCharge) \in Nat /\ Cardinality(MayRetry) \in Nat
        /\ Cardinality(MayCharge') \in Nat /\ Cardinality(MayRetry') \in Nat
        /\ Cardinality(Workers) \in Nat /\ IsFiniteSet(MayCharge) /\ IsFiniteSet(MayRetry)
    BY ChargeCounts, ChargeCountsNext
  <2>3. CASE worker'[w].at \notin May
    <3>1. MayCharge' \subseteq MayCharge \ {w} /\ MayRetry' \subseteq MayRetry /\ w \in MayCharge
      BY <2>1, <2>3, RunFacts DEF MayCharge, MayRetry
    <3>2. Cardinality(MayCharge \ {w}) = Cardinality(MayCharge) - 1 /\ IsFiniteSet(MayCharge \ {w})
      BY <2>2, <3>1, FS_RemoveElement
    <3>3. Cardinality(MayCharge') <= Cardinality(MayCharge) - 1
      BY <3>1, <3>2, FS_Subset
    <3>4. Cardinality(MayRetry') <= Cardinality(MayRetry)
      BY <2>2, <3>1, FS_Subset
    <3> QED
      BY <1>a, <2>1, <2>2, <3>3, <3>4 DEF SpendInv
  <2>4. CASE worker'[w].at = "chat" /\ worker'[w].retried /\ ~worker[w].retried
    <3>1. MayCharge' \subseteq MayCharge /\ MayRetry' \subseteq MayRetry \ {w} /\ w \in MayRetry
      BY <2>1, <2>4, RunFacts DEF MayCharge, MayRetry
    <3>2. Cardinality(MayRetry \ {w}) = Cardinality(MayRetry) - 1 /\ IsFiniteSet(MayRetry \ {w})
      BY <2>2, <3>1, FS_RemoveElement
    <3>3. Cardinality(MayRetry') <= Cardinality(MayRetry) - 1
      BY <3>1, <3>2, FS_Subset
    <3>4. Cardinality(MayCharge') <= Cardinality(MayCharge)
      BY <2>2, <3>1, FS_Subset
    <3> QED
      BY <1>a, <2>1, <2>2, <3>3, <3>4 DEF SpendInv
  <2> QED
    BY <2>1, <2>3, <2>4
<1>3. CASE ~Answered(w) /\ ~(CheckBudget(w) /\ spent < Budget)
  <2>1. UNCHANGED spent
    BY <1>3 DEF RunAction, Activate, CheckBudget, PruneWorktrees, AddWorktree, Hook, Chat,
                Commit, PostComment, Complete, FailTask, Unhook, RemoveDir, Forget, DeleteBranch
  <2>2. /\ worker'[w].at \in May => worker[w].at \in May
        /\ worker'[w].at \in May /\ ~worker'[w].retried => ~worker[w].retried
    <3>1. CASE Activate(w)
      BY <1>a, <1>3, <3>1, GoFacts, SettleFacts DEF Activate, BudgetLeft
    <3>2. CASE CheckBudget(w)
      BY <1>a, <1>3, <3>2, GoFacts, SettleFacts DEF CheckBudget, BudgetLeft
    <3>3. CASE PruneWorktrees(w)
      BY <1>a, <1>3, <3>3, GoFacts, SettleFacts DEF PruneWorktrees, BudgetLeft
    <3>4. CASE AddWorktree(w)
      BY <1>a, <1>3, <3>4, AddFacts DEF BudgetLeft
    <3>5. CASE Hook(w)
      BY <1>a, <1>3, <3>5, GoFacts, SettleFacts DEF Hook, BudgetLeft
    <3>6. CASE Chat(w)
      BY <1>a, <1>3, <3>6, ChatFacts DEF BudgetLeft
    <3>8. CASE Commit(w)
      BY <1>a, <1>3, <3>8, GoFacts, SettleFacts DEF Commit, BudgetLeft
    <3>9. CASE PostComment(w)
      BY <1>a, <1>3, <3>9, GoFacts, SettleFacts DEF PostComment, BudgetLeft
    <3>10. CASE Complete(w)
      BY <1>a, <1>3, <3>10, GoFacts, SettleFacts DEF Complete, BudgetLeft
    <3>11. CASE FailTask(w)
      BY <1>a, <1>3, <3>11, GoFacts, SettleFacts DEF FailTask, BudgetLeft
    <3>12. CASE Unhook(w)
      BY <1>a, <1>3, <3>12, GoFacts, SettleFacts DEF Unhook, BudgetLeft
    <3>13. CASE RemoveDir(w)
      BY <1>a, <1>3, <3>13, GoFacts, SettleFacts DEF RemoveDir, BudgetLeft
    <3>14. CASE Forget(w)
      BY <1>a, <1>3, <3>14, GoFacts, SettleFacts DEF Forget, BudgetLeft
    <3>15. CASE DeleteBranch(w)
      BY <1>a, <1>3, <3>15, GoFacts, SettleFacts DEF DeleteBranch, BudgetLeft
    <3> QED
      BY <1>3, <3>1, <3>2, <3>3, <3>4, <3>5, <3>6, <3>8, <3>9, <3>10, <3>11, <3>12,
         <3>13, <3>14, <3>15 DEF RunAction
  <2> QED
    BY <1>a, <1>b, <2>1, <2>2, SpendShrinks
<1> QED
  BY <1>1, <1>2, <1>3

(***************************************************************************)
(* The other steps.                                                        *)
(***************************************************************************)

\* A step that leaves the shared state alone and moves a worker that keeps and charges
\* nothing, before and after it: what the invariant says of the others is untouched.
LEMMA OthersStep ==
    ASSUME TypeOK, WorkspaceIsMine, CleanInv, CallbackInv, SpendInv, NEW w \in Workers,
           worker' \in [Workers -> WorkerRec],
           \A v \in Workers \ {w} : worker'[v] = worker[v],
           worker[w].at \in {"idle", "unserved", "ran"}, ~Keeps(w),
           worker'[w].at \in {"idle", "unserved", "activate"}, ~worker'[w].isolated,
           UNCHANGED <<spent, git, onActivity, upsets>>
    PROVE  WorkspaceIsMine' /\ CleanInv' /\ CallbackInv' /\ SpendInv'
<1>1. \A v \in Workers \ {w} : S(v)' = S(v) /\ I(v)' = I(v)
  BY DEF S, I
<1>2. WorkspaceIsMine'
  <2>1. Isolated' \subseteq Isolated \ {w}
    BY DEF Isolated, Busy
  <2>2. Isolated \subseteq Workers
    BY DEF Isolated, Busy
  <2> QED
    BY <1>1, <2>1, <2>2 DEF WorkspaceIsMine, git
<1>3. CleanInv'
  <2>1. \A v \in Workers \ {w} : Keeps(v) => Keeps(v)'
    BY DEF Keeps, Busy
  <2> QED
    BY <1>1, <2>1 DEF CleanInv, git
<1>4. CallbackInv'
  <2>1. worker[w].at \notin Hooked
    BY DEF Hooked
  <2> QED
    BY <1>1, <2>1 DEF CallbackInv, Notifies
<1>5. SpendInv'
  <2>1. MayCharge' \subseteq MayCharge /\ MayRetry' \subseteq MayRetry
    BY DEF MayCharge, MayRetry
  <2>2. spent' \in Nat /\ spent' <= spent
    BY TypeParts DEF StoreTypes
  <2> QED
    BY <2>1, <2>2, SpendShrinks
<1> QED
  BY <1>2, <1>3, <1>4, <1>5

\* A session that a worker takes is nobody else's, and its row is pending.
LEMMA TakeStep ==
    ASSUME IInv, NEW w \in Workers, NEW s \in Sessions, Take(w, s) PROVE IInv'
<1>a. TypeOK /\ PlaceInv /\ OutcomeInv /\ OutcomeTold /\ WorkspaceIsMine /\ CleanInv /\ CallbackInv
        /\ SpendInv /\ StoreTypes /\ WorkersOwn
  BY TypeParts DEF IInv
<1>b. /\ worker[w].at = "idle" /\ row[s] = "pending" /\ told[s] = "no" /\ s \notin Running
      /\ worker' \in [Workers -> WorkerRec]
      /\ \A v \in Workers \ {w} : worker'[v] = worker[v]
      /\ worker'[w].at \in {"unserved", "activate"}
      /\ worker'[w].session = s
      /\ worker'[w].provider = None => worker'[w].at = "unserved"
      /\ ~worker'[w].late /\ ~worker'[w].isolated /\ ~worker'[w].retried
      /\ UNCHANGED <<row, spent, forge, git, onActivity, told, upsets>>
  BY <1>a, TakeFacts
<1>c. /\ Busy' = Busy \cup {w} /\ w \notin Busy /\ Busy \subseteq Workers
      /\ \A v \in Busy : S(v)' = S(v) /\ S(v) # s
      /\ S(w)' = s
  BY <1>b DEF Busy, S, Running
<1>1. TypeOK'
  <2>1. StoreTypes'
    BY <1>a, <1>b DEF StoreTypes, forge, git
  <2>2. s # None
    BY SessionAssumption DEF SessionAssumption
  <2>3. WorkersOwn'
    BY <1>a, <1>b, <1>c, <2>2 DEF WorkersOwn
  <2> QED
    BY <1>b, <2>1, <2>3, TypeParts
<1>2. PlaceInv'
  <2>1. ASSUME NEW v \in Busy' PROVE v = w \/ (v \in Busy /\ worker'[v] = worker[v] /\ S(v)' = S(v))
    BY <1>b, <1>c
  <2> QED
    BY <1>a, <1>b, <1>c, <2>1 DEF PlaceInv
<1>3. OutcomeInv' /\ OutcomeTold'
  <2>1. UNCHANGED <<row, told, answered>>
    BY <1>b DEF forge
  <2>2. OutcomeInv'
    BY <1>a, <1>b, <1>c, <2>1 DEF OutcomeInv, Settled
  <2> QED
    BY <1>a, <2>1, <2>2 DEF OutcomeTold
<1>4. WorkspaceIsMine' /\ CleanInv' /\ CallbackInv' /\ SpendInv'
  <2>1. ~Keeps(w)
    BY <1>b DEF Keeps, Busy
  <2> QED
    BY <1>a, <1>b, <2>1, OthersStep
<1> QED
  BY <1>1, <1>2, <1>3, <1>4 DEF IInv

\* A failover keeps the session of a run that did not end well.
LEMMA FailoverStep ==
    ASSUME IInv, NEW w \in Workers, Failover(w) PROVE IInv'
<1>a. TypeOK /\ PlaceInv /\ OutcomeInv /\ OutcomeTold /\ WorkspaceIsMine /\ CleanInv /\ CallbackInv
        /\ SpendInv /\ StoreTypes /\ WorkersOwn
  BY TypeParts DEF IInv
<1>b. /\ worker[w].at = "ran" /\ worker[w].error = "retryable"
      /\ worker' \in [Workers -> WorkerRec]
      /\ \A v \in Workers \ {w} : worker'[v] = worker[v]
      /\ worker'[w].at = "activate" /\ worker'[w].session = worker[w].session
      /\ worker'[w].provider # None
      /\ ~worker'[w].late /\ ~worker'[w].isolated /\ ~worker'[w].retried
      /\ UNCHANGED <<row, spent, forge, git, onActivity, told, upsets>>
  BY <1>a, FailoverFacts
<1>c. w \in Busy /\ Busy' = Busy /\ Busy \subseteq Workers /\ \A v \in Busy : S(v)' = S(v)
  BY <1>b DEF Busy, S
<1>1. TypeOK'
  <2>1. StoreTypes'
    BY <1>a, <1>b DEF StoreTypes, forge, git
  <2>2. WorkersOwn'
    BY <1>a, <1>b, <1>c DEF WorkersOwn
  <2> QED
    BY <1>b, <2>1, <2>2, TypeParts
<1>2. PlaceInv'
  BY <1>a, <1>b, <1>c DEF PlaceInv
<1>3. OutcomeInv' /\ OutcomeTold'
  <2>1. UNCHANGED <<row, told, answered>>
    BY <1>b DEF forge
  <2>2. OutcomeInv'
    BY <1>a, <1>b, <1>c, <2>1 DEF OutcomeInv, Settled
  <2> QED
    BY <1>a, <2>1, <2>2 DEF OutcomeTold
<1>4. WorkspaceIsMine' /\ CleanInv' /\ CallbackInv' /\ SpendInv'
  <2>1. ~Keeps(w)
    BY <1>b DEF Keeps
  <2> QED
    BY <1>a, <1>b, <2>1, OthersStep
<1> QED
  BY <1>1, <1>2, <1>3, <1>4 DEF IInv

\* The end of a task, served or not: what is told agrees with the row.
LEMMA ReportStep ==
    ASSUME IInv, NEW w \in Workers, Unserved(w) \/ Finish(w) PROVE IInv'
<1>a. TypeOK /\ PlaceInv /\ OutcomeInv /\ OutcomeTold /\ WorkspaceIsMine /\ CleanInv /\ CallbackInv
        /\ SpendInv /\ StoreTypes /\ WorkersOwn
  BY TypeParts DEF IInv
<1>b. PICK outcome \in {"success", "failure"} :
          /\ Report(w, outcome)
          /\ worker[w].at = "unserved" => outcome = "failure"
          /\ worker[w].at = "ran" => (outcome = "success" <=> worker[w].error = "none")
  BY DEF Unserved, Finish
<1>c. /\ worker' \in [Workers -> WorkerRec]
      /\ \A v \in Workers \ {w} : worker'[v] = worker[v]
      /\ worker'[w].at = "idle"
      /\ told' = [told EXCEPT ![S(w)] = outcome]
  BY <1>a, <1>b, ReportFacts
<1>d. /\ worker[w].at \in {"unserved", "ran"} /\ upsets' \in {upsets, upsets + 1}
      /\ upsets' \in 0..MaxUpsets
      /\ UNCHANGED <<spent, forge, git, onActivity>>
      /\ \/ UNCHANGED row
         \/ worker[w].at = "unserved" /\ row' = [row EXCEPT ![S(w)] = "failed"]
  <2>1. upsets \in 0..MaxUpsets /\ MaxUpsets \in Nat
    BY <1>a, SessionAssumption DEF StoreTypes, SessionAssumption
  <2>2. CASE Unserved(w)
    BY <2>1, <2>2 DEF Unserved, FailSession, Fine, Upset, UpdateSession
  <2>3. CASE Finish(w)
    BY <2>1, <2>3 DEF Finish
  <2> QED
    BY <2>2, <2>3
<1>e. /\ w \in Busy /\ S(w) \in Sessions /\ Busy' = Busy \ {w} /\ Busy \subseteq Workers
      /\ \A v \in Busy \ {w} : S(v)' = S(v) /\ S(v) # S(w) /\ S(v) \in Sessions
  <2>1. w \in Busy /\ Busy' = Busy \ {w} /\ Busy \subseteq Workers
    BY <1>c, <1>d DEF Busy
  <2>2. \A v \in Busy \ {w} : S(v)' = S(v)
    BY <1>c, <2>1 DEF S
  <2> QED
    BY <1>a, <2>1, <2>2, OwnSession
<1>1. TypeOK'
  <2>1. StoreTypes'
    BY <1>a, <1>c, <1>d, <1>e DEF StoreTypes, forge, git
  <2>2. WorkersOwn'
    BY <1>a, <1>c, <1>e DEF WorkersOwn
  <2> QED
    BY <1>c, <2>1, <2>2, TypeParts
<1>2. PlaceInv'
  <2>1. upsets \in Nat
    BY <1>a DEF StoreTypes
  <2> QED
    BY <1>a, <1>c, <1>d, <1>e, <2>1 DEF PlaceInv
<1>3. OutcomeInv' /\ OutcomeTold'
  <2>1. /\ UNCHANGED answered
        /\ \A s \in Sessions \ {S(w)} : row'[s] = row[s] /\ told'[s] = told[s]
        /\ told'[S(w)] = outcome
    BY <1>a, <1>c, <1>d, <1>e DEF forge, StoreTypes
  <2>2. OutcomeInv'
    BY <1>a, <1>c, <1>e, <2>1 DEF OutcomeInv
  <2>3. /\ row[S(w)] = "completed" <=> worker[w].at \in Settled /\ worker[w].error = "none"
        /\ row[S(w)] = "completed" => S(w) \in WritesCode \cup answered
    BY <1>a, <1>e DEF OutcomeInv
  <2>4. /\ outcome = "success" => row'[S(w)] = "completed" /\ S(w) \in WritesCode \cup answered
        /\ outcome = "failure" => row'[S(w)] # "completed"
    <3>1. CASE worker[w].at = "unserved"
      BY <1>a, <1>b, <1>d, <1>e, <2>3, <3>1 DEF Settled, StoreTypes
    <3>2. CASE worker[w].at = "ran"
      BY <1>b, <1>d, <2>3, <3>2 DEF Settled
    <3> QED
      BY <1>d, <3>1, <3>2
  <2>5. OutcomeTold'
    BY <1>a, <2>1, <2>4 DEF OutcomeTold
  <2> QED
    BY <2>2, <2>5
<1>4. WorkspaceIsMine' /\ CleanInv' /\ CallbackInv' /\ SpendInv'
  <2>1. ~Keeps(w)
    BY <1>a, <1>d, <1>e DEF Keeps, PlaceInv
  <2>2. \A v \in Workers \ {w} : S(v)' = S(v) /\ I(v)' = I(v) /\ (Keeps(v) => Keeps(v)')
    BY <1>c DEF S, I, Keeps, Busy
  <2>3. WorkspaceIsMine'
    <3>1. Isolated' \subseteq Isolated \ {w} /\ Isolated \subseteq Workers
      BY <1>c, <1>d DEF Isolated, Busy
    <3> QED
      BY <1>a, <1>d, <2>2, <3>1 DEF WorkspaceIsMine, git
  <2>4. CleanInv'
    <3>1. upsets' = 0 => upsets = 0
      BY <1>a, <1>d DEF StoreTypes
    <3> QED
      BY <1>a, <1>c, <1>d, <2>1, <2>2, <3>1 DEF CleanInv, git
  <2>5. CallbackInv'
    <3>1. worker[w].at \notin Hooked
      BY <1>d DEF Hooked
    <3> QED
      BY <1>a, <1>c, <1>d, <2>2, <3>1 DEF CallbackInv, Notifies
  <2>6. SpendInv'
    <3>1. MayCharge' \subseteq MayCharge /\ MayRetry' \subseteq MayRetry
      BY <1>c DEF MayCharge, MayRetry
    <3>2. spent' \in Nat /\ spent' <= spent
      BY <1>a, <1>d DEF StoreTypes
    <3> QED
      BY <1>a, <3>1, <3>2, SpendShrinks
  <2> QED
    BY <2>3, <2>4, <2>5, <2>6
<1> QED
  BY <1>1, <1>2, <1>3, <1>4 DEF IInv

\* A deadline that passes changes nothing else.
LEMMA ExpireStep ==
    ASSUME IInv, NEW w \in Workers, Expire(w) PROVE IInv'
<1>a. TypeOK /\ PlaceInv /\ OutcomeInv /\ OutcomeTold /\ WorkspaceIsMine /\ CleanInv /\ CallbackInv
        /\ SpendInv /\ StoreTypes /\ WorkersOwn
  BY TypeParts DEF IInv
<1>b. /\ worker' \in [Workers -> WorkerRec]
      /\ \A v \in Workers : /\ worker'[v].at = worker[v].at
                            /\ worker'[v].session = worker[v].session
                            /\ worker'[v].provider = worker[v].provider
                            /\ worker'[v].isolated = worker[v].isolated
                            /\ worker'[v].reply = worker[v].reply
                            /\ worker'[v].retried = worker[v].retried
                            /\ worker'[v].error = worker[v].error
      /\ upsets' = upsets + 1 /\ upsets \in Nat /\ upsets' \in 0..MaxUpsets
      /\ UNCHANGED <<row, spent, forge, git, onActivity, told>>
  <2>1. upsets' \in 0..MaxUpsets
    BY <1>a, SessionAssumption DEF Expire, Upset, StoreTypes, SessionAssumption
  <2>2. UNCHANGED <<row, spent, forge, git, onActivity, told>>
    BY DEF Expire
  <2> QED
    BY <1>a, <2>1, <2>2, ExpireFacts
<1>c. /\ Busy' = Busy /\ Busy \subseteq Workers /\ Isolated' = Isolated /\ Isolated \subseteq Workers
      /\ MayCharge' = MayCharge /\ MayRetry' = MayRetry
      /\ \A v \in Workers : S(v)' = S(v) /\ I(v)' = I(v)
  BY <1>b DEF Busy, Isolated, MayCharge, MayRetry, S, I
<1>1. TypeOK'
  <2>1. StoreTypes'
    BY <1>a, <1>b DEF StoreTypes, forge, git
  <2>2. WorkersOwn'
    BY <1>a, <1>b, <1>c DEF WorkersOwn
  <2> QED
    BY <1>b, <2>1, <2>2, TypeParts
<1>2. PlaceInv'
  BY <1>a, <1>b, <1>c DEF PlaceInv
<1>3. OutcomeInv' /\ OutcomeTold'
  <2>1. UNCHANGED <<row, told, answered>>
    BY <1>b DEF forge
  <2>2. OutcomeInv'
    BY <1>a, <1>b, <1>c, <2>1 DEF OutcomeInv
  <2> QED
    BY <1>a, <2>1, <2>2 DEF OutcomeTold
<1>4. WorkspaceIsMine'
  BY <1>a, <1>b, <1>c DEF WorkspaceIsMine, git
<1>5. CleanInv'
  BY <1>b DEF CleanInv
<1>6. CallbackInv'
  BY <1>a, <1>b, <1>c DEF CallbackInv, Notifies
<1>7. SpendInv'
  BY <1>a, <1>b, <1>c DEF SpendInv
<1> QED
  BY <1>1, <1>2, <1>3, <1>4, <1>5, <1>6, <1>7 DEF IInv

\* A crash frees every worker, takes down every callback and tells of nobody's outcome.
LEMMA CrashStep ==
    ASSUME IInv, Crash PROVE IInv'
<1>a. TypeOK /\ OutcomeTold /\ SpendInv /\ StoreTypes
  BY TypeParts DEF IInv
<1>b. worker' \in [Workers -> WorkerRec] /\ \A w \in Workers : worker'[w].at = "idle"
  BY <1>a, CrashFacts
<1>c. Busy' = {} /\ Isolated' = {} /\ MayCharge' = {} /\ MayRetry' = {}
  BY <1>b DEF Busy, Isolated, MayCharge, MayRetry
<1>d. /\ upsets \in Nat /\ upsets' = upsets + 1 /\ upsets' \in 0..MaxUpsets
      /\ UNCHANGED <<row, spent, answered, pushed, branch, worktree>>
  BY <1>a, SessionAssumption DEF Crash, Upset, StoreTypes, SessionAssumption, forge, git
<1>1. TypeOK'
  <2>1. StoreTypes'
    BY <1>a, <1>d DEF Crash, StoreTypes
  <2>2. WorkersOwn'
    BY <1>c DEF WorkersOwn
  <2> QED
    BY <1>b, <2>1, <2>2, TypeParts
<1>2. PlaceInv' /\ OutcomeInv' /\ WorkspaceIsMine'
  BY <1>c DEF PlaceInv, OutcomeInv, WorkspaceIsMine
<1>3. OutcomeTold'
  BY <1>a, <1>d DEF Crash, OutcomeTold, StoreTypes
<1>4. CleanInv'
  BY <1>d DEF CleanInv
<1>5. CallbackInv'
  BY DEF Crash, CallbackInv
<1>6. SpendInv'
  BY <1>a, <1>c, <1>d, SpendShrinks DEF StoreTypes
<1> QED
  BY <1>1, <1>2, <1>3, <1>4, <1>5, <1>6 DEF IInv

\* A cost record that leaves the window lowers what is spent.
LEMMA AgeStep ==
    ASSUME IInv, AgeCost PROVE IInv'
<1>a. TypeOK /\ SpendInv /\ StoreTypes
  BY TypeParts DEF IInv
<1>b. /\ spent' \in Nat /\ spent' <= spent
      /\ UNCHANGED <<row, answered, pushed, branch, worktree, onActivity, worker, told, upsets>>
  BY <1>a DEF AgeCost, StoreTypes, forge, git
<1>1. SpendInv'
  <2>1. MayCharge' = MayCharge /\ MayRetry' = MayRetry
    BY <1>b DEF MayCharge, MayRetry
  <2> QED
    BY <1>a, <1>b, <2>1, SpendShrinks
<1>2. TypeOK'
  BY <1>a, <1>b DEF TypeOK, Busy, S
<1>3. PlaceInv' /\ OutcomeInv' /\ OutcomeTold'
  BY <1>b DEF IInv, PlaceInv, OutcomeInv, OutcomeTold, Busy, S
<1>4. WorkspaceIsMine' /\ CleanInv' /\ CallbackInv'
  BY <1>b DEF IInv, WorkspaceIsMine, Isolated, CleanInv, CallbackInv, Keeps, Notifies, Busy, S, I
<1> QED
  BY <1>1, <1>2, <1>3, <1>4 DEF IInv

(***************************************************************************)
(* The theorems.                                                           *)
(***************************************************************************)

\* No worker works at first.
LEMMA InitInv == Init => IInv
<1> SUFFICES ASSUME Init PROVE IInv
  OBVIOUS
<1>1. worker \in [Workers -> WorkerRec] /\ \A w \in Workers : worker[w].at = "idle"
  BY DEF Init, Idle, WorkerRec, Ats
<1>2. Busy = {} /\ Isolated = {} /\ MayCharge = {} /\ MayRetry = {}
  BY <1>1 DEF Busy, Isolated, MayCharge, MayRetry
<1>3. TypeOK
  <2>1. StoreTypes
    BY SessionAssumption DEF Init, StoreTypes, SessionAssumption
  <2>2. worker \in [Workers ->
          [at : Ats, session : Sessions \cup {None}, provider : Providers \cup {None},
           attempt : 1..2, late : BOOLEAN, work : {"none", "added", "edited"},
           isolated : BOOLEAN, marked : BOOLEAN, reply : {"full", "empty"},
           retried : BOOLEAN, error : {"none", "retryable", "final"}]]
    BY <1>1 DEF WorkerRec
  <2> QED
    BY <1>2, <2>1, <2>2 DEF TypeOK, StoreTypes
<1>4. PlaceInv /\ OutcomeInv /\ WorkspaceIsMine
  BY <1>2 DEF PlaceInv, OutcomeInv, WorkspaceIsMine
<1>5. OutcomeTold /\ CleanInv /\ CallbackInv
  BY DEF Init, OutcomeTold, CleanInv, CallbackInv
<1>6. SpendInv
  BY <1>2, ChargeCounts, FS_EmptySet, SessionAssumption DEF Init, SpendInv, SessionAssumption
<1> QED
  BY <1>3, <1>4, <1>5, <1>6 DEF IInv

\* Every step keeps the inductive invariant.
LEMMA NextInv == IInv /\ [Next]_vars => IInv'
<1> SUFFICES ASSUME IInv, [Next]_vars PROVE IInv'
  OBVIOUS
<1>1. ASSUME NEW w \in Workers, RunAction(w) PROVE IInv'
  <2>1. TypeOK'
    BY <1>1, StoreStep, OwnStep, RunFacts, RunBusy, TypeParts DEF IInv
  <2>2. PlaceInv' /\ OutcomeInv' /\ OutcomeTold'
    BY <1>1, PlaceStep, OutcomeStep DEF IInv
  <2>3. WorkspaceIsMine' /\ CleanInv' /\ CallbackInv' /\ SpendInv'
    BY <1>1, WorkspaceStep, CleanStep, CallbackStep, SpendStep DEF IInv
  <2> QED
    BY <2>1, <2>2, <2>3 DEF IInv
<1>2. ASSUME NEW w \in Workers, Step(w) PROVE IInv'
  BY <1>1, <1>2, TakeStep, FailoverStep, ReportStep DEF Step, RunAction
<1>3. ASSUME NEW w \in Workers, Expire(w) PROVE IInv'
  BY <1>3, ExpireStep
<1>4. CASE UNCHANGED vars
  <2>1. TypeOK' /\ PlaceInv' /\ OutcomeInv' /\ OutcomeTold'
    BY <1>4 DEF vars, IInv, TypeOK, PlaceInv, OutcomeInv, OutcomeTold, Busy, S
  <2>2. WorkspaceIsMine' /\ CleanInv' /\ CallbackInv' /\ SpendInv'
    BY <1>4 DEF vars, IInv, WorkspaceIsMine, Isolated, CleanInv, CallbackInv, SpendInv,
                MayCharge, MayRetry, Keeps, Notifies, Busy, S, I
  <2> QED
    BY <2>1, <2>2 DEF IInv
<1> QED
  BY <1>2, <1>3, <1>4, CrashStep, AgeStep DEF Next

\* The inductive invariant holds of every reachable state.
THEOREM Inductive == Spec => []IInv
  BY InitInv, NextInv, PTL DEF Spec

\* The types of the variables, and that each busy worker has a session of its own.
THEOREM TypeCorrect == Spec => []TypeOK
<1>1. IInv => TypeOK
  BY DEF IInv
<1> QED
  BY <1>1, Inductive, PTL

\* What is charged above the budget is at most two requests for each worker, however the
\* checks and charges of the workers interleave (CheckBudget, RecordUsage).
THEOREM OverspendBounded == Spec => []SpendBounded
<1>1. IInv => SpendBounded
  <2> SUFFICES ASSUME IInv PROVE SpendBounded
    OBVIOUS
  <2>1. spent \in Nat /\ Budget \in Nat /\ SpendInv
    BY TypeParts, SessionAssumption DEF IInv, StoreTypes, SessionAssumption
  <2> QED
    BY <2>1, ChargeCounts DEF SpendInv, SpendBounded
<1> QED
  BY <1>1, Inductive, PTL

\* A workspace is one session's own for as long as it is used, whatever the other workers
\* prune, add and delete (CreateWorkspace and its cleanup).
THEOREM WorkspaceExclusive == Spec => []WorkspaceIsMine
<1>1. IInv => WorkspaceIsMine
  BY DEF IInv
<1> QED
  BY <1>1, Inductive, PTL

\* A session that has ended leaves no callback behind, and where no call failed neither a
\* worktree nor a branch (the deferred calls of Runner.Run).
THEOREM CleanedUp == Spec => []NothingLeftBehind
<1>1. IInv => NothingLeftBehind
  <2> SUFFICES ASSUME IInv PROVE NothingLeftBehind
    OBVIOUS
  <2>1. TypeOK /\ CleanInv /\ CallbackInv /\ StoreTypes
    BY TypeParts DEF IInv
  <2>2. \A w \in Workers : Keeps(w) => S(w) \in Running /\ S(w) \in Sessions /\ I(w) = IssueOf[S(w)]
    BY <2>1, OwnSession DEF Keeps, Running, S, I
  <2>3. WorkspacesCleaned
    BY <2>1, <2>2 DEF CleanInv, WorkspacesCleaned
  <2>4. CallbackIsLive
    <3>1. \A w \in Workers : worker[w].at \in Hooked => S(w) \in Running
      BY DEF Hooked, Running, Busy, S
    <3> QED
      BY <2>1, <3>1 DEF CallbackInv, CallbackIsLive
  <2> QED
    BY <2>3, <2>4 DEF NothingLeftBehind
<1> QED
  BY <1>1, Inductive, PTL

\* What the dispatcher is told of a task agrees with its row and with what was posted
\* (Run, completeSession, onComplete).
THEOREM ToldTruthfully == Spec => []OutcomeTold
<1>1. IInv => OutcomeTold
  BY DEF IInv
<1> QED
  BY <1>1, Inductive, PTL
=============================================================================
