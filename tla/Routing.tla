------------------------------- MODULE Routing -------------------------------
(***************************************************************************)
(* The decisions the dispatcher takes about an issue and about an error    *)
(* from their texts alone: the agent type and the routing chain (router.go *)
(* in src/internal/dispatcher), the time a task may take (complexity.go),  *)
(* the class of a failure (classify_failure.go) and what follows from it   *)
(* (correction.go).                                                        *)
(*                                                                         *)
(* A text is what these functions look for in it.  An issue is a record    *)
(* [signs, agent, minutes, words, boxes, files, code]: signs are its       *)
(* labels and the prefix and keywords of its title, agent and minutes the  *)
(* agent type and the timeout of its frontmatter ("" and 0 if it has       *)
(* none), the rest is counted in its body.  An error is the set of phrases *)
(* in its message, which for a process that failed includes its output.    *)
(***************************************************************************)
EXTENDS Integers, Sequences

\* The first rule with a sign that is found decides.
FirstMatch(rules, found, otherwise) ==
    LET hits == {n \in DOMAIN rules : rules[n][2] \cap found # {}}
    IN  IF hits = {} THEN otherwise
        ELSE rules[CHOOSE n \in hits : \A k \in hits : n <= k][1]

\* classifyByHeuristic: the agent type of an issue without frontmatter.
HeuristicRules ==
    << <<"human",    {"agent:human"}>>,
       <<"research", {"type:spike", "type:research"}>>,
       <<"code-gen", {"bug", "fix:", "feat:"}>>,
       <<"docs",     {"docs:", "chore:"}>>,
       <<"test",     {"test:"}>> >>

\* classify: frontmatter wins.
AgentType(issue) ==
    IF issue.agent # "" THEN issue.agent ELSE FirstMatch(HeuristicRules, issue.signs, "")

\* selectProviderKey: the routing chain.  "architecture" stands for the title keywords.
ChainRules ==
    << <<"complex", {"priority:critical", "complexity:high", "architecture"}>>,
       <<"local",   {"type:boilerplate", "type:scaffold", "chore:"}>>,
       <<"qc",      {"agent qc"}>>,
       <<"triage",  {"priority:low", "agent docs", "short"}>> >>

SelectProviderKey(issue) ==
    FirstMatch(ChainRules,
               issue.signs \cup (CASE AgentType(issue) = "qc"   -> {"agent qc"}
                                   [] AgentType(issue) = "docs" -> {"agent docs"}
                                   [] OTHER -> {})
                           \cup (IF issue.words < 200 THEN {"short"} ELSE {}),
               "default")

MinTimeout     == 5
MaxTimeout     == 60
DefaultTimeout == 15

Larger(a, b)  == IF a >= b THEN a ELSE b
Smaller(a, b) == IF a <= b THEN a ELSE b
Clamp(t, unit) == Larger(MinTimeout * unit, Smaller(MaxTimeout * unit, t))

\* estimateFromSignals, in hundred-thousandths of a minute: every factor has one decimal,
\* and a word above 200 counts a hundredth of a minute.
AgentFactor(agent) == CASE agent = "research" -> 15 [] agent = "docs" -> 7
                        [] agent = "qc" -> 5 [] OTHER -> 10
ChainFactor(key)   == CASE key = "complex" -> 13 [] key = "local" -> 8
                        [] key = "triage" -> 6 [] OTHER -> 10

EstimateFromSignals(issue) ==
    LET base == 100 * (DefaultTimeout + 2 * issue.boxes + issue.files + (IF issue.code THEN 3 ELSE 0))
                + Larger(0, issue.words - 200)
        work == base * AgentFactor(AgentType(issue)) * ChainFactor(SelectProviderKey(issue))
        hard == IF "complexity:high" \in issue.signs THEN Larger(work, 30 * 10000) ELSE work
    IN  Clamp(hard * (IF "priority:critical" \in issue.signs THEN 12 ELSE 10), 100000)

\* EstimateTimeout in whole minutes, rounded up.  CalibratedTimeout, which route calls, is
\* this as well: it looks for the profile of a chain, profiles are computed from sessions
\* whose provider is set, and no session has one, so there never is a profile.
EstimateTimeout(issue) ==
    IF issue.minutes > 0 THEN Clamp(issue.minutes, 1)
    ELSE (EstimateFromSignals(issue) + 99999) \div 100000

\* classifyFailure: from the most specific class to the least, a phrase or two of each.
FailureClasses ==
    << <<"shutdown",      {"exit status 143"}>>,
       <<"panic",         {"panic:"}>>,
       <<"auth",          {"401"}>>,
       <<"budget",        {"rate_limit"}>>,
       <<"permanent",     {"model not found"}>>,
       <<"oom_kill",      {"signal: killed"}>>,
       <<"provider_down", {"context deadline exceeded", "connection refused", "no healthy provider"}>>,
       <<"timeout",       {"timeout"}>>,
       <<"post_process",  {"validation failed"}>>,
       <<"classify",      {"no frontmatter found"}>>,
       <<"cycle",         {"cycle detected"}>>,
       <<"decompose",     {"decompose"}>> >>

ClassifyFailure(error) == FirstMatch(FailureClasses, error, "unknown")

\* IsProviderFailure: not the issue's fault.
IsProviderFailure(class) == class \in {"provider_down", "oom_kill"}

\* decideCorrection, down to what applyCorrection tells apart.
MaxRetryAttempts == 3

Correction(class, attempt) ==
    CASE class \in {"auth", "permanent", "classify", "cycle"}     -> "escalate"
      [] class = "budget"                                         -> "pause"
      [] class \in {"provider_down", "oom_kill", "shutdown"}      -> "retry"
      [] class \in {"timeout", "panic", "post_process", "decompose", "unknown"} ->
            IF attempt >= MaxRetryAttempts THEN "escalate" ELSE "retry"
=============================================================================
