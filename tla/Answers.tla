------------------------------ MODULE Answers ------------------------------
(***************************************************************************)
(* What is worked out to answer a request, or read page after page before  *)
(* it is told: the advice about the host, excerpts of lists, files and     *)
(* diffs, summaries of the logs, and the rounds of the GitHub client.      *)
(* These parts share no state with one another: they are put side by side, *)
(* and part says which of them moves, if it is one of them.                *)
(***************************************************************************)
EXTENDS Naturals

CONSTANTS
    Capacity, PerDay, IdleSamples, Resolution, Readings, MaxSamples,
    MaxLength, ForgeLimit, MaxLimit, DefaultLimit, Files, MaxBody, Rooms,
    Requests, Sessions, Sinces, Untils, Levels, LogLimit, TTL, Patience,
    Retention, MaxTime, MaxEntries, MaxRequests,
    StatusLabels, Assignees, PageSize, OldIssues, MaxIssueChanges

VARIABLES
    part,
    resource, history, hIdx, hFull, rounding, log,
    question, answer, asked,
    now, logs, written, cache, reading, summaries,
    issues, issueChanges, watching, seen, page, all, told, held, added, shut

Host == INSTANCE HostMetrics
Excerpt == INSTANCE Excerpts
Logs == INSTANCE LogSummary WITH
          Limit <- LogLimit, job <- reading, asked <- summaries
GitHub == INSTANCE GitHubClient WITH
            changes <- issueChanges, watch <- watching, known <- seen,
            opened <- added, closed <- shut,
            MaxChanges <- MaxIssueChanges, Labels <- StatusLabels, People <- Assignees

ASSUME AnswersAssumption ==
    /\ Host!HostAssumption /\ Excerpt!ExcerptAssumption
    /\ Logs!LogAssumption /\ GitHub!GitHubAssumption

hostVars == <<resource, history, hIdx, hFull, rounding, log>>
excerptVars == <<question, answer, asked>>
logVars == <<now, logs, written, cache, reading, summaries>>
githubVars == <<issues, issueChanges, watching, seen, page, all, told, held, added, shut>>
answersVars == <<part, hostVars, excerptVars, logVars, githubVars>>

AnswersInit ==
    /\ Host!Init /\ (part = "host" \/ resource = "cpu")
    /\ IF part = "excerpt" THEN Excerpt!Init
       ELSE question = [kind |-> "none"] /\ answer = <<>> /\ asked = 0
    /\ Logs!Init
    /\ GitHub!Init /\ (part = "github" \/ \A n \in DOMAIN issues : issues[n].labels = {})

Aside(p) ==
    /\ UNCHANGED part
    /\ IF p = "host" THEN TRUE ELSE UNCHANGED hostVars
    /\ IF p = "excerpt" THEN TRUE ELSE UNCHANGED excerptVars
    /\ IF p = "logs" THEN TRUE ELSE UNCHANGED logVars
    /\ IF p = "github" THEN TRUE ELSE UNCHANGED githubVars

AnswersNext ==
    \/ part = "host" /\ Host!Next /\ Aside("host")
    \/ part = "excerpt" /\ Excerpt!Next /\ Aside("excerpt")
    \/ part = "logs" /\ Logs!Next /\ Aside("logs")
    \/ part = "github" /\ GitHub!Next /\ Aside("github")

AnswersSpec == AnswersInit /\ [][AnswersNext]_answersVars

\* What requests are answered is true: the advice agrees with the alerts
\* (HostMetrics), excerpts of lists and files are what was asked for, and those of
\* a diff its beginning, as far as the limit goes (Excerpts), a summary is recent and counts right (LogSummary), and a round of Watch
\* tells what was, though it reads page after page (GitHubClient).
AnswersTrue ==
    /\ part = "host" => Host!AdviceFollowsAlerts
    /\ Excerpt!AnswersExact
    /\ Logs!SummaryRecent
    /\ GitHub!RoundIsTrue
=============================================================================
