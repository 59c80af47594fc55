----------------------------- MODULE StoreSchema -----------------------------
(***************************************************************************)
(* The opening of the database (src/internal/store/store.go): the serve    *)
(* and the dispatch process, and commands beside them, open one file, and  *)
(* each brings it up to date, statement by statement and in no             *)
(* transaction, whatever release has written it and wherever an earlier    *)
(* process was killed.                                                     *)
(***************************************************************************)
EXTENDS Naturals, Sequences, FiniteSets

CONSTANTS
    Processes,
    MaxFaults     \* bound on crashes and on statements that time out

VARIABLES
    columns,      \* the columns the file has: <<table, column>>
    step,         \* the statement each process is at, 0 if it is not opening
    state,        \* "closed", "migrating", "open" or "failed"
    faults

vars == <<columns, step, state, faults>>

\* The tables, as created today, with the columns that were added later.
Tables ==
    <<"sessions", "cost_records", "scaling_events", "scaling_control",
      "task_profiles", "metric_snapshots", "failure_events",
      "issue_failure_counts", "corrections", "provider_audits",
      "check_in_state", "provider_health_snapshots", "pipeline_events">>

Checkpoints == {"partial_output", "checkpoint_hash", "estimated_timeout_ms"}

Created(table) == {"id"} \cup (IF table = "sessions" THEN Checkpoints ELSE {})

Added ==
    <<<<"sessions", "partial_output">>, <<"sessions", "checkpoint_hash">>,
      <<"sessions", "estimated_timeout_ms">>,
      <<"failure_events", "root_cause_category">>, <<"failure_events", "fix_classification">>,
      <<"failure_events", "prevention_measure">>, <<"failure_events", "recurrence_risk">>,
      <<"failure_events", "detection_method">>, <<"failure_events", "time_to_detect_min">>,
      <<"failure_events", "linked_issues">>, <<"failure_events", "component">>,
      <<"failure_events", "resolved_at">>, <<"failure_events", "status">>>>

Statements == Len(Tables) + Len(Added)
Exists(table) == \E c \in columns : c[1] = table

\* A file of an earlier release: some of the tables in the order they came in,
\* and the columns added to them so far.
Release(n, k) ==
    {<<Tables[i], "id">> : i \in 1..n}
    \cup {Added[i] : i \in {j \in 1..k : \E m \in 1..n : Tables[m] = Added[j][1]}}

Init ==
    /\ \E n \in {0, 1, 7, Len(Tables)}, k \in {0, 2, 3, Len(Added)} : columns = Release(n, k)
    /\ step = [p \in Processes |-> 0]
    /\ state = [p \in Processes |-> "closed"]
    /\ faults = 0

-----------------------------------------------------------------------------
Open(p) ==
    /\ state[p] = "closed"
    /\ state' = [state EXCEPT ![p] = "migrating"]
    /\ step' = [step EXCEPT ![p] = 1]
    /\ UNCHANGED <<columns, faults>>

\* The process goes on to the statement n.
Proceed(p, n) ==
    IF n <= Statements
      THEN step' = [step EXCEPT ![p] = n] /\ UNCHANGED state
      ELSE /\ step' = [step EXCEPT ![p] = 0]
           /\ state' = [state EXCEPT ![p] = "open"]

\* New closes the file and returns the error; the process goes on without.
Fail(p) ==
    /\ state' = [state EXCEPT ![p] = "failed"]
    /\ step' = [step EXCEPT ![p] = 0]

\* CREATE TABLE IF NOT EXISTS
CreateTable(p) ==
    /\ state[p] = "migrating" /\ step[p] <= Len(Tables)
    /\ LET t == Tables[step[p]]
       IN columns' = IF Exists(t) THEN columns
                    ELSE columns \cup {<<t, c>> : c \in Created(t)}
    /\ Proceed(p, step[p] + 1)
    /\ UNCHANGED faults

\* Fault: whoever finds a column takes the rest for done.
AfterDuplicateDone(p) == Statements + 1

\* A column that is there already is skipped.
AfterDuplicate(p) == step[p] + 1

\* ALTER TABLE ... ADD COLUMN
AddColumn(p) ==
    /\ state[p] = "migrating" /\ step[p] > Len(Tables)
    /\ LET c == Added[step[p] - Len(Tables)]
       IN \/ c \in columns /\ Proceed(p, AfterDuplicate(p)) /\ UNCHANGED columns
          \/ c \notin columns /\ Proceed(p, step[p] + 1) /\ columns' = columns \cup {c}
    /\ UNCHANGED faults

\* Another process holds the file longer than the busy timeout.
Busy(p) ==
    /\ state[p] = "migrating"
    /\ faults < MaxFaults
    /\ faults' = faults + 1
    /\ Fail(p)
    /\ UNCHANGED columns

\* The process is killed, or ends, and is started again some time.
Exit(p) ==
    /\ state[p] # "closed"
    /\ faults < MaxFaults
    /\ faults' = faults + 1
    /\ state' = [state EXCEPT ![p] = "closed"]
    /\ step' = [step EXCEPT ![p] = 0]
    /\ UNCHANGED columns

Next == \E p \in Processes : Open(p) \/ CreateTable(p) \/ AddColumn(p) \/ Busy(p) \/ Exit(p)

Spec == Init /\ [][Next]_vars

-----------------------------------------------------------------------------
TypeOK ==
    /\ step \in [Processes -> 0..Statements]
    /\ state \in [Processes -> {"closed", "migrating", "open", "failed"}]
    /\ faults \in 0..MaxFaults

Complete == (UNION {{<<Tables[i], c>> : c \in Created(Tables[i])} : i \in 1..Len(Tables)})
              \cup {Added[i] : i \in 1..Len(Added)}

\* Whoever has the database open finds every table and column there, whichever
\* release wrote the file, wherever a process that was bringing it up to date
\* was killed or timed out, and whoever else is doing so at the same time, so
\* that each finds done what it did not do (store.go:126-329).
SchemaComplete == \A p \in Processes : state[p] = "open" => columns = Complete
=============================================================================
