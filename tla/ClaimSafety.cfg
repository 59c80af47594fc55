SPECIFICATION Spec
CONSTANTS
    w1 = w1
    w2 = w2
    r1 = r1
    NoIssue = NoIssue
    Issues <- OneIssue
    Repos = {r1}
    Workers = {w1, w2}
    QueueCap = 1
    Verdicts = {"agent", "human", "deferred", "invalid"}
    Outcomes = {"success", "counted", "budget"}
    Deeds = {"open", "close", "take-over"}
    MaxConsecutiveFailures = 2
    MaxRetryAttempts = 2
    MaxFaults = 0
    MaxCrashes = 0
    MaxMishaps = 0
    MaxActs = 1
SYMMETRY WorkerSymmetry
INVARIANTS
    NoOrphanedLabel
    NoIssueDropped
    EscalatedAtLimit
CHECK_DEADLOCK FALSE
