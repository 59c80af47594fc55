SPECIFICATION FairSpec
CONSTANTS
    w1 = w1
    w2 = w2
    r1 = r1
    NoIssue = NoIssue
    Issues <- OneIssue
    Repos = {r1}
    Workers = {w1}
    QueueCap = 1
    Verdicts = {"agent"}
    Outcomes = {"uncounted"}
    Deeds = {"send-back"}
    MaxConsecutiveFailures = 2
    MaxRetryAttempts = 1
    MaxFaults = 1
    MaxCrashes = 1
    MaxMishaps = 1
    MaxActs = 1
PROPERTIES
    ClaimsEnd
    ClaimedLabelComesOff
CHECK_DEADLOCK FALSE
