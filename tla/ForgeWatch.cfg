SPECIFICATION FairSpec
CONSTANTS
    r1 = r1
    r2 = r2
    Repos = {r1, r2}
    Issues <- OneInFirst
    MaxWatcherFailures = 2
    MaxBackoff = 1
    MaxStalePeriods = 2
    MaxChanges = 2
    MaxOutages = 2
INVARIANTS
    OneWatcherEach
PROPERTIES
    WatchedAgain
    QueuedIsOffered
CHECK_DEADLOCK FALSE
