SPECIFICATION ScalerSpec
CONSTANTS
    MinWorkers = 2
    MaxWorkers = 5
    InitialWorkers = 4
    QueueCap = 3
    QuitBuf = 2
    QueueDepthTrigger = 2
    AllWorkersBusy = TRUE
    IdleWorkerThreshold = 2
    IdleDuration = 2
    CooldownAfterScale = 2
    Targets <- OneMore
    MaxOrders = 2
INVARIANT
    ScalerTypeOK
PROPERTIES
    ScalesWithinBounds
    CoolsDown
    IdleBeforeDown
    SizeFollowsLoad
CHECK_DEADLOCK FALSE
