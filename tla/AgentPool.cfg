SPECIFICATION MCFairSpec
CONSTANTS
    c1 = c1
    c2 = c2
    t1 = t1
    t2 = t2
    t3 = t3
    NoCaller = NoCaller
    NoTask = NoTask
    Callers <- MCCallers
    Tasks <- MCTasks3
    InitialWorkers = 1
    MaxWorkers = 3
    QueueCap = 1
    QuitBuf = 1
    TargetBound = 4
    Amounts <- MCAmounts
INVARIANTS TypeOK WorkerAccounting NoSendOnClosed DrainedMeansDone
PROPERTIES ImplementsTaskService CallsServed
CHECK_DEADLOCK FALSE
