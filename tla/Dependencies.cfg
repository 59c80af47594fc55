SPECIFICATION FairSpec
CONSTANTS
    r1 = r1
    r2 = r2
    RunLoop = RunLoop
    NoIssue = NoIssue
    Repos = {r1}
    Issues <- Four
    Graphs <- AllGraphs
    Linked <- OneLinked
    PageSize <- Pages
    MaxUpsets = 1
    MaxFaults = 1
INVARIANTS
    NoEarlyStart
PROPERTIES
    Unblocks
    CyclesEscalated
CHECK_DEADLOCK FALSE
