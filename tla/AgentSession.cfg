SPECIFICATION Spec
CONSTANTS
    w1 = w1
    w2 = w2
    s1 = s1
    s2 = s2
    s3 = s3
    cli = cli
    local = local
    api = api
    None = None
    Workers = {w1, w2}
    Sessions = {s1, s2, s3}
    Providers = {cli, local, api}
    IssueOf <- MCIssueOf
    WritesCode = {s1, s2}
    RoutingKey <- MCRoutingKey
    Routing <- MCRouting
    Kind <- MCKind
    Budget = 1
    MaxUpsets = 1
INVARIANTS
    SpendBounded
    WorkspaceIsMine
    NothingLeftBehind
    OutcomeTold
CHECK_DEADLOCK FALSE
SYMMETRY Symmetry
