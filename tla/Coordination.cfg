SPECIFICATION Spec
CONSTANTS
    p1 = p1
    p2 = p2
    c1 = c1
    c2 = c2
    a1 = a1
    None = None
    Projects = {p1, p2}
    Order <- TwoInOrder
    Numbers = {1}
    Clients = {c1, c2}
    Ids = {a1}
    Policies <- TwoPolicies
    Tools <- AllTools
    Phases = {"development", "inactive"}
    Verdicts = {"needs-human"}
    MaxCalls = 3
    MaxDispatches = 1
    MaxMishaps = 1
SYMMETRY ClientsAlike
INVARIANTS
    NoIssueLost
PROPERTIES
    ApprovalsKept
    ClaimKept
CHECK_DEADLOCK FALSE
