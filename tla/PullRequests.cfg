SPECIFICATION Spec
CONSTANTS
    PRs = {1, 2, 3}
    Issues = {11, 12}
    PageSize = 2
    Worked = {1, 3}
    Labelled = {1, 3}
    None = None
    Forge = "gitea"
    Opened <- TwoOpen
    Created = {}
    Comments <- Suggestions
    ExcludeLabels = {"do-not-merge", "needs-human"}
    Delay = 1
    AgentTitles = {"feat", "docs"}
    PeopleSet = {"critical"}
    MaxUpsets = 2
CHECK_DEADLOCK FALSE
INVARIANTS
    IssuesInOrder
PROPERTIES
    MergedAfterDelay
    EligibleMerges
