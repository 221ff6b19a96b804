SPECIFICATION SearchSpec
CONSTANTS
    Null = Null
    Default = 2
    MaxResults = 2
    goose = goose
    cli = cli
    a_b = a_b
    axb = axb
    memo = memo
    plan = plan
    Processes = {goose, cli}
    NoFile = {cli}
    Orchestrator <- MCOrchestrator
    Raws <- MCRaws
    Files <- MCFiles
    Globs <- MCGlobs
    Requested = {0}
    Alike <- MCAlike
    Orders <- MCOrders
    ScopeArgs <- MCScopeArgs
    Requests <- MCRequests
    Filters <- MCFilters
    MaxRules = 0
    MaxLives <- MCMaxLives
    MaxEdits = 1
INVARIANTS
    CapHolds
