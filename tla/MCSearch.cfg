SPECIFICATION SearchSpec
CONSTANTS
    Null = Null
    Default = 2
    MaxResults = 2
    goose = goose
    cli = cli
    a_b = a_b
    axb = axb
    memo = memo
    plan = plan
    Processes = {goose, cli}
    NoFile = {cli}
    Orchestrator <- MCOrchestrator
    Raws <- MCRaws
    Files <- MCFiles
    Globs <- MCGlobs
    Requested = {0, 2, 4}
    Alike <- MCAlike
    Orders <- MCOrders
    ScopeArgs <- MCScopeArgs
    Requests <- MCRequests
    Filters <- MCFilters
    MaxRules = 1
    MaxLives <- MCMaxLives
    MaxEdits = 1
INVARIANTS
    SearchTypeOK
    ConfigCapHolds
    ResultsBounded
    SearchMeetsDefinition
PROPERTIES
    LoweredByAnotherOnly
