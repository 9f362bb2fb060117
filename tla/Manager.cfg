SPECIFICATION FairViewsSpec
CONSTANTS
    demo = demo
    runbook = runbook
    catalog = catalog
    Plugins <- MCPair
    Deps <- MCPairDeps
    Capabilities = {catalog}
    Declared <- MCPairOffers
    Order <- MCPairOrder
    Requests = {r1, r2}
    Lifespan = Lifespan
    Nobody = Nobody
    StrayCancel = TRUE
INVARIANTS
    TypeOK
    OneOperationAtATime
    SettledBetweenOperations
    ServicesAreSound
    OperatorNeverStuck
    ProbesTellTheTruth
PROPERTIES
    RepliesAreTrue
    NothingStartsOnceStopping
    OfferedActionsAct
    EveryRequestAnswered
    LifespanMovesOn
