SPECIFICATION Spec
CONSTANTS
    demo = demo
    runbook = runbook
    audit = audit
    catalog = catalog
    Plugins <- MCPair
    Deps <- MCPairDeps
    Capabilities = {catalog}
    Declared <- MCPairOffers
    Order <- MCPairOrder
    Requests = {r1}
    Lifespan = Lifespan
    Nobody = Nobody
    StrayCancel = TRUE
INVARIANT ShutdownReleasesEverything
