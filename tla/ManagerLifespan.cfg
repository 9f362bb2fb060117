SPECIFICATION Spec
CONSTANTS
    demo = demo
    runbook = runbook
    audit = audit
    catalog = catalog
    Plugins <- MCTrio
    Deps <- MCTrioDeps
    Capabilities = {catalog}
    Declared <- MCTrioOffers
    Order <- MCTrioOrder
    Requests = {r1, r2}
    Lifespan = Lifespan
    Nobody = Nobody
    StrayCancel = FALSE
SYMMETRY MCSymmetry
INVARIANTS
    RunningClosedUnderDependencies
    ShutdownReleasesEverything
PROPERTIES
    NoProviderStopsUnderConsumers
    ImplementsPluginHost
