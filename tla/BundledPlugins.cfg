SPECIFICATION BundledSpec
CONSTANTS
    demo = demo
    runbook = runbook
    audit = audit
    greeting = greeting
    preview = preview
    Plugins <- MCPlugins
    Bundled <- MCBundled
    Deps <- MCDeps
    Capabilities = {greeting, preview}
    Declared <- MCDeclared
    Order <- MCOrder
    Requests = {r1, r2}
    Lifespan = Lifespan
    Nobody = Nobody
    StrayCancel = FALSE
SYMMETRY MCSymmetry
INVARIANTS
    PreviewNeverFails
    AnswersFollowTheState
