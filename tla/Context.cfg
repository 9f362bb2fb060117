SPECIFICATION ContextSpec
CONSTANTS
    demo = demo
    runbook = runbook
    audit = audit
    greeting = greeting
    preview = preview
    trail = trail
    None = None
    Plugins <- MCPlugins
    Deps <- MCDeps
    Names = {greeting, preview, trail}
    Declared <- MCDeclared
    Generations = 2
    Keepers = {audit}
INVARIANTS
    NoStrayRegistrations
    LookupsAreServed
PROPERTIES
    WithdrawnByOwnerOnly
CHECK_DEADLOCK FALSE
