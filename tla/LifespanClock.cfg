CONSTANTS
    PluginCount = 4
    StartupTimeout = 7
    OperationTimeout = 4
    ShutdownBudget = 11
    MaxLate = 3
SPECIFICATION Spec
INVARIANTS
    WithinLimits
PROPERTIES
    FairShare
