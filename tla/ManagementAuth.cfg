SPECIFICATION Spec
CONSTANTS
    Address4 <- MCAddress4
    Address6 <- MCAddress6
    Loopback <- MCLoopback
    Texts <- MCTexts
    Net <- MCNet
    FieldNames <- MCFieldNames
    Settings <- MCSettings
INVARIANTS
    OnlyOperatorsManage
    AdmitsWhoCanConnect
CHECK_DEADLOCK FALSE
