SPECIFICATION FairSpec
CONSTANTS
    Topics = {lifecycle}
    Owners = {a}
    Publications = {q1, q2}
    Outside = Outside
    MaxHandlers = 2
    StrayCancel = TRUE
INVARIANTS
    ReportsAreComplete
    PublisherSurvivesHandlers
    CancellationIsNotLost
PROPERTIES
    EveryPublishEnds
    EveryHandlerEnds
