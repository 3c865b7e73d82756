SPECIFICATION Spec
CONSTANTS
    Threads = {t1, t2}
    NoThread = NoThread
    MaxAttempts = 2
    FailMax = 2
    MaxInvocations = 2
    Environments <- MCEnvironments
    OwnKeys <- MCOwnKeys
SYMMETRY Symmetry
INVARIANTS
    TypeOK
    EveryTierAsked
    TripNeedsFailures
    CancelledStops
PROPERTIES
    ImplementsBreakers
