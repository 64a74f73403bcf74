SPECIFICATION Spec
CONSTANTS
    Root = root
    Channel <- MCChannel
    Approved = {"run", "get"}
    SpawnPayload = {"run"}
    Forbidden = {}
    TokenId = {t1}
    ActionId = {a1}
    ComputeId = {c1}
    Work = {"small"}
    Charge <- MCCharge
    Envelope <- MCEnvelope
    MaxObserved = 2
    SpawnCap = 1
    FlopsCap = 2
    StopSources <- MCStopSources
    NoCap = NoCap
    MaxInflight = 1
    TTL = 1
    WallCap = 1
    KillDeadline = 1
    Sampled = TRUE
    MaxNow = 2
    NoReason = NoReason
    NoGrant = NoGrant
    NoOrigin = NoOrigin
    NoBooking = NoBooking
    NoAction = NoAction
PROPERTIES
    StopSettles
    RunIsStopped
    EveryActionResolves
CHECK_DEADLOCK FALSE
