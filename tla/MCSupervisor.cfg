SPECIFICATION Spec
CONSTANTS
    Root = root
    Channel <- MCChannel
    Approved = {"run", "get"}
    SpawnPayload = {"run"}
    Forbidden = {}
    TokenId = {t1, t2}
    ActionId = {a1, a2}
    ComputeId = {}
    Work = {}
    Charge <- MCCharge
    Envelope <- MCEnvelope
    MaxObserved = 2
    SpawnCap = 2
    FlopsCap = 3
    StopSources <- MCStopSources
    NoCap = NoCap
    MaxInflight = 1
    TTL = 1
    WallCap = 2
    KillDeadline = 1
    Sampled = TRUE
    MaxNow = 3
    NoReason = NoReason
    NoGrant = NoGrant
    NoOrigin = NoOrigin
    NoBooking = NoBooking
    NoAction = NoAction
INVARIANTS
    SupervisorTypeOK
    ReleasedOnceAndDurable
    StopIsKilled
    LiveChildIsWatched
    ContainmentIsClosed
PROPERTIES
    NothingReleasedAfterStop
    CoreSpec
SYMMETRY IdSymmetry
CHECK_DEADLOCK FALSE
