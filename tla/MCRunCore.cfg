SPECIFICATION CoreSpec
CONSTANTS
    Root = "root"
    Channel = {"root", "child"}
    Approved = {"run", "get"}
    Forbidden = {"bad"}
    TokenId = {t1, t2, t3}
    ActionId = {a1, a2}
    ComputeId = {c1, c2}
    Work = {"small", "large"}
    Charge <- MCCharge
    Envelope <- MCEnvelope
    MaxObserved = 2
    SpawnCap = 2
    FlopsCap = 3
    StopSources = {"OPERATOR", "ROOT_EXIT", "SENSOR_FAULT"}
    NoCap = NoCap
    MaxInflight = 1
    TTL = 1
    MaxNow = 1
    NoReason = NoReason
    NoGrant = NoGrant
    NoOrigin = NoOrigin
    NoBooking = NoBooking
INVARIANTS
    TypeOK
    JournalAgrees
    InflightExact
    SpawnSlotsExact
    OneActionPerToken
    FlopsExact
PROPERTIES
    FirstStopWins
    NothingAdmittedAfterStop
SYMMETRY IdSymmetry
CHECK_DEADLOCK FALSE
