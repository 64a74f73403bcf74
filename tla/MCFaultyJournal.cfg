SPECIFICATION Spec
CONSTANTS
    Key = {k1, k2, k3, k4}
    Root = root
    TokenId = {t1, t2}
    ActionId = {a1, a2}
    ComputeId = {}
    SpawnCap = 1
    MaxFailures = 2
    NoRow = NoRow
    NoAction = NoAction
INVARIANTS
    FaultyTypeOK
    TokenBuysOneEffect
    AnsweredIsDurable
    SlotsAccounted
PROPERTIES
    LatchedIsKilled
CHECK_DEADLOCK FALSE
