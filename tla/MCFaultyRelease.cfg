SPECIFICATION Spec
CONSTANTS
    Key = {k1, k2, k3}
    Root = root
    TokenId = {t1}
    ActionId = {a1}
    ComputeId = {}
    SpawnCap = 1
    MaxFailures = 1
    NoRow = NoRow
    NoAction = NoAction
INVARIANTS
    OnlyDurableReleased
SYMMETRY FaultySymmetry
CHECK_DEADLOCK FALSE
