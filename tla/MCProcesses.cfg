SPECIFICATION Spec
CONSTANTS
    Proc = {p1, p2}
    Key = {k1}
    RunId = {r1, r2}
    Metered = {r2}
    MaxRefused = 2
    NoRun = NoRun
    NoKey = NoKey
    TokenId = {}
    ActionId = {}
    ComputeId = {}
INVARIANTS
    ProcessesTypeOK
    SoleWriterVerifies
    EvidenceIsTrue
PROPERTIES
    LaunchesOnce
    RecoverContains
SYMMETRY ProcessesSymmetry
CHECK_DEADLOCK FALSE
