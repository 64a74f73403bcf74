SPECIFICATION Spec
CONSTANTS
    Domains = 1
    CounterRange = 4
    Power <- MCPower
    Margin <- MCMargin
    Micro = 2
    Stale = 3
    KillDeadline = 1
    Cap = 8
    Window = 2
    Advance = 1
    MaxGap = 3
    Never = Never
    NoReading = NoReading
INVARIANTS
    EnergyTypeOK
    MeteredExactly
    DrawnBelowCap
    StuckIsCaught
CHECK_DEADLOCK FALSE
