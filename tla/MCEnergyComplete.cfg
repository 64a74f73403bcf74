SPECIFICATION Spec
CONSTANTS
    Domains = 2
    CounterRange = 4
    Power <- MCPower
    Margin <- MCMargin
    Micro = 2
    Stale = 2
    KillDeadline = 1
    Cap = 9
    Window = 2
    Advance = 1
    MaxGap = 2
    Never = Never
    NoReading = NoReading
INVARIANTS
    CompleteIsExact
CHECK_DEADLOCK FALSE
