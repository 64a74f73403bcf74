SPECIFICATION Spec
CONSTANTS
    Null = Null
    Caps = {0, 1, 2, 3}
    Spawns = {0, 1, 2}
    Walls = {0, 1, 2}
    Reserve = 1
    Models <- MCModels
    Catalogs <- MCCatalogs
    Works <- MCWorks
    Observations = {0, 1, 2, 3, 4}
    Remainders = {0, 20, 60, 200}
    Joules <- MCJoules
INVARIANTS
    NeverLoosened
    AdmittedIsEnforceable
    ChargeIsExact
    FinishedWithinCharge
    NoDiscountBySplitting
    RouteIsBest
    JoulesExact
CHECK_DEADLOCK FALSE
