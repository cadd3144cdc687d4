SPECIFICATION Spec
CONSTANTS
    Bad = Bad
    Requests = {r1, r2}
    MaxLoads = 1
    MaxBlocks = 1
    Configs <- OneLoad
    TiesDown = {}
CHECK_DEADLOCK FALSE
INVARIANTS
    IdleGaugeOneAhead
