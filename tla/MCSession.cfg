SPECIFICATION Spec
CONSTANTS
    Requests = {r1, r2}
    Instances = {a, b}
    Modes = {"issue", "check"}
    Claims = {"anonymous", "internal"}
    Plans <- SafePlans
    TTL = 6
    Second = 2
    RotationWait = 7
    MaxLag = 1
    Patience = 1
    NoKey = NoKey
    NoCookie = NoCookie
    k1 = k1
    k2 = k2
SYMMETRY Symmetry
INVARIANTS
    RotationKeepsCookies
    ActiveSessionLasts
