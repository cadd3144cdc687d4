SPECIFICATION Spec
CONSTANTS
    Requests = {r1, r2}
    Instances = {a, b}
    Modes = {"issue", "check"}
    Claims = {"anonymous", "internal"}
    Plans <- DocumentedPlans
    TTL = 6
    Second = 2
    RotationWait = 6
    MaxLag = 1
    Patience = 1
    NoKey = NoKey
    NoCookie = NoCookie
    k1 = k1
    k2 = k2
SYMMETRY Symmetry
INVARIANT RotationKeepsCookies
