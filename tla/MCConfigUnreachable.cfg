SPECIFICATION Spec
CONSTANTS
    Bad = Bad
    None = None
    KeyFiles = {}
    Configs <- MCConfigs
    MaxLoads = 1
    Key <- MCKey
    Finds <- MCFinds
    CleansUpFailed = {FALSE}
CHECK_DEADLOCK FALSE
INVARIANT
    NoSilentDimension
