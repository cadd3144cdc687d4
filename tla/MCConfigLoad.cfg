SPECIFICATION Spec
CONSTANTS
    Bad = Bad
    None = None
    kid1 = kid1
    kid2 = kid2
    PT = PT
    KeyFiles = {"good"}
    Configs <- MCConfigs
    MaxLoads = 2
    Key <- MCKey
    Finds <- MCFinds
    CleansUpFailed = {TRUE, FALSE}
CHECK_DEADLOCK FALSE
INVARIANTS
    PoolMatchesHolders
    NothingOutlivesLoad
    StatusListsLast
    SilentOnlyIfUnfit
