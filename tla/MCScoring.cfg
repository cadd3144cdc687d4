SPECIFICATION FairSpec
CONSTANTS
    Requests = {r1}
    Clients <- BothClients
    Dims = {"asn"}
    PenaltyFor <- OnePenalty
    BaseScores <- TwoClasses
    MinScore = 0
    MaxScore = 70
    Divisors <- Timeline
    Scale = 2
    AlphaInverse = 2
    IdleTTL = 5
    SweepEvery = 1
    MaxPending = 3
    MaxLag = 1
    QuietTicks = 2
    BusyTicks = 2
INVARIANTS
    EveryRequestCounted
PROPERTIES
    GcForgivesNobody
    SustainedLoadCosts
    ChargesJustified
    StoppedIsStill
    MemoryReclaimed
CHECK_DEADLOCK FALSE
