\* Three pools on one host, and what happens to them round after round.
CONSTANTS
    Pools <- Three
    FirstCost <- Costs
    FirstTrusted <- Histories
    None = None
    HostCap = 5
    Rooms = {10, 24}
    MinInterval = 2
    ShrinkMinInterval = 4
    FirstSizes = {2, 6}
    Demands = {0, 4, 6}
    MaxCost = 3
    MaxHappened = 2
SPECIFICATION FairSpec
INVARIANTS
    TypeOK
    PlanFits
    UnmetMeansFull
    TrustedGiveWayFirst
PROPERTIES
    GrowthFits
    BrakeIsKept
    RoomMeansRest
    DemandIsMet
