\* A pool that has one worker and has never been watched under load.
CONSTANTS
    Pools <- Three
    FirstCost <- Costs
    FirstTrusted <- Histories
    None = None
    HostCap = 5
    Rooms = {24}
    MinInterval = 2
    ShrinkMinInterval = 4
    FirstSizes = {1, 6}
    Demands = {0, 4, 6}
    MaxCost = 3
    MaxHappened = 1
SPECIFICATION FairSpec
PROPERTY SaturatedRecovers
