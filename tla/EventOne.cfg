\* One endpoint of any kind, and parameters that change.
SPECIFICATION FairSpec
CONSTANTS
    NumEndpoints = 1
    Modes = {"healthy", "silent", "garbage", "down"}
    DialTicks = 5
    MaxHeight = 6
    MaxDrops = 1
    VotePeriods = {2, 3}
    MaxChanges = 2
    MessageCap = 2
    PeriodCap = 1
    ParamsCap = 1
INVARIANT ParamsDelivered
PROPERTIES
    ParamsReachVoter
    PeriodsIncrease
    ImplementsEventFeed
CHECK_DEADLOCK FALSE
