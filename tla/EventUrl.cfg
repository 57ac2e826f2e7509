SPECIFICATION Spec
CONSTANTS
    NumEndpoints = 2
    Modes = {"healthy", "silent"}
    DialTicks = 5
    MaxHeight = 1
    MaxDrops = 0
    VotePeriods = {2}
    MaxChanges = 0
    MessageCap = 2
    PeriodCap = 1
    ParamsCap = 1
INVARIANT ReadsNewUrl
CHECK_DEADLOCK FALSE
