\* Two endpoints of any kind, and dials that last as long as the handshake
\* timeout of 45 s.
SPECIFICATION FairSpec
CONSTANTS
    NumEndpoints = 2
    Modes = {"healthy", "silent", "garbage", "down"}
    DialTicks = 5
    MaxHeight = 3
    MaxDrops = 1
    VotePeriods = {2}
    MaxChanges = 0
    MessageCap = 2
    PeriodCap = 1
    ParamsCap = 1
INVARIANT TypeOK
 
CHECK_DEADLOCK FALSE
