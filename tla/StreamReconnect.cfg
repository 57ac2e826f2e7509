SPECIFICATION FairSpec
CONSTANTS
    Kinds = {"binance"}
    MaxConnections = 2
    MaxChanges = 1
PROPERTY StreamRecovers
CHECK_DEADLOCK FALSE
