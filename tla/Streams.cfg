\* Binance and MEXC; a server that changes or drops a connection three times.
SPECIFICATION FairSpec
CONSTANTS
    Kinds = {"binance", "mexc"}
    MaxConnections = 3
    MaxChanges = 3
INVARIANTS
    TypeOK
    OnePoller
    HealthyIsWatched
PROPERTIES
    FailingStreamLeft
    StartCompletes
    StopEndsReaders
CHECK_DEADLOCK FALSE
