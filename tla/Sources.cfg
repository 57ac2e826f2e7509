\* Every polling source, two pairs, an API that changes twice.
SPECIFICATION FairSpec
CONSTANTS
    Profiles <- AllSources
    btc = btc
    lunc = lunc
    Symbols = {btc, lunc}
    MaxRetries = 5
    MaxChanges = 2
INVARIANTS
    TypeOK
    FreshWhenHealthy
    NoMixedAges
PROPERTIES
    FailingSourceLeft
    RecoveredSourceUsed
    ShutdownEndsLoop
