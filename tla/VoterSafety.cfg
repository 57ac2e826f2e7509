\* Two validators that share the feeder account and its sequence.
SPECIFICATION Spec
CONSTANTS
    MaxFaults = 3
    v1 = v1
    v2 = v2
    Validators = {v1, v2}
    ValidatorList <- TwoValidators
    MaxPeriod = 3
    MaxRetries = 2
    SequenceRetries = 2
    ChannelCap = 2
INVARIANTS
    TypeOK
    StoredPrevoteLanded
    RevealedNotStored
    NoEarlyReveal
PROPERTIES
    NewestPrevoteWins
    ImplementsPrevoteLife
CHECK_DEADLOCK FALSE
