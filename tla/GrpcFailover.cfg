SPECIFICATION Spec
CONSTANTS
    voter = voter
    params = params
    Callers = {voter}
    NumEndpoints = 2
    RetryAttempts = 10
    Kinds = {"failover"}
INVARIANT TriesAllEndpoints
CHECK_DEADLOCK FALSE
