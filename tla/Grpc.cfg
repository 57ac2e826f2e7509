\* Two callers that rotate the endpoint under each other.
SPECIFICATION Spec
CONSTANTS
    voter = voter
    params = params
    Callers = {voter, params}
    NumEndpoints = 2
    RetryAttempts = 7
    Kinds = {"retry", "failover"}
INVARIANTS
    TypeOK
    SleepBounded
    PatientCallSucceeds
