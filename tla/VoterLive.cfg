\* Voting resumes after the last fault.
SPECIFICATION FairSpec
CONSTANTS
    MaxFaults = 2
    v1 = v1
    v2 = v2
    Validators = {v1}
    ValidatorList <- OneValidator
    MaxPeriod = 4
    MaxRetries = 2
    SequenceRetries = 2
    ChannelCap = 2
PROPERTY VotingResumes
CHECK_DEADLOCK FALSE
