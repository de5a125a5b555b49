SPECIFICATION FairBoundedSpec
CONSTANTS
    Workers = {w1, w2, w3}
    w1 = w1
    w2 = w2
    w3 = w3
    e1 = e1
    e2 = e2
    Endpoints <- MCEndpoints
    CandidateLists <- MCCandidateLists
    NoEndpoint = NoEndpoint
    GlobalLimit = 1
    FailureLimit = 1
    Pause = 1
    MaxClock = 2
INVARIANTS
    ActiveCountsHolders
    OneHandshakePerEndpoint
    SleepIsJustified
PROPERTIES
    PauseIsRespected
    PermitPromise
    AcquireGoesOn
