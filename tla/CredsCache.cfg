SPECIFICATION FairSpec
CONSTANTS
    Callers = {c1, c2}
    Nobody = Nobody
    MaxCalls = 3
INVARIANTS
    WaitedForIsNotCancelled
    SingleFlight
PROPERTIES
    NoStalePublication
    ServicePromise
    EveryCallReturns
