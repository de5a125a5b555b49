SPECIFICATION FairSpec
CONSTANTS
    Fetchers = {f1, f2}
    Nobody = Nobody
    BackoffSchedule <- MCBackoffSchedule
    RetryAfters = {1}
    MinInterval = 1
    MaxInterval = 2
    MaxFloods = 3
INVARIANTS
    NoRequestDuringPause
    OneProbe
PROPERTIES
    RequestsAreSpaced
    FetchReturns
