SPECIFICATION FairSpec
CONSTANTS
    Callers = {w1, w2}
    NumGroups = 2
    GroupOf <- MCGroupOf
    Watched = w1
    Nobody = Nobody
    MaxIssued = 2
INVARIANTS
    RefreshIsShared
    RefreshedIsNewer
    AnswersAreFresh
PROPERTIES
    OnlyRejectedIsCleared
    CascadeGoesOn
    RefreshReturns
