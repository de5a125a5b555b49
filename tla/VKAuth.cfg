SPECIFICATION FairSpec
CONSTANTS
    Credentials = 2
    AttemptLimit = 4
    CaptchaLimit = 3
    MaxWaiting = 2
INVARIANTS SilentInLockout FinalIsFinal OwnAnswer
PROPERTY FetchReturns
