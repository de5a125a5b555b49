SPECIFICATION FairSpec
CONSTANTS
    MaxRuntimes = 2
    Callers = {c1}
INVARIANT NoLostReconnect
PROPERTIES RequestsAreHonoured PortIsRegained
CHECK_DEADLOCK FALSE
