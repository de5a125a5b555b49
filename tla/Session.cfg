SPECIFICATION FairSessionSpec
INVARIANTS
    ResourcesAreAccountedFor
    EndpointIsBlamedFairly
PROPERTIES
    PermitIsHonoured
    SessionEnds
