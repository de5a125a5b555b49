SPECIFICATION Spec
CONSTANTS
    Callers = {c1, c2}
    Nobody = Nobody
    MaxCalls = 2
PROPERTY
    InvalidatedMeansInvalidated
