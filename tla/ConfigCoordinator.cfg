SPECIFICATION FairSpec
CONSTANTS
    Workers = {w1, w2, w3}
    Nobody = Nobody
INVARIANTS
    ActiveOpIsOwed
    SentMeansDelivered
    TeardownIsOrderly
PROPERTIES
    RunEnds
