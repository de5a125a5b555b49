SPECIFICATION FairSpec
CONSTANTS
    Workers = {w1, w2}
    Nobody = Nobody
PROPERTY
    FruitlessIsRetried
