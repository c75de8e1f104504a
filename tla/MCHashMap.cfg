SPECIFICATION FairSpec
CONSTANTS
    Key = {0, 3, 4, 8}
    Val = {v1, v2}
    Missing = Missing
    Null = Null
    Tomb = Tomb
    None = None
    MinCap = 4
    Hash <- KeyHash
INVARIANTS TypeOK ChainsIntact CountExact LoadBounded
PROPERTIES RefinesDictionary ReturnsWithRoom
