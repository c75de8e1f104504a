SPECIFICATION FairSpec
CONSTANTS
    Obj = {o1, o2}
    Nil = Nil
    NoEntry = NoEntry
    Global = {}
    MaxItems = 2
    InitialThreshold = 3
    ArrayMinCap = 1
    MapMinCap = 2
    StackMax = 2
    MaxBytes = 5
INVARIANTS BytesCoverHeap
PROPERTIES CollectionEnds ManagedHeap
