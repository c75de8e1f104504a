SPECIFICATION Spec
CONSTANTS
    Obj = {o1, o2}
    Nil = Nil
    NoEntry = NoEntry
    Global = {}
    MaxItems = 1
    InitialThreshold = 3
    ArrayMinCap = 1
    MapMinCap = 2
    StackMax = 3
    MaxBytes = 5
PROPERTY CollectsOnlyWhenHeapGrew
