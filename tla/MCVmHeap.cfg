SPECIFICATION Spec
CONSTANTS
    Obj = {o1, o2, o3}
    Nil = Nil
    NoEntry = NoEntry
    Global = {g1}
    MaxItems = 1
    InitialThreshold = 2
    ArrayMinCap = 1
    MapMinCap = 2
    StackMax = 3
    MaxBytes = 2
SYMMETRY ObjSymmetry
INVARIANTS TypeOK NoDangling MarksClear CollectionExact
