SPECIFICATION FairSpec
CONSTANTS
    Obj = {o1, o2, o3}
    Atom = {x, y}
    Key = {k1, k2}
    MaxLen = 2
    MaxCells = 4
    Left = o1
    Right = o2
    None = None
INVARIANTS TypeOK NoFalseDifference ExactWhenApart MarksBelongToWalk ElidesExactlyCycles
 
