SPECIFICATION Spec
CONSTANTS
    Char = {"a", " "}
    Space = {" "}
    MaxLen = 4
    IntMax = 6
    Huge = Huge
    Other = Other
    Outside = Outside
CHECK_DEADLOCK FALSE
INVARIANTS ReplaceIsSplitAndJoin CutsExact
