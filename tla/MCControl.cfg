SPECIFICATION Spec
CONSTANTS
    MaxMain = 1
    MaxFunc = 3
    Kinds = {"let", "assign", "call", "throw", "return", "break", "continue", "if", "while", "for", "try"}
    TestedInits = {"let", "other"}
    UntestedInits = {"none"}
    LocalsMax = 3
    ByteMod = 16
    JumpMod = 128
    None = None
    StackMax = 7
    FramesMax = 2
    HandlersMax = 3
INVARIANTS TypeOK HandlersMatchTries LocalsHoldTheirValue TopLevelBalanced NeverCorrupted
