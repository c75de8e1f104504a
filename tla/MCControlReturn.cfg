SPECIFICATION Spec
CONSTANTS
    MaxMain = 1
    MaxFunc = 0
    Kinds = {"top return"}
    TestedInits = {}
    UntestedInits = {}
    LocalsMax = 3
    ByteMod = 16
    JumpMod = 128
    None = None
    StackMax = 7
    FramesMax = 2
    HandlersMax = 3
INVARIANT NeverCorrupted
