SPECIFICATION Spec
CONSTANTS
    MaxMain = 5
    MaxFunc = 0
    Kinds = {"throw", "break", "while", "try"}
    TestedInits = {}
    UntestedInits = {}
    LocalsMax = 3
    ByteMod = 2
    JumpMod = 128
    None = None
    StackMax = 7
    FramesMax = 2
    HandlersMax = 2
PROPERTY UncaughtThrowFails
