SPECIFICATION FairSpec
CONSTANTS
    Programs <- MCPrograms
    Levels <- MCLevels
CHECK_DEADLOCK FALSE
INVARIANTS TypeOK HeldOnce StopsAtError BindsByLevel
PROPERTY ParsingEnds
