SPECIFICATION FairSpec
CONSTANTS
    File <- MCFile
    Path <- MCPath
    Real <- MCReal
    Spelling <- MCSpelling
    Full <- MCFull
    Entry = "a"
    Disks <- MCDisks
    None = None
    Letter <- MCLetter
    Digit <- MCDigit
    Blank <- MCBlank
    Operator <- MCOperator
    Doubled <- MCDoubled
    Escape <- MCEscape
    Leftover <- MCLeftover
    MaxLines = 4
    MaxText = 4
CHECK_DEADLOCK FALSE
INVARIANTS TypeOK ExpandedOnceInOrder FailsForCause LongestLexeme StringsDecodeWhole GapsAreBlank LinesAreCopiedLines ReleasedAtExit
PROPERTY FrontendEnds
