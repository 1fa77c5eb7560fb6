SPECIFICATION Spec
CONSTANTS
    u1 = u1
    u2 = u2
    Users <- TwoUsers
    Interval = 2
    CleanStep = 1
    MaxTime = 5
    Char <- Alphabet
    ConfigLists <- Accents
    FileLists <- NoFile
    Contents <- AccentTexts
SYMMETRY Symmetry
CHECK_DEADLOCK FALSE
INVARIANT
    ZeroWidthHidesNothing
