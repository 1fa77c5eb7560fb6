SPECIFICATION Spec
CONSTANTS
    u1 = u1
    u2 = u2
    Users <- TwoUsers
    Interval = 2
    CleanStep = 1
    MaxTime = 5
    Char <- Alphabet
    ConfigLists <- Pairs
    FileLists <- Files
    Contents <- Texts
SYMMETRY Symmetry
CHECK_DEADLOCK FALSE
INVARIANTS
    RateRespected
    VerdictIsRight
