SPECIFICATION Spec
CONSTANTS
    Sites <- MCSites
    Place <- MCPlace
    FileOf <- MCFileOf
    CodeOf <- MCCodeOf
    Tests = {t1, t2}
    MayDie = FALSE
    MaxRuns = 3
    MaxDeaths = 2
INVARIANTS
    TypeOK
    NeverOverstates
    LeavesNoTrace
    VerdictIsRight
CHECK_DEADLOCK FALSE
