SPECIFICATION Spec
CONSTANTS
    Sites <- MCSites
    Place <- MCPlace
    FileOf <- MCFileOf
    CodeOf <- MCCodeOf
    Tests = {t1, t2}
    MayDie = TRUE
    MaxRuns = 1
    MaxDeaths = 0
INVARIANT MeasuredFromGreen
CHECK_DEADLOCK FALSE
