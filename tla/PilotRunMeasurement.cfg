SPECIFICATION Spec
CONSTANTS
    Codes <- PilotCodes
    Texts <- PilotTexts
    Modules <- PilotModules
    Keys <- PilotKeys
    Owner <- PilotOwner
    Rule <- PilotRule
    Branches <- PilotBranches
    IatMin = 1
    MaxAge = 2
    Skew = 1
    Records <- MCRecords
    OptionSets <- MCOptionSets
    MaxLevel = 1
    StartTime = 5
    MaxTime = 6
INVARIANT LevelOneMeasurementIsNonZero
CHECK_DEADLOCK FALSE
