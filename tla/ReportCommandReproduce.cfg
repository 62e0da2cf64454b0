SPECIFICATION Spec
CHECK_DEADLOCK FALSE
CONSTANTS
  Codes <- PilotCodes
  Texts <- PilotTexts
  Modules <- PilotModules
  Keys <- PilotKeys
  Owner <- PilotOwner
  Rule <- PilotRule
  Branches <- PilotBranches
  IatMin = 1
  MaxAge = 2
  Skew = 1
  ForeignObject <- NoClaims
  Records <- MCRecords
  OptionSets <- MCOptionSets
  MaxLevel = 2
  StartTime = 7
  Paths = {"record", "a", "b"}
  RecordPath = "record"
  Bundles = {"raises", "the bundle"}
  MaxTime = 7
  Inputs <- FewInputs
  Commands <- FullReport
  MaxCommands = 1
  MaxChanges = 0
INVARIANT PrintedCommandReproduces
