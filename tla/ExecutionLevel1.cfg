SPECIFICATION Spec
CONSTANTS
    Codes <- MCCodes
    Texts <- MCTexts
    Modules <- MCModules
    Keys <- MCKeys
    Owner <- MCOwner
    Rule <- MCRule
    Branches <- TwoLevelBranches
    MaxLevel = 1
    Plan <- TwoLevelPlan
    CoreOrder <- MCCoreOrder
    NoModule = NoModule
    FindingValues <- TwoLevelValues
    StartPolicy <- MCStartPolicy
    OtherPolicies <- MCOtherPolicies
    MaxFindings = 3
    MaxFacts = 1
    MaxReturned = 1
    MaxTamper = 1
INVARIANTS
    PublishedIsEmittable
    SchedulerNeverDisagrees
PROPERTIES
    PublishedFitsTheRun
    RefinesAtomicRun
CHECK_DEADLOCK FALSE
