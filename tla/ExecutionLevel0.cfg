SPECIFICATION FairSpec
CONSTANTS
    Codes <- MCCodes
    Texts <- MCTexts
    Modules <- MCModules
    Keys <- MCKeys
    Owner <- MCOwner
    Rule <- MCRule
    Branches <- MCBranches
    MaxLevel = 0
    Plan <- OneLevelPlan
    CoreOrder <- MCCoreOrder
    NoModule = NoModule
    FindingValues <- OneLevelValues
    StartPolicy <- MCStartPolicy
    OtherPolicies <- MCOtherPolicies
    MaxFindings = 3
    MaxFacts = 2
    MaxReturned = 2
    MaxTamper = 2
INVARIANTS
    TypeOK
    FactsWeighed
    NothingUnearned
    PublishedIsEmittable
PROPERTIES
    Settles
CHECK_DEADLOCK FALSE
