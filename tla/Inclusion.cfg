SPECIFICATION FairSpec
CONSTANTS
    Sizes = {1, 2, 3, 4, 5, 6, 7, 8, 9, 10, 11, 12, 13}
    MadeUpSize = 5
    Logs <- MCLogs
    Claims <- MCClaims
    OutsideProfile = {2}
    Receipts <- MCReceipts
INVARIANTS
    TypeOK
    ProvenIsAnchored
    ProvenAtItsIndex
    OnlyTheHonestPath
    HonestIsProven
PROPERTIES
    Decides
CHECK_DEADLOCK FALSE
