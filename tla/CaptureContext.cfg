SPECIFICATION Spec
CONSTANTS
  Threads = {main, helper}
  MainThread = main
  Plans <- MCPlans
  PublicPlan <- MCPublicPlan
  Pilots <- MCPilots
  Calling <- MCCalling
  NoModule = none
  MaxCalls = 6
CHECK_DEADLOCK FALSE
INVARIANTS
  TypeOK
  ContextFollowsRuns
  CellsFollowCheckers
  RunsNeverCollide
  PublishedFactsAreOwn
  OnlyDirectCallsDisturb
