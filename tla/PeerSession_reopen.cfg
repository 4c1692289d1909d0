SPECIFICATION System
CONSTANTS
  r1 = r1
  c1 = c1
  d1 = d1
  r2 = r2
  p1 = p1
  p2 = p2
  p3 = p3
  None = None
  Nodes <- MCNodes
  Parent <- MCParent
  Needs <- MCNeeds
  Job <- MCJob
  Home <- MCHome
  External <- MCExternal
  Flows <- MCFlows
  Scheduled <- MCScheduled
  Limits <- MCLimits
  MaxRounds = 1
  MaxOpens = 2
  MaxFaults = 2
INVARIANTS
    EffectsAreAccounted
    CompletedIsBacked
    AcknowledgedIsRecorded
    DeliveryIsBacked
PROPERTIES
    ImplementsDelegation
    JobsSettle
CHECK_DEADLOCK FALSE
