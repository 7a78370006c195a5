SPECIFICATION FairSpec
CONSTANTS
  p1 = p1
  p2 = p2
  o1 = o1
  o2 = o2
  o3 = o3
  Dummy = Dummy
  Null = Null
  Producers <- MCProducers
  Objects <- MCObjects
  MaxEnqueues = 3
CHECK_DEADLOCK FALSE
INVARIANTS ListIntact NoTouchAfterHandOff DestructorLeavesNothing
PROPERTIES ImplementsFifo Drains
