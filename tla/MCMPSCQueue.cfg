SPECIFICATION FairSpec
CONSTANTS
  p1 = p1
  p2 = p2
  n1 = n1
  n2 = n2
  n3 = n3
  i1 = i1
  i2 = i2
  Null = Null
  Producers <- MCProducers
  Nodes <- MCNodes
  Items <- MCItems
  MaxEnqueues = 3
CHECK_DEADLOCK FALSE
INVARIANTS ListIntact NoUseAfterFree NoLeak
PROPERTIES ImplementsFifo Drains
