SPECIFICATION FairSpec
CONSTANTS
  t1 = t1
  t2 = t2
  t3 = t3
  i1 = i1
  i2 = i2
  None = None
  Threads <- MCThreads
  Items <- MCItems
  MaxCalls = 2
CHECK_DEADLOCK FALSE
INVARIANTS NoLostWakeup NoSleeperAfterCancel OneOwner
PROPERTIES ImplementsFifo NothingHandedOutAfterCancel CancelReleasesConsumers SleepersAreServed
