SPECIFICATION ChannelSpec
CONSTANTS
  o1 = o1
  o2 = o2
  None = None
  Options = {o1}
  Files <- MCFiles
  MaxCount = 1
  PurgeAge = 1
  MaxDate = 2
  MaxStamps = 3
  MaxWrites = 4
  MaxRuns = 3
CHECK_DEADLOCK FALSE
INVARIANTS AcceptedIsDurable OnlyTheTailIsLost FewFiles OldestGoFirst ExactlyTheRestIsKept
