SPECIFICATION Spec
CONSTANTS
  NoFile = NoFile
  Page = Page
  Length = 4
  MaxVersion = 1
  MaxCalls = 3
INVARIANTS LocalIsPrefix SuccessIsComplete BarCountsWhatCame
PROPERTY ResumeLosesNothing
CHECK_DEADLOCK FALSE
