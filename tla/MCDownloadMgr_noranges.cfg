SPECIFICATION Spec
CONSTANTS
  NoFile = NoFile
  Page = Page
  Length = 3
  MaxVersion = 1
  MaxCalls = 3
INVARIANT NoRangesIsHandled
CHECK_DEADLOCK FALSE
