\* One call: every form of request, pages of up to two rows, up to four ticks left, a
\* millisecond of two.
SPECIFICATION FairSpec
CONSTANTS
  Requests <- MCRequests
  PageLimit = 2
  Millisecond = 2
  OperationTimeout = 3
  MaxClock = 4
INVARIANTS TypeOK RefusedMeansUnstored TimeLimitFits PagesWhole GroupsLost
PROPERTIES CallsEnd
CHECK_DEADLOCK FALSE
