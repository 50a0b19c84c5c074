SPECIFICATION FairSpec
CONSTANTS
  Events = {e1, e2, e3}
  Callers = {c1, c2}
  MaxInflight = 2
  FlushRows = 2
  MaxInsertRows = 3
  MaxFailures = 2
CHECK_DEADLOCK FALSE
PROPERTIES EventuallyStored ShutdownReturns
