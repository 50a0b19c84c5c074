SPECIFICATION FairSpec
CONSTANTS
  Events = {e1, e2, e3}
  Callers = {c1}
  MaxInflight = 3
  FlushRows = 2
  MaxInsertRows = 1
  MaxFailures = 1
CHECK_DEADLOCK FALSE
PROPERTY EventuallyStored
