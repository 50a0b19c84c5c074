SPECIFICATION FairSpec
CONSTANTS
  Exchanges = {x1}
  Owner = owner
  BodyMaxBytes = 1
  MaxRequestBytes = 0
  MaxResponseBytes = 1
  MaxInflight = 1
  FlushRows = 1
  MaxInsertRows = 1
  MaxFailures = 1
CHECK_DEADLOCK FALSE
PROPERTIES ShutdownTerminates AbandonedWriterEnds
