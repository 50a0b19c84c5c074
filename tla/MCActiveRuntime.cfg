SPECIFICATION Spec
CONSTANTS
  Exchanges = {x1, x2}
  Owner = owner
  BodyMaxBytes = 1
  MaxRequestBytes = 0
  MaxResponseBytes = 1
  MaxInflight = 1
  FlushRows = 2
  MaxInsertRows = 2
  MaxFailures = 1
SYMMETRY RuntimeSymmetry
CHECK_DEADLOCK FALSE
INVARIANTS TypeOK PipelineAccounting OnlyOutlivedIsLost StoppedMeansFlushed
