SPECIFICATION Spec
CONSTANTS
  Events = {e1, e2, e3, e4}
  Callers = {c1, c2}
  MaxInflight = 2
  FlushRows = 2
  MaxInsertRows = 2
  MaxFailures = 2
SYMMETRY WriterSymmetry
CHECK_DEADLOCK FALSE
INVARIANTS TypeOK Conservation StoredInOrder LossIsLateOrCounted
PROPERTIES AcknowledgedMeansWritten ImplementsEventLog
