SPECIFICATION ExchangeSpec
CONSTANTS
  Exchanges = {x1}
  BodyMaxBytes = 2
  MaxRequestBytes = 3
  MaxResponseBytes = 2
CHECK_DEADLOCK FALSE
INVARIANT DroppedBeforeCompletion
