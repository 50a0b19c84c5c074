SPECIFICATION FairExchangeSpec
CONSTANTS
  Exchanges = {x1}
  BodyMaxBytes = 2
  MaxRequestBytes = 3
  MaxResponseBytes = 4
CHECK_DEADLOCK FALSE
INVARIANTS ExchangeTypeOK OneEventPerExchange EventTruthful AccumulatorsExact
PROPERTY EventuallyLogged
