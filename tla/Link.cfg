SPECIFICATION Spec
CONSTANTS
  HeaderLen = 1
  Delay = 2
  Interpolation = 3
  Decimation = 2
  Id = "id"
  DataSize = 3
  PayloadSize = 2
  CounterValues = 2
  MaxIdle = 1
  BlockSize = 2
  StdoutSize = 2
  ReceiverDelay = 2
  Source = "stdin"
INVARIANTS
  RoundTrip
PROPERTIES
  ImplementsDelivery
  LinkEnds
  StopPropagates
