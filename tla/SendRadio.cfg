SPECIFICATION Spec
CONSTANTS
  HeaderLen = 1
  Delay = 2
  Interpolation = 3
  Decimation = 2
  Radio = "SOAPYSDR"
  Source = "stdin"
  Id = "id"
  DataSize = 3
  PayloadSize = 2
  BlockSize = 2
  MTU = 3
  CounterValues = 2
  MaxIdle = 1
INVARIANTS
  TypeOK
  StreamIntact
  CompleteOnReturn
PROPERTIES
  StopInterrupts
  ReadGoesOut
  EndsWithSource
