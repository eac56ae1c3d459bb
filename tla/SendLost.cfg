SPECIFICATION Spec
CONSTANTS
  HeaderLen = 1
  Delay = 2
  Interpolation = 2
  Decimation = 1
  Radio = "SOAPYSDR"
  Source = "stdin"
  Id = "id"
  DataSize = 2
  PayloadSize = 2
  BlockSize = 2
  MTU = 2
  CounterValues = 2
  MaxIdle = 1
PROPERTIES
  StopAllInterrupts
