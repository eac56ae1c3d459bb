SPECIFICATION Spec
CONSTANTS
  HeaderLen = 1
  Delay = 2
  Interpolation = 1
  Decimation = 2
  Radio = "SOAPYSDR"
  Source = "file"
  Id = "id"
  DataSize = 2
  PayloadSize = 2
  BlockSize = 2
  MTU = 3
  CounterValues = 2
  MaxIdle = 1
PROPERTIES
  EndsWithSource
