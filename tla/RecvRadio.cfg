SPECIFICATION ReceptionSpec
CONSTANTS
  HeaderLen = 2
  Delay = 2
  Interpolation = 1
  Decimation = 1
  Radio = "SOAPYSDR"
  Id = "id"
  FrameSize = 3
  Timeout = 0
  TicksPerSecond = 1
  MaxLost = 1
  Frames <- OwnForeignOwn
  MaxNoise = 1
INVARIANTS
  TypeOK
  DeliveredInOrder
  HeardIsDelivered
PROPERTIES
  StopInterrupts
