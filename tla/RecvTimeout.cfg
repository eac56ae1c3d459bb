SPECIFICATION ReceptionSpec
CONSTANTS
  HeaderLen = 1
  Delay = 2
  Interpolation = 1
  Decimation = 2
  Radio = "SOAPYSDR"
  Id = "id"
  FrameSize = 2
  Timeout = 1
  TicksPerSecond = 2
  MaxLost = 0
  Frames <- OneOwn
  MaxNoise = 1
INVARIANTS
  DeliveredInOrder
  HeardIsDelivered
PROPERTIES
  TimeoutNotEarly
  TimeoutEndsReception
