SPECIFICATION ReceptionSpec
CONSTANTS
  HeaderLen = 1
  Delay = 2
  Interpolation = 1
  Decimation = 1
  Radio = "IO"
  Id = "id"
  FrameSize = 3
  Timeout = 1
  TicksPerSecond = 1
  MaxLost = 0
  Frames <- OneOwn
  MaxNoise = 1
PROPERTIES
  TimeoutEndsReception
