SPECIFICATION FairSpec
CONSTANTS
  SinkCap = 3
  DecodeCap = 1
  StreamCap = 1
  EventCap = 1
  Blocks = 1
  Joins = 1
  MaxStarts = 2
  MaxInputs = 1
  Disturbances <- Undisturbed
PROPERTIES
  WaitsEnd
  DeviceRests
  DecoderLetsGo
