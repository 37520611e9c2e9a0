SPECIFICATION Spec
CONSTANTS
  SinkCap = 2
  DecodeCap = 1
  StreamCap = 1
  EventCap = 2
  Blocks = 1
  Joins = 1
  MaxStarts = 2
  MaxInputs = 2
  Disturbances <- Undisturbed
INVARIANTS
  TypeOK
  StreamsApart
  WaitsAreBacked
  EndIsLast
PROPERTIES
  DeviceIsExclusive
