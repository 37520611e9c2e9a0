SPECIFICATION Spec
CONSTANTS
  SinkCap = 2
  DecodeCap = 1
  StreamCap = 1
  EventCap = 2
  Blocks = 1
  Joins = 0
  MaxStarts = 2
  MaxInputs = 3
  Disturbances <- Services
INVARIANTS
  OneDevice
  ReleasedIsSilent
