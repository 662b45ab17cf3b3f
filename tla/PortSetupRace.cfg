SPECIFICATION Spec
CONSTANTS
  Core = {"c0", "c1"}
  MaxChannel = 0
  src <- OneSrc
  sink <- OneSink
  AllocOk = {TRUE}
CHECK_DEADLOCK FALSE
PROPERTIES
  MessageKept
