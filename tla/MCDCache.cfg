SPECIFICATION Spec
CONSTANTS
  NumWays = 2
  NumSets = 2
  NumWords = 2
  NumMSHR = 2
  Tag = {0, 1, 2}
  Lane = {0}
  Byte = {0, 1}
  dev = dev
  Device = {dev}
  None = None
  Client <- Accessed
  Image <- AllEqual
  Stored <- Written
INVARIANTS LinesAccounted
PROPERTY RefinesPort
