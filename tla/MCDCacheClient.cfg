SPECIFICATION ClientSpec
CONSTANTS
  NumWays = 1
  NumSets = 2
  NumWords = 2
  NumMSHR = 2
  Tag = {0, 1}
  Lane = {0}
  Byte = {0}
  Device = {}
  None = None
  Client <- TwoSets
  Image <- AllEqual
  Stored <- OneOfEach
PROPERTIES ClientServed
