\* Both directions, for the comment at the THRE latch.
CONSTANTS
  Bits = 2
  Depth = 2
  TxByte <- OneByte
  RxByte <- OneByte
  ClearsStarting = FALSE
  Parts = {"both"}
  None = None
SPECIFICATION PartSpec
PROPERTY ThreNotSwallowed
