\* The transmitter, then the receiver: FIFOs of four and two bytes that differ in both bits.
CONSTANTS
  Bits = 2
  Depth = 4
  TxByte <- TwoBytes
  RxByte <- TwoBytes
  ClearsStarting = FALSE
  Parts = {"tx", "rx"}
  None = None
SPECIFICATION PartFairSpec
INVARIANT TxStatusTrue
PROPERTY TxDelivers RxInOrder
