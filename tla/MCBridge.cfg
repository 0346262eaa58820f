SPECIFICATION BridgeSpec
CHECK_DEADLOCK FALSE
CONSTANTS
  \* Three bytes: one in the FIFO, one the driver holds back, and Ctrl-] behind them.
  Modes = {"stdin", "pty"}
  Waits = {TRUE, FALSE}
  PtyFiles = {"rxlog"}
  cr = cr
  nl = nl
  exit_byte = exit_byte
  Key = {cr, nl, exit_byte}
  Cr = cr
  Nl = nl
  Exit = exit_byte
  MaxTyped = 3
  MaxChanges = 1
  MaxPending = 1
  FifoDepth = 2
PROPERTY CtrlBracketEnds
