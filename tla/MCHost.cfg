SPECIFICATION HostSpec
CHECK_DEADLOCK FALSE
CONSTANTS
  Tools = {"bridge", "pty", "boot", "build", "monitor", "trace", "spike"}
  \* A pty waits for its first byte, as it does unless told otherwise.  Of the optional files the reader thread
  \* only uses the input transcript.  Three bytes are enough to fill the FIFO and the driver with one behind them.
  Modes = {"stdin", "pty"}
  Waits = {TRUE}
  PtyFiles = {"rxlog"}
  cr = cr
  nl = nl
  exit_byte = exit_byte
  Key = {cr, nl, exit_byte}
  Cr = cr
  Nl = nl
  Exit = exit_byte
  MaxTyped = 3
  MaxChanges = 1
  MaxPending = 1
  FifoDepth = 1
  \* More bytes than the terminal and the backlog hold.
  MaxBytes = 7
  Room = 2
  Backlog = 2
  \* A deadline that an idle line meets early, in time and late.
  UartIdle = 3
  BootTimeout = 8
  CR = "cr"
  LF = "lf"
  Banner = "b"
  Uname = "u"
  Text = {"cr", "lf", "b", "u"}
  Divisor = {1, 2}
  Clock = 64
  Speed = 2
  CommandLines <- Lines
  Stem <- Stems4
  Start = "start.S"
  StartStem = "start"
  Size <- Sizes
  Limit = 6
  Old = "old"
  FrameBits = 2
  \* A monitor of 8 cycles per bit, a line of 9 that it tolerates and one of 6 that it does not.
  BitPeriod = 8
  Ticks = 3
  Divisors = {2, 3}
  Frames <- Bytes
  MaxFrames = 2
  MaxCycles = 76
  Commits <- SomeCommits
  Rom <- BootRom
  EntryPc = 1
  Tohost = 0
  Base = 2
  MaxCommits = 3
  IsaFiles <- Binaries
  Suites = {"ui", "mi", "um", "ua"}
  MaxLimit = 2
  NotApplicable = {"ui1"}
  TraceNotComparable = {}
INVARIANTS InputInOrder BootReported RunsItsProgram TraceVerdict JobReported
PROPERTIES SessionEnds OutputDelivered MonitorReports
