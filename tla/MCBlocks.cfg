SPECIFICATION BlocksSpec
CONSTANTS
  Blocks = {"mem_adapter", "plic", "uart_rx", "mmu", "atomic_lsu", "timer"}
  \* Two words of two one-bit bytes, counters of up to three bits.
  Word = {a, b}
  Lane = {0, 1}
  Byte = {0, 1}
  None = None
  Latencies = {0, 1, 2, 3, 5}
  \* The two sources of top.v; three priorities tell 0, equal and higher apart.
  NumSources = 2
  MaxPriority = 2
  \* Whole bytes; the drift that adds up over a frame is what matters.
  Divisor = 2
  Bits = 8
  SenderBit <- Drift
  Noise <- Pulses
  NoByte = NoByte
  Page <- Pages
  Off = Off
  Frame = {1}
  Root = {0, 2}
  Content <- Tables
  Entries = 2
  MaxStores = 1
  Cell = {0, 1}
  \* A half of five values is more than the accesses of one job take.
  Half = 5
  Operand = {0, 3, 7, 11, 24}
  MaxGap = 1
INVARIANTS ExactLatency ServedOnce TranslationsCurrent FaultsCurrent TimerExact
PROPERTIES RefinesPort FramesReceived ScHonest
