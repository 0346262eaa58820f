---------------------------- MODULE UartMonitor -----------------------------
(***************************************************************************)
(* sim/run_c_code.py as a test bench: the test run_c_code waits for the    *)
(* program to write CPU_DONE, beside the coroutine                         *)
(* UartMonitor.start_monitoring that decodes the UART's output line by     *)
(* sampling it every bit period of its own, which is not the line's: that  *)
(* one is set by the divisor the program gave the UART.  A step is a clock *)
(* edge: each coroutine waiting for it, or for a Timer that ends there,    *)
(* runs on the values before the edge, in either order.                    *)
(***************************************************************************)
EXTENDS Naturals, Sequences, SequencesExt

CONSTANTS
  FrameBits,     \* data bits of a frame (8 in the code)
  BitPeriod,     \* baud_period_cycles, the monitor's (5208 in the code)
  Ticks,         \* baud ticks of a bit of the UART (16 in the code)
  Divisors,      \* the divisors the program may have given the UART before it sends
  Frames,        \* the bytes the program may send, as sequences of bits
  MaxFrames,     \* bound: how many it sends
  MaxCycles      \* max_cycles

ASSUME MonitorAssumption ==
  /\ FrameBits \in Nat \ {0} /\ {MaxFrames, MaxCycles} \subseteq Nat
  /\ BitPeriod \in {2 * n : n \in 2..MaxCycles}
  /\ Ticks \in Nat \ {0} /\ Divisors \subseteq Nat \ {0}
  /\ Frames \subseteq [1..FrameBits -> {0, 1}]

VARIABLES
  line_bit,         \* the cycles of a bit on the line
  frame, offset,    \* the frame on the line (<<>> when idle) and the cycles of it, or of an idle bit, gone
  sentFrames,       \* history: the frames begun
  heard,            \* history: how many were on the line before the edge the test saw CPU_DONE at
  monitor, timer, rx_byte, received_bytes, monitoring,   \* UartMonitor
  test, count       \* run_c_code: "loop", "await", "summary", and the cycles of its loop

uvars == <<line_bit, frame, offset, sentFrames, heard, monitor, timer, rx_byte, received_bytes, monitoring, test, count>>

MonitorInit ==
  /\ line_bit \in {Ticks * d : d \in Divisors}
  /\ frame = <<>> /\ offset = 0 /\ sentFrames = <<>> /\ heard = 0
  /\ monitor = "hunt" /\ timer = 0 /\ rx_byte = <<>> /\ received_bytes = <<>> /\ monitoring = TRUE
  /\ test = "loop" /\ count = 0

\* tx_out: a start bit, the data bits, a stop bit, each line_bit cycles long; high when idle.
Level ==
  LET bit == offset \div line_bit
  IN IF frame = <<>> \/ bit = FrameBits + 1 THEN 1 ELSE IF bit = 0 THEN 0 ELSE frame[bit]

\* 1 if the frame on the line shows its start bit for the first time.
New == IF frame # <<>> /\ offset = 0 THEN 1 ELSE 0

\* The transmitter looks for a byte to send at the tick that ends a stop bit, and at each tick when idle.
LastCycle == offset + 1 = (IF frame = <<>> THEN 1 ELSE FrameBits + 2) * line_bit

LineAdvances ==
  /\ UNCHANGED line_bit
  /\ IF ~LastCycle THEN offset' = offset + 1 /\ UNCHANGED <<frame, sentFrames>>
     ELSE /\ offset' = 0
          /\ \/ frame' = <<>> /\ UNCHANGED sentFrames
             \/ /\ Len(sentFrames) < MaxFrames /\ frame' \in Frames
                /\ sentFrames' = Append(sentFrames, frame')

\* From the falling edge of the start bit to the middle of the first data bit.
FirstSample == (3 * BitPeriod) \div 2

\* A low line starts a frame.
StartBit ==
  IF Level = 0 THEN monitor' = "bits" /\ timer' = FirstSample /\ rx_byte' = <<>>
  ELSE monitor' = "hunt" /\ UNCHANGED <<timer, rx_byte>>

\* Faulty variant: while it waits for a start bit it does not look at the flag.
Hunt_Deaf(on) == StartBit

\* The wait for a start bit; on is what it finds in self.monitoring.
Hunt(on) == IF on THEN StartBit ELSE monitor' = "done" /\ UNCHANGED <<timer, rx_byte>>

\* start_monitoring, from this edge to its next await.
MonitorEdge(on) ==
  \/ /\ monitor = "hunt" /\ Hunt(on)
     /\ UNCHANGED received_bytes
  \/ /\ monitor = "bits"
     /\ IF timer > 1 THEN timer' = timer - 1 /\ UNCHANGED <<monitor, rx_byte>>
        ELSE /\ rx_byte' = Append(rx_byte, Level) /\ timer' = BitPeriod
             /\ monitor' = IF Len(rx_byte') = FrameBits THEN "stop" ELSE "bits"
     /\ UNCHANGED received_bytes
  \/ /\ monitor = "stop"
     /\ IF timer > 1 THEN timer' = timer - 1 /\ UNCHANGED <<monitor, rx_byte, received_bytes>>
        ELSE received_bytes' = Append(received_bytes, rx_byte) /\ Hunt(on)
  \/ monitor = "done" /\ UNCHANGED <<monitor, timer, rx_byte, received_bytes>>

\* run_c_code at this edge: done is a write of 1 to CPU_DONE.  The monitor is stopped and awaited after
\* CPU_DONE, not after the cycle limit.
TestEdge(done) ==
  \/ /\ test = "loop" /\ count' = count + 1
     /\ IF done THEN test' = "await" /\ monitoring' = FALSE /\ heard' = Len(sentFrames) - New
        ELSE /\ test' = IF count' = MaxCycles THEN "summary" ELSE "loop"
             /\ UNCHANGED <<monitoring, heard>>
  \/ /\ test = "await" /\ ~done
     /\ test' = IF monitor = "done" THEN "summary" ELSE "await"
     /\ UNCHANGED <<monitoring, heard, count>>

\* Whichever coroutine runs first, the monitor sees the flag before or after the test cleared it.
Edge(done, monitorFirst) ==
  /\ TestEdge(done)
  /\ MonitorEdge(IF monitorFirst THEN monitoring ELSE monitoring')
  /\ LineAdvances

MonitorNext == \E done, monitorFirst \in BOOLEAN : Edge(done, monitorFirst)
MonitorSpec == MonitorInit /\ [][MonitorNext]_uvars /\ WF_uvars(MonitorNext)

(***************************************************************************)
(* Properties.                                                             *)
(***************************************************************************)
\* The k-th sample of the monitor falls into the k-th bit behind the start bit, up to the stop bit, with a
\* cycle to spare on either side.
Matches ==
  \A k \in 0..FrameBits : LET sample == FirstSample + k * BitPeriod
                         IN (k + 1) * line_bit < sample /\ sample + 1 < (k + 2) * line_bit

\* If the two bit periods are that close, what the monitor decodes is what was sent, in order, with frames
\* back to back or not; and after CPU_DONE it has decoded every frame that was on the line before that
\* edge, the one in progress included (run_c_code.py:47, :257).
MonitorHears ==
  Matches => /\ IsPrefix(received_bytes, sentFrames)
             /\ test = "summary" /\ ~monitoring => Len(received_bytes) >= heard

\* The test gets to its summary: awaiting the monitor never blocks it, in whichever state CPU_DONE finds it
\* and whatever the two bit periods.
SummaryReached == (count > 0) ~> (test = "summary")

MonitorReports == []MonitorHears /\ SummaryReached
=============================================================================
