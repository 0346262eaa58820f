------------------------------- MODULE UartRx -------------------------------
(***************************************************************************)
(* rtl/core_modules/uart.v, the bit sampler of the receiver: baud counter, *)
(* synchroniser, start-bit detection and the sampling of a frame.  One     *)
(* step is one clock edge.  The byte that leaves the sampler is the byte   *)
(* that arrives at the FIFO of module Uart.                                *)
(*                                                                         *)
(* The sender is external: it has a clock of its own, so the length of its *)
(* bits, in clocks of the receiver, is any of SenderBit; it starts a frame *)
(* at any time, the next one right after a stop bit if it likes, and noise *)
(* may pull the idle line low for a while.                                 *)
(***************************************************************************)
EXTENDS Naturals, Sequences

CONSTANTS Divisor,     \* baud_div
          Bits,        \* bits of a byte: 8
          SenderBit,   \* lengths of a sent bit
          Noise,       \* lengths of a low pulse on the idle line
          NoByte         \* no byte

ASSUME RxAssumption ==
  /\ Divisor \in 0 .. 65535 /\ Bits \in Nat \ {0}
  /\ SenderBit \subseteq Nat \ {0} /\ Noise \subseteq Nat \ {0}

VARIABLES baud_tick_counter, rx_meta, rx_sync,
          rx_state, rx_tick_count, rx_bit_count, rx_shift,
          sender,   \* what is on the line, until when, and the bits of the frame so far
          owed,     \* history: a frame was begun and not received
          received  \* observation: the byte received in this cycle

rxregs == <<rx_tick_count, rx_bit_count, rx_shift>>
rxvars == <<baud_tick_counter, rx_meta, rx_sync, rx_state, rxregs, sender, owed, received>>

\* The clocks from one tick to the next, 16 to a bit; a divisor of 0 runs as 1.
Period == IF Divisor > 1 THEN Divisor ELSE 1

-----------------------------------------------------------------------------
(* The sender.                                                             *)
IdleLine(gap) == [phase |-> "idle", level |-> 1, left |-> gap, length |-> 0, bits |-> << >>]

\* A new phase begins when the clocks of the current one have passed.
SendMore ==
  /\ sender.left > 1
  /\ sender' = [sender EXCEPT !.left = @ - 1]

SendStart(length) ==
  /\ sender.left <= 1 /\ sender.phase \in {"idle", "stop"}
  /\ sender' = [phase |-> "start", level |-> 0, left |-> length, length |-> length, bits |-> << >>]

SendData(bit) ==
  /\ sender.left <= 1
  /\ \/ sender.phase = "start"
     \/ sender.phase = "data" /\ Len(sender.bits) < Bits
  /\ sender' = [sender EXCEPT !.phase = "data", !.level = bit, !.left = sender.length,
                              !.bits = Append(@, bit)]

SendStop ==
  /\ sender.left <= 1 /\ sender.phase = "data" /\ Len(sender.bits) = Bits
  /\ sender' = [sender EXCEPT !.phase = "stop", !.level = 1, !.left = sender.length]

SendNothing ==
  /\ sender.left <= 1 /\ sender.phase \in {"idle", "stop"}
  /\ sender' = IdleLine(0)

\* A low pulse, after which the line is idle for a bit time.
SendNoise(length) ==
  /\ sender.left <= 1 /\ sender.phase = "idle"
  /\ sender' = [phase |-> "noise", level |-> 0, left |-> length, length |-> 0, bits |-> << >>]
NoiseEnds ==
  /\ sender.left <= 1 /\ sender.phase = "noise"
  /\ sender' = IdleLine(16 * Period)

Sender ==
  \/ SendMore \/ SendStop \/ SendNothing \/ NoiseEnds
  \/ \E length \in SenderBit : SendStart(length)
  \/ \E bit \in {0, 1} : SendData(bit)
  \/ \E length \in Noise : SendNoise(length)

-----------------------------------------------------------------------------
(* The receiver.                                                           *)
baud_tick == baud_tick_counter = 0

\* The counter reloads at each tick.
Baud == baud_tick_counter' = IF baud_tick THEN Period - 1 ELSE baud_tick_counter - 1

Synchronise == rx_meta' = sender.level /\ rx_sync' = rx_meta

\* Between two ticks nothing moves.
RxWait == ~baud_tick /\ UNCHANGED <<rx_state, rxregs>>

RxIdle ==
  /\ baud_tick /\ rx_state = "IDLE"
  /\ IF rx_sync = 0 THEN rx_state' = "START" /\ rx_tick_count' = 0
                    ELSE UNCHANGED <<rx_state, rx_tick_count>>
  /\ UNCHANGED <<rx_bit_count, rx_shift>>

RxCount(limit) ==
  /\ rx_tick_count # limit
  /\ rx_tick_count' = (rx_tick_count + 1) % 16
  /\ UNCHANGED <<rx_state, rx_bit_count, rx_shift>>

\* Faulty variant: the tick counter is not restarted in the middle of the start bit.
Confirm_NoRestart ==
  /\ rx_tick_count = 6
  /\ IF rx_sync = 0
       THEN /\ rx_state' = "DATA" /\ rx_bit_count' = 0 /\ rx_shift' = [i \in 1 .. Bits |-> 0]
            /\ UNCHANGED rx_tick_count
       ELSE rx_state' = "IDLE" /\ UNCHANGED rxregs
\* The middle of the start bit, or a false start.
Confirm ==
  /\ rx_tick_count = 6
  /\ IF rx_sync = 0
       THEN /\ rx_state' = "DATA" /\ rx_tick_count' = 0 /\ rx_bit_count' = 0
            /\ rx_shift' = [i \in 1 .. Bits |-> 0]
       ELSE rx_state' = "IDLE" /\ UNCHANGED rxregs

\* The middle of a data bit.
RxSample ==
  /\ rx_tick_count = 15
  /\ rx_tick_count' = 0
  /\ rx_shift' = [rx_shift EXCEPT ![rx_bit_count + 1] = rx_sync]
  /\ IF rx_bit_count = Bits - 1 THEN rx_state' = "STOP" /\ UNCHANGED rx_bit_count
                                ELSE rx_bit_count' = rx_bit_count + 1 /\ UNCHANGED rx_state

\* The middle of the stop bit.
RxStop == rx_tick_count = 15 /\ rx_state' = "IDLE" /\ UNCHANGED rxregs

Receiver ==
  \/ RxWait
  \/ RxIdle
  \/ baud_tick /\ rx_state = "START" /\ (RxCount(6) \/ Confirm)
  \/ baud_tick /\ rx_state = "DATA" /\ (RxCount(15) \/ RxSample)
  \/ baud_tick /\ rx_state = "STOP" /\ (RxCount(15) \/ RxStop)

\* The sampler hands a byte on when the stop bit is high.
pushed == baud_tick /\ rx_state = "STOP" /\ rx_tick_count = 15 /\ rx_sync = 1

-----------------------------------------------------------------------------
RxInit ==
  /\ baud_tick_counter = 0 /\ rx_meta = 1 /\ rx_sync = 1
  /\ rx_state = "IDLE" /\ rx_tick_count = 0 /\ rx_bit_count = 0
  /\ rx_shift = [i \in 1 .. Bits |-> 0]
  /\ sender = IdleLine(0) /\ owed = FALSE /\ received = NoByte

RxNext ==
  /\ Sender /\ Baud /\ Synchronise /\ Receiver
  /\ received' = IF pushed THEN rx_shift ELSE NoByte
  /\ owed' = IF sender'.phase = "start" THEN TRUE ELSE owed /\ ~pushed

RxSpec == RxInit /\ [][RxNext]_rxvars

-----------------------------------------------------------------------------
\* Every register holds a value of its width.
RxTypeOK ==
  /\ baud_tick_counter \in 0 .. Divisor /\ rx_meta \in {0, 1} /\ rx_sync \in {0, 1}
  /\ rx_state \in {"IDLE", "START", "DATA", "STOP"}
  /\ rx_tick_count \in 0 .. 15 /\ rx_bit_count \in 0 .. Bits - 1
  /\ rx_shift \in [1 .. Bits -> {0, 1}]

\* The drift and the noise that 16 ticks a bit tolerate: a sender is neither so slow that its stop bit has
\* not begun when it is sampled, nor so fast that its frame ends before the byte is handed on, and a pulse
\* is over when the start bit is confirmed.
Tolerable ==
  /\ \A length \in SenderBit :
       /\ (Bits + 1) * length <= 16 * (Bits + 1) * Period + 7 * Period
       /\ (Bits + 2) * length >= 16 * (Bits + 2) * Period - 8 * Period + 3
  /\ \A length \in Noise : length <= 7 * Period

\* Whatever the phase and the drift of the sender, and whatever noise came
\* before, a byte is received only for a frame, it is the byte sent, and it is
\* received before the next frame begins, back to back as they may be.
ReceivesWhatIsSent == received' # NoByte => owed /\ received' = sender.bits
NextFrameInTime == sender'.phase = "start" /\ sender.phase # "start" => ~owed
FramesReceived == [][ReceivesWhatIsSent /\ NextFrameInTime]_rxvars
=============================================================================
