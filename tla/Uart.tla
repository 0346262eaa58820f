-------------------------------- MODULE Uart --------------------------------
(***************************************************************************)
(* rtl/core_modules/uart.v: the 16550 serial port at byte level: the TX    *)
(* shifter and its FIFO, the RX FIFO, the line status bits and the THRE    *)
(* interrupt latch.  One step is one clock edge with at most one register  *)
(* access (the bus never reads and writes in one cycle), a tx_bit_tick or  *)
(* not (software may program any divisor), and a received byte or not (the *)
(* bit sampler of the receiver is UartRx).  Accesses with DLAB set, to the *)
(* scratch register, LSR, MCR and MSR only concern registers that are not  *)
(* modelled: they are Quiet steps.                                         *)
(*                                                                         *)
(* The software is external.  Two disciplines of the 16550 drivers are     *)
(* assumed: FIFO mode is switched only when LSR says that the transmitter  *)
(* is empty, and, unless ClearsStarting, the TX FIFO is not cleared in the *)
(* very cycle the bit tick starts a byte that waits in the holding         *)
(* register (FIFO mode off): tx_busy would drop with the frame under way.  *)
(* A driver that clears only an empty transmitter keeps both.              *)
(***************************************************************************)
EXTENDS Naturals, Sequences

CONSTANTS Bits,          \* bits of a byte: 8
          Depth,         \* TX_FIFO_DEPTH, of both FIFOs: 16
          TxByte,        \* the bytes software sends, as sequences of bits, low bit first
          RxByte,        \* the bytes that arrive
          ClearsStarting, \* whether software clears the holding register as it starts
          None           \* no byte

ASSUME UartAssumption ==
  /\ Bits \in Nat \ {0} /\ Depth \in Nat \ {0}
  /\ TxByte \subseteq [1 .. Bits -> {0, 1}] /\ RxByte \subseteq [1 .. Bits -> {0, 1}]
  /\ ClearsStarting \in BOOLEAN
  /\ None \notin Seq({0, 1})

Byte == [1 .. Bits -> {0, 1}]
Slot == 0 .. Depth - 1
ZeroByte == [i \in 1 .. Bits |-> 0]

VARIABLES tx,              \* the shifter: tx_state, tx_data, tx_busy, tx_start_pending, ...
          txf, rxf,        \* the FIFOs: memory, head, tail and count
          fifo_enabled,    \* fcr[0]
          ier,             \* ier[0] (rx) and ier[1] (thre)
          rx_oe, rbr,
          thre_irq, tx_thre_prev,
          wire,            \* external receiver: the bits of the frame so far; None between frames
          expected,        \* history: what software wrote and the wire still owes
          arrived,         \* history: what arrived, was not lost, and software has not read
          overrun,         \* history: a byte was lost since the last clear of the RX FIFO
          io               \* observation: the byte written, sent, read and received in this cycle

txvars == <<tx, txf, wire, expected>>
rxvars == <<rxf, rx_oe, rbr, arrived, overrun>>
vars == <<txvars, rxvars, fifo_enabled, ier, thre_irq, tx_thre_prev, io>>

-----------------------------------------------------------------------------
(* Status wires.                                                           *)
tx_temt == ~tx.busy /\ ~tx.start_pending /\ txf.count = 0
tx_thre == IF fifo_enabled THEN txf.count = 0 ELSE ~tx.busy /\ ~tx.start_pending
rx_dr == rxf.count # 0
rx_irq_pending == ier.rx /\ rx_dr
thre_irq_pending == ier.thre /\ thre_irq
interrupt == rx_irq_pending \/ thre_irq_pending
iir == IF rx_irq_pending THEN "RX" ELSE IF thre_irq_pending THEN "THRE" ELSE "none"
thre_irq_set == tx_thre /\ ~tx_thre_prev

-----------------------------------------------------------------------------
(* The register access of a cycle.                                         *)
Access == [thr : Byte \cup {None},                    \* write THR
           clear_tx : BOOLEAN, clear_rx : BOOLEAN,    \* write FCR with bits 2 and 1
           read_rbr : BOOLEAN, read_iir : BOOLEAN]
NoAccess == [thr |-> None, clear_tx |-> FALSE, clear_rx |-> FALSE,
             read_rbr |-> FALSE, read_iir |-> FALSE]

EmptyFifo == [mem |-> [i \in Slot |-> ZeroByte], head |-> 0, tail |-> 0, count |-> 0]

\* A FIFO after an edge: cleared, or pushed and popped at once.
Fifo(f, push, b, pop, clear) ==
  [mem   |-> IF push THEN [f.mem EXCEPT ![f.tail] = b] ELSE f.mem,
   head  |-> IF clear THEN 0 ELSE IF pop THEN (f.head + 1) % Depth ELSE f.head,
   tail  |-> IF clear THEN 0 ELSE IF push THEN (f.tail + 1) % Depth ELSE f.tail,
   count |-> IF clear THEN 0
             ELSE IF push /\ ~pop THEN f.count + 1
             ELSE IF ~push /\ pop THEN f.count - 1
             ELSE f.count]

\* The bytes of a FIFO, oldest first.
Contents(f) == [i \in 1 .. f.count |-> f.mem[(f.head + i - 1) % Depth]]

-----------------------------------------------------------------------------
(* The transmitter.                                                        *)

\* Faulty variant: only the tick after a stop bit looks at the FIFO.
tx_fifo_popped_Stop(tick) == tick /\ txf.count # 0 /\ tx.state = "STOP"
\* Whether the bit tick takes a byte off the FIFO.
tx_fifo_popped(tick) ==
  /\ tick /\ txf.count # 0
  /\ tx.state = "IDLE" => ~tx.start_pending
  /\ tx.state \in {"IDLE", "STOP"}

StartBit(t) == [t EXCEPT !.state = "START", !.out = 0, !.bit_count = 0]

DataBit ==
  IF tx.bit_count < Bits
    THEN [tx EXCEPT !.out = tx.data[tx.bit_count + 1], !.bit_count = @ + 1]
    ELSE [tx EXCEPT !.state = "STOP", !.out = 1]

\* The state machine at a bit tick.
BitTick ==
  IF tx_fifo_popped(TRUE)
    THEN StartBit([tx EXCEPT !.data = txf.mem[txf.head], !.busy = @ \/ tx.state = "IDLE"])
  ELSE CASE tx.state = "IDLE" /\ tx.start_pending  -> StartBit([tx EXCEPT !.start_pending = FALSE])
         [] tx.state = "IDLE" /\ ~tx.start_pending -> [tx EXCEPT !.out = 1]
         [] tx.state = "START" -> [tx EXCEPT !.state = "DATA", !.out = tx.data[1], !.bit_count = 1]
         [] tx.state = "DATA"  -> DataBit
         [] tx.state = "STOP"  -> [tx EXCEPT !.state = "IDLE", !.busy = FALSE]

\* A write of THR lands in the FIFO or in the holding register, or nowhere.
tx_fifo_pushed(thr) == thr # None /\ fifo_enabled /\ txf.count # Depth
holding_written(thr) == thr # None /\ ~fifo_enabled /\ ~tx.busy /\ ~tx.start_pending

\* The register writes come after the state machine and override it.
Transmitter(tick, a) ==
  LET t == IF tick THEN BitTick ELSE tx IN
  /\ tx' = IF holding_written(a.thr)
             THEN [t EXCEPT !.data = a.thr, !.start_pending = TRUE, !.busy = TRUE]
           ELSE IF a.clear_tx /\ tx.start_pending /\ tx.state = "IDLE"
             THEN [t EXCEPT !.start_pending = FALSE, !.busy = FALSE]
           ELSE t
  /\ txf' = Fifo(txf, tx_fifo_pushed(a.thr), a.thr, tx_fifo_popped(tick), a.clear_tx)

\* External: an ideal receiver at the other end of the line, which looks at
\* the bit that ends with each tick.
sent(tick) == IF ~tick \/ wire = None THEN None ELSE IF Len(wire) < Bits THEN None ELSE Append(wire, tx.out)
Wire(tick) ==
  wire' = IF ~tick THEN wire
          ELSE IF wire = None THEN (IF tx.out = 0 THEN << >> ELSE None)
          ELSE IF Len(wire) < Bits THEN Append(wire, tx.out)
          ELSE None

\* What the wire owes software: what it wrote while LSR or the FIFO's room
\* allowed it, less what was sent, less what a clear took back; a clear cannot
\* take back the byte whose frame has begun.
Owed(tick, a) ==
  LET rest == IF sent(tick) = None \/ expected = << >> THEN expected ELSE Tail(expected)
      room == IF fifo_enabled THEN txf.count < Depth ELSE tx_thre
      all  == IF a.thr # None /\ room THEN Append(rest, a.thr) ELSE rest
  IN  expected' = IF ~a.clear_tx THEN all
                  ELSE IF tx'.state = "IDLE" \/ all = << >> THEN << >>
                  ELSE <<Head(all)>>

-----------------------------------------------------------------------------
(* The receiver's FIFO.                                                    *)
Pop(a) == a.read_rbr /\ rx_dr

\* A byte arrives; a read in the same cycle makes room, a clear discards it.
rx_fifo_pushed(byte, a) == byte # None /\ ~a.clear_rx /\ (rxf.count # Depth \/ Pop(a))

\* Faulty variant: a byte that finds the FIFO full is reported even if it is read this cycle.
Overruns_Read(byte, a) == byte # None /\ ~a.clear_rx /\ rxf.count = Depth
Overruns(byte, a) == byte # None /\ ~a.clear_rx /\ rxf.count = Depth /\ ~Pop(a)

Receiver(byte, a) ==
  /\ rxf' = Fifo(rxf, rx_fifo_pushed(byte, a), byte, Pop(a), a.clear_rx)
  /\ rbr' = IF rx_fifo_pushed(byte, a) THEN byte ELSE rbr
  /\ rx_oe' = (~a.clear_rx /\ (rx_oe \/ Overruns(byte, a)))

\* A byte is lost only if Depth bytes wait after this cycle's read.
Arrivals(byte, a) ==
  LET left == IF a.read_rbr /\ arrived # << >> THEN Tail(arrived) ELSE arrived IN
  /\ arrived' = IF a.clear_rx THEN << >>
                ELSE IF byte # None /\ Len(left) < Depth THEN Append(left, byte)
                ELSE left
  /\ overrun' = (~a.clear_rx /\ (overrun \/ (byte # None /\ Len(left) = Depth)))

-----------------------------------------------------------------------------
(* The THRE interrupt latch: clear wins over set.                          *)

\* Faulty variant: the latch survives a write of THR.
thre_irq_clear_Read(a) == a.read_iir /\ ~rx_irq_pending
thre_irq_clear(a) == (a.read_iir /\ ~rx_irq_pending) \/ a.thr # None

Latch(a) ==
  /\ tx_thre_prev' = tx_thre
  /\ thre_irq' = (~thre_irq_clear(a) /\ (thre_irq \/ thre_irq_set))

\* The data read from RBR: the oldest byte, or the last one that arrived.
read_data == IF rx_dr THEN rxf.mem[rxf.head] ELSE rbr

Clock(tick, byte, a) ==
  /\ Transmitter(tick, a) /\ Wire(tick) /\ Owed(tick, a)
  /\ Receiver(byte, a) /\ Arrivals(byte, a)
  /\ Latch(a)
  /\ io' = [wrote |-> a.thr, sent |-> sent(tick),
            read |-> IF Pop(a) THEN read_data ELSE None]

-----------------------------------------------------------------------------
Init ==
  /\ tx = [state |-> "IDLE", bit_count |-> 0, data |-> ZeroByte, busy |-> FALSE,
           start_pending |-> FALSE, out |-> 1]
  /\ txf = EmptyFifo /\ rxf = EmptyFifo
  /\ fifo_enabled = FALSE /\ ier = [rx |-> FALSE, thre |-> FALSE]
  /\ rx_oe = FALSE /\ rbr = ZeroByte
  /\ thre_irq = FALSE /\ tx_thre_prev = TRUE
  /\ wire = None /\ expected = << >> /\ arrived = << >> /\ overrun = FALSE
  /\ io = [wrote |-> None, sent |-> None, read |-> None]

Quiet(tick, byte) ==
  /\ Clock(tick, byte, NoAccess)
  /\ UNCHANGED <<fifo_enabled, ier>>

WriteTHR(tick, byte, b) ==
  /\ Clock(tick, byte, [NoAccess EXCEPT !.thr = b])
  /\ UNCHANGED <<fifo_enabled, ier>>

WriteIER(tick, byte, rx, thre) ==
  /\ Clock(tick, byte, NoAccess)
  /\ ier' = [rx |-> rx, thre |-> thre]
  /\ UNCHANGED fifo_enabled

WriteFCR(tick, byte, enable, clear_rx, clear_tx) ==
  /\ enable # fifo_enabled => tx_temt
  /\ tick /\ clear_tx /\ tx.start_pending => ClearsStarting
  /\ Clock(tick, byte, [NoAccess EXCEPT !.clear_rx = clear_rx, !.clear_tx = clear_tx])
  /\ fifo_enabled' = enable
  /\ UNCHANGED ier

ReadRBR(tick, byte) ==
  /\ Clock(tick, byte, [NoAccess EXCEPT !.read_rbr = TRUE])
  /\ UNCHANGED <<fifo_enabled, ier>>

ReadIIR(tick, byte) ==
  /\ Clock(tick, byte, [NoAccess EXCEPT !.read_iir = TRUE])
  /\ UNCHANGED <<fifo_enabled, ier>>

Step(tick, byte) ==
  \/ Quiet(tick, byte)
  \/ \E b \in TxByte : WriteTHR(tick, byte, b)
  \/ \E rx, thre \in BOOLEAN : WriteIER(tick, byte, rx, thre)
  \/ \E enable, clear_rx, clear_tx \in BOOLEAN : WriteFCR(tick, byte, enable, clear_rx, clear_tx)
  \/ ReadRBR(tick, byte)
  \/ ReadIIR(tick, byte)

Next == \E tick \in BOOLEAN, byte \in RxByte \cup {None} : Step(tick, byte)

Spec == Init /\ [][Next]_vars

-----------------------------------------------------------------------------
FifoType == [mem : [Slot -> Byte], head : Slot, tail : Slot, count : 0 .. Depth]

\* Every register holds a value of its width, and no FIFO counts past its depth.
TypeOK ==
  /\ tx \in [state : {"IDLE", "START", "DATA", "STOP"}, bit_count : 0 .. Bits, data : Byte,
             busy : BOOLEAN, start_pending : BOOLEAN, out : {0, 1}]
  /\ txf \in FifoType /\ rxf \in FifoType
  /\ fifo_enabled \in BOOLEAN /\ ier \in [rx : BOOLEAN, thre : BOOLEAN]
  /\ rx_oe \in BOOLEAN /\ rbr \in Byte
  /\ thre_irq \in BOOLEAN /\ tx_thre_prev \in BOOLEAN

\* The line carries, framed by a start and a stop bit and low bit first,
\* exactly the bytes that software wrote, in order, whatever mix of holding
\* register, FIFO and clears they went through.
TxInOrder ==
  [][io'.sent # None => expected # << >> /\ io'.sent = Append(Head(expected), 1)]_vars

\* TEMT: the transmitter reports empty only when the last stop bit is out.
TemtMeansSent == tx_temt => expected = << >>

\* An interrupt for an empty transmitter is never stale: when it is latched,
\* the transmitter really takes a byte (in FIFO mode, a full FIFO of them).
ThreMeansReady == thre_irq => tx_thre

\* What the status register and the interrupt say of the transmitter is true.
TxStatusTrue == TemtMeansSent /\ ThreMeansReady

\* Software reads the bytes that arrived, each once and in order; the bytes
\* lost are the ones that found the FIFO full, and only then does LSR say so.
RxKeepsOrder == arrived = Contents(rxf) /\ overrun = rx_oe
ReadsOldest == io'.read # None => arrived # << >> /\ io'.read = Head(arrived)
RxInOrder == [][RxKeepsOrder' /\ ReadsOldest]_vars

\* Every byte that software wrote is on the wire one day, or taken back by a clear.
TxEnds == expected # << >> ~> (io.sent # None \/ expected = << >>)

\* The bytes written are sent, all of them, in order and unchanged.
TxDelivers == TxInOrder /\ TxEnds

\* The comment at the latch: a THRE event is consumed only by an IIR read that
\* reports it, or by a write of THR.
ThreNotSwallowed ==
  [][(thre_irq \/ thre_irq_set) /\ ~thre_irq' => iir = "THRE" \/ io'.wrote # None]_vars
=============================================================================
