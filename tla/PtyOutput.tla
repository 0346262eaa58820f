----------------------------- MODULE PtyOutput ------------------------------
(***************************************************************************)
(* The interactive console of sim/linux_tty.py, output side: PtyBridge's   *)
(* write_byte and flush_backlog, called once a clock cycle by boot_linux,  *)
(* and a serial client that reads the other end of the pseudo-terminal     *)
(* whenever it likes, if it is attached at all.  Only os.write leaves the  *)
(* Python thread, so every os.write is a step.  A byte is its number in    *)
(* the order of transmission.                                              *)
(***************************************************************************)
EXTENDS Naturals, Sequences, SequencesExt, FiniteSets

CONSTANTS
  MaxBytes,   \* bound: bytes the guest transmits
  Room,       \* bytes the kernel's terminal buffer holds (external)
  Backlog     \* UART_PTY_BUFFER_LIMIT

ASSUME PtyAssumption == {MaxBytes, Room, Backlog} \subseteq Nat /\ Room > 0

VARIABLES
  emitted,     \* bytes transmitted so far
  call,        \* "idle", "write_byte" or "flush_backlog": where boot_linux is
  flushing,    \* within the call: still in _flush_backlog
  kernel,      \* written, not yet read by the client
  tx_backlog,  \* _tx_backlog
  seen,        \* history: what the client has read
  midcall      \* history: the client has read while a call was in progress

pvars == <<emitted, call, flushing, kernel, tx_backlog, seen, midcall>>

PtyInit ==
  /\ emitted = 0 /\ call = "idle" /\ flushing = FALSE
  /\ kernel = <<>> /\ tx_backlog = <<>> /\ seen = <<>> /\ midcall = FALSE

\* A cycle of boot_linux's loop: with a byte from the UART it calls write_byte, else flush_backlog.
LoopEmits ==
  /\ call = "idle" /\ emitted < MaxBytes
  /\ emitted' = emitted + 1 /\ call' = "write_byte" /\ flushing' = TRUE
  /\ UNCHANGED <<kernel, tx_backlog, seen, midcall>>

\* Faulty variant: the backlog is flushed only once it is full.
LoopQuiet_Full ==
  /\ call = "idle" /\ tx_backlog # <<>> /\ Len(tx_backlog) = Backlog
  /\ call' = "flush_backlog" /\ flushing' = TRUE
  /\ UNCHANGED <<emitted, kernel, tx_backlog, seen, midcall>>

LoopQuiet ==
  /\ call = "idle" /\ tx_backlog # <<>>
  /\ call' = "flush_backlog" /\ flushing' = TRUE
  /\ UNCHANGED <<emitted, kernel, tx_backlog, seen, midcall>>

\* _flush_backlog: one os.write for the oldest byte; it returns when none is left or the write would block.
FlushStep ==
  /\ call # "idle" /\ flushing
  /\ IF tx_backlog # <<>> /\ Len(kernel) < Room
     THEN /\ kernel' = Append(kernel, Head(tx_backlog)) /\ tx_backlog' = Tail(tx_backlog)
          /\ UNCHANGED <<call, flushing>>
     ELSE /\ flushing' = FALSE
          /\ call' = IF call = "flush_backlog" THEN "idle" ELSE call
          /\ UNCHANGED <<kernel, tx_backlog>>
  /\ UNCHANGED <<emitted, seen, midcall>>

\* deque(maxlen=UART_PTY_BUFFER_LIMIT).append drops the oldest entry of a full deque.
BoundedAppend(s, b) ==
  LET t == Append(s, b) IN IF Len(s) < Backlog THEN t ELSE Tail(t)

\* The os.write of write_byte itself.
WriteStep ==
  /\ call = "write_byte" /\ ~flushing /\ call' = "idle"
  /\ IF Len(kernel) < Room
     THEN kernel' = Append(kernel, emitted) /\ UNCHANGED tx_backlog
     ELSE tx_backlog' = BoundedAppend(tx_backlog, emitted) /\ UNCHANGED kernel
  /\ UNCHANGED <<emitted, flushing, seen, midcall>>

ClientReads ==
  /\ kernel # <<>>
  /\ seen' = Append(seen, Head(kernel)) /\ kernel' = Tail(kernel)
  /\ midcall' = (midcall \/ call # "idle")
  /\ UNCHANGED <<emitted, call, flushing, tx_backlog>>

PtyNext == LoopEmits \/ LoopQuiet \/ FlushStep \/ WriteStep \/ ClientReads

\* The clock ticks, whether the guest says anything or not, and the client, once attached, drains its terminal.
PtySpec ==
  /\ PtyInit /\ [][PtyNext]_pvars
  /\ WF_pvars(LoopQuiet) /\ WF_pvars(FlushStep \/ WriteStep) /\ WF_pvars(ClientReads)

(***************************************************************************)
(* Properties.                                                             *)
(***************************************************************************)
InHand == IF call = "write_byte" THEN <<emitted>> ELSE <<>>
Stream == seen \o kernel \o tx_backlog \o InHand
Increasing(s) == \A i, j \in DOMAIN s : i < j => s[i] < s[j]

\* No byte reaches the client twice, whatever the client does; the newest UART_PTY_BUFFER_LIMIT bytes
\* are never lost ("Keep a bounded backlog so late attaches still see recent boot logs",
\* linux_tty.py:215); nothing is dropped before the backlog is full; and the bytes keep their order
\* as long as the client did not read in the middle of a write_byte or flush_backlog call.
OutputKept ==
  /\ IsInjective(Stream)
  /\ \A b \in 1..emitted : b + Backlog > emitted => b \in ToSet(Stream)
  /\ Len(Stream) < emitted => emitted > Room + Backlog
  /\ ~midcall => Increasing(Stream)

\* A client that keeps reading sees every byte that was not dropped, although the guest says nothing more
\* (it stops at MaxBytes).
BacklogDrains == []<>(tx_backlog \o kernel = <<>>)

OutputDelivered == []OutputKept /\ BacklogDrains
=============================================================================
