------------------------------ MODULE BootTest ------------------------------
(***************************************************************************)
(* The boot tests as a verdict on a simulation: boot_opensbi of            *)
(* sim/opensbi_uart.py and the batch half of boot_linux of                 *)
(* sim/linux_tty.py, with the UartConsole both read the transmitter with.  *)
(* A step is a clock cycle: the UART's transmitter and the program counter *)
(* do what they like, then the test's loop runs once.  The text is         *)
(* abstracted to Cr, Lf and, for each text the tests look for, the byte    *)
(* that completes it.  Status dumps and stuck warnings only log.           *)
(***************************************************************************)
EXTENDS Naturals, Sequences, SequencesExt

CONSTANTS
  UartIdle, BootTimeout,   \* UART_IDLE_CYCLES, BOOT_TIMEOUT_CYCLES
  Text,                    \* bytes the guest may transmit
  CR, LF, Banner, Uname,   \* line ends, and the last byte of each expected text
  Divisor, Clock, Speed    \* divisors the guest may program; the device tree's frequencies

ASSUME BootAssumption ==
  /\ UartIdle \in Nat \ {0} /\ BootTimeout \in Nat \ {0}
  /\ {CR, LF, Banner, Uname} \subseteq Text /\ CR # LF
  /\ Divisor \cup {Clock, Speed} \subseteq Nat

VARIABLES
  kind,                        \* the test: "boot_opensbi" or "boot_linux"
  tx_state, tx_data, baud_div, pc,   \* the simulated machine, as sampled at the last edge
  prev_tx_state, received, pending_cr, shown,             \* UartConsole and what it printed
  cycle, last_uart_cycle, last_pc, last_pc_change_cycle,  \* locals of the loop (<<>> is None)
  verdict,
  sent, quiet, still           \* history: frames begun; edges since the last one, since pc moved

console == <<prev_tx_state, received, pending_cr, shown>>
tvars == <<kind, tx_state, tx_data, baud_div, pc, console, cycle, last_uart_cycle, last_pc, last_pc_change_cycle,
           verdict, sent, quiet, still>>

Forever == BootTimeout + UartIdle

BootInit ==
  /\ kind \in {"boot_opensbi", "boot_linux"}
  /\ tx_state = 0 /\ tx_data = CR /\ baud_div = 1 /\ pc = 0
  /\ prev_tx_state = 0 /\ received = <<>> /\ pending_cr = FALSE /\ shown = <<>>
  /\ cycle = 0 /\ last_uart_cycle = <<>> /\ last_pc = <<>> /\ last_pc_change_cycle = 0
  /\ verdict = "running"
  /\ sent = <<>> /\ quiet = Forever /\ still = 0

\* The transmitter of uart.v: idle 0, start 1, data 2, stop 3, and from stop straight to start.
TxAfter == [s \in 0..3 |-> CASE s = 0 -> {0, 1} [] s = 1 -> {1, 2} [] s = 2 -> {2, 3} [] s = 3 -> {3, 1, 0}]

MachineRuns ==
  /\ tx_state' \in TxAfter[tx_state] /\ baud_div' \in Divisor /\ pc' \in {0, 1}
  /\ IF tx_state' = 1 /\ tx_state # 1
     THEN tx_data' \in Text /\ sent' = Append(sent, tx_data') /\ quiet' = 0
     ELSE UNCHANGED <<tx_data, sent>> /\ quiet' = IF quiet = Forever THEN Forever ELSE quiet + 1
  /\ still' = IF pc' # pc \/ cycle = 0 THEN 0 ELSE still + 1

\* _format_byte: a carriage return is withheld until the next byte shows whether it ends a line.
FormatByte(pending, b) ==
  LET plain == IF b = CR THEN <<>> ELSE IF b = LF THEN <<CR, LF>> ELSE <<b>>
  IN IF ~pending THEN [pending |-> b = CR, out |-> plain]
     ELSE IF b = LF THEN [pending |-> FALSE, out |-> <<CR, LF>>]
     ELSE [pending |-> b = CR, out |-> <<CR>> \o plain]

\* Faulty variant: the level of the state, not its edge.
Entered_Level == tx_state' = 1

\* UartConsole.poll at this edge: a byte is new when the transmitter has just entered its start state.
Entered == tx_state' = 1 /\ prev_tx_state # 1

Poll ==
  /\ prev_tx_state' = tx_state'
  /\ IF Entered
     THEN LET f == FormatByte(pending_cr, tx_data')
          IN received' = Append(received, tx_data') /\ pending_cr' = f.pending /\ shown' = shown \o f.out
     ELSE UNCHANGED <<received, pending_cr, shown>>

Since(c, t) == t # <<>> /\ c - t[1] >= UartIdle

\* After the loop: the deadline passed.
Deadline == IF last_uart_cycle' = <<>> THEN "no_output" ELSE IF kind = "boot_linux" THEN "timed_out" ELSE "still_emitting"

\* One iteration of boot_opensbi, _assert_banner included.
OpensbiCycle ==
  /\ kind = "boot_opensbi" /\ verdict = "running"
  /\ MachineRuns /\ Poll
  /\ last_uart_cycle' = IF Entered THEN <<cycle>> ELSE last_uart_cycle
  /\ cycle' = cycle + 1
  /\ verdict' = IF Since(cycle, last_uart_cycle')
                THEN IF Banner \in ToSet(received') THEN "pass" ELSE "no_banner"
                ELSE IF cycle' = BootTimeout THEN Deadline ELSE "running"
  /\ UNCHANGED <<kind, last_pc, last_pc_change_cycle>>

\* _assert_uart_divisor: sixteen ticks of the divisor make a bit of the device tree's speed.
DivisorFits(d) == 16 * d * Speed = Clock

\* One iteration of boot_linux without a bridge.
LinuxCycle ==
  /\ kind = "boot_linux" /\ verdict = "running"
  /\ MachineRuns /\ Poll
  /\ last_pc' = <<pc'>>
  /\ last_pc_change_cycle' = IF last_pc = <<pc'>> THEN last_pc_change_cycle ELSE cycle
  /\ last_uart_cycle' = IF Entered THEN <<cycle>> ELSE last_uart_cycle
  /\ cycle' = cycle + 1
  /\ LET booted == {Banner, Uname} \subseteq ToSet(received')
         idle == Since(cycle, last_uart_cycle') /\ Since(cycle, <<last_pc_change_cycle'>>)
     IN verdict' = IF booted THEN IF DivisorFits(baud_div') THEN "pass" ELSE "bad_divisor"
                   ELSE IF idle THEN "idle"
                   ELSE IF cycle' >= BootTimeout THEN Deadline ELSE "running"
  /\ UNCHANGED kind

BootNext == OpensbiCycle \/ LinuxCycle
BootSpec == BootInit /\ [][BootNext]_tvars

(***************************************************************************)
(* Properties.                                                             *)
(***************************************************************************)
\* A text with each line end, LF or CR LF, as CR LF: what a terminal in raw mode needs.
Normalised(s) ==
  LET at(i) == IF s[i] = LF THEN <<CR, LF>>
               ELSE IF s[i] = CR /\ i < Len(s) /\ s[i + 1] = LF THEN <<>> ELSE <<s[i]>>
  IN FlattenSeq([i \in DOMAIN s |-> at(i)])

\* The console captures every frame the UART begins, once and in order, back to back or not, and
\* prints it with its line ends normalised, a trailing CR withheld (opensbi_uart.py:27, :47).
ConsoleComplete ==
  /\ received = sent
  /\ shown \o (IF pending_cr THEN <<CR>> ELSE <<>>) = Normalised(sent)

\* Every verdict is the truth about the whole run, and comes in the first cycle it is: a pass needs the
\* text, and the silence after it (OpenSBI) or a UART that sends a bit in Clock / Speed cycles (Linux);
\* "idle" needs both UART and PC silent; "no_output" means none; "still_emitting" that the line was active
\* within the idle time ("UART was still active at the deadline", opensbi_uart.py:333).
VerdictTrue ==
  LET opensbi == kind = "boot_opensbi"
      booted == (IF opensbi THEN {Banner} ELSE {Banner, Uname}) \subseteq ToSet(sent)
      silent == quiet >= UartIdle /\ quiet < Forever
      idle == silent /\ (opensbi \/ still >= UartIdle)
      late == cycle = BootTimeout
      fits == (16 * baud_div) * Speed = Clock
  IN CASE verdict = "running" -> ~idle /\ ~late /\ (opensbi \/ ~booted)
       [] verdict = "pass" -> booted /\ IF opensbi THEN silent ELSE fits
       [] verdict = "bad_divisor" -> booted /\ ~opensbi /\ ~fits
       [] verdict = "no_banner" -> ~booted /\ silent /\ opensbi
       [] verdict = "idle" -> ~booted /\ idle /\ ~opensbi
       [] verdict = "no_output" -> late /\ sent = <<>>
       [] verdict = "timed_out" -> late /\ sent # <<>> /\ ~booted /\ ~idle
       [] verdict = "still_emitting" -> late /\ sent # <<>> /\ quiet < UartIdle

\* The report of a boot test, its transcript and its verdict, is what happened.
BootReported == ConsoleComplete /\ VerdictTrue
=============================================================================
