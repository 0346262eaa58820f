------------------------------- MODULE Bridge -------------------------------
(***************************************************************************)
(* The interactive console of sim/linux_tty.py, input side: the bytes a    *)
(* user types travel from the host terminal through a reader thread, a     *)
(* queue and the coroutine drive_bridge_to_uart to the UART's receive      *)
(* FIFO, while the test boot_linux starts the bridge, watches for a stop   *)
(* request and closes the bridge.  StdinBridge ("stdin") takes over the    *)
(* terminal the simulator runs in, PtyBridge ("pty") makes one of its own. *)
(*                                                                         *)
(* The simulator (the test and the driver coroutine) is one thread, the    *)
(* reader another.  A byte is Cr, Nl, Exit (Ctrl-], TTY_EXIT_BYTE) or some *)
(* other member of Key; formatting, prompts and debug logs are left out.   *)
(***************************************************************************)
EXTENDS Naturals, Sequences, SequencesExt, FiniteSetsExt

CONSTANTS
  Modes,       \* the bridges the environment variables may choose
  Waits,       \* whether they may make it wait for an attach byte
  PtyFiles,    \* the files they may name: the transcripts "log" and "rxlog", and "link"
  Key, Cr, Nl, Exit,
  MaxTyped,    \* bound: how many bytes the user types
  MaxChanges,  \* bound: how often the guest sets the UART's divisor
  MaxPending,  \* UART_INPUT_MAX_PENDING
  FifoDepth    \* TX_FIFO_DEPTH of uart.v, the size of its receive FIFO too

ASSUME BridgeAssumption ==
  /\ Modes \subseteq {"stdin", "pty"} /\ Waits \subseteq BOOLEAN
  /\ PtyFiles \subseteq {"log", "rxlog", "link"}
  /\ {Cr, Nl, Exit} \subseteq Key /\ Cr # Exit
  /\ {MaxTyped, MaxPending, FifoDepth} \subseteq Nat \ {0} /\ MaxChanges \in Nat
  /\ MaxPending <= FifoDepth

VARIABLES
  mode,    \* which bridge this session uses
  waits,   \* UART_PTY_WAIT_FOR_ATTACH
  phase,   \* where boot_linux is
  owned,   \* what start() has acquired and close() must give back
  stop,    \* the bridge's _stop event
  typed,   \* history: every byte typed, in order
  tty,     \* bytes the host's terminal holds for the reader
  reader, chunk,   \* the reader thread and what its os.read returned
  queue,           \* _queue
  driver, byte,    \* drive_bridge_to_uart and the byte it has dequeued
  aligned, \* the UART's receiver is sure to take the next frame, or the one on the line, for what it is
  fifo,    \* the receive FIFO: the bytes in it that were sent, in order
  noise,   \* and how many it holds that were not, wherever among them
  framed, damaged,   \* history: the bytes of the frames that ended, and the numbers of those read wrong
  changes, \* how often the guest has set the divisor
  got      \* history: the bytes that were sent and have left the FIFO, read or thrown away

serial == <<aligned, fifo, noise, framed, damaged, changes, got>>
bvars == <<mode, waits, phase, owned, stop, typed, tty, reader, chunk, queue, driver, byte, serial>>

BridgeInit ==
  /\ mode \in Modes /\ waits \in (IF mode = "pty" THEN Waits ELSE {FALSE})
  /\ phase = "start" /\ owned = {} /\ stop = FALSE
  /\ typed = <<>> /\ tty = <<>>
  /\ reader = "none" /\ chunk = <<>> /\ queue = <<>>
  /\ driver = "none" /\ byte = <<>>
  /\ aligned = TRUE /\ fifo = <<>> /\ noise = 0 /\ got = <<>>
  /\ framed = <<>> /\ damaged = {} /\ changes = 0

(***************************************************************************)
(* The user, at the terminal for as long as the session lasts.             *)
(***************************************************************************)
Type(b) ==
  /\ phase # "ended" /\ Len(typed) < MaxTyped
  /\ typed' = Append(typed, b) /\ tty' = Append(tty, b)
  /\ UNCHANGED <<mode, waits, phase, owned, stop, reader, chunk, queue, driver, byte, serial>>

(***************************************************************************)
(* boot_linux: StdinBridge.start, PtyBridge.start (the first failure jumps *)
(* to the finally clause), the wait for a first byte, the reset, the loop  *)
(* that leaves on a stop request, and the two close methods.               *)
(***************************************************************************)
sim == <<mode, waits, typed, tty, chunk, serial>>

\* stdin may be no terminal (no input, and no reader), or the terminal calls may raise.
StdinStart ==
  /\ mode = "stdin" /\ phase = "start"
  /\ \/ phase' = "reset" /\ UNCHANGED <<owned, reader, driver>>
     \/ phase' = "close" /\ owned' \in {{}, {"raw"}} /\ UNCHANGED <<reader, driver>>
     \/ phase' = "reset" /\ owned' = {"raw"} /\ reader' = "check" /\ driver' = "poll"
  /\ UNCHANGED <<sim, stop, queue, byte>>

\* The steps of PtyBridge.start in order; each acquires something or raises before or after it,
\* the last three are optional.
PtySteps == <<[at |-> "start", gets |-> {"master", "slave"}, next |-> "log"],
              [at |-> "log", gets |-> {"log"}, next |-> "rxlog"],
              [at |-> "rxlog", gets |-> {"rxlog"}, next |-> "link"],
              [at |-> "link", gets |-> {"link"}, next |-> "attach"]>>

PtyStart(s) ==
  /\ mode = "pty" /\ phase = s.at
  /\ LET gets == IF s.at = "start" THEN s.gets ELSE s.gets \cap PtyFiles
     IN \/ owned' = owned \cup gets /\ phase' = s.next
        \/ owned' = owned /\ phase' = s.next /\ s.at # "start"
        \/ owned' \in {owned, owned \cup gets} /\ phase' = "close"
  /\ reader' = IF phase' = "attach" THEN "check" ELSE reader
  /\ UNCHANGED <<sim, stop, queue, driver, byte>>

\* wait_for_attach_byte takes the first byte, whatever it is; a stop request makes boot_linux raise.
Attach ==
  /\ phase = "attach"
  /\ IF ~waits THEN phase' = "reset" /\ driver' = "poll" /\ UNCHANGED queue
     ELSE IF stop THEN phase' = "close" /\ UNCHANGED <<queue, driver>>
     ELSE /\ queue # <<>> /\ queue' = Tail(queue)
          /\ phase' = "reset" /\ driver' = "poll"
  /\ UNCHANGED <<sim, owned, stop, reader, byte>>

\* start_dut returns after ten cycles, then every cycle of the loop looks at stop_requested.
StartDut ==
  /\ phase = "reset" /\ phase' = "loop"
  /\ UNCHANGED <<sim, owned, stop, reader, queue, driver, byte>>

LoopEnds ==
  /\ phase = "loop" /\ stop /\ phase' = "close"
  /\ UNCHANGED <<sim, owned, stop, reader, queue, driver, byte>>

\* write_byte raises what it does not handle, and the finally clause closes the bridge.
LoopRaises ==
  /\ phase = "loop" /\ mode = "pty" /\ phase' = "close"
  /\ UNCHANGED <<sim, owned, stop, reader, queue, driver, byte>>

\* close(): sets the event, then gives back one thing after another, in this order.
CloseOrder == <<"log", "rxlog", "master", "slave", "link", "raw">>

Close ==
  /\ phase = "close" /\ stop' = TRUE
  /\ IF owned = {} THEN phase' = "ended" /\ UNCHANGED owned
     ELSE LET first == Min({i \in DOMAIN CloseOrder : CloseOrder[i] \in owned})
          IN owned' = owned \ {CloseOrder[first]} /\ UNCHANGED phase
  /\ UNCHANGED <<sim, reader, queue, driver, byte>>

MainStep == StdinStart \/ (\E i \in 1..4 : PtyStart(PtySteps[i])) \/ Attach \/ StartDut \/ LoopEnds \/ Close

(***************************************************************************)
(* The reader thread: _reader of either bridge.  close() runs beside it,   *)
(* so the descriptor may be closed (EBADF) or already None (TypeError, and *)
(* the thread dies), and so may the transcript.                            *)
(***************************************************************************)
rest == <<mode, waits, phase, owned, typed, driver, byte, serial>>

ReaderCheck ==
  /\ reader = "check"
  /\ reader' = IF stop THEN "done" ELSE IF mode = "pty" THEN "select" ELSE "read"
  /\ UNCHANGED <<rest, stop, tty, chunk, queue>>

\* select with its timeout of 50 ms: nothing to read means another round.
ReaderSelect ==
  /\ reader = "select"
  /\ reader' \in IF "master" \notin owned THEN {"done", "crashed"}
                 ELSE IF tty = <<>> THEN {"check"} ELSE {"read"}
  /\ UNCHANGED <<rest, stop, tty, chunk, queue>>

\* StdinBridge blocks for one byte; PtyBridge takes what there is (256 bytes are more than MaxTyped).
ReaderRead ==
  /\ reader = "read"
  /\ \/ /\ mode = "stdin" /\ tty # <<>>
        /\ chunk' = <<Head(tty)>> /\ tty' = Tail(tty) /\ reader' = "put"
     \/ /\ mode = "pty" /\ "master" \in owned
        /\ chunk' = tty /\ tty' = <<>> /\ reader' = "log"
     \/ /\ mode = "pty" /\ "master" \notin owned
        /\ reader' \in {"check", "crashed"} /\ UNCHANGED <<chunk, tty>>
  /\ UNCHANGED <<rest, stop, queue>>

\* End of file on stdin, or an OSError of read or select that is not handled: the reader asks for a stop.
ReaderGivesUp ==
  /\ reader = "read" \/ (reader = "select" /\ "master" \in owned)
  /\ stop' = TRUE /\ reader' = "done"
  /\ UNCHANGED <<rest, tty, chunk, queue>>

\* The transcript write may raise (no room, or closed since it was tested): nobody catches it.
ReaderLog ==
  /\ reader = "log"
  /\ \/ reader' = "put" /\ UNCHANGED chunk
     \/ /\ "rxlog" \in owned \/ phase \in {"close", "ended"}
        /\ reader' = "crashed" /\ chunk' = <<>>
  /\ UNCHANGED <<rest, stop, tty, queue>>

ReaderPut ==
  /\ reader = "put"
  /\ queue' = Append(queue, Head(chunk)) /\ chunk' = Tail(chunk)
  /\ reader' = IF Len(chunk) = 1 THEN "check" ELSE "put"
  /\ UNCHANGED <<rest, stop, tty>>

ReaderRuns == ReaderCheck \/ ReaderSelect \/ ReaderRead \/ ReaderLog \/ ReaderPut
ReaderStep == ReaderRuns \/ ReaderGivesUp

(***************************************************************************)
(* drive_bridge_to_uart.  It runs while boot_linux awaits a clock edge.    *)
(***************************************************************************)
alone == <<mode, waits, phase, owned, typed, tty, reader, chunk>>

\* Faulty variant: Ctrl-] ends the driver without request_stop.
DriverPoll_NoStop ==
  /\ driver = "poll" /\ phase \in {"reset", "loop"}
  /\ \/ /\ stop /\ driver' = "done" /\ UNCHANGED <<stop, queue, byte>>
     \/ /\ ~stop /\ queue # <<>> /\ queue' = Tail(queue) /\ UNCHANGED stop
        /\ IF Head(queue) = Exit THEN driver' = "done" /\ UNCHANGED byte
           ELSE byte' = <<Head(queue)>> /\ driver' = "wait"
  /\ UNCHANGED <<alone, serial>>

DriverPoll ==
  /\ driver = "poll" /\ phase \in {"reset", "loop"}
  /\ \/ /\ stop /\ driver' = "done" /\ UNCHANGED <<stop, queue, byte>>
     \/ /\ ~stop /\ queue # <<>> /\ queue' = Tail(queue)
        /\ IF Head(queue) = Exit
           THEN stop' = TRUE /\ driver' = "done" /\ UNCHANGED byte
           ELSE byte' = <<Head(queue)>> /\ driver' = "wait" /\ UNCHANGED stop
  /\ UNCHANGED <<alone, serial>>

Pending == Len(fifo) + noise   \* rx_fifo_count

\* A receiver that is out of step may push bytes nobody framed.
Garbage == noise' \in noise .. (FifoDepth - Len(fifo))

\* The start bit.  A frame that begins while start_dut still holds reset finds the receiver held too: it
\* sees the rest of that frame, if any.
FrameBegins ==
  /\ driver' = "send" /\ UNCHANGED byte
  /\ aligned' = (aligned /\ phase = "loop")
  /\ IF aligned THEN UNCHANGED noise ELSE Garbage

\* Faulty variant: the byte is framed whatever the FIFO holds.
DriverWait_NoCheck ==
  /\ driver = "wait" /\ phase \in {"reset", "loop"} /\ FrameBegins
  /\ UNCHANGED <<alone, stop, queue, fifo, framed, damaged, changes, got>>

\* Holds the byte until the FIFO has room, or drops it on a stop request.
DriverWait ==
  /\ driver = "wait" /\ phase \in {"reset", "loop"}
  /\ \/ stop /\ driver' = "done" /\ byte' = <<>> /\ UNCHANGED <<aligned, noise>>
     \/ ~stop /\ Pending < MaxPending /\ FrameBegins
  /\ UNCHANGED <<alone, stop, queue, fifo, framed, damaged, changes, got>>

\* Either line ending is framed as a carriage return.
OnLine(b) == IF b = Nl THEN Cr ELSE b

\* uart_send_byte up to the middle of the stop bit.  A receiver in step takes the byte (and drops it if the
\* FIFO is full); one that is not may find its way back by this frame or misread it.
FrameLands ==
  /\ driver = "send" /\ phase = "loop"
  /\ framed' = Append(framed, OnLine(byte[1]))
  /\ \/ /\ aligned \/ Pending < FifoDepth
        /\ aligned' = TRUE /\ UNCHANGED <<noise, damaged>>
        /\ fifo' = IF Pending < FifoDepth THEN Append(fifo, OnLine(byte[1])) ELSE fifo
     \/ /\ ~aligned /\ damaged' = damaged \cup {Len(framed')}
        /\ Garbage /\ UNCHANGED <<aligned, fifo>>
  /\ byte' = <<>> /\ driver' = "stopbit"
  /\ UNCHANGED <<alone, stop, queue, changes, got>>

DriverSent ==
  /\ driver = "stopbit" /\ phase = "loop" /\ driver' = "poll"
  /\ UNCHANGED <<alone, stop, queue, byte, serial>>

DriverStep == DriverPoll \/ DriverWait \/ FrameLands \/ DriverSent

(***************************************************************************)
(* The guest, whenever it likes: it reads RBR, clears the receive FIFO     *)
(* through FCR, or sets a new divisor, which spoils a frame on the line    *)
(* and whose first tick may come after the old count.                      *)
(***************************************************************************)
guest == <<alone, stop, queue, driver, byte, framed, damaged>>

GuestReads ==
  /\ phase = "loop"
  /\ \/ fifo # <<>> /\ got' = Append(got, Head(fifo)) /\ fifo' = Tail(fifo) /\ UNCHANGED noise
     \/ noise > 0 /\ noise' = noise - 1 /\ UNCHANGED <<fifo, got>>
  /\ UNCHANGED <<guest, aligned, changes>>

GuestClears ==
  /\ phase = "loop" /\ fifo' = <<>> /\ noise' = 0 /\ got' = got \o fifo
  /\ UNCHANGED <<guest, aligned, changes>>

GuestSetsDivisor ==
  /\ phase = "loop" /\ changes < MaxChanges
  /\ aligned' = FALSE /\ changes' = changes + 1
  /\ UNCHANGED <<guest, fifo, noise, got>>

BridgeNext ==
  \/ \E b \in Key : Type(b)
  \/ MainStep \/ LoopRaises \/ ReaderStep \/ DriverStep
  \/ GuestReads \/ GuestClears \/ GuestSetsDivisor

\* Both threads of the host are scheduled, and the simulated clock ticks; nothing makes input end or a
\* system call fail.
HostFairness == WF_bvars(MainStep) /\ WF_bvars(ReaderRuns) /\ WF_bvars(DriverStep)

BridgeSpec == BridgeInit /\ [][BridgeNext]_bvars /\ HostFairness
BridgeFairSpec == BridgeSpec /\ WF_bvars(GuestReads)

(***************************************************************************)
(* Properties.                                                             *)
(***************************************************************************)
\* What the guest is owed: what was typed, without the byte that started the boot.
Owed == IF waits /\ typed # <<>> THEN Tail(typed) ELSE typed

OnLineAll(s) == [i \in DOMAIN s |-> OnLine(s[i])]

\* The bytes of the frames that were read right.
Intact == FlattenSeq([i \in 1 .. Len(framed) |-> IF i \in damaged THEN <<>> ELSE <<framed[i]>>])

\* While nobody has asked for a stop every typed byte is in exactly one place, in the order of
\* typing, although four parties move it, and Ctrl-] and what was typed behind it never reach the line
\* (linux_tty.py:278, :287).  What gets through to the guest is the bytes of the frames read right, in order
\* and once each, for the receive FIFO never overruns; and unless the guest changes the divisor the frames
\* read wrong come before all others: a burst that begins while the UART is still in reset
\* (linux_tty.py:355, :378, :380).
InputInOrder ==
  LET waiting == byte \o queue \o chunk \o tty
      attached == ~waits \/ phase \in {"reset", "loop", "close", "ended"}
  IN /\ IsPrefix(framed, OnLineAll(Owed))
     /\ Exit \notin ToSet(framed)
     /\ ~stop /\ reader \notin {"none", "crashed"} =>
          IF attached THEN framed \o OnLineAll(waiting) = OnLineAll(Owed)
          ELSE waiting = typed
     /\ got \o fifo = Intact
     /\ changes = 0 => \A i \in damaged : 1 .. i \subseteq damaged

\* A guest that keeps reading its UART lets Ctrl-] end the session, whatever was typed before it, and
\* every stop request ends it with the terminal, the descriptors and the link given back.  The
\* exceptions: no reader was started, or it died of a transcript it could not write and nobody else asked.
SessionEnds ==
  (stop \/ (Exit \in ToSet(Owed) /\ reader # "none"))
    ~> ((phase = "ended" /\ owned = {}) \/ (reader = "crashed" /\ ~stop))

\* README.md:185-186: "`Ctrl-]` terminates the simulator session."  It does not while a byte typed before
\* it waits for a guest that does not read its UART (linux_tty.py:287).
CtrlBracketEnds == (Exit \in ToSet(Owed) /\ driver # "none") ~> (phase = "ended" \/ reader = "crashed")
=============================================================================
