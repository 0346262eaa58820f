------------------------------- MODULE Timer --------------------------------
(***************************************************************************)
(* rtl/core_modules/timer.v: mtime and mtimecmp are 64 bits, counted and   *)
(* compared whole, and accessed in halves.  One step is one clock edge.    *)
(*                                                                         *)
(* The software is external.  It does one thing at a time, each access in  *)
(* any cycle: it moves the deadline the way sim/timer_irq.S does, sets the *)
(* time the way tests/system_tests/test_time_csr.py does, and reads the    *)
(* time with timeh, time, timeh until the high halves agree.               *)
(***************************************************************************)
EXTENDS Naturals

CONSTANTS Half,     \* values of a half: 2^32
          Operand,  \* deadlines and times the software writes
          MaxGap    \* bound: idle cycles between two accesses of one job, fewer than a half counts

Time == 0 .. Half * Half - 1

ASSUME TimerAssumption ==
  /\ Half \in Nat \ {0, 1} /\ MaxGap \in Nat /\ 2 * MaxGap + 2 < Half
  /\ Operand \subseteq Time

VARIABLES
  mtime, mtimecmp, msip,
  job, value, gap,     \* the job of the software, its operand or what it has read, cycles since its last access
  goal,                \* history: the time set plus the cycles since, modulo the width
  deadline, former,    \* history: what the software asked for last, and before
  began                \* history: mtime when the reading of the time began

timervars == <<mtime, mtimecmp, msip, job, value, gap, goal, deadline, former, began>>

hi(t) == t \div Half
lo(t) == t % Half
Pair(h, l) == h * Half + l

TimerInit ==
  /\ mtime = 0 /\ mtimecmp = Half * Half - 1 /\ msip = 0
  /\ job = "none" /\ value = 0 /\ gap = 0
  /\ goal = 0 /\ deadline = mtimecmp /\ former = mtimecmp /\ began = 0

-----------------------------------------------------------------------------
timer_interrupt == mtime >= mtimecmp

\* Faulty variant: two counters of a half each, without the carry.
Counted_NoCarry == Pair(hi(mtime), (lo(mtime) + 1) % Half)
\* The counter, which runs into a write of the other half too.
Counted == (mtime + 1) % (Half * Half)

\* The write port; reg is none of the registers when nothing is written.
TimerEdge(reg, data) ==
  /\ mtime' = CASE reg = "MTIME_LO" -> Pair(hi(Counted), data)
                [] reg = "MTIME_HI" -> Pair(data, lo(Counted))
                [] OTHER -> Counted
  /\ mtimecmp' = CASE reg = "MTIMECMP_LO" -> Pair(hi(mtimecmp), data)
                   [] reg = "MTIMECMP_HI" -> Pair(data, lo(mtimecmp))
                   [] OTHER -> mtimecmp
  /\ msip' = IF reg = "MSIP" THEN data % 2 ELSE msip

\* The history of the time; there is none while the time is being set.
Passes == goal' = IF job \in {"time_high", "time_low"} THEN goal ELSE (goal + 1) % (Half * Half)

\* Between two accesses: the clock runs.
NoAccess ==
  /\ job # "none" => gap < MaxGap
  /\ gap' = IF job = "none" THEN 0 ELSE gap + 1
  /\ TimerEdge("none", 0)
  /\ Passes /\ UNCHANGED <<job, value, deadline, former, began>>

Software(at, next) == job = at /\ job' = next /\ gap' = 0

\* The deadline: high half to all ones, low half, high half.
Rearm ==
  /\ \/ /\ Software("none", "cmp_low") /\ TimerEdge("MTIMECMP_HI", Half - 1)
        /\ value' \in Operand /\ deadline' = value' /\ former' = deadline
     \/ /\ Software("cmp_low", "cmp_high") /\ TimerEdge("MTIMECMP_LO", lo(value))
        /\ UNCHANGED <<value, deadline, former>>
     \/ /\ Software("cmp_high", "none") /\ TimerEdge("MTIMECMP_HI", hi(value))
        /\ value' = 0 /\ former' = deadline /\ UNCHANGED deadline
  /\ Passes /\ UNCHANGED began

\* The time: low half to zero, high half, low half.
SetTime ==
  /\ \/ /\ Software("none", "time_high") /\ TimerEdge("MTIME_LO", 0) /\ value' \in Operand
        /\ goal' = 0
     \/ /\ Software("time_high", "time_low") /\ TimerEdge("MTIME_HI", hi(value))
        /\ UNCHANGED <<value, goal>>
     \/ /\ Software("time_low", "none") /\ TimerEdge("MTIME_LO", lo(value))
        /\ value' = 0 /\ goal' = value
  /\ UNCHANGED <<deadline, former, began>>

\* The reading begins again if the high half has changed.
ReadTime ==
  /\ \/ /\ Software("none", "read_low") /\ value' = Pair(hi(mtime), 0) /\ began' = mtime
     \/ /\ Software("read_low", "read_high") /\ value' = Pair(hi(value), lo(mtime)) /\ UNCHANGED began
     \/ /\ job = "read_high" /\ gap' = 0
        /\ IF hi(value) = hi(mtime) THEN job' = "none" /\ value' = 0 /\ began' = 0
           ELSE job' = "read_low" /\ value' = Pair(hi(mtime), 0) /\ began' = mtime
  /\ TimerEdge("none", 0)
  /\ Passes /\ UNCHANGED <<deadline, former>>

Ipi(bit) ==
  /\ Software("none", "none") /\ TimerEdge("MSIP", bit)
  /\ Passes /\ UNCHANGED <<value, deadline, former, began>>

TimerNext == NoAccess \/ Rearm \/ SetTime \/ ReadTime \/ \E bit \in {0, 1} : Ipi(bit)
TimerSpec == TimerInit /\ [][TimerNext]_timervars

-----------------------------------------------------------------------------
\* While the deadline is moved in halves no interrupt comes that neither the old nor the new deadline
\* justifies ("so the 64-bit compare can't transiently match while we're mid-update", sim/timer_irq.S:38),
\* and between the moves it comes exactly at the deadline.
InterruptInTime ==
  /\ timer_interrupt => mtime >= deadline \/ mtime >= former
  /\ job \notin {"cmp_low", "cmp_high"} => (timer_interrupt <=> mtime >= deadline)

\* The time set in halves is the time, although the counter runs into the writes; and the time read in
\* halves is one the counter had during the reading, unless it wrapped.
TimeInOnePiece ==
  /\ job \notin {"time_high", "time_low"} => mtime = goal
  /\ job = "read_high" /\ hi(value) = hi(mtime) /\ began <= mtime => value >= began /\ value <= mtime

TimerExact == InterruptInTime /\ TimeInOnePiece
=============================================================================
