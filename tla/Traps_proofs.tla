---------------------------- MODULE Traps_proofs ----------------------------
(***************************************************************************)
(* Theorems about Traps, for every program, every set of interrupt lines   *)
(* and every order of traps, returns and CSR writes.                       *)
(***************************************************************************)
EXTENDS Traps, TLAPS

USE TrapsAssumption DEF U, S, M

-----------------------------------------------------------------------------
(* What EX may hold.                                                       *)
LEMMA InputFacts ==
  ASSUME NEW i \in Inputs
  PROVE  i.instr # None => i.instr \in Program /\ ~refill
  <1>1. CASE i \in Empty
    BY <1>1 DEF Empty
  <1>2. CASE i \notin Empty
    <2>1. ~refill /\ \E p \in Program : i \in InEx(p)
      BY <1>2 DEF Inputs
    <2> QED BY <2>1 DEF InEx
  <1> QED BY <1>1, <1>2

(* At most one request of a cycle is served, and it decides everything.    *)
LEMMA TrapInterrupt ==
  ASSUME NEW i \in Inputs, NEW lines, Cycle(i, lines), interrupt_taken(i)
  PROVE  /\ ~synchronous_exception(i) /\ \A op : ~Completes(i, op)
         /\ TrapTo(interrupt_to) /\ asked' = asked
         /\ saved' = [saved EXCEPT ![interrupt_to] = Interrupted(interrupt_to)]
  <1>1. ~Executes(i) /\ ex_exception(i) = None
    BY DEF interrupt_taken, Executes, ex_exception
  <1>2. ~synchronous_exception(i) /\ \A op : ~Completes(i, op)
    BY <1>1 DEF synchronous_exception, interrupt_taken, interrupt_pending, Completes
  <1> QED BY <1>2 DEF Cycle, Serve, Saved, Asked

\* A cycle with an exception.
LEMMA TrapException ==
  ASSUME NEW i \in Inputs, NEW lines, Cycle(i, lines), synchronous_exception(i)
  PROVE  /\ ~interrupt_taken(i) /\ ~Completes(i, "mret") /\ ~Completes(i, "sret")
         /\ TrapTo(IF csr_trap_to_supervisor(i) THEN S ELSE M) /\ asked' = asked
         /\ saved' = [saved EXCEPT ![privilege_mode'] = Interrupted(privilege_mode')]
  <1>1. ~interrupt_taken(i)
    BY TrapInterrupt
  <1>2. ~Completes(i, "mret") /\ ~Completes(i, "sret")
    BY DEF Cycle, Discipline, synchronous_exception, Completes
  <1> QED BY <1>1, <1>2 DEF Cycle, Serve, Saved, Asked

Quiet(i) == ~interrupt_taken(i) /\ ~synchronous_exception(i)

\* A cycle in which MRET completes.
LEMMA ReturnMret ==
  ASSUME NEW i \in Inputs, NEW lines, Cycle(i, lines), Quiet(i), Completes(i, "mret")
  PROVE  Mret /\ asked' = asked /\ saved' = [saved EXCEPT ![M] = None] /\ privilege_mode = M
  <1>1. privilege_mode = M
    BY DEF Completes, ex_exception, Causes, Raised
  <1> QED BY <1>1 DEF Quiet, Cycle, Serve, Saved, Asked, Completes

\* The same of SRET.
LEMMA ReturnSret ==
  ASSUME NEW i \in Inputs, NEW lines, Cycle(i, lines), Quiet(i), Completes(i, "sret")
  PROVE  Sret /\ asked' = asked /\ saved' = [saved EXCEPT ![S] = None]
  BY DEF Quiet, Cycle, Serve, Saved, Asked, Completes

\* The same of a CSR instruction.
LEMMA WriteCsr ==
  ASSUME NEW i \in Inputs, NEW lines, Cycle(i, lines), Quiet(i), Completes(i, "csr")
  PROVE  /\ CsrWrite(i.instr) /\ i.instr \in Program /\ i.instr.op = "csr" /\ ~refill
         /\ ~csr_privilege_violation(i.instr) /\ to_M \cup to_S = {} /\ refill'
         /\ saved' = CASE i.instr.csr = "sstatus" -> [saved EXCEPT ![S] = None]
                       [] i.instr.csr = "mstatus" -> [mode \in {S, M} |-> None]
                       [] OTHER -> saved
         /\ asked' = IF i.instr.csr \in {"mip", "sip"}
                       THEN Set(asked, i.instr.csr, Applied(i.instr, asked)) ELSE asked
  <1>1. i.instr \in Program /\ i.instr.op = "csr" /\ ~refill
    BY InputFacts DEF Completes, Executes
  <1>2. ~csr_privilege_violation(i.instr)
    BY <1>1 DEF Completes, ex_exception, Causes, Raised
  <1>3. to_M \cup to_S = {}
    BY DEF Completes, Executes, interrupt_pending, Quiet, synchronous_exception
  <1>4. ~Completes(i, "mret") /\ ~Completes(i, "sret")
    BY <1>1 DEF Completes
  <1>5. /\ CsrWrite(i.instr) /\ refill'
        /\ asked' = IF i.instr.csr \in {"mip", "sip"}
                      THEN Set(asked, i.instr.csr, Applied(i.instr, asked)) ELSE asked
    BY <1>4 DEF Quiet, Cycle, Serve, Asked, redirect
  <1>6. saved' = CASE i.instr.csr = "sstatus" -> [saved EXCEPT ![S] = None]
                   [] i.instr.csr = "mstatus" -> [mode \in {S, M} |-> None]
                   [] OTHER -> saved
    BY <1>4 DEF Quiet, Cycle, Saved
  <1> QED BY <1>1, <1>2, <1>3, <1>5, <1>6

\* A cycle in which the CSR file serves nothing.
LEMMA NothingServed ==
  ASSUME NEW i \in Inputs, NEW lines, Cycle(i, lines), Quiet(i),
         ~Completes(i, "mret"), ~Completes(i, "sret"), ~Completes(i, "csr")
  PROVE  UNCHANGED <<csrs, saved, asked>>
  BY DEF Quiet, Cycle, Serve, Saved, Asked

(* Case analysis on what a cycle serves.                                   *)
LEMMA ServeCases ==
  ASSUME NEW i \in Inputs
  PROVE  \/ (interrupt_taken(i) \/ synchronous_exception(i))
         \/ (Quiet(i) /\ Completes(i, "mret"))
         \/ (Quiet(i) /\ Completes(i, "sret"))
         \/ (Quiet(i) /\ Completes(i, "csr"))
         \/ (Quiet(i) /\ ~Completes(i, "mret") /\ ~Completes(i, "sret") /\ ~Completes(i, "csr"))
  BY Zenon DEF Quiet

(* A trap goes to S or to M.                                               *)
LEMMA TrapModes ==
  ASSUME NEW i \in Inputs, NEW lines, Cycle(i, lines), interrupt_taken(i) \/ synchronous_exception(i)
  PROVE  /\ privilege_mode' \in {S, M} /\ TrapTo(privilege_mode') /\ asked' = asked
         /\ saved' = [saved EXCEPT ![privilege_mode'] = Interrupted(privilege_mode')]
         /\ refill'
  <1>1. CASE interrupt_taken(i)
    BY <1>1, TrapInterrupt DEF TrapTo, interrupt_to, Cycle, redirect
  <1>2. CASE synchronous_exception(i)
    BY <1>2, TrapException DEF TrapTo, Cycle, redirect
  <1> QED BY <1>1, <1>2

-----------------------------------------------------------------------------
(* Types.  One half of the status changes at a time.                      *)
LEMMA StatusM ==
  ASSUME NEW v \in Status, NEW a \in BOOLEAN, NEW b \in BOOLEAN, NEW c \in Mode
  PROVE  [v EXCEPT !.mie = a, !.mpie = b, !.mpp = c] \in Status
  BY DEF Status

\* The supervisor half of a status written.
LEMMA StatusS ==
  ASSUME NEW v \in Status, NEW a \in BOOLEAN, NEW b \in BOOLEAN, NEW c \in BOOLEAN
  PROVE  [v EXCEPT !.sie = a, !.spie = b, !.spp = c] \in Status
  BY DEF Status

\* The fields of a status.
LEMMA StatusFields ==
  ASSUME NEW v \in Status
  PROVE  /\ v.sie \in BOOLEAN /\ v.spie \in BOOLEAN /\ v.spp \in BOOLEAN
         /\ v.mie \in BOOLEAN /\ v.mpie \in BOOLEAN /\ v.mpp \in Mode
  BY DEF Status

\* TypeOK is preserved.
LEMMA TypeStep ==
  ASSUME TypeOK, NEW i \in Inputs, NEW lines, Cycle(i, lines)
  PROVE  TypeOK'
  <1>1. refill' \in BOOLEAN
    BY DEF Cycle, redirect, interrupt_taken, interrupt_pending, synchronous_exception, Completes, Executes,
           mem_stage_page_fault_taken, instr_stage_page_fault_taken, ex_stage_active
  <1>2. mem' \in {"load_pf", "store_pf", None}
    <2>1. Completes(i, "access") => i.instr.cause \in {"load_pf", "store_pf"}
      BY InputFacts DEF Completes, Executes
    <2> QED BY <2>1 DEF Cycle, MemStage, TypeOK
  <1>3. /\ privilege_mode' \in Mode /\ mstatus' \in Status /\ software_pending' \subseteq SInts
        /\ saved' \in [{S, M} -> Interruption \cup {None}]
    <2>1. CASE interrupt_taken(i) \/ synchronous_exception(i)
      <3>1. Interrupted(privilege_mode') \in Interruption
        BY DEF Interrupted, Interruption, TypeOK, Status
      <3>2. mstatus' \in Status
        <4>1. PushM \in Status
          BY StatusM, StatusFields DEF PushM, TypeOK
        <4>2. PushS \in Status
          BY StatusS, StatusFields DEF PushS, TypeOK
        <4> QED BY <2>1, <4>1, <4>2, TrapModes DEF TrapTo
      <3> QED BY <2>1, <3>1, <3>2, TrapModes DEF TrapTo, TypeOK, Mode
    <2>2. CASE Quiet(i) /\ Completes(i, "mret")
      <3>1. mstatus' \in Status /\ privilege_mode' \in Mode
        <4>1. U \in Mode
          BY DEF Mode
        <4>2. mstatus.mpie \in BOOLEAN /\ TRUE \in BOOLEAN /\ mstatus.mpp \in Mode /\ mstatus \in Status
          BY StatusFields DEF TypeOK
        <4>3. [mstatus EXCEPT !.mie = mstatus.mpie, !.mpie = TRUE, !.mpp = U] \in Status
          BY ONLY <4>1, <4>2, StatusM
        <4>4. Mret
          BY <2>2, ReturnMret
        <4> QED BY <4>2, <4>3, <4>4 DEF Mret
      <3>2. saved' \in [{S, M} -> Interruption \cup {None}]
        BY <2>2, ReturnMret DEF TypeOK
      <3> QED BY <2>2, <3>1, <3>2, ReturnMret DEF Mret, TypeOK
    <2>3. CASE Quiet(i) /\ Completes(i, "sret")
      <3>1. mstatus' \in Status /\ privilege_mode' \in Mode
        <4>1. U \in Mode /\ S \in Mode
          BY DEF Mode
        <4>2. mstatus.spie \in BOOLEAN /\ TRUE \in BOOLEAN /\ FALSE \in BOOLEAN /\ mstatus \in Status
          BY StatusFields DEF TypeOK
        <4>3. [mstatus EXCEPT !.sie = mstatus.spie, !.spie = TRUE, !.spp = FALSE] \in Status
          BY ONLY <4>2, StatusS
        <4>4. Sret
          BY <2>3, ReturnSret
        <4> QED BY <4>1, <4>3, <4>4 DEF Sret
      <3>2. saved' \in [{S, M} -> Interruption \cup {None}]
        BY <2>3, ReturnSret DEF TypeOK
      <3> QED BY <2>3, <3>1, <3>2, ReturnSret DEF Sret, TypeOK
    <2>4. CASE Quiet(i) /\ Completes(i, "csr")
      <3>1. CASE i.instr.csr = "mstatus"
        BY <2>4, <3>1, WriteCsr DEF CsrWrite, TypeOK
      <3>2. CASE i.instr.csr = "sstatus"
        <4>1. i.instr.arg \in Status
          BY <2>4, <3>2, WriteCsr
        <4>2. Sstatus(i.instr.arg) \in Status
          BY <4>1, StatusS, StatusFields DEF Sstatus, TypeOK
        <4> QED BY <2>4, <3>2, <4>2, WriteCsr DEF CsrWrite, TypeOK
      <3>3. CASE i.instr.csr \notin {"mstatus", "sstatus"}
        BY <2>4, <3>3, WriteCsr DEF CsrWrite, Set, Settable, SInts, TypeOK
      <3> QED BY <3>1, <3>2, <3>3
    <2>5. CASE Quiet(i) /\ ~Completes(i, "mret") /\ ~Completes(i, "sret") /\ ~Completes(i, "csr")
      BY <2>5, NothingServed DEF csrs, TypeOK
    <2> QED BY <2>1, <2>2, <2>3, <2>4, <2>5, ServeCases
  <1> QED BY <1>1, <1>2, <1>3 DEF TypeOK

-----------------------------------------------------------------------------
(* The software bits: what mip shows of them is out of date only while EX  *)
(* is empty behind the write that changed them.                            *)
MipFollows == ~refill => \A x \in {"SSI", "STI"} : x \in mip <=> x \in software_pending

BitsInv == TypeOK /\ MipFollows /\ SoftwareBitsAsAsked

\* BitsInv is preserved: what is written to a software bit was asked.
LEMMA BitsStep ==
  ASSUME BitsInv, NEW i \in Inputs, NEW lines \in SUBSET Lines, Cycle(i, lines)
  PROVE  BitsInv'
  <1>1. TypeOK'
    BY TypeStep DEF BitsInv
  <1>2. mip' = software_pending \cup lines /\ "SSI" \notin lines /\ "STI" \notin lines
    BY DEF Cycle, Mip
  <1>3. CASE Quiet(i) /\ Completes(i, "csr")
    <2>1. MipFollows'
      BY <1>3, WriteCsr DEF MipFollows
    <2>2. CASE i.instr.csr \notin {"mip", "sip"}
      <3>1. software_pending' = software_pending /\ asked' = asked
        BY <1>3, <2>2, WriteCsr DEF CsrWrite
      <3> QED BY <1>1, <2>1, <3>1 DEF BitsInv, SoftwareBitsAsAsked
    <2>3. CASE i.instr.csr \in {"mip", "sip"}
      <3> DEFINE p == i.instr
      <3>1. p.how \in {"w", "s", "c"} /\ software_pending = asked /\ asked \subseteq SInts
        BY <1>3, WriteCsr DEF BitsInv, SoftwareBitsAsAsked, TypeOK
      <3>2. \A x \in Settable(p.csr) : x \in rmw_data(p.csr) <=> x \in asked
        BY <1>3, <2>3, <3>1, WriteCsr DEF rmw_data, Settable, SInts, BitsInv, MipFollows
      <3>3. \A x \in Settable(p.csr) : x \in Applied(p, rmw_data(p.csr)) <=> x \in Applied(p, asked)
        BY <3>1, <3>2 DEF Applied
      <3>4. Set(asked, p.csr, Applied(p, rmw_data(p.csr))) = Set(asked, p.csr, Applied(p, asked))
        BY <3>3 DEF Set
      <3>5. software_pending' = asked'
        BY <1>3, <2>3, <3>1, <3>4, WriteCsr DEF CsrWrite, csr_write_data
      <3> QED BY <1>1, <2>1, <3>5 DEF BitsInv, SoftwareBitsAsAsked
    <2> QED BY <1>1, <2>1, <2>2, <2>3 DEF BitsInv
  <1>4. CASE ~(Quiet(i) /\ Completes(i, "csr"))
    <2>1. software_pending' = software_pending /\ asked' = asked
      <3>1. CASE interrupt_taken(i) \/ synchronous_exception(i)
        BY <3>1, TrapModes DEF TrapTo
      <3>2. CASE Quiet(i) /\ Completes(i, "mret")
        BY <3>2, ReturnMret DEF Mret
      <3>3. CASE Quiet(i) /\ Completes(i, "sret")
        BY <3>3, ReturnSret DEF Sret
      <3>4. CASE Quiet(i) /\ ~Completes(i, "mret") /\ ~Completes(i, "sret") /\ ~Completes(i, "csr")
        BY <3>4, NothingServed DEF csrs
      <3> QED BY <1>4, <3>1, <3>2, <3>3, <3>4, ServeCases
    <2>2. MipFollows'
      BY <1>2, <2>1 DEF MipFollows
    <2> QED BY <1>1, <2>1, <2>2 DEF BitsInv, SoftwareBitsAsAsked
  <1> QED BY <1>3, <1>4

\* The software bits are as the program asked.
LEMMA BitsInvariant == Spec => []BitsInv
  <1>1. Init => BitsInv
    BY DEF Init, BitsInv, TypeOK, MipFollows, SoftwareBitsAsAsked, Mode, Status
  <1>2. BitsInv /\ [Next]_vars => BitsInv'
    <2>1. ASSUME BitsInv, Next PROVE BitsInv'
      BY <2>1, BitsStep DEF Next
    <2>2. ASSUME BitsInv, UNCHANGED vars PROVE BitsInv'
      BY <2>2 DEF vars, csrs, BitsInv, TypeOK, MipFollows, SoftwareBitsAsAsked
    <2> QED BY <2>1, <2>2
  <1> QED BY <1>1, <1>2, PTL DEF Spec

(* Every register keeps its type, for every program.                       *)
THEOREM TrapTypeCorrect == Spec => []TypeOK
  BY BitsInvariant, PTL DEF BitsInv

(* Read-modify-write instructions on mip and sip, in any order and         *)
(* whatever the PLIC does meanwhile, set and clear the software bits they  *)
(* name and no others (csr_file.v 194 and 412-417).                        *)
THEOREM BitsAsAsked == Spec => []SoftwareBitsAsAsked
  BY BitsInvariant, PTL DEF BitsInv

-----------------------------------------------------------------------------
(* A bit that mip still shows and the program took back is not delivered.  *)
\* The interrupt that is reported is one of those that are delivered.
LEMMA HighestIsOne ==
  ASSUME NEW ints, ints \subseteq Ints, ints # {}
  PROVE  Highest(ints) \in ints
  <1>1. DOMAIN Priority = 1 .. 6
    BY DEF Priority
  <1>2. Ints = {"MEI", "MSI", "MTI", "SEI", "SSI", "STI"}
    BY <1>1 DEF Ints, Priority
  <1> DEFINE P(k) == Priority[k] \in ints /\ \A j \in 1 .. k - 1 : Priority[j] \notin ints
  <1>3. \E k \in DOMAIN Priority : P(k)
    <2>1. CASE "MEI" \in ints
      <3>1. P(1)
        BY <2>1 DEF Priority
      <3> QED BY <1>1, <3>1
    <2>2. CASE "MEI" \notin ints /\ "MSI" \in ints
      <3>1. P(2)
        BY <2>2 DEF Priority
      <3> QED BY <1>1, <3>1
    <2>3. CASE "MEI" \notin ints /\ "MSI" \notin ints /\ "MTI" \in ints
      <3>1. P(3)
        BY <2>3 DEF Priority
      <3> QED BY <1>1, <3>1
    <2>4. CASE ints \cap {"MEI", "MSI", "MTI"} = {} /\ "SEI" \in ints
      <3>1. P(4)
        BY <2>4 DEF Priority
      <3> QED BY <1>1, <3>1
    <2>5. CASE ints \cap {"MEI", "MSI", "MTI", "SEI"} = {} /\ "SSI" \in ints
      <3>1. P(5)
        BY <2>5 DEF Priority
      <3> QED BY <1>1, <3>1
    <2>6. CASE ints \cap {"MEI", "MSI", "MTI", "SEI", "SSI"} = {} /\ "STI" \in ints
      <3>1. P(6)
        BY <2>6 DEF Priority
      <3> QED BY <1>1, <3>1
    <2> QED BY <1>2, <2>1, <2>2, <2>3, <2>4, <2>5, <2>6
  <1> QED BY <1>3 DEF Highest

Withdrawn == \A x \in {"SSI", "STI"} : x \in mip /\ x \notin asked => x \notin to_M \cup to_S

MipInv == BitsInv /\ mip \subseteq Ints /\ Withdrawn

\* MipInv is preserved.
LEMMA MipStep ==
  ASSUME MipInv, NEW i \in Inputs, NEW lines \in SUBSET Lines, Cycle(i, lines)
  PROVE  MipInv'
  <1>1. BitsInv'
    BY BitsStep DEF MipInv
  <1>2. mip' = software_pending \cup lines /\ "SSI" \notin lines /\ "STI" \notin lines
    BY DEF Cycle, Mip
  <1>3. mip' \subseteq Ints
    <2>1. Ints = {"MEI", "MSI", "MTI", "SEI", "SSI", "STI"}
      BY DEF Ints, Priority
    <2> QED BY <1>2, <2>1 DEF MipInv, BitsInv, TypeOK, SInts
  <1>4. Withdrawn'
    <2>1. CASE asked' = asked
      BY <1>2, <2>1 DEF Withdrawn, MipInv, BitsInv, SoftwareBitsAsAsked
    <2>2. CASE Quiet(i) /\ Completes(i, "csr") /\ i.instr.csr \in {"mip", "sip"}
      <3>1. /\ UNCHANGED <<privilege_mode, mstatus, mideleg, mie>>
            /\ to_M \cup to_S = {} /\ ~refill
        BY <2>2, WriteCsr DEF CsrWrite
      <3>2. \A x \in {"SSI", "STI"} : x \in mip' => x \in mip
        BY <1>2, <3>1 DEF MipInv, BitsInv, MipFollows
      <3>3. \A x \in {"SSI", "STI"} : x \in mip' => x \notin to_M' \cup to_S'
        BY <3>1, <3>2 DEF to_M, to_S, m_interrupts_enabled, s_interrupts_enabled
      <3> QED BY <3>3 DEF Withdrawn
    <2>3. asked' = asked \/ (Quiet(i) /\ Completes(i, "csr") /\ i.instr.csr \in {"mip", "sip"})
      BY ServeCases, TrapModes, ReturnMret, ReturnSret, NothingServed, WriteCsr
    <2> QED BY <2>1, <2>2, <2>3
  <1> QED BY <1>1, <1>3, <1>4 DEF MipInv

\* No interrupt that was taken back is delivered.
LEMMA MipInvariant == Spec => []MipInv
  <1>1. Init => MipInv
    BY DEF Init, MipInv, Withdrawn, BitsInv, TypeOK, MipFollows, SoftwareBitsAsAsked, Mode, Status
  <1>2. MipInv /\ [Next]_vars => MipInv'
    <2>1. ASSUME MipInv, Next PROVE MipInv'
      BY <2>1, MipStep DEF Next
    <2>2. ASSUME MipInv, UNCHANGED vars PROVE MipInv'
      BY <2>2 DEF vars, csrs, MipInv, Withdrawn, to_M, to_S, m_interrupts_enabled, s_interrupts_enabled,
                  BitsInv, TypeOK, MipFollows, SoftwareBitsAsAsked
    <2> QED BY <2>1, <2>2
  <1> QED BY <1>1, <1>2, PTL DEF Spec

(* A software interrupt that the program has taken back is never taken,    *)
(* although mip shows it for a cycle more: EX is empty in that cycle, and  *)
(* what was not delivered when the write was in EX is not delivered now    *)
(* (csr_file.v 318-323, the CSR flush of riscv_cpu.v).                     *)
THEOREM WithdrawnNotTaken == Spec => NoStaleInterrupt
  <1>1. MipInv /\ [Next]_vars =>
          [Happens({"interrupt"}) /\ event'.cause \in {"SSI", "STI"} => event'.cause \in asked]_vars
    <2> SUFFICES ASSUME MipInv, NEW i \in Inputs, NEW lines \in SUBSET Lines, Cycle(i, lines),
                        Happens({"interrupt"}), event'.cause \in {"SSI", "STI"}
                 PROVE  event'.cause \in asked
      BY DEF Next
    <2>1. interrupt_taken(i)
      BY DEF Cycle, Event, Happens
    <2>2. event'.cause = interrupt_cause
      BY <2>1 DEF Cycle, Event
    <2>3. to_M \cup to_S # {} /\ to_M \subseteq Ints /\ to_S \subseteq Ints /\ to_M \cup to_S \subseteq mip
      BY <2>1 DEF interrupt_taken, interrupt_pending, to_M, to_S, MipInv
    <2>4. interrupt_cause \in to_M \cup to_S
      BY <2>3, HighestIsOne DEF interrupt_cause
    <2> QED BY <2>2, <2>3, <2>4 DEF MipInv, Withdrawn
  <1> QED BY <1>1, MipInvariant, PTL DEF Spec, NoStaleInterrupt

-----------------------------------------------------------------------------
(* While a handler has not returned its mode's interrupts are off.         *)
Masked == (saved[M] # None => ~mstatus.mie) /\ (saved[S] # None => ~mstatus.sie)

ReInv == TypeOK /\ Masked

\* ReInv is preserved: only the handler enables its own interrupts again.
LEMMA MaskedStep ==
  ASSUME ReInv, NEW i \in Inputs, NEW lines, Cycle(i, lines)
  PROVE  ReInv'
  <1>1. TypeOK'
    BY TypeStep DEF ReInv
  <1>2. mstatus \in Status /\ saved \in [{S, M} -> Interruption \cup {None}]
    BY DEF ReInv, TypeOK
  <1>3. Masked'
    <2>1. CASE interrupt_taken(i) \/ synchronous_exception(i)
      <3>1. CASE privilege_mode' = S
        <4>1. mstatus' = PushS /\ saved' = [saved EXCEPT ![S] = Interrupted(S)]
          BY <2>1, <3>1, TrapModes DEF TrapTo
        <4>2. ~mstatus'.sie /\ mstatus'.mie = mstatus.mie /\ saved'[M] = saved[M]
          BY <1>2, <4>1 DEF PushS, Status
        <4> QED BY <4>2 DEF ReInv, Masked
      <3>2. CASE privilege_mode' = M
        <4>1. mstatus' = PushM /\ saved' = [saved EXCEPT ![M] = Interrupted(M)]
          BY <2>1, <3>2, TrapModes DEF TrapTo
        <4>2. ~mstatus'.mie /\ mstatus'.sie = mstatus.sie /\ saved'[S] = saved[S]
          BY <1>2, <4>1 DEF PushM, Status
        <4> QED BY <4>2 DEF ReInv, Masked
      <3> QED BY <2>1, <3>1, <3>2, TrapModes
    <2>2. CASE Quiet(i) /\ Completes(i, "mret")
      BY <1>2, <2>2, ReturnMret DEF Mret, Status, ReInv, Masked
    <2>3. CASE Quiet(i) /\ Completes(i, "sret")
      BY <1>2, <2>3, ReturnSret DEF Sret, Status, ReInv, Masked
    <2>4. CASE Quiet(i) /\ Completes(i, "csr")
      <3>1. CASE i.instr.csr = "mstatus"
        BY <2>4, <3>1, WriteCsr DEF Masked
      <3>2. CASE i.instr.csr = "sstatus"
        BY <1>2, <2>4, <3>2, WriteCsr DEF CsrWrite, Sstatus, Status, ReInv, Masked
      <3>3. CASE i.instr.csr \notin {"mstatus", "sstatus"}
        BY <2>4, <3>3, WriteCsr DEF CsrWrite, ReInv, Masked
      <3> QED BY <3>1, <3>2, <3>3
    <2>5. CASE Quiet(i) /\ ~Completes(i, "mret") /\ ~Completes(i, "sret") /\ ~Completes(i, "csr")
      BY <2>5, NothingServed DEF csrs, ReInv, Masked
    <2> QED BY <2>1, <2>2, <2>3, <2>4, <2>5, ServeCases
  <1> QED BY <1>1, <1>3 DEF ReInv

(* A handler is never entered again from its own mode by an interrupt or   *)
(* a trigger before it returned or changed the status, whichever of the    *)
(* two stacks other traps and returns used meanwhile                       *)
(* (riscv_cpu.v 347-371, interrupt_controller.v 52-54).                    *)
THEOREM HandlersNotReentered == Spec => NoReentry
  <1>1. Init => ReInv
    BY DEF Init, ReInv, Masked, TypeOK, Mode, Status
  <1>2. ReInv /\ [Next]_vars => ReInv'
    <2>1. ASSUME ReInv, Next PROVE ReInv'
      BY <2>1, MaskedStep DEF Next
    <2>2. ASSUME ReInv, UNCHANGED vars PROVE ReInv'
      BY <2>2 DEF vars, csrs, ReInv, Masked, TypeOK
    <2> QED BY <2>1, <2>2
  <1>3. ReInv /\ [Next]_vars =>
          [Happens({"interrupt", "trigger"}) /\ privilege_mode' = privilege_mode =>
             saved[privilege_mode] = None]_vars
    <2> SUFFICES ASSUME ReInv, NEW i \in Inputs, NEW lines \in SUBSET Lines, Cycle(i, lines),
                        Happens({"interrupt", "trigger"}), privilege_mode' = privilege_mode
                 PROVE  saved[privilege_mode] = None
      BY DEF Next
    <2>1. CASE interrupt_taken(i)
      <3>1. privilege_mode = interrupt_to /\ to_M \cup to_S # {}
        BY <2>1, TrapInterrupt DEF TrapTo, interrupt_taken, interrupt_pending
      <3> QED BY <3>1 DEF interrupt_to, to_M, to_S, m_interrupts_enabled, s_interrupts_enabled, ReInv, Masked
    <2>2. CASE ~interrupt_taken(i)
      <3>1. /\ synchronous_exception(i) /\ exception_cause(i) = "breakpoint" /\ trigger_hit(i)
        BY <2>2 DEF Cycle, Event, Happens
      <3>2. trigger_enabled
        BY <3>1 DEF trigger_hit, execute_trigger_hit, data_trigger_hit
      <3>3. ~mem_stage_page_fault_taken(i) /\ ~instr_stage_page_fault_taken(i) /\ ex_exception(i) = "breakpoint"
        BY <3>1 DEF exception_cause, mem_stage_page_fault_taken, ReInv, TypeOK
      <3>4. privilege_mode = IF delegated("breakpoint") THEN S ELSE M
        BY <3>1, <3>3, TrapException DEF TrapTo, csr_trap_to_supervisor, Causes, Raised
      <3> QED BY <3>2, <3>4 DEF trigger_enabled, delegated, ReInv, Masked
    <2> QED BY <2>1, <2>2
  <1> QED BY <1>1, <1>2, <1>3, PTL DEF Spec, NoReentry
-----------------------------------------------------------------------------
(* Below M only a trap to M touches what belongs to M: whatever else a     *)
(* cycle serves there, the access check of execution_unit.v (197) and the  *)
(* masks of csr_file.v (191-194, 386-433) keep it to the half of S.        *)
THEOREM MachineProtected == Spec => MachineStateProtected
  <1> DEFINE Kept == /\ UNCHANGED <<medeleg, mideleg, trigger_modes>>
                     /\ mie' \ SInts = mie \ SInts
                     /\ software_pending' \ {"SSI"} = software_pending \ {"SSI"}
                     /\ mstatus'.mie = mstatus.mie /\ mstatus'.mpie = mstatus.mpie /\ mstatus'.mpp = mstatus.mpp
  <1>1. ASSUME TypeOK, NEW i \in Inputs, NEW lines \in SUBSET Lines, Cycle(i, lines),
               privilege_mode # M, privilege_mode' # M
        PROVE  Kept
    <2>1. mstatus \in Status /\ privilege_mode \in Mode
      BY <1>1 DEF TypeOK
    <2>2. CASE interrupt_taken(i) \/ synchronous_exception(i)
      <3>1. TrapTo(S)
        BY <1>1, <2>2, TrapModes
      <3> QED BY <2>1, <3>1 DEF TrapTo, PushS, Status
    <2>3. CASE Quiet(i) /\ Completes(i, "mret")
      BY <1>1, <2>3, ReturnMret
    <2>4. CASE Quiet(i) /\ Completes(i, "sret")
      <3>1. Sret
        BY <1>1, <2>4, ReturnSret
      <3> QED BY <2>1, <3>1 DEF Sret, Status
    <2>5. CASE Quiet(i) /\ Completes(i, "csr")
      <3>1. CsrWrite(i.instr) /\ i.instr.csr \in {"sstatus", "sie", "sip"}
        BY <1>1, <2>1, <2>5, WriteCsr DEF csr_privilege_violation, Level, Mode
      <3>2. CASE i.instr.csr = "sstatus"
        BY <2>1, <3>1, <3>2 DEF CsrWrite, Sstatus, Status
      <3>3. CASE i.instr.csr = "sie"
        BY <3>1, <3>3 DEF CsrWrite
      <3>4. CASE i.instr.csr = "sip"
        BY <3>1, <3>4 DEF CsrWrite, Set, Settable
      <3> QED BY <3>1, <3>2, <3>3, <3>4
    <2>6. CASE Quiet(i) /\ ~Completes(i, "mret") /\ ~Completes(i, "sret") /\ ~Completes(i, "csr")
      BY <1>1, <2>6, NothingServed DEF csrs
    <2> QED BY <2>2, <2>3, <2>4, <2>5, <2>6, ServeCases
  <1>2. TypeOK /\ [Next]_vars => [privilege_mode # M /\ privilege_mode' # M => Kept]_vars
    BY <1>1 DEF Next
  <1> QED BY <1>2, TrapTypeCorrect, PTL DEF Spec, MachineStateProtected

-----------------------------------------------------------------------------
(* The reserved mode 2 is left out: a program that writes no such MPP never *)
(* gets there.  Then both stacks hold what the last trap met.              *)
LegalMpp == \A p \in Program : p.op = "csr" /\ p.csr = "mstatus" => p.arg.mpp # 2

LegalModes == privilege_mode \in {U, S, M} /\ mstatus.mpp \in {U, S, M} /\ medeleg \subseteq Causes

StacksHold ==
  /\ saved[M] # None => mstatus.mpp = saved[M].mode /\ mstatus.mpie = saved[M].ie
  /\ saved[S] # None => (IF mstatus.spp THEN S ELSE U) = saved[S].mode /\ mstatus.spie = saved[S].ie

StackInv == TypeOK /\ LegalModes /\ StacksHold

\* A trap to S comes from U or from S.
LEMMA TrapToSupervisor ==
  ASSUME StackInv, NEW i \in Inputs, NEW lines, Cycle(i, lines), interrupt_taken(i) \/ synchronous_exception(i),
         privilege_mode' = S
  PROVE  privilege_mode \in {U, S}
  <1>1. CASE interrupt_taken(i)
    <2>1. to_S # {}
      BY <1>1, TrapInterrupt DEF TrapTo, interrupt_to, interrupt_taken, interrupt_pending
    <2> QED BY <2>1 DEF to_S, s_interrupts_enabled
  <1>2. CASE synchronous_exception(i)
    <2>1. csr_trap_to_supervisor(i)
      BY <1>2, TrapException DEF TrapTo
    <2>2. privilege_mode # M
      BY <2>1 DEF csr_trap_to_supervisor, delegated
    <2> QED BY <2>2 DEF StackInv, LegalModes
  <1> QED BY <1>1, <1>2

\* StackInv is preserved: traps, returns and CSR writes of one mode leave the stack of the other alone.
LEMMA StackStep ==
  ASSUME LegalMpp, StackInv, NEW i \in Inputs, NEW lines, Cycle(i, lines)
  PROVE  StackInv'
  <1>1. TypeOK'
    BY TypeStep DEF StackInv
  <1>2. /\ mstatus \in Status /\ saved \in [{S, M} -> Interruption \cup {None}]
        /\ LegalModes /\ StacksHold
    BY DEF StackInv, TypeOK
  <1>3. CASE interrupt_taken(i) \/ synchronous_exception(i)
    <2>1. CASE privilege_mode' = S
      <3>1. mstatus' = PushS /\ saved' = [saved EXCEPT ![S] = Interrupted(S)] /\ medeleg' = medeleg
        BY <1>3, <2>1, TrapModes DEF TrapTo
      <3>2. /\ mstatus'.mpp = mstatus.mpp /\ mstatus'.mpie = mstatus.mpie
            /\ mstatus'.spp = (privilege_mode = S) /\ mstatus'.spie = mstatus.sie
        BY <1>2, <3>1 DEF PushS, Status
      <3>3. saved'[M] = saved[M] /\ saved'[S] = [mode |-> privilege_mode, ie |-> mstatus.sie]
        BY <1>2, <3>1 DEF Interrupted
      <3>4. privilege_mode \in {U, S}
        BY <1>3, <2>1, TrapToSupervisor
      <3>5. StacksHold'
        <4>1. CASE privilege_mode = U
          <5>1. (privilege_mode = S) = FALSE
            BY <4>1
          <5>2. mstatus'.spp = FALSE
            BY <3>2, <5>1, Zenon
          <5> QED BY <1>2, <3>2, <3>3, <4>1, <5>2 DEF StacksHold
        <4>2. CASE privilege_mode = S
          <5>1. mstatus'.spp = TRUE
            BY <3>2, <4>2
          <5> QED BY <1>2, <3>2, <3>3, <4>2, <5>1 DEF StacksHold
        <4> QED BY <3>4, <4>1, <4>2
      <3>6. LegalModes'
        BY <1>2, <2>1, <3>1, <3>2 DEF LegalModes
      <3> QED BY <1>1, <3>5, <3>6 DEF StackInv
    <2>2. CASE privilege_mode' = M
      <3>1. mstatus' = PushM /\ saved' = [saved EXCEPT ![M] = Interrupted(M)] /\ medeleg' = medeleg
        BY <1>3, <2>2, TrapModes DEF TrapTo
      <3>2. /\ mstatus'.spp = mstatus.spp /\ mstatus'.spie = mstatus.spie
            /\ mstatus'.mpp = privilege_mode /\ mstatus'.mpie = mstatus.mie
        BY <1>2, <3>1 DEF PushM, Status
      <3>3. saved'[S] = saved[S] /\ saved'[M] = [mode |-> privilege_mode, ie |-> mstatus.mie]
        BY <1>2, <3>1 DEF Interrupted
      <3>4. StacksHold'
        BY <1>2, <3>2, <3>3 DEF StacksHold
      <3>5. LegalModes'
        BY <1>2, <2>2, <3>1, <3>2 DEF LegalModes
      <3> QED BY <1>1, <3>4, <3>5 DEF StackInv
    <2> QED BY <1>3, <2>1, <2>2, TrapModes
  <1>4. CASE Quiet(i) /\ Completes(i, "mret")
    <2>1. Mret /\ saved' = [saved EXCEPT ![M] = None]
      BY <1>4, ReturnMret
    <2>2. /\ mstatus'.spp = mstatus.spp /\ mstatus'.spie = mstatus.spie /\ mstatus'.mpp = U
          /\ saved'[S] = saved[S] /\ saved'[M] = None
      BY <1>2, <2>1 DEF Mret, Status
    <2>3. StacksHold' /\ LegalModes'
      BY <1>2, <2>1, <2>2 DEF StacksHold, LegalModes, Mret
    <2> QED BY <1>1, <2>3 DEF StackInv
  <1>5. CASE Quiet(i) /\ Completes(i, "sret")
    <2>1. Sret /\ saved' = [saved EXCEPT ![S] = None]
      BY <1>5, ReturnSret
    <2>2. /\ mstatus'.mpp = mstatus.mpp /\ mstatus'.mpie = mstatus.mpie
          /\ saved'[M] = saved[M] /\ saved'[S] = None
      BY <1>2, <2>1 DEF Sret, Status
    <2>3. StacksHold' /\ LegalModes'
      BY <1>2, <2>1, <2>2 DEF StacksHold, LegalModes, Sret
    <2> QED BY <1>1, <2>3 DEF StackInv
  <1>6. CASE Quiet(i) /\ Completes(i, "csr")
    <2> DEFINE p == i.instr
    <2>1. /\ CsrWrite(p) /\ p \in Program /\ p.op = "csr" /\ privilege_mode' = privilege_mode
          /\ p.how \in {"w", "s", "c"}
      BY <1>6, WriteCsr DEF CsrWrite
    <2>2. medeleg' \subseteq Causes
      <3>1. CASE p.csr = "medeleg"
        <4>1. p.arg \subseteq Causes /\ medeleg' = Applied(p, medeleg)
          BY <2>1, <3>1 DEF CsrWrite, csr_write_data, rmw_data
        <4> QED BY <1>2, <2>1, <4>1 DEF Applied, LegalModes
      <3>2. CASE p.csr # "medeleg"
        BY <1>2, <2>1, <3>2 DEF CsrWrite, LegalModes
      <3> QED BY <3>1, <3>2
    <2>3. CASE p.csr = "mstatus"
      <3>1. /\ saved'[S] = None /\ saved'[M] = None /\ mstatus' = p.arg /\ p.arg \in Status /\ p.arg.mpp # 2
        BY <1>6, <2>1, <2>3, WriteCsr DEF CsrWrite, LegalMpp
      <3>2. mstatus'.mpp \in {U, S, M}
        BY <3>1, StatusFields DEF Mode
      <3>3. StacksHold' /\ LegalModes'
        BY <1>2, <2>1, <2>2, <3>1, <3>2 DEF StacksHold, LegalModes
      <3> QED BY <1>1, <3>3 DEF StackInv
    <2>4. CASE p.csr = "sstatus"
      <3>1. saved' = [saved EXCEPT ![S] = None] /\ mstatus' = Sstatus(p.arg)
        BY <1>6, <2>1, <2>4, WriteCsr DEF CsrWrite
      <3>2. /\ mstatus'.mpp = mstatus.mpp /\ mstatus'.mpie = mstatus.mpie
            /\ saved'[M] = saved[M] /\ saved'[S] = None
        BY <1>2, <3>1 DEF Sstatus, Status
      <3>3. StacksHold' /\ LegalModes'
        BY <1>2, <2>1, <2>2, <3>2 DEF StacksHold, LegalModes
      <3> QED BY <1>1, <3>3 DEF StackInv
    <2>5. CASE p.csr \notin {"mstatus", "sstatus"}
      <3>1. UNCHANGED <<saved, mstatus>>
        BY <1>6, <2>1, <2>5, WriteCsr DEF CsrWrite
      <3>2. StacksHold' /\ LegalModes'
        BY <1>2, <2>1, <2>2, <3>1 DEF StacksHold, LegalModes
      <3> QED BY <1>1, <3>2 DEF StackInv
    <2> QED BY <2>3, <2>4, <2>5
  <1>7. CASE Quiet(i) /\ ~Completes(i, "mret") /\ ~Completes(i, "sret") /\ ~Completes(i, "csr")
    <2>1. UNCHANGED <<csrs, saved>>
      BY <1>7, NothingServed
    <2> QED BY <1>1, <1>2, <2>1 DEF csrs, StackInv, StacksHold, LegalModes
  <1> QED BY <1>3, <1>4, <1>5, <1>6, <1>7, ServeCases

\* The stacks hold what the last traps met.
LEMMA StackInvariant == ASSUME LegalMpp PROVE Spec => []StackInv
  <1>1. Init => StackInv
    BY DEF Init, StackInv, LegalModes, StacksHold, TypeOK, Mode, Status
  <1>2. StackInv /\ [Next]_vars => StackInv'
    <2>1. ASSUME StackInv, Next PROVE StackInv'
      BY <2>1, StackStep DEF Next
    <2>2. ASSUME StackInv, UNCHANGED vars PROVE StackInv'
      BY <2>2 DEF vars, csrs, StackInv, LegalModes, StacksHold, TypeOK
    <2> QED BY <2>1, <2>2
  <1> QED BY <1>1, <1>2, PTL DEF Spec

(* A return gives back the mode and the interrupt enable that the last trap *)
(* to its mode met, however traps to and returns from the other mode nest   *)
(* in between, for every program that writes no reserved MPP                *)
(* (csr_file.v, the trap stack in mstatus, 325-384).                        *)
THEOREM ReturnsRestore == ASSUME LegalMpp PROVE Spec => ReturnRestores
  <1>1. ASSUME StackInv, NEW i \in Inputs, NEW lines \in SUBSET Lines, Cycle(i, lines)
        PROVE  /\ Happens({"mret"}) /\ saved[M] # None =>
                    privilege_mode' = saved[M].mode /\ mstatus'.mie = saved[M].ie
               /\ Happens({"sret"}) /\ saved[S] # None =>
                    privilege_mode' = saved[S].mode /\ mstatus'.sie = saved[S].ie
    <2>1. mstatus \in Status /\ StacksHold
      BY <1>1 DEF StackInv, TypeOK
    <2>2. ASSUME Happens({"mret"}), saved[M] # None
          PROVE  privilege_mode' = saved[M].mode /\ mstatus'.mie = saved[M].ie
      <3>1. Quiet(i) /\ Completes(i, "mret")
        BY <1>1, <2>2 DEF Cycle, Event, Happens, Quiet
      <3>2. Mret
        BY <1>1, <3>1, ReturnMret
      <3> QED BY <2>1, <2>2, <3>2 DEF Mret, Status, StacksHold
    <2>3. ASSUME Happens({"sret"}), saved[S] # None
          PROVE  privilege_mode' = saved[S].mode /\ mstatus'.sie = saved[S].ie
      <3>1. Quiet(i) /\ Completes(i, "sret")
        BY <1>1, <2>3 DEF Cycle, Event, Happens, Quiet
      <3>2. Sret
        BY <1>1, <3>1, ReturnSret
      <3> QED BY <2>1, <2>3, <3>2 DEF Sret, Status, StacksHold
    <2> QED BY <2>2, <2>3
  <1>2. StackInv /\ [Next]_vars =>
          [/\ Happens({"mret"}) /\ saved[M] # None =>
                privilege_mode' = saved[M].mode /\ mstatus'.mie = saved[M].ie
           /\ Happens({"sret"}) /\ saved[S] # None =>
                privilege_mode' = saved[S].mode /\ mstatus'.sie = saved[S].ie]_vars
    BY <1>1 DEF Next
  <1> QED BY <1>2, StackInvariant, PTL DEF Spec, ReturnRestores

-----------------------------------------------------------------------------
(* The three multiplexers.                                                 *)

\* An interrupt goes where it is delegated, and so does the fetch.
LEMMA InterruptBelongs ==
  ASSUME MipInv, StackInv, NEW i \in Inputs, NEW lines \in SUBSET Lines, Cycle(i, lines), interrupt_taken(i)
  PROVE  /\ event'.vector = privilege_mode'
         /\ privilege_mode' = S <=> privilege_mode # M /\ event'.cause \in medeleg \cup (mideleg \cap SInts)
  <1>1. privilege_mode' = interrupt_to
    BY TrapInterrupt DEF TrapTo
  <1>2. event'.cause = interrupt_cause /\ event'.vector = interrupt_to
    BY DEF Cycle, Event, jump_mode, interrupt_taken, interrupt_pending
  <1>3. to_M \cup to_S # {} /\ to_M \subseteq Ints /\ to_S \subseteq Ints
    BY DEF interrupt_taken, interrupt_pending, to_M, to_S, MipInv
  <1>4. CASE to_M # {}
    <2>1. interrupt_cause \in to_M
      BY <1>3, <1>4, HighestIsOne DEF interrupt_cause
    <2>2. interrupt_cause \notin SInts \cap mideleg
      BY <2>1 DEF to_M
    <2>3. interrupt_cause \notin medeleg
      <3>1. Ints = {"MEI", "MSI", "MTI", "SEI", "SSI", "STI"}
        BY DEF Ints, Priority
      <3> QED BY <1>3, <2>1, <3>1 DEF StackInv, LegalModes, Causes, Raised
    <2> QED BY <1>1, <1>2, <1>4, <2>2, <2>3 DEF interrupt_to
  <1>5. CASE to_M = {}
    <2>1. interrupt_cause \in to_S
      BY <1>3, <1>5, HighestIsOne DEF interrupt_cause
    <2>2. interrupt_cause \in SInts \cap mideleg /\ privilege_mode # M
      BY <2>1 DEF to_S, s_interrupts_enabled
    <2> QED BY <1>1, <1>2, <1>5, <2>2 DEF interrupt_to
  <1> QED BY <1>4, <1>5

\* What an instruction in EX raises; the ecall of M comes from M.
LEMMA ExRaises ==
  ASSUME LegalModes, NEW i \in Inputs, ex_exception(i) # None
  PROVE  ex_exception(i) \in Causes /\ (ex_exception(i) = "ecall_m" => privilege_mode = M)
  <1>1. i.instr \in Program
    BY InputFacts DEF ex_exception, Executes
  <1>2. i.instr.op = "raise" => i.instr.cause \in Raised
    BY <1>1
  <1>3. ecall_cause \in Causes /\ (ecall_cause = "ecall_m" => privilege_mode = M)
    BY DEF ecall_cause, LegalModes, Causes
  <1> QED BY <1>2, <1>3 DEF ex_exception, Causes, Raised

\* An exception goes where it is delegated, and so does the fetch.
LEMMA ExceptionBelongs ==
  ASSUME StackInv, NEW i \in Inputs, NEW lines \in SUBSET Lines, Cycle(i, lines), synchronous_exception(i)
  PROVE  /\ event'.vector = privilege_mode'
         /\ privilege_mode' = S <=> privilege_mode # M /\ event'.cause \in medeleg \cup (mideleg \cap SInts)
  <1> DEFINE cause == exception_cause(i)
  <1>1. ~interrupt_taken(i) /\ privilege_mode' = IF csr_trap_to_supervisor(i) THEN S ELSE M
    BY TrapException DEF TrapTo
  <1>2. event'.cause = cause /\ event'.vector = jump_mode(i)
    BY <1>1 DEF Cycle, Event
  <1>3. csr_trap_to_supervisor(i) <=> delegated(cause)
    BY DEF csr_trap_to_supervisor, exception_cause, synchronous_exception
  <1>4. jump_mode(i) = IF delegated(cause) THEN S ELSE M
    BY <1>1 DEF jump_mode, exception_cause
  <1>5. cause \in Causes /\ (cause = "ecall_m" => privilege_mode = M)
    <2>1. CASE mem_stage_page_fault_taken(i)
      BY <2>1 DEF exception_cause, mem_stage_page_fault_taken, StackInv, TypeOK, Causes
    <2>2. CASE ~mem_stage_page_fault_taken(i) /\ instr_stage_page_fault_taken(i)
      BY <2>2 DEF exception_cause, Causes
    <2>3. CASE ~mem_stage_page_fault_taken(i) /\ ~instr_stage_page_fault_taken(i)
      BY <2>3, ExRaises DEF exception_cause, synchronous_exception, StackInv
    <2> QED BY <2>1, <2>2, <2>3
  <1>6. cause \notin SInts
    BY <1>5 DEF Causes, Raised, SInts
  <1>7. delegated(cause) <=> privilege_mode # M /\ cause \in medeleg \cup (mideleg \cap SInts)
    BY <1>5, <1>6 DEF delegated
  <1> QED BY <1>1, <1>2, <1>3, <1>4, <1>7

(* Whatever meets in EX, MEM and the interrupt controller: the cause that is *)
(* recorded, the mode that is entered and the vector that is fetched from    *)
(* belong to one trap, and S takes it exactly if it is delegated and does    *)
(* not come from M (csr_file.v 217-230 and 325-384, riscv_cpu.v 74-77 and    *)
(* 775-796), for every program that writes no reserved MPP.                  *)
THEOREM TrapsBelong == ASSUME LegalMpp PROVE Spec => TrapsWhereTheyBelong
  <1>1. ASSUME MipInv, StackInv, NEW i \in Inputs, NEW lines \in SUBSET Lines, Cycle(i, lines),
               Happens({"interrupt", "trigger", "exception"})
        PROVE  /\ event'.vector = privilege_mode' /\ privilege_mode' \in {S, M}
               /\ privilege_mode' = S <=>
                    privilege_mode # M /\ event'.cause \in medeleg \cup (mideleg \cap SInts)
    <2>1. interrupt_taken(i) \/ synchronous_exception(i)
      BY <1>1 DEF Cycle, Event, Happens
    <2> QED BY <1>1, <2>1, TrapModes, InterruptBelongs, ExceptionBelongs
  <1>2. MipInv /\ StackInv /\ [Next]_vars =>
          [Happens({"interrupt", "trigger", "exception"}) =>
             /\ event'.vector = privilege_mode' /\ privilege_mode' \in {S, M}
             /\ privilege_mode' = S <=>
                  privilege_mode # M /\ event'.cause \in medeleg \cup (mideleg \cap SInts)]_vars
    BY <1>1 DEF Next
  <1> QED BY <1>2, MipInvariant, StackInvariant, PTL DEF Spec, TrapsWhereTheyBelong
=============================================================================
