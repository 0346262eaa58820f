-------------------------- MODULE Pipeline_proofs --------------------------
(***************************************************************************)
(* For every set of addresses and every program: the stages hold           *)
(* consecutive instructions of the program, an AMO is not torn, and traps  *)
(* are precise.  The inductive invariant adds to InOrder and AmoIsWhole    *)
(* that the stages before EX are empty while the core sleeps; without it a *)
(* sleeping EX would leave copies of its instruction in MEM.  What a       *)
(* faulting fetch can bring is kept for the traps.                         *)
(***************************************************************************)
EXTENDS Pipeline, TLAPS

Asleep == wfi_active => idex = None /\ ifid = None

\* A faulting fetch brings a stale word.
FaultIsStale == /\ ifid # None /\ ifid.pf => ifid.kind \in Stale
                /\ idex # None /\ idex.pf => idex.kind \in Stale

IInv == TypeOK /\ InOrder /\ AmoIsWhole /\ Asleep /\ FaultIsStale

USE PipelineAssumption

-----------------------------------------------------------------------------
(* What the inputs of a cycle are.                                         *)
LEMMA InputFacts ==
  ASSUME NEW i \in Inputs
  PROVE  /\ i.fetch # None => /\ i.fetch.kind \in Kind /\ i.fetch.pf \in BOOLEAN
                              /\ i.fetch.pf => i.fetch.kind \in Stale
         /\ i.mem \in {"wait", "done", "fault"}
         /\ amo_write_phase /\ mem_access => i.mem # "fault"
         /\ i.irq \in BOOLEAN /\ i.wake \in BOOLEAN /\ i.hazard \in BOOLEAN /\ i.drained \in BOOLEAN
         /\ i.value # None => i.value \in PC
         /\ i.irq => i.wake
  <1>1. PICK j \in StageInputs, f \in Fetched \cup {None} : i = [j EXCEPT !.fetch = f]
    BY DEF Inputs
  <1>2. /\ i.fetch = f /\ i.mem = j.mem /\ i.hazard = j.hazard /\ i.drained = j.drained
        /\ i.irq = j.irq /\ i.wake = j.wake /\ i.value = j.value
    BY <1>1 DEF StageInputs
  <1>3. f # None => f.kind \in Kind /\ f.pf \in BOOLEAN /\ (f.pf => f.kind \in Stale)
    BY DEF Fetched
  <1> QED BY <1>2, <1>3 DEF StageInputs

(* A jump goes to an address, and only EX at work jumps.                   *)
LEMMA JumpFacts ==
  ASSUME TypeOK, NEW i \in Inputs
  PROVE  /\ ex_jump(i) # None => ex_jump(i) \in PC /\ ex_stage_active(i)
         /\ redirect(i) # None => redirect(i) \in PC
  <1>1. ex_jump(i) # None => ex_jump(i) \in PC
    BY InputFacts DEF ex_jump, Executes, TypeOK, Instr
  <1>2. ex_jump(i) # None => ex_stage_active(i)
    BY DEF ex_jump, Executes, synchronous_exception, ret_instruction, interrupt_taken_qualified
  <1> QED BY <1>1, <1>2 DEF redirect

(* What moves on into MEM, unless it is a bubble.                          *)
LEMMA LeftFacts ==
  ASSUME TypeOK, NEW i \in Inputs
  PROVE  /\ Left(i) \in MemInstr \cup {None}
         /\ Left(i) = None <=> idex = None
         /\ idex # None => /\ Left(i).pc = idex.pc /\ Left(i).kind = idex.kind
                           /\ Left(i).copy <=> pipeline_hold(i)
                           /\ Left(i).next = IF ex_jump(i) # None THEN ex_jump(i) ELSE Succ[idex.pc]
  <1> DEFINE h == pipeline_hold(i)
             n == IF ex_jump(i) # None THEN ex_jump(i) ELSE Succ[idex.pc]
  <1>1. h \in BOOLEAN
    BY DEF pipeline_hold, wfi_stall, fence_drain_stall, mem_wait
  <1>2. idex # None => n \in PC /\ idex.pc \in PC /\ idex.kind \in Kind
    BY JumpFacts DEF TypeOK, Instr
  <1>3. Left(i) = IF idex = None THEN None
                  ELSE [pc |-> idex.pc, kind |-> idex.kind, copy |-> h, next |-> n]
    BY DEF Left
  <1> HIDE DEF h, n
  <1>4. idex # None => Left(i) \in MemInstr
    BY <1>1, <1>2, <1>3 DEF MemInstr
  <1>5. Left(i) = None <=> idex = None
    BY <1>3, <1>4
  <1>6. idex # None => /\ Left(i).pc = idex.pc /\ Left(i).kind = idex.kind
                       /\ Left(i).copy = h /\ Left(i).next = n
    BY <1>3
  <1> QED BY <1>3, <1>4, <1>5, <1>6 DEF h, n

(* While EX is at work MEM is done, and a sleeping core has nothing in EX. *)
LEMMA ActiveFacts ==
  ASSUME TypeOK, Asleep, NEW i \in Inputs
  PROVE  /\ ex_stage_active(i) /\ idex # None => ~pipeline_hold(i)
         /\ ex_stage_active(i) => (retires(i) <=> InMem /\ ~mem_stage_page_fault_taken(i))
  BY DEF ex_stage_active, pipeline_hold, wfi_stall, Asleep, retires, InMem

(* A trap goes to the trap vector and empties every stage.                 *)
LEMMA TrapFacts ==
  ASSUME TypeOK, NEW i \in Inputs, trap_taken(i)
  PROVE  redirect(i) = Vector
  BY DEF redirect, trap_taken, interrupt_taken_qualified, ex_jump

-----------------------------------------------------------------------------
\* TypeOK is preserved.
LEMMA TypeStep ==
  ASSUME TypeOK, NEW i \in Inputs, Cycle(i)
  PROVE  TypeOK'
  <1>1. pc' \in PC
    BY JumpFacts DEF Cycle, NextPc, TypeOK
  <1>2. ifid' \in Instr \cup {None}
    BY InputFacts DEF Cycle, IF_ID, TypeOK, Instr
  <1>3. idex' \in Instr \cup {None}
    BY DEF Cycle, ID_EX, TypeOK
  <1>4. exmem' \in MemInstr \cup {None}
    BY LeftFacts DEF Cycle, EX_MEM, TypeOK
  <1>6. epc' \in PC
    <2>1. interrupt_pc \in PC
      BY DEF interrupt_pc, TypeOK, Instr
    <2>2. mem_stage_page_fault_taken(i) => exmem.pc \in PC
      BY DEF mem_stage_page_fault_taken, mem_access, TypeOK, MemInstr
    <2>3. instr_stage_page_fault_taken(i) \/ synchronous_exception(i) => idex.pc \in PC
      BY DEF instr_stage_page_fault_taken, synchronous_exception, Executes, TypeOK, Instr
    <2> QED BY <2>1, <2>2, <2>3, InputFacts DEF Cycle, Epc, TypeOK
  <1>7. wfi_active' \in BOOLEAN
    BY DEF Cycle, Sleep
  <1>8. amo_write_phase' \in BOOLEAN
    BY DEF Cycle, AmoPhase, TypeOK
  <1>9. arch' \in PC
    BY DEF Cycle, History, retires, TypeOK, MemInstr
  <1>10. waited' \in BOOLEAN /\ retired' \in BOOLEAN /\ trap' \in BOOLEAN
    BY DEF Cycle, History, retires, trap_taken
  <1> QED BY <1>1, <1>2, <1>3, <1>4, <1>6, <1>7, <1>8, <1>9, <1>10 DEF TypeOK

\* A sleeping core has empty stages in front.
LEMMA AsleepStep ==
  ASSUME TypeOK, Asleep, NEW i \in Inputs, Cycle(i)
  PROVE  Asleep'
  <1> SUFFICES ASSUME wfi_active' PROVE idex' = None /\ ifid' = None
    BY DEF Asleep
  <1>1. ~i.wake /\ (wfi_active \/ wfi_instruction(i))
    BY DEF Cycle, Sleep
  <1>2. CASE wfi_active
    BY <1>1, <1>2 DEF Cycle, IF_ID, ID_EX, pipeline_stall, pipeline_hold, wfi_stall, Asleep
  <1>3. CASE wfi_instruction(i)
    <2>1. Executes(i, "wfi")
      BY <1>3 DEF wfi_instruction
    <2>2. ~mem_stage_page_fault_taken(i) /\ ~instr_stage_page_fault_taken(i) => redirect(i) = Succ[idex.pc]
      BY <2>1 DEF redirect, ex_jump, synchronous_exception, ret_instruction, Executes,
                     interrupt_taken_qualified
    <2>3. Succ[idex.pc] # None
      BY <2>1 DEF Executes, TypeOK, Instr
    <2>4. redirect(i) # None
      BY <2>2, <2>3 DEF redirect
    <2> QED BY <2>4 DEF Cycle, IF_ID, ID_EX
  <1> QED BY <1>1, <1>2, <1>3

(* Between the halves of an AMO MEM waits, so EX takes no trap.            *)
LEMMA AmoStep ==
  ASSUME TypeOK, AmoIsWhole, NEW i \in Inputs, Cycle(i)
  PROVE  AmoIsWhole'
  <1> SUFFICES ASSUME amo_write_phase' PROVE exmem' # None /\ exmem'.kind = "amo"
    BY DEF AmoIsWhole
  <1>1. exmem # None /\ exmem.kind = "amo" /\ mem_access
    BY DEF Cycle, AmoPhase, amo_read_phase, AmoIsWhole, mem_access, MemKind
  <1>2. mem_wait(i)
    BY <1>1, InputFacts
       DEF Cycle, AmoPhase, amo_read_phase, mem_wait, mem_stage_page_fault_taken
  <1>3. ~trap_taken(i)
    BY <1>2 DEF trap_taken, mem_wait, instr_stage_page_fault_taken, interrupt_taken_qualified,
                synchronous_exception, Executes, ex_stage_active
  <1> QED BY <1>1, <1>2, <1>3 DEF Cycle, EX_MEM

\* A word that comes with a fetch fault is stale.
LEMMA FaultStep ==
  ASSUME FaultIsStale, NEW i \in Inputs, Cycle(i)
  PROVE  FaultIsStale'
  BY InputFacts DEF FaultIsStale, Cycle, IF_ID, ID_EX

(* One case per way a cycle moves the pipeline.                            *)
LEMMA InOrderStep ==
  ASSUME IInv, NEW i \in Inputs, Cycle(i)
  PROVE  InOrder'
  <1> USE DEF IInv
  <1>1. CASE trap_taken(i)
    <2>1. pc' = Vector /\ ifid' = None /\ idex' = None /\ exmem' = None /\ arch' = Vector
      BY <1>1, TrapFacts DEF Cycle, NextPc, IF_ID, ID_EX, EX_MEM, History
    <2> QED BY <2>1 DEF InOrder, AfterId, AfterEx, AfterMem, InMem
  <1>2. CASE ~trap_taken(i) /\ mem_wait(i)
    <2>1. ~ex_stage_active(i) /\ pipeline_hold(i) /\ pipeline_stall(i) /\ ~retires(i)
      BY <1>2 DEF ex_stage_active, pipeline_hold, pipeline_stall, retires
    <2>2. redirect(i) = None
      BY <1>2, <2>1, JumpFacts DEF redirect, trap_taken
    <2>3. UNCHANGED <<pc, ifid, idex, exmem, arch>>
      BY <1>2, <2>1, <2>2 DEF Cycle, NextPc, IF_ID, ID_EX, EX_MEM, History
    <2> QED BY <2>3 DEF InOrder, AfterId, AfterEx, AfterMem, InMem
  <1>3. CASE ~trap_taken(i) /\ ~mem_wait(i)
    <2>1. exmem' = Left(i) /\ arch' = AfterMem
      BY <1>3 DEF Cycle, EX_MEM, History, retires, AfterMem, InMem, trap_taken
    <2>2. CASE redirect(i) # None
      <3>1. redirect(i) = ex_jump(i) /\ ex_stage_active(i)
        BY <1>3, <2>2, JumpFacts DEF redirect, trap_taken
      <3>2. ~interrupt_taken_qualified(i)
        BY <1>3 DEF trap_taken
      <3>3. idex # None
        BY <2>2, <3>1, <3>2 DEF ex_jump, Executes, synchronous_exception, ret_instruction
      <3>4. /\ exmem' # None /\ exmem'.pc = idex.pc
            /\ ~exmem'.copy /\ exmem'.next = ex_jump(i)
        BY <2>1, <2>2, <3>1, <3>3, ActiveFacts, LeftFacts
      <3>5. ifid' = None /\ idex' = None /\ pc' = ex_jump(i)
        BY <2>2, <3>1 DEF Cycle, NextPc, IF_ID, ID_EX
      <3> QED BY <2>1, <3>3, <3>4, <3>5 DEF InOrder, AfterId, AfterEx, AfterMem, InMem
    <2>3. CASE redirect(i) = None /\ pipeline_hold(i)
      <3>1. ifid' = ifid /\ idex' = idex /\ pc' = pc
        BY <2>3 DEF Cycle, NextPc, IF_ID, ID_EX, pipeline_stall
      <3>2. idex # None => idex.kind \in {"fence", "fence_i"}
        BY <1>3, <2>3 DEF pipeline_hold, wfi_stall, fence_drain_stall, Asleep
      <3>3. exmem' # None => exmem'.copy /\ exmem'.kind \in {"fence", "fence_i"}
        BY <2>1, <2>3, <3>2, LeftFacts
      <3> QED BY <2>1, <3>1, <3>3 DEF InOrder, AfterId, AfterEx, AfterMem, InMem
    <2>4. CASE redirect(i) = None /\ ~pipeline_hold(i)
      <3>1. ex_jump(i) = None
        BY <2>4, <1>3 DEF redirect, trap_taken
      <3>2. IF idex = None THEN exmem' = None
            ELSE /\ exmem' # None /\ exmem'.pc = idex.pc
                 /\ ~exmem'.copy /\ exmem'.next = Succ[idex.pc]
        BY <2>1, <2>4, <3>1, LeftFacts
      <3>3. AfterMem' = AfterEx /\ (InMem' => exmem'.pc = arch')
        BY <2>1, <3>2 DEF AfterMem, InMem, AfterEx, InOrder
      <3>4. CASE i.hazard
        <4>1. ifid' = ifid /\ idex' = None /\ pc' = pc
          BY <2>4, <3>4 DEF Cycle, NextPc, IF_ID, ID_EX, pipeline_stall
        <4> QED BY <3>2, <3>3, <4>1 DEF InOrder, AfterId, AfterEx, InMem
      <3>5. CASE ~i.hazard
        <4>1. idex' = ifid
          BY <2>4, <3>5 DEF Cycle, ID_EX
        <4>2. AfterEx' = AfterId
          BY <3>3, <4>1 DEF AfterEx, AfterId
        <4>3. IF i.fetch = None THEN ifid' = None /\ pc' = pc
              ELSE ifid' # None /\ ifid'.pc = pc /\ pc' = Succ[pc]
          <5>1. i.fetch # None => [pc |-> pc, kind |-> i.fetch.kind, pf |-> i.fetch.pf] \in Instr
            BY InputFacts DEF TypeOK, Instr
          <5> QED BY <2>4, <3>5, <5>1 DEF Cycle, NextPc, IF_ID, pipeline_stall
        <4>4. pc' = AfterId' /\ (ifid' # None => ifid'.pc = AfterEx')
          BY <4>2, <4>3 DEF AfterId, InOrder
        <4> QED BY <3>2, <3>3, <4>1, <4>4 DEF InOrder
      <3> QED BY <3>4, <3>5
    <2> QED BY <2>2, <2>3, <2>4
  <1> QED BY <1>1, <1>2, <1>3

-----------------------------------------------------------------------------
(* IInv is inductive.                                                      *)
LEMMA Invariance == Spec => []IInv
  <1>1. Init => IInv
    BY DEF Init, IInv, TypeOK, InOrder, InMem, AfterId, AfterEx, AfterMem, AmoIsWhole, Asleep,
           FaultIsStale
  <1>2. IInv /\ [Next]_vars => IInv'
    <2>1. ASSUME IInv, NEW i \in Inputs, Cycle(i)
          PROVE  IInv'
      BY <2>1, TypeStep, InOrderStep, AmoStep, AsleepStep, FaultStep DEF IInv
    <2>2. ASSUME IInv, UNCHANGED vars
          PROVE  IInv'
      BY <2>2 DEF vars, IInv, TypeOK, InOrder, InMem, AfterId, AfterEx, AfterMem, AmoIsWhole, Asleep,
             FaultIsStale
    <2> QED BY <2>1, <2>2 DEF Next
  <1> QED BY <1>1, <1>2, PTL DEF Spec

(* For every program, timing and interrupt: the stages hold consecutive    *)
(* instructions, whatever riscv_cpu.v's flushes, holds and bubbles do.     *)
THEOREM StagesInOrder == Spec => [](TypeOK /\ InOrder)
  <1>1. IInv => TypeOK /\ InOrder
    BY DEF IInv
  <1> QED BY <1>1, Invariance, PTL

(* No trap comes between the halves of an AMO (riscv_cpu.v 467-473).       *)
THEOREM AmoNotTorn == Spec => []AmoIsWhole
  <1>1. IInv => AmoIsWhole
    BY DEF IInv
  <1> QED BY <1>1, Invariance, PTL

(* Traps are precise in every program in which no MRET or SRET stands in   *)
(* EX while a page fault is taken (riscv_cpu.v 491-493 and 791-793).       *)
THEOREM TrapsArePrecise ==
  ASSUME "ret" \notin Stale \cup Exposed
  PROVE  Spec => PreciseTraps
  <1>1. ASSUME IInv, NEW i \in Inputs, Cycle(i), trap'
        PROVE  epc' = IF retired' THEN exmem.next ELSE arch
    <2>0. trap_taken(i) /\ (retired' <=> retires(i))
      BY <1>1 DEF Cycle, History
    <2>1. CASE mem_stage_page_fault_taken(i)
      <3>1. InMem /\ ~retires(i) /\ exmem.pc = arch
        BY <1>1, <2>1 DEF mem_stage_page_fault_taken, mem_access, MemKind, IInv, InOrder, InMem, retires
      <3>2. ~ret_instruction(i)
        BY <1>1, <2>1 DEF Cycle, Discipline, ret_instruction
      <3>3. ~interrupt_taken_qualified(i)
        BY <2>1 DEF interrupt_taken_qualified, interrupt_pending
      <3> QED BY <1>1, <2>0, <2>1, <3>1, <3>2, <3>3 DEF Cycle, Epc
    <2>2. CASE ~mem_stage_page_fault_taken(i)
      <3>1. ex_stage_active(i)
        BY <2>0, <2>2 DEF trap_taken, instr_stage_page_fault_taken, interrupt_taken_qualified,
                          synchronous_exception, Executes
      <3>2. retires(i) <=> InMem
        BY <1>1, <2>2, <3>1, ActiveFacts DEF IInv
      <3>3. CASE interrupt_taken_qualified(i)
        <4>1. interrupt_pc = AfterMem
          BY <1>1 DEF interrupt_pc, IInv, InOrder, AfterEx, AfterId
        <4> QED BY <1>1, <2>0, <3>2, <3>3, <4>1 DEF Cycle, Epc, AfterMem
      <3>4. CASE ~interrupt_taken_qualified(i)
        <4>1. instr_stage_page_fault_taken(i) \/ synchronous_exception(i)
          BY <2>0, <2>2, <3>4 DEF trap_taken
        <4>2. idex # None /\ ~ret_instruction(i)
          BY <1>1, <4>1 DEF instr_stage_page_fault_taken, synchronous_exception, ret_instruction,
                            Executes, IInv, FaultIsStale
        <4>3. idex.pc = AfterMem
          BY <1>1, <4>2 DEF IInv, InOrder
        <4> QED BY <1>1, <2>0, <2>2, <3>2, <3>4, <4>1, <4>2, <4>3 DEF Cycle, Epc, AfterMem
      <3> QED BY <3>3, <3>4
    <2> QED BY <2>1, <2>2
  <1>2. IInv /\ [Next]_vars => [trap' => epc' = (IF retired' THEN exmem.next ELSE arch)]_vars
    BY <1>1 DEF Next
  <1> QED BY <1>2, Invariance, PTL DEF Spec, PreciseTraps

\* Asleep, MEM holds the WFI or nothing at all.
SleepInv == wfi_active => IF exmem = None THEN waited ELSE exmem.kind = "wfi"

(* The core sleeps only on a WFI that retires, in every program in which   *)
(* no WFI stands in EX while a page fault is taken (riscv_cpu.v 461-465).  *)
THEOREM SleepIsEarned ==
  ASSUME "wfi" \notin Stale \cup Exposed
  PROVE  Spec => []SleepsAfterWfi
  <1>1. Init => SleepInv
    BY DEF Init, SleepInv
  <1>2. ASSUME IInv, SleepInv, NEW i \in Inputs, Cycle(i), wfi_active'
        PROVE  IF exmem' = None THEN waited' ELSE exmem'.kind = "wfi"
    <2>0. ~i.wake /\ ~i.irq /\ (wfi_active \/ wfi_instruction(i))
      BY <1>2, InputFacts DEF Cycle, Sleep
    <2>1. CASE wfi_active
      <3>1. idex = None /\ ifid = None
        BY <1>2, <2>1 DEF IInv, Asleep
      <3>2. exmem # None => exmem.kind = "wfi" /\ ~exmem.copy
        BY <1>2, <2>1 DEF SleepInv, IInv, InOrder
      <3>3. ~mem_access
        BY <3>2 DEF mem_access, MemKind
      <3>4. ~mem_wait(i) /\ ~mem_stage_page_fault_taken(i)
        BY <3>3 DEF mem_wait, mem_stage_page_fault_taken
      <3>5. ~trap_taken(i)
        BY <2>0, <3>1, <3>4 DEF trap_taken, instr_stage_page_fault_taken, interrupt_taken_qualified,
                                interrupt_pending, synchronous_exception, Executes
      <3>6. exmem' = None
        BY <1>2, <3>1, <3>4, <3>5 DEF Cycle, EX_MEM, Left
      <3>7. waited'
        BY <1>2, <2>1, <3>2, <3>4, <3>5 DEF Cycle, History, retires, SleepInv
      <3> QED BY <3>6, <3>7
    <2>2. CASE wfi_instruction(i)
      <3>1. idex # None /\ idex.kind = "wfi" /\ ex_stage_active(i) /\ Executes(i, "wfi")
        BY <2>2 DEF wfi_instruction, Executes
      <3>2. ~mem_stage_page_fault_taken(i) /\ ~instr_stage_page_fault_taken(i)
        BY <1>2, <3>1 DEF Cycle, Discipline, instr_stage_page_fault_taken, IInv, FaultIsStale
      <3>3. ~trap_taken(i)
        BY <2>0, <3>1, <3>2 DEF trap_taken, interrupt_taken_qualified, synchronous_exception, Executes
      <3>4. exmem' = Left(i)
        BY <1>2, <3>1, <3>3 DEF Cycle, EX_MEM, ex_stage_active
      <3> QED BY <1>2, <3>1, <3>4, LeftFacts DEF IInv
    <2> QED BY <2>0, <2>1, <2>2
  <1>3. IInv /\ SleepInv /\ [Next]_vars => SleepInv'
    <2>1. ASSUME IInv, SleepInv, Next PROVE SleepInv'
      BY <2>1, <1>2 DEF Next, SleepInv
    <2>2. ASSUME SleepInv, UNCHANGED vars PROVE SleepInv'
      BY <2>2 DEF SleepInv, vars
    <2> QED BY <2>1, <2>2
  <1>4. IInv /\ SleepInv => SleepsAfterWfi
    BY DEF IInv, SleepInv, Asleep, SleepsAfterWfi
  <1> QED BY <1>1, <1>3, <1>4, Invariance, PTL DEF Spec
=============================================================================
