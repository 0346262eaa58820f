------------------------------ MODULE Pipeline ------------------------------
(***************************************************************************)
(* The control of the five-stage pipeline: rtl/riscv_cpu.v, the pipeline   *)
(* registers of rtl/pipeline_stages, the redirects of                      *)
(* rtl/execution_unit.v and the order in which csr_file.v serves the trap  *)
(* requests.  One step is one clock edge.                                  *)
(*                                                                         *)
(* An instruction is its PC and its kind; the program is abstracted, so    *)
(* the word at a PC may be of any kind each time it is fetched.  Data is   *)
(* left out, and so is the mode that takes a trap: epc stands for mepc or  *)
(* sepc, Vector for mtvec or stvec.  Inputs of a cycle, in record i:       *)
(*   fetch    the instruction that arrives, or None (fetch_wait)           *)
(*   mem      what the access in MEM meets: "wait", "done" or "fault"      *)
(*   hazard   the instruction in ID needs the result of a load in EX       *)
(*   drained  nothing holds back a FENCE or FENCE.I in EX                  *)
(*   irq      interrupt_pending: an interrupt that the mode lets through   *)
(*   wake     wfi_resume_pending: an interrupt that mie lets through       *)
(*   value    the target of a taken branch, or the value that a CSR        *)
(*            instruction writes to epc; None if neither                   *)
(***************************************************************************)
EXTENDS Naturals

CONSTANTS PC, Succ,        \* instruction addresses, and the one after each
          Reset, Vector,   \* the reset and the trap address
          Kind,            \* the kinds of instructions the program has
          Stale,           \* the kinds of the stale word that comes with a fetch page fault
          Exposed,         \* which of MRET/SRET and WFI may be in EX when MEM faults
          None

\* "trigger" is an instruction that an execute trigger stops; "exc" any other
\* with an exception of its own: ECALL, EBREAK, an illegal or misaligned one,
\* a load or store trigger; "serial" one that is refetched behind: a CSR write
\* or SFENCE.VMA; "ret" a legal MRET or SRET.  An SC that fails is "alu".
AllKinds == {"alu", "load", "store", "amo", "branch", "serial", "fence", "fence_i", "trigger", "exc",
             "ret", "wfi"}
MemKind == {"load", "store", "amo"}
LoadKind == {"load", "amo"}

Fetched == [kind : Kind, pf : {FALSE}] \cup [kind : Stale, pf : {TRUE}]
Instr == [pc : PC, kind : Kind, pf : BOOLEAN]
MemInstr == [pc : PC, kind : Kind, next : PC, copy : BOOLEAN]

ASSUME PipelineAssumption ==
  /\ Reset \in PC /\ Vector \in PC
  /\ None \notin PC \cup Fetched \cup Instr \cup MemInstr
  /\ Succ \in [PC -> PC]
  /\ Kind \subseteq AllKinds /\ Stale \subseteq Kind /\ Exposed \subseteq {"ret", "wfi"}

VARIABLES pc,
          ifid, idex,       \* None (a bubble) or an instruction; pf: its fetch faulted
          exmem,            \* None, or an instruction with its successor; copy: it is still in EX
          wfi_active, amo_write_phase,
          epc,
          arch,             \* history: the instruction that must retire next
          waited,           \* history: what happened last is that a WFI retired
          retired, trap     \* observation: an instruction left MEM; a trap was taken

vars == <<pc, ifid, idex, exmem, wfi_active, amo_write_phase, epc, arch, waited, retired, trap>>

-----------------------------------------------------------------------------
(* Signals of riscv_cpu.v.                                                 *)
mem_access == exmem # None /\ exmem.kind \in MemKind
amo_read_phase == exmem # None /\ exmem.kind = "amo" /\ ~amo_write_phase

mem_stage_page_fault_taken(i) == mem_access /\ i.mem = "fault"

\* Outstanding until the answer; an AMO's read still leaves its write to issue.
mem_wait(i) == mem_access /\ ~(i.mem = "done" /\ ~amo_read_phase) /\ ~mem_stage_page_fault_taken(i)

fence_drain_stall(i) == idex # None /\ idex.kind \in {"fence", "fence_i"} /\ ~i.drained
\* Faulty variant: EX goes on while MEM waits.
ex_stage_active_Eager(i) == ~fence_drain_stall(i)
ex_stage_active(i) == ~mem_wait(i) /\ ~fence_drain_stall(i)

wfi_stall(i) == wfi_active /\ ~i.wake
pipeline_hold(i) == wfi_stall(i) \/ fence_drain_stall(i) \/ mem_wait(i)
pipeline_stall(i) == i.hazard \/ pipeline_hold(i)

-----------------------------------------------------------------------------
(* EX: what the instruction in it asks for.                                *)
\* An execute trigger goes before the page fault of the same fetch.
instr_stage_page_fault_taken(i) ==
  idex # None /\ idex.pf /\ idex.kind # "trigger" /\ ex_stage_active(i)

\* EX sees an interrupt only if no page fault is taken; it goes before the
\* instruction in EX.
interrupt_pending(i) == i.irq /\ ~mem_stage_page_fault_taken(i) /\ ~instr_stage_page_fault_taken(i)
interrupt_taken_qualified(i) == interrupt_pending(i) /\ ex_stage_active(i)

Executes(i, kind) == idex # None /\ idex.kind = kind /\ ex_stage_active(i) /\ ~interrupt_pending(i)
synchronous_exception(i) == Executes(i, "exc") \/ Executes(i, "trigger")
ret_instruction(i) == Executes(i, "ret")
\* Faulty variant: falls asleep while MEM waits.
wfi_instruction_Eager(i) == idex # None /\ idex.kind = "wfi" /\ ~interrupt_pending(i)
wfi_instruction(i) == Executes(i, "wfi")

\* Faulty variant: the PC of EX, valid or not.
interrupt_pc_Ex == IF idex # None THEN idex.pc ELSE pc
\* The oldest instruction that has not executed.
interrupt_pc == IF idex # None THEN idex.pc ELSE IF ifid # None THEN ifid.pc ELSE pc

\* jump_signal and jump_addr of the execution unit; it flushes whenever it jumps.
ex_jump(i) ==
  IF interrupt_taken_qualified(i) \/ synchronous_exception(i) THEN Vector
  ELSE IF Executes(i, "branch") THEN i.value
  ELSE IF ret_instruction(i) THEN epc
  ELSE IF \E k \in {"serial", "fence_i", "wfi"} : Executes(i, k) THEN Succ[idex.pc]
  ELSE None

trap_taken(i) == \/ mem_stage_page_fault_taken(i) \/ instr_stage_page_fault_taken(i)
                 \/ interrupt_taken_qualified(i) \/ synchronous_exception(i)

\* Priority: MEM page fault, then fetch page fault, then EX.
redirect(i) ==
  IF mem_stage_page_fault_taken(i) \/ instr_stage_page_fault_taken(i) THEN Vector ELSE ex_jump(i)

-----------------------------------------------------------------------------
(* The registers at the edge.                                              *)
NextPc(i) == IF redirect(i) # None THEN redirect(i)
             ELSE IF pipeline_stall(i) \/ i.fetch = None THEN pc ELSE Succ[pc]

\* Faulty variant: a stalled IF/ID survives the redirect.
IF_ID_StallWins(i) ==
  ifid' = IF pipeline_stall(i) THEN ifid
          ELSE IF redirect(i) # None \/ i.fetch = None THEN None
          ELSE [pc |-> pc, kind |-> i.fetch.kind, pf |-> i.fetch.pf]
\* Flush beats stall; a fetch that has not arrived leaves a bubble.
IF_ID(i) ==
  ifid' = IF redirect(i) # None THEN None
          ELSE IF pipeline_stall(i) THEN ifid
          ELSE IF i.fetch = None THEN None
          ELSE [pc |-> pc, kind |-> i.fetch.kind, pf |-> i.fetch.pf]

\* Flush, hold, the bubble of a load-use stall, else what was decoded.
ID_EX(i) ==
  idex' = IF redirect(i) # None THEN None
          ELSE IF pipeline_hold(i) THEN idex
          ELSE IF i.hazard THEN None
          ELSE ifid

\* The instruction that leaves EX, or its copy while EX holds it back.
Left(i) == IF idex = None THEN None
           ELSE [pc |-> idex.pc, kind |-> idex.kind, copy |-> pipeline_hold(i),
                 next |-> IF ex_jump(i) # None THEN ex_jump(i) ELSE Succ[idex.pc]]
\* A trap cancels the instruction in EX; held only while MEM waits.
EX_MEM(i) == exmem' = IF trap_taken(i) THEN None
                      ELSE IF mem_wait(i) THEN exmem
                      ELSE Left(i)

\* csr_file.v: interrupt, then MRET and SRET, then exceptions (the oldest
\* first), then a CSR write.
Epc(i) == epc' = IF interrupt_taken_qualified(i) THEN interrupt_pc
                 ELSE IF ret_instruction(i) THEN epc
                 ELSE IF mem_stage_page_fault_taken(i) THEN exmem.pc
                 ELSE IF instr_stage_page_fault_taken(i) \/ synchronous_exception(i) THEN idex.pc
                 ELSE IF Executes(i, "serial") /\ i.value # None THEN i.value
                 ELSE epc

\* Waking up beats falling asleep.
Sleep(i) == wfi_active' = (~i.wake /\ (wfi_active \/ wfi_instruction(i)))

\* Faulty variant: the answer to the read does not start the write.
AmoPhase_Stuck(i) == amo_write_phase' = (amo_write_phase /\ i.mem # "done")
AmoPhase(i) ==
  amo_write_phase' = IF amo_read_phase /\ i.mem = "done" THEN TRUE
                     ELSE IF amo_write_phase /\ i.mem = "done" THEN FALSE
                     ELSE amo_write_phase

-----------------------------------------------------------------------------
\* An instruction retires when it leaves MEM without a fault.
retires(i) == exmem # None /\ ~exmem.copy /\ ~mem_wait(i) /\ ~mem_stage_page_fault_taken(i)

History(i) ==
  /\ retired' = retires(i) /\ trap' = trap_taken(i)
  /\ arch' = IF trap_taken(i) THEN Vector ELSE IF retires(i) THEN exmem.next ELSE arch
  /\ waited' = (~trap_taken(i) /\ (IF retires(i) THEN exmem.kind = "wfi" ELSE waited))

Init ==
  /\ pc = Reset /\ ifid = None /\ idex = None /\ exmem = None
  /\ wfi_active = FALSE /\ amo_write_phase = FALSE
  /\ epc \in PC
  /\ arch = Reset /\ waited = FALSE /\ retired = FALSE /\ trap = FALSE

\* The inputs that can meet a state, but for the fetch: the write half of an AMO
\* translates like its read half; an interrupt that the mode lets through
\* wakes a WFI too.  A wake-up or a fetch that the cycle does not read is left out.
Sleeper == wfi_active \/ (idex # None /\ idex.kind = "wfi")
StageInputs ==
  {i \in [fetch : {None},
          mem : IF ~mem_access THEN {"wait"}
                ELSE {"wait", "done"} \cup (IF amo_write_phase THEN {} ELSE {"fault"}),
          hazard : IF ifid # None /\ idex # None /\ idex.kind \in LoadKind THEN BOOLEAN ELSE {FALSE},
          drained : IF idex # None /\ idex.kind \in {"fence", "fence_i"} THEN BOOLEAN ELSE {TRUE},
          irq : BOOLEAN, wake : BOOLEAN,
          value : IF idex # None /\ idex.kind \in {"branch", "serial"} THEN PC \cup {None} ELSE {None}] :
     /\ i.irq => i.wake
     /\ ~Sleeper => i.wake = i.irq}
NeedsFetch(i) == ~pipeline_stall(i) /\ redirect(i) = None
Inputs == UNION {{[i EXCEPT !.fetch = f] : f \in IF NeedsFetch(i) THEN Fetched \cup {None} ELSE {None}} :
                 i \in StageInputs}

\* Programs in which an access that faults is not followed at once by an
\* MRET, SRET or WFI outside Exposed.
Discipline(i) ==
  mem_stage_page_fault_taken(i) => \A kind \in {"ret", "wfi"} \ Exposed : ~Executes(i, kind)

Cycle(i) ==
  /\ Discipline(i)
  /\ pc' = NextPc(i)
  /\ IF_ID(i) /\ ID_EX(i) /\ EX_MEM(i)
  /\ Epc(i) /\ Sleep(i) /\ AmoPhase(i)
  /\ History(i)

Next == \E i \in Inputs : Cycle(i)

Spec == Init /\ [][Next]_vars

-----------------------------------------------------------------------------
(* Types.                                                                  *)
TypeOK ==
  /\ pc \in PC /\ arch \in PC /\ epc \in PC
  /\ ifid \in Instr \cup {None} /\ idex \in Instr \cup {None}
  /\ exmem \in MemInstr \cup {None}
  /\ wfi_active \in BOOLEAN /\ amo_write_phase \in BOOLEAN
  /\ waited \in BOOLEAN /\ retired \in BOOLEAN /\ trap \in BOOLEAN

\* Where the program goes on behind MEM, and behind EX.
InMem == exmem # None /\ ~exmem.copy
AfterMem == IF InMem THEN exmem.next ELSE arch
AfterEx == IF idex # None THEN Succ[idex.pc] ELSE AfterMem
AfterId == IF ifid # None THEN Succ[ifid.pc] ELSE AfterEx

\* The stages hold consecutive instructions of the program, none lost, repeated
\* or left over from before a redirect: MEM holds the one that must retire
\* next, each stage the successor of the stage before, the PC the one after
\* (riscv_cpu.v: what flush, hold, stall and bubbles do to the registers in
\* every order).  Only a fence that drains is in two stages at once.
InOrder ==
  /\ InMem => exmem.pc = arch
  /\ idex # None => idex.pc = AfterMem
  /\ ifid # None => ifid.pc = AfterEx
  /\ pc = AfterId
  /\ exmem # None /\ exmem.copy => exmem.kind \in {"fence", "fence_i"}

\* A trap records the oldest instruction that has not retired: what is behind
\* it has retired, it and what follows have not, whichever stage asks for the
\* trap and whatever the other stages ask for in that cycle (riscv_cpu.v
\* 491-493 and 791-793, csr_file.v's order).
PreciseTraps == [][trap' => epc' = (IF retired' THEN exmem.next ELSE arch)]_vars

\* No trap or redirect comes between the two halves of an AMO: the write half
\* belongs to the AMO that is in MEM (riscv_cpu.v 467-473).
AmoIsWhole == amo_write_phase => exmem # None /\ exmem.kind = "amo"

\* The core sleeps only on a WFI that retired or is about to, with nothing
\* in the stages before it (riscv_cpu.v 385-397, 461-465).
SleepsAfterWfi ==
  wfi_active => /\ idex = None /\ ifid = None
                /\ \/ exmem # None /\ exmem.kind = "wfi"
                   \/ waited

\* As long as memory answers, drains and delivers, instructions retire or
\* traps are taken for ever, unless the core sleeps.
Progress == []<>(retired \/ trap \/ wfi_active)
=============================================================================
