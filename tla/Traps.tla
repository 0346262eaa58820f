-------------------------------- MODULE Traps --------------------------------
(***************************************************************************)
(* Modes, traps and interrupts: csr_file.v (the privilege mode, the trap   *)
(* stack in mstatus, mip with its software bits, CSR writes), csr_exec.v,  *)
(* interrupt_controller.v, the exceptions and delegation of                *)
(* execution_unit.v and what riscv_cpu.v makes of them.  One step is one   *)
(* clock edge.                                                             *)
(*                                                                         *)
(* Of the pipeline this module keeps whether EX is empty because the last  *)
(* cycle redirected the fetch, and which access is in MEM; PCs and the     *)
(* saved ones are in Pipeline.  A trap vector is the mode it belongs to.   *)
(* MPRV, SUM and MXR only matter to the MMU; TVM, TW, TSR and the counter  *)
(* enables only make instructions illegal, like [op |-> "raise"].  The     *)
(* four triggers are one.  Inputs of a cycle are the interrupt lines of    *)
(* CLINT and PLIC that are high and, in record i:                          *)
(*   instr   the instruction in EX, or None                                *)
(*   pf      its fetch met a page fault, and its word is a stale one       *)
(*   hit     "exec" or "data": its PC or its data address matches tdata2   *)
(*   hold    it is a fence that still drains                               *)
(*   mem     what the access in MEM meets: "wait", "done" or "fault"       *)
(***************************************************************************)
EXTENDS Naturals

CONSTANTS Program,   \* the instructions that may be in EX
          Stale,     \* the stale words that come with a fetch page fault
          Lines,     \* the interrupt lines of CLINT and PLIC in use
          None

U == 0
S == 1
M == 3
Mode == 0 .. 3        \* a two-bit register; 2 is reserved

\* The interrupts, from the highest to the lowest priority within a mode.
Priority == <<"MEI", "MSI", "MTI", "SEI", "SSI", "STI">>
Ints == {Priority[k] : k \in DOMAIN Priority}
SInts == {"SEI", "SSI", "STI"}      \* S_INTERRUPT_MASK

\* The exceptions: those that an instruction raises by itself, and the others.
Raised == {"instr_misaligned", "illegal", "breakpoint", "load_misaligned", "store_misaligned"}
Causes == Raised \cup {"ecall_u", "ecall_s", "ecall_m", "instr_pf", "load_pf", "store_pf"}
Status == [sie : BOOLEAN, spie : BOOLEAN, spp : BOOLEAN, mie : BOOLEAN, mpie : BOOLEAN, mpp : Mode]
Csrs == {"mstatus", "sstatus", "medeleg", "mideleg", "mie", "sie", "mip", "sip", "tdata1"}

ASSUME TrapsAssumption ==
  /\ Stale \subseteq Program /\ Lines \subseteq {"MEI", "MSI", "MTI", "SEI"}
  /\ None \notin Program /\ None \notin Causes
  /\ \A p \in Program :
       /\ p.op = "csr" => p.csr \in Csrs /\ p.how \in {"w", "s", "c"}
       /\ p.op = "csr" /\ p.csr \in {"mstatus", "sstatus"} => p.arg \in Status
       /\ p.op = "csr" /\ p.csr = "medeleg" => p.arg \subseteq Causes
       /\ p.op = "raise" => p.cause \in Raised
       /\ p.op = "access" => p.cause \in {"load_pf", "store_pf"}

VARIABLES privilege_mode,
          mstatus,          \* the fields sie, spie, spp, mie, mpie, mpp
          medeleg, mideleg, mie, mip,
          software_pending, \* ssip_, stip_ and seip_software_pending
          trigger_modes,    \* the m, s and u bits of tdata1
          refill,           \* EX is empty: the last cycle redirected the fetch
          mem,              \* the page fault the access in MEM would raise, or None
          saved,            \* history: what the last trap to S and to M interrupted, till it
                            \* returns or software rewrites the status
          asked,            \* history: the software interrupts the program asked for
          event             \* observation: the trap or return of this cycle, or None

csrs == <<privilege_mode, mstatus, medeleg, mideleg, mie, software_pending, trigger_modes>>
vars == <<csrs, mip, refill, mem, saved, asked, event>>

-----------------------------------------------------------------------------
(* interrupt_controller.v                                                  *)
m_interrupts_enabled == privilege_mode # M \/ mstatus.mie
s_interrupts_enabled == privilege_mode = U \/ (privilege_mode = S /\ mstatus.sie)

Highest(ints) == Priority[CHOOSE k \in DOMAIN Priority :
                            /\ Priority[k] \in ints
                            /\ \A j \in 1 .. k - 1 : Priority[j] \notin ints]

to_M == IF m_interrupts_enabled THEN (mip \cap mie) \ (SInts \cap mideleg) ELSE {}
to_S == IF s_interrupts_enabled THEN mip \cap mie \cap SInts \cap mideleg ELSE {}

\* The interrupts of M go before those of S.
interrupt_to == IF to_M # {} THEN M ELSE S
interrupt_cause == Highest(IF to_M # {} THEN to_M ELSE to_S)

-----------------------------------------------------------------------------
(* The pipeline around EX, riscv_cpu.v                                     *)
mem_stage_page_fault_taken(i) == mem # None /\ i.mem = "fault"
mem_wait(i) == mem # None /\ i.mem = "wait"
ex_stage_active(i) == ~mem_wait(i) /\ ~i.hold

\* Faulty variant: a trigger also fires while its mode's interrupts are off.
trigger_enabled_Always == (IF privilege_mode = 2 THEN U ELSE privilege_mode) \in trigger_modes
\* A trigger fires only in its modes, and not where its handler would meet it.
trigger_enabled ==
  CASE privilege_mode = M -> M \in trigger_modes /\ mstatus.mie
    [] privilege_mode = S -> S \in trigger_modes /\ ("breakpoint" \in medeleg => mstatus.sie)
    [] OTHER              -> U \in trigger_modes

execute_trigger_hit(i) == ex_stage_active(i) /\ i.instr # None /\ i.hit = "exec" /\ trigger_enabled

instr_stage_page_fault_taken(i) ==
  i.instr # None /\ i.pf /\ ex_stage_active(i) /\ ~execute_trigger_hit(i)

\* The interrupt that EX sees: a page fault goes before it.
interrupt_pending(i) == /\ to_M \cup to_S # {}
                        /\ ~mem_stage_page_fault_taken(i) /\ ~instr_stage_page_fault_taken(i)
interrupt_taken(i) == interrupt_pending(i) /\ ex_stage_active(i)
Executes(i) == i.instr # None /\ ex_stage_active(i) /\ ~interrupt_pending(i)

-----------------------------------------------------------------------------
(* The exceptions of EX, execution_unit.v                                  *)
ecall_cause == CASE privilege_mode = U -> "ecall_u" [] privilege_mode = S -> "ecall_s" [] OTHER -> "ecall_m"

\* The lowest mode that may access a CSR, csr_addr[9:8].
Level(csr) == IF csr \in {"sstatus", "sie", "sip"} THEN S ELSE M

\* Faulty variant: only user mode is kept out.
csr_privilege_violation_User(instr) == privilege_mode = U
csr_privilege_violation(instr) == privilege_mode < Level(instr.csr)

data_access(instr) == \/ instr.op = "access"
                      \/ instr.op = "raise" /\ instr.cause \in {"load_misaligned", "store_misaligned"}
data_trigger_hit(i) == i.hit = "data" /\ data_access(i.instr) /\ trigger_enabled

trigger_hit(i) == execute_trigger_hit(i) \/ data_trigger_hit(i)

\* The exception the instruction raises, or None; a trigger fires before the rest.
ex_exception(i) ==
  IF ~Executes(i) THEN None
  ELSE IF trigger_hit(i) THEN "breakpoint"
  ELSE CASE i.instr.op = "raise" -> i.instr.cause
         [] i.instr.op = "ecall" -> ecall_cause
         [] \/ i.instr.op = "mret" /\ privilege_mode # M
            \/ i.instr.op = "sret" /\ privilege_mode < S
            \/ i.instr.op = "csr" /\ csr_privilege_violation(i.instr) -> "illegal"
         [] OTHER -> None
Completes(i, op) == Executes(i) /\ i.instr.op = op /\ ex_exception(i) = None

delegated(cause) == /\ privilege_mode # M /\ cause \in medeleg
                    /\ cause # "ecall_m"

-----------------------------------------------------------------------------
(* Who takes the trap: three choices that have to agree.                   *)
synchronous_exception(i) == \/ mem_stage_page_fault_taken(i) \/ instr_stage_page_fault_taken(i)
                            \/ ex_exception(i) # None

\* Faulty variant: what EX raises goes before the older fault in MEM.
exception_cause_Youngest(i) == IF ex_exception(i) # None THEN ex_exception(i)
                               ELSE IF mem_stage_page_fault_taken(i) THEN mem
                               ELSE "instr_pf"
\* csr_file.v: the cause recorded, that of the oldest instruction.
exception_cause(i) == IF mem_stage_page_fault_taken(i) THEN mem
                      ELSE IF instr_stage_page_fault_taken(i) THEN "instr_pf"
                      ELSE ex_exception(i)

\* riscv_cpu.v: whether S takes the exception.
csr_trap_to_supervisor(i) ==
  IF mem_stage_page_fault_taken(i) THEN delegated(mem)
  ELSE IF instr_stage_page_fault_taken(i) THEN delegated("instr_pf")
  ELSE ex_exception(i) # None /\ delegated(ex_exception(i))

\* riscv_cpu.v and execution_unit.v: the vector that the fetch is sent to.
jump_mode(i) ==
  IF mem_stage_page_fault_taken(i) THEN (IF delegated(mem) THEN S ELSE M)
  ELSE IF instr_stage_page_fault_taken(i) THEN (IF delegated("instr_pf") THEN S ELSE M)
  ELSE IF interrupt_taken(i) THEN interrupt_to
  ELSE IF delegated(ex_exception(i)) THEN S ELSE M

-----------------------------------------------------------------------------
(* CSR instructions, csr_exec.v and csr_file.v                             *)
\* Faulty variant: csrrs and csrrc modify mip as it is read.
rmw_data_AsRead(csr) == CASE csr = "mip" -> mip [] csr = "sip" -> mip \cap SInts
                          [] csr = "mie" -> mie [] csr = "sie" -> mie \cap SInts
                          [] csr = "medeleg" -> medeleg [] csr = "mideleg" -> mideleg
                          [] csr = "tdata1" -> trigger_modes
\* The value csrrs and csrrc modify: of mip.SEIP only the software bit.
rmw_data(csr) == CASE csr = "mip" -> (mip \ {"SEI"}) \cup (software_pending \cap {"SEI"})
                   [] csr = "sip" -> mip \cap SInts
                   [] csr = "mie" -> mie [] csr = "sie" -> mie \cap SInts
                   [] csr = "medeleg" -> medeleg [] csr = "mideleg" -> mideleg
                   [] csr = "tdata1" -> trigger_modes

\* csrrw, csrrs and csrrc.
Applied(instr, old) == CASE instr.how = "w" -> instr.arg
                         [] instr.how = "s" -> old \cup instr.arg
                         [] instr.how = "c" -> old \ instr.arg
csr_write_data(instr) == Applied(instr, rmw_data(instr.csr))

\* The fields of mstatus that sstatus shows.
Sstatus(v) == [mstatus EXCEPT !.sie = v.sie, !.spie = v.spie, !.spp = v.spp]

\* How much of mip software may set through mip and through sip.
Settable(csr) == IF csr = "mip" THEN SInts ELSE {"SSI"}
Set(pending, csr, v) == (pending \ Settable(csr)) \cup (v \cap Settable(csr))

\* A status is written with any value the program computes; the others are
\* sets of bits.
CsrWrite(instr) ==
  LET csr == instr.csr IN
  /\ mstatus' = CASE csr = "mstatus" -> instr.arg [] csr = "sstatus" -> Sstatus(instr.arg) [] OTHER -> mstatus
  /\ medeleg' = IF csr = "medeleg" THEN csr_write_data(instr) ELSE medeleg
  /\ mideleg' = IF csr = "mideleg" THEN csr_write_data(instr) ELSE mideleg
  /\ mie' = CASE csr = "mie" -> csr_write_data(instr)
              [] csr = "sie" -> (mie \ SInts) \cup (csr_write_data(instr) \cap SInts)
              [] OTHER       -> mie
  /\ software_pending' = IF csr \in {"mip", "sip"}
                           THEN Set(software_pending, csr, csr_write_data(instr))
                           ELSE software_pending
  /\ trigger_modes' = IF csr = "tdata1" THEN csr_write_data(instr) ELSE trigger_modes
  /\ privilege_mode' = privilege_mode

-----------------------------------------------------------------------------
(* The trap stack, csr_file.v                                              *)
PushS == [mstatus EXCEPT !.sie = FALSE, !.spie = mstatus.sie, !.spp = (privilege_mode = S)]
PushM == [mstatus EXCEPT !.mie = FALSE, !.mpie = mstatus.mie, !.mpp = privilege_mode]

TrapTo(mode) ==
  /\ mstatus' = IF mode = S THEN PushS ELSE PushM
  /\ privilege_mode' = mode
  /\ UNCHANGED <<medeleg, mideleg, mie, software_pending, trigger_modes>>

\* Faulty variant: MRET enables interrupts.
Mret_Enables == /\ mstatus' = [mstatus EXCEPT !.mie = TRUE, !.mpie = TRUE, !.mpp = U]
                /\ privilege_mode' = mstatus.mpp
                /\ UNCHANGED <<medeleg, mideleg, mie, software_pending, trigger_modes>>
Mret == /\ mstatus' = [mstatus EXCEPT !.mie = mstatus.mpie, !.mpie = TRUE, !.mpp = U]
        /\ privilege_mode' = mstatus.mpp
        /\ UNCHANGED <<medeleg, mideleg, mie, software_pending, trigger_modes>>
Sret == /\ mstatus' = [mstatus EXCEPT !.sie = mstatus.spie, !.spie = TRUE, !.spp = FALSE]
        /\ privilege_mode' = IF mstatus.spp THEN S ELSE U
        /\ UNCHANGED <<medeleg, mideleg, mie, software_pending, trigger_modes>>

\* The requests of a cycle in the order in which they are served.
Serve(i) ==
  IF interrupt_taken(i) THEN TrapTo(interrupt_to)
  ELSE IF Completes(i, "mret") THEN Mret
  ELSE IF Completes(i, "sret") THEN Sret
  ELSE IF synchronous_exception(i) THEN TrapTo(IF csr_trap_to_supervisor(i) THEN S ELSE M)
  ELSE IF Completes(i, "csr") THEN CsrWrite(i.instr)
  ELSE UNCHANGED csrs

\* mip follows the software bits and the lines a cycle late.
Mip(lines) == mip' = software_pending \cup lines

\* Faulty variant: the fetch goes on behind a CSR write.
redirect_NoCsr(i) == \/ interrupt_taken(i) \/ synchronous_exception(i)
                     \/ Completes(i, "mret") \/ Completes(i, "sret")
\* A trap, a return and a CSR write send the fetch elsewhere and flush IF/ID and ID/EX.
redirect(i) == \/ interrupt_taken(i) \/ synchronous_exception(i)
               \/ \E op \in {"mret", "sret", "csr"} : Completes(i, op)

MemStage(i) == mem' = IF interrupt_taken(i) \/ synchronous_exception(i) THEN None
                      ELSE IF mem_wait(i) THEN mem
                      ELSE IF Completes(i, "access") THEN i.instr.cause
                      ELSE None

-----------------------------------------------------------------------------
(* Histories.                                                              *)
Interrupted(mode) == [mode |-> privilege_mode, ie |-> IF mode = S THEN mstatus.sie ELSE mstatus.mie]

Saved(i) ==
  saved' = IF interrupt_taken(i) THEN [saved EXCEPT ![interrupt_to] = Interrupted(interrupt_to)]
           ELSE IF synchronous_exception(i) THEN [saved EXCEPT ![privilege_mode'] = Interrupted(privilege_mode')]
           ELSE IF Completes(i, "mret") THEN [saved EXCEPT ![M] = None]
           ELSE IF Completes(i, "sret") THEN [saved EXCEPT ![S] = None]
           ELSE IF Completes(i, "csr") /\ i.instr.csr = "sstatus" THEN [saved EXCEPT ![S] = None]
           ELSE IF Completes(i, "csr") /\ i.instr.csr = "mstatus" THEN [mode \in {S, M} |-> None]
           ELSE saved

\* What the program means by an instruction that writes mip or sip, whatever
\* the bits read.
Asked(i) == asked' = IF Completes(i, "csr") /\ ~synchronous_exception(i) /\ i.instr.csr \in {"mip", "sip"}
                       THEN Set(asked, i.instr.csr, Applied(i.instr, asked))
                       ELSE asked

Event(i) ==
  event' = IF interrupt_taken(i) THEN [kind |-> "interrupt", cause |-> interrupt_cause, vector |-> jump_mode(i)]
           ELSE IF synchronous_exception(i)
             THEN [kind |-> IF exception_cause(i) = "breakpoint" /\ trigger_hit(i) THEN "trigger" ELSE "exception",
                   cause |-> exception_cause(i), vector |-> jump_mode(i)]
           ELSE IF Completes(i, "mret") THEN [kind |-> "mret"]
           ELSE IF Completes(i, "sret") THEN [kind |-> "sret"]
           ELSE None

-----------------------------------------------------------------------------
Init ==
  /\ privilege_mode = M
  /\ mstatus = [sie |-> FALSE, spie |-> FALSE, spp |-> FALSE, mie |-> FALSE, mpie |-> FALSE, mpp |-> M]
  /\ medeleg = {} /\ mideleg = {} /\ mie = {} /\ mip = {} /\ software_pending = {} /\ trigger_modes = {}
  /\ refill = TRUE /\ mem = None
  /\ saved = [mode \in {S, M} |-> None] /\ asked = {} /\ event = None

\* The inputs that can meet a state, but for the lines.  What EX holds is left
\* out of the cycles that do not look at it.
Hits(instr) == {"none"} \cup (IF ~trigger_enabled THEN {} ELSE {"exec"} \cup (IF data_access(instr) THEN {"data"} ELSE {}))
InEx(instr) == [instr : {instr}, hit : Hits(instr),
                pf : IF instr \in Stale THEN BOOLEAN ELSE {FALSE},
                hold : IF instr.op = "fence" THEN BOOLEAN ELSE {FALSE},
                mem : IF mem = None THEN {"done"} ELSE {"done", "fault"}]
Empty == [instr : {None}, hit : {"none"}, pf : {FALSE}, hold : {FALSE},
          mem : IF mem = None THEN {"done"} ELSE {"wait", "done", "fault"}]
Inputs == Empty \cup (IF refill THEN {}
                      ELSE {i \in UNION {InEx(instr) : instr \in Program} : ~interrupt_taken(i)})

\* Programs in which no MRET or SRET is in EX when a page fault is taken;
\* Pipeline shows what happens then.
Discipline(i) ==
  mem_stage_page_fault_taken(i) \/ instr_stage_page_fault_taken(i) => ~Completes(i, "mret") /\ ~Completes(i, "sret")

Cycle(i, lines) ==
  /\ Discipline(i)
  /\ Serve(i) /\ Mip(lines) /\ MemStage(i)
  /\ refill' = redirect(i)
  /\ Saved(i) /\ Asked(i) /\ Event(i)

Next == \E i \in Inputs, lines \in SUBSET Lines : Cycle(i, lines)

Spec == Init /\ [][Next]_vars

-----------------------------------------------------------------------------
Interruption == [mode : Mode, ie : BOOLEAN]

\* Every register holds a value of its width.
TypeOK ==
  /\ privilege_mode \in Mode /\ mstatus \in Status
  /\ software_pending \subseteq SInts
  /\ refill \in BOOLEAN /\ mem \in {"load_pf", "store_pf", None}
  /\ saved \in [{S, M} -> Interruption \cup {None}]

Happens(kinds) == event' # None /\ event'.kind \in kinds

\* The cause that is recorded, the mode that is entered and the vector that is
\* fetched from, each chosen by a multiplexer of its own among the requests of
\* EX, MEM and the interrupt controller, belong together: S takes exactly the
\* traps that are delegated and do not come from M, so no trap lowers the mode
\* (csr_file.v 217-230 and 325-384, riscv_cpu.v 74-77 and 775-796).
TrapsWhereTheyBelong ==
  [][Happens({"interrupt", "trigger", "exception"}) =>
       /\ event'.vector = privilege_mode' /\ privilege_mode' \in {S, M}
       /\ privilege_mode' = S <=>
            privilege_mode # M /\ event'.cause \in medeleg \cup (mideleg \cap SInts)]_vars

\* A return gives back the mode and the interrupt enable that the trap met,
\* whatever traps to the other mode, returns from it and CSR writes other than
\* to the status came between (the two stacks share mstatus).
ReturnRestores ==
  [][/\ Happens({"mret"}) /\ saved[M] # None =>
          privilege_mode' = saved[M].mode /\ mstatus'.mie = saved[M].ie
     /\ Happens({"sret"}) /\ saved[S] # None =>
          privilege_mode' = saved[S].mode /\ mstatus'.sie = saved[S].ie]_vars

\* A handler is not entered again from its own mode by an interrupt or by a
\* trigger, which nothing in it asked for, before it returned or changed the
\* status: the saved PC and cause are safe (riscv_cpu.v 347-371).
NoReentry ==
  [][Happens({"interrupt", "trigger"}) /\ privilege_mode' = privilege_mode =>
       saved[privilege_mode] = None]_vars

\* The software bits of mip are those the program asked for: no csrrs or csrrc
\* of one bit loses another that is not yet visible in mip, or latches a SEIP
\* that only the PLIC drives (csr_file.v 194, 318-323 and 412-417, csr_exec.v).
SoftwareBitsAsAsked == software_pending = asked

\* No software interrupt is taken that the program has taken back, although mip
\* still shows it for a cycle (csr_file.v 318-323).
NoStaleInterrupt ==
  [][Happens({"interrupt"}) /\ event'.cause \in {"SSI", "STI"} => event'.cause \in asked]_vars

\* Below M nothing but a trap to M changes what belongs to M: delegation, the
\* enables and software bits of M, its half of the status, the triggers
\* (execution_unit.v's access checks, csr_file.v's masks).
MachineStateProtected ==
  [][privilege_mode # M /\ privilege_mode' # M =>
       /\ UNCHANGED <<medeleg, mideleg, trigger_modes>>
       /\ mie' \ SInts = mie \ SInts
       /\ software_pending' \ {"SSI"} = software_pending \ {"SSI"}
       /\ mstatus'.mie = mstatus.mie /\ mstatus'.mpie = mstatus.mpie /\ mstatus'.mpp = mstatus.mpp]_vars
=============================================================================
