----------------------------- MODULE Reservation ----------------------------
(***************************************************************************)
(* rtl/core_modules/atomic_lsu.v: the reservation of LR and SC, with the   *)
(* part of riscv_cpu.v that holds the instruction in MEM until its access  *)
(* is answered.  One step is one clock edge.  Its inputs are the memory's  *)
(* grant and answer, a page fault, and the instruction that enters MEM     *)
(* next; instructions that do not touch memory are kind "none".  The       *)
(* arithmetic of the AMOs is left out.                                     *)
(***************************************************************************)
EXTENDS Naturals

CONSTANTS Cell   \* words of memory: an address is a word and the offset of a byte in it

Address == Cell \X {0, 1}
AccessKind == {"lr", "sc", "amo", "store", "load"}
Nothing == [kind |-> "none", addr |-> CHOOSE a \in Address : TRUE]

\* The halfword and byte accesses may have any offset, the word accesses trap in EX unless aligned.
Instruction == {Nothing} \cup {m \in [kind : AccessKind, addr : Address] :
                               m.kind \in {"lr", "sc", "amo"} => m.addr[2] = 0}

VARIABLES
  lr_valid, lr_addr,
  ex_mem,            \* the instruction in MEM
  amo_write_phase,
  granted,           \* its current access was performed, the answer is due
  link,              \* history: {the address} of the last LR if its word was not written since, else {}
  wrote,             \* history: the instruction in MEM has written memory
  before             \* history: the access that left MEM last, if it did not fault

lsuvars == <<lr_valid, lr_addr, ex_mem, amo_write_phase, granted, link, wrote, before>>

LsuInit ==
  /\ lr_valid = FALSE /\ lr_addr = Nothing.addr
  /\ ex_mem = Nothing /\ amo_write_phase = FALSE
  /\ granted = FALSE /\ link = {} /\ wrote = FALSE /\ before = Nothing

-----------------------------------------------------------------------------
is(kind) == ex_mem.kind = kind
aligned == ex_mem.addr[2] = 0

sc_success == is("sc") /\ aligned /\ lr_valid /\ lr_addr = ex_mem.addr
amo_read_phase == is("amo") /\ ~amo_write_phase
rd_en == is("load") \/ is("lr") \/ amo_read_phase
wr_en == sc_success \/ (is("amo") /\ amo_write_phase) \/ is("store")

mem_wait(rvalid, fault) == (rd_en \/ wr_en) /\ ~(rvalid /\ ~amo_read_phase) /\ ~fault

\* Faulty variant: the reservation does not wait for the access.
ReservationEdge_NoHold(hold) ==
  IF is("lr") /\ aligned THEN lr_valid' = TRUE /\ lr_addr' = ex_mem.addr
  ELSE /\ lr_valid' = (lr_valid /\ ~(is("sc") \/ is("amo") \/ (is("store") /\ ex_mem.addr[1] = lr_addr[1])))
       /\ UNCHANGED lr_addr
\* The two registers: every SC and AMO, and a store to the reserved word, ends the reservation.
ReservationEdge(hold) ==
  IF hold THEN UNCHANGED <<lr_valid, lr_addr>>
  ELSE IF is("lr") /\ aligned THEN lr_valid' = TRUE /\ lr_addr' = ex_mem.addr
  ELSE /\ lr_valid' = (lr_valid /\ ~(is("sc") \/ is("amo") \/ (is("store") /\ ex_mem.addr[1] = lr_addr[1])))
       /\ UNCHANGED lr_addr

\* The read of an AMO is answered: its write follows.
AmoPhaseEdge(rvalid) ==
  amo_write_phase' = IF amo_read_phase THEN rvalid ELSE amo_write_phase /\ ~rvalid

\* The memory (external) performs a request once, when it grants it.
Performed(gnt) == wrote \/ (gnt /\ wr_en)

\* One clock edge; next is the instruction that enters MEM if this one leaves.
LsuCycle(gnt, rvalid, fault, next) ==
  LET hold == mem_wait(rvalid, fault) IN
  /\ gnt => (rd_en \/ wr_en) /\ ~granted /\ ~fault
  /\ rvalid => granted \/ gnt
  /\ fault => (rd_en \/ wr_en) /\ ~granted /\ ~amo_write_phase
  /\ granted' = (hold /\ ~rvalid /\ (granted \/ gnt))
  /\ ReservationEdge(hold) /\ AmoPhaseEdge(rvalid)
  /\ IF hold THEN ex_mem' = ex_mem /\ wrote' = Performed(gnt) /\ UNCHANGED before
     ELSE /\ ex_mem' = next /\ wrote' = FALSE
          /\ before' = IF is("none") THEN before ELSE IF fault THEN Nothing ELSE ex_mem
  /\ link' = IF ~hold /\ is("lr") THEN {ex_mem.addr}
             ELSE IF (gnt /\ wr_en /\ ~is("sc")) \/ (~hold /\ is("sc"))
             THEN {a \in link : a[1] # ex_mem.addr[1] /\ ~is("sc")}
             ELSE link

LsuNext == \E gnt, rvalid, fault \in BOOLEAN, next \in Instruction : LsuCycle(gnt, rvalid, fault, next)
LsuSpec == LsuInit /\ [][LsuNext]_lsuvars

-----------------------------------------------------------------------------
\* An SC writes exactly if it reports success, however long memory makes it wait; it writes only if the
\* last LR was to its address and its word was not written since, by a store that had to wait either;
\* and the SC of an LR/SC pair with no other access between them succeeds, unless it faults
\* (atomic_lsu.v:60, :99).
ScTrue ==
  is("sc") =>
    \A gnt, rvalid, fault \in BOOLEAN : LsuCycle(gnt, rvalid, fault, ex_mem') =>
      /\ Performed(gnt) => ex_mem.addr \in link
      /\ ~mem_wait(rvalid, fault) /\ ~fault => (sc_success <=> Performed(gnt))
      /\ before = [ex_mem EXCEPT !.kind = "lr"] => sc_success
ScHonest == [][ScTrue]_lsuvars
=============================================================================
