------------------------------- MODULE MCTraps -------------------------------
(***************************************************************************)
(* Model checking Traps with two interrupts, one of them delegated, and    *)
(* a program that sets the machine up and uses both trap levels.           *)
(***************************************************************************)
EXTENDS Traps

\* What M writes: all interrupts on, MRET goes to S.  What S may write: its
\* interrupts off, SRET goes to S; till then it goes to U.
MStatus == [sie |-> TRUE, spie |-> FALSE, spp |-> FALSE, mie |-> TRUE, mpie |-> FALSE, mpp |-> S]
SStatus == [sie |-> FALSE, spie |-> TRUE, spp |-> TRUE, mie |-> FALSE, mpie |-> TRUE, mpp |-> U]

Csr(csr, how, arg) == [op |-> "csr", csr |-> csr, how |-> how, arg |-> arg]
Setup == {Csr("mstatus", "w", MStatus), Csr("sstatus", "w", SStatus),
          Csr("medeleg", "s", {"breakpoint", "load_pf"}), Csr("mideleg", "s", {"SSI"}),
          Csr("mie", "s", {"SEI", "SSI"}), Csr("sie", "w", {"MTI", "SEI", "SSI"}),
          Csr("tdata1", "w", {S, M})}
Bits == {Csr("mip", "s", {"SSI"}), Csr("mip", "s", {"SEI"}), Csr("mip", "c", {"SEI"}), Csr("sip", "c", {"SSI"})}

SmallProgram == Setup \cup Bits \cup
  {[op |-> "mret"], [op |-> "sret"], [op |-> "ecall"], [op |-> "fence"],
   [op |-> "raise", cause |-> "load_misaligned"],
   [op |-> "access", cause |-> "load_pf"]}
StaleWords == {[op |-> "ecall"], Csr("sip", "c", {"SSI"})}
=============================================================================
