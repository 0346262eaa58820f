------------------------------ MODULE MCBlocks ------------------------------
(***************************************************************************)
(* Model checking the small blocks of the SoC, each on its own: a run      *)
(* picks one of them and leaves the others in a fixed initial state.       *)
(***************************************************************************)
EXTENDS MemAdapter, Plic, UartRx, Sv32Mmu, Reservation, Timer

CONSTANT Blocks   \* the blocks to check

VARIABLE block
allvars == <<block, vars, plicvars, rxvars, mmuvars, lsuvars, timervars>>

-----------------------------------------------------------------------------
(* The receiver: whole bytes, a bit of 32 clocks; a sender as slow and as  *)
(* fast, and noise as long, as the sampler tolerates.                      *)
Drift == {31, 32, 33}
Pulses == {1, 14}
ASSUME SenderAssumption == Tolerable

(* The MMU: two pages of one megapage, two root tables and one table       *)
(* below; entries that map a page or a megapage, point on, are misaligned  *)
(* or malformed.                                                           *)
Pages == {<<0, 0>>, <<0, 1>>}
Pointer == [flags |-> {"V"}, ppn |-> <<1, 0>>]
Leaf == [flags |-> {"V", "R"}, ppn |-> <<0, 0>>]
Misaligned == [flags |-> {"V", "X"}, ppn |-> <<0, 1>>]
Malformed == [flags |-> {"V", "W"}, ppn |-> <<1, 0>>]
Tables == [a \in PteAddr |-> CASE a = <<0, 0>> -> {Pointer, Misaligned}
                               [] a = <<2, 0>> -> {Leaf}
                               [] a = <<1, 0>> -> {Leaf, Malformed}
                               [] a = <<1, 1>> -> {Misaligned, Pointer}]

-----------------------------------------------------------------------------
\* The blocks with more than one initial state.
AdapterInit ==
  IF block = "mem_adapter" THEN Init
  ELSE /\ latency = 1
       /\ req_q = CHOOSE r \in Request : TRUE
       /\ rdata_q = CHOOSE d \in Port!Data : TRUE
       /\ mem = CHOOSE m \in [Word -> Port!Data] : TRUE
       /\ Init
WalkerInit ==
  IF block = "mmu" THEN MmuInit
  ELSE /\ satp = CHOOSE r \in Root : TRUE
       /\ pt = [a \in PteAddr |-> CHOOSE q \in Content[a] : TRUE]
       /\ walk_page = CHOOSE p \in Page : TRUE
       /\ MmuInit

BlocksInit == block \in Blocks /\ AdapterInit /\ PlicInit /\ RxInit /\ WalkerInit /\ LsuInit /\ TimerInit

AdapterStep ==
  /\ block = "mem_adapter" /\ Next
  /\ UNCHANGED <<block, plicvars, rxvars, mmuvars, lsuvars, timervars>>
PlicStep ==
  /\ block = "plic" /\ PlicNext
  /\ UNCHANGED <<block, vars, rxvars, mmuvars, lsuvars, timervars>>
RxStep ==
  /\ block = "uart_rx" /\ RxNext
  /\ UNCHANGED <<block, vars, plicvars, mmuvars, lsuvars, timervars>>
MmuStep ==
  /\ block = "mmu" /\ MmuNext
  /\ UNCHANGED <<block, vars, plicvars, rxvars, lsuvars, timervars>>
LsuStep ==
  /\ block = "atomic_lsu" /\ LsuNext
  /\ UNCHANGED <<block, vars, plicvars, rxvars, mmuvars, timervars>>
TimerStep ==
  /\ block = "timer" /\ TimerNext
  /\ UNCHANGED <<block, vars, plicvars, rxvars, mmuvars, lsuvars>>

BlocksNext == AdapterStep \/ PlicStep \/ RxStep \/ MmuStep \/ LsuStep \/ TimerStep
BlocksSpec == BlocksInit /\ [][BlocksNext]_allvars
=============================================================================
