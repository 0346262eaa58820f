------------------------------- MODULE Sv32Mmu ------------------------------
(***************************************************************************)
(* rtl/mmu/sv32_mmu.v and sv32_tlb.v: a TLB filled by a walker that reads  *)
(* page table entries over the data bus, one level at a time, for fetch    *)
(* and data.  One step is one clock edge.  Its inputs are the page each    *)
(* side translates (Off when it does not), a flush (SFENCE.VMA or a write  *)
(* to satp) and the bus; between edges a store of software may reach the   *)
(* page tables.  Permission checks look at the leaf entry the TLB delivers *)
(* and are left out.                                                       *)
(*                                                                         *)
(* A page is <<VPN[1], VPN[0]>>; an entry is [flags, ppn] with ppn =       *)
(* <<PPN[1], PPN[0]>>; the entry at index v of the table in frame f is at  *)
(* <<f, v>>.                                                               *)
(***************************************************************************)
EXTENDS Naturals

CONSTANTS
  Page, Off,
  Frame,      \* frames that hold page tables of the second level
  Root,       \* the values of satp: frames of root tables
  Content,    \* the entries software may write at each place of the tables
  Entries,    \* parameter ENTRIES of the TLB
  MaxStores   \* bound: stores to the page tables between two flushes

PteAddr == (Root \X {p[1] : p \in Page}) \cup (Frame \X {p[2] : p \in Page})
Side == {"data", "instr"}

ASSUME MmuAssumption ==
  /\ Page \subseteq Nat \X Nat /\ Off \notin Page
  /\ Root # {}
  /\ Content \in [PteAddr -> SUBSET [flags : SUBSET {"V", "R", "W", "X", "high"}, ppn : Nat \X Nat]]
  /\ \A a \in PteAddr : \A q \in Content[a] : q.flags \cap {"R", "X"} = {} => q.ppn[1] \in Frame
  /\ Entries \in Nat \ {0} /\ MaxStores \in Nat

VARIABLES
  satp, pt,             \* the root table and the page tables in memory
  tlb, next_victim,     \* an entry is <<>> or <<[page, mega, pte]>>
  fill,                 \* fill_en and what to fill: <<>> or such an entry
  walk_state, walk_side, walk_page, walk_base, walk_aborted,
  walk_read,            \* <<>> until the read is granted, then <<the entry read>> (walk_accepted)
  fault,                \* per side: Off or the page a walk fault is held for
  since,                \* history: the values each entry has had since the last flush
  stores,               \* history: stores to the page tables since the last flush
  away                  \* history, per side: it has left the page since its fault was found

walker == <<walk_state, walk_side, walk_page, walk_base, walk_aborted, walk_read>>
mmuvars == <<satp, pt, tlb, next_victim, fill, walker, fault, since, stores, away>>

MmuInit ==
  /\ satp \in Root /\ pt \in {f \in [PteAddr -> UNION {Content[a] : a \in PteAddr}] : \A a \in PteAddr : f[a] \in Content[a]}
  /\ tlb = [e \in 0 .. Entries - 1 |-> <<>>] /\ next_victim = 0 /\ fill = <<>>
  /\ walk_state = "IDLE" /\ walk_side = "data" /\ walk_page \in Page /\ walk_base = satp
  /\ walk_aborted = FALSE /\ walk_read = <<>>
  /\ fault = [s \in Side |-> Off]
  /\ since = [a \in PteAddr |-> {pt[a]}] /\ stores = 0 /\ away = [s \in Side |-> FALSE]

-----------------------------------------------------------------------------
pte_usable(pte) == "V" \in pte.flags /\ "high" \notin pte.flags /\ ("W" \in pte.flags => "R" \in pte.flags)
pte_is_leaf(pte) == "R" \in pte.flags \/ "X" \in pte.flags

\* sv32_tlb: a megapage entry compares VPN[1] only.
Matches(entry, page) ==
  entry # <<>> /\ entry[1].page[1] = page[1] /\ (entry[1].mega \/ entry[1].page[2] = page[2])
tlb_hit(page) == \E e \in DOMAIN tlb : Matches(tlb[e], page)

\* One walk at a time, none while a fill is being written; data before fetch.
walk_needed(side, page) == page # Off /\ ~tlb_hit(page) /\ fault[side] # page /\ fill = <<>>

walk_addr == IF walk_state = "LEVEL1" THEN <<satp, walk_page[1]>> ELSE <<walk_base, walk_page[2]>>

\* The lookup arrays: a flush wins over a fill.
TlbEdge(flush) ==
  IF flush THEN tlb' = [e \in DOMAIN tlb |-> <<>>] /\ UNCHANGED next_victim
  ELSE IF fill = <<>> THEN UNCHANGED <<tlb, next_victim>>
  ELSE /\ tlb' = [tlb EXCEPT ![next_victim] = fill]
       /\ next_victim' = (next_victim + 1) % Entries

\* Faulty variant: the fault stays until a flush.
KeptFault_Sticky(flush, side, page) == IF flush THEN Off ELSE fault[side]
\* A held fault is dropped on a flush or when its side translates another page or none.
KeptFault(flush, side, page) == IF flush \/ page # fault[side] THEN Off ELSE fault[side]

\* The state machine in WALK_IDLE.
WalkIdle(i, d) ==
  /\ walk_state = "IDLE" /\ walk_aborted' = FALSE /\ walk_read' = <<>>
  /\ \/ /\ walk_needed("data", d)
        /\ walk_state' = "LEVEL1" /\ walk_side' = "data" /\ walk_page' = d
     \/ /\ ~walk_needed("data", d) /\ walk_needed("instr", i)
        /\ walk_state' = "LEVEL1" /\ walk_side' = "instr" /\ walk_page' = i
     \/ /\ ~walk_needed("data", d) /\ ~walk_needed("instr", i)
        /\ UNCHANGED <<walk_state, walk_side, walk_page>>
  /\ fill' = <<>> /\ UNCHANGED walk_base

\* The read has not been answered: it is granted in this cycle or not.
WalkWaits(flush, gnt) ==
  /\ walk_state # "IDLE" /\ (gnt => walk_read = <<>>)
  /\ walk_read' = IF gnt THEN <<pt[walk_addr]>> ELSE walk_read
  /\ walk_aborted' = (walk_aborted \/ flush)
  /\ fill' = <<>> /\ UNCHANGED <<walk_state, walk_side, walk_page, walk_base>>

\* rvalid, with the entry read at the grant, or now if the grant is in this cycle.
Answer == IF walk_read = <<>> THEN pt[walk_addr] ELSE walk_read[1]
Faulty(pte) ==
  \/ ~pte_usable(pte)
  \/ pte_is_leaf(pte) /\ walk_state = "LEVEL1" /\ pte.ppn[2] # 0
  \/ ~pte_is_leaf(pte) /\ walk_state = "LEVEL0"

\* Faulty variant: only the flush in the cycle of the answer ends the walk.
WalkAnswered_Late(flush) ==
  LET leaf == ~flush /\ ~Faulty(Answer) /\ pte_is_leaf(Answer)
      pointer == ~flush /\ ~Faulty(Answer) /\ ~pte_is_leaf(Answer)
  IN /\ walk_state # "IDLE" /\ walk_read' = <<>> /\ walk_aborted' = FALSE
     /\ walk_state' = IF pointer THEN "LEVEL0" ELSE "IDLE"
     /\ walk_base' = IF pointer THEN Answer.ppn[1] ELSE walk_base
     /\ fill' = IF leaf THEN <<[page |-> walk_page, mega |-> walk_state = "LEVEL1", pte |-> Answer]>> ELSE <<>>
     /\ UNCHANGED <<walk_side, walk_page>>
\* A walk that a flush has overtaken delivers nothing; else the entry ends it or leads on.
WalkAnswered(flush) ==
  LET dropped == walk_aborted \/ flush
      leaf == ~dropped /\ ~Faulty(Answer) /\ pte_is_leaf(Answer)
      pointer == ~dropped /\ ~Faulty(Answer) /\ ~pte_is_leaf(Answer)
  IN /\ walk_state # "IDLE" /\ walk_read' = <<>>
     /\ walk_aborted' = (walk_aborted \/ flush)
     /\ walk_state' = IF pointer THEN "LEVEL0" ELSE "IDLE"
     /\ walk_base' = IF pointer THEN Answer.ppn[1] ELSE walk_base
     /\ fill' = IF leaf THEN <<[page |-> walk_page, mega |-> walk_state = "LEVEL1", pte |-> Answer]>> ELSE <<>>
     /\ UNCHANGED <<walk_side, walk_page>>

\* The sides' fault registers; a fault found by the walker at this edge is set last, and so wins.
FaultEdge(flush, i, d, found) ==
  LET page(s) == IF s = "data" THEN d ELSE i
      sets(s) == found /\ s = walk_side
  IN /\ fault' = [s \in Side |-> IF sets(s) THEN walk_page ELSE KeptFault(flush, s, page(s))]
     /\ away' = [s \in Side |-> ~sets(s) /\ (away[s] \/ page(s) # fault[s])]

\* One clock edge.  A write to satp is a flush too.
MmuCycle(flush, i, d, bus) ==
  /\ \/ WalkIdle(i, d) /\ bus = "none" /\ FaultEdge(flush, i, d, FALSE)
     \/ bus # "rvalid" /\ WalkWaits(flush, bus = "gnt") /\ FaultEdge(flush, i, d, FALSE)
     \/ /\ bus = "rvalid" /\ WalkAnswered(flush)
        /\ FaultEdge(flush, i, d, ~walk_aborted /\ ~flush /\ Faulty(Answer))
  /\ TlbEdge(flush)
  /\ satp' \in IF flush THEN Root ELSE {satp}
  /\ since' = IF flush THEN [a \in PteAddr |-> {pt[a]}] ELSE since
  /\ stores' = IF flush THEN 0 ELSE stores
  /\ UNCHANGED pt

\* A store of software reaches the memory the walker reads (external).
StorePte(a, pte) ==
  /\ stores < MaxStores /\ stores' = stores + 1 /\ pt[a] # pte
  /\ pt' = [pt EXCEPT ![a] = pte] /\ since' = [since EXCEPT ![a] = @ \cup {pte}]
  /\ UNCHANGED <<satp, tlb, next_victim, fill, walker, fault, away>>

MmuNext ==
  \/ \E flush \in BOOLEAN, i, d \in Page \cup {Off}, bus \in {"none", "gnt", "rvalid"} : MmuCycle(flush, i, d, bus)
  \/ \E a \in PteAddr : \E pte \in Content[a] : StorePte(a, pte)

MmuSpec == MmuInit /\ [][MmuNext]_mmuvars

(***************************************************************************)
(* Properties.                                                             *)
(***************************************************************************)
\* What a walk may find that reads each entry at some time since the last flush.
Pointers(page) == {q \in since[<<satp, page[1]>>] : pte_usable(q) /\ ~pte_is_leaf(q)}
Leafs(page) == UNION {since[<<q.ppn[1], page[2]>>] : q \in Pointers(page)}

MayMap(page, mega, pte) ==
  /\ pte_usable(pte) /\ pte_is_leaf(pte)
  /\ IF mega THEN pte \in since[<<satp, page[1]>>] /\ pte.ppn[2] = 0 ELSE pte \in Leafs(page)

MayFault(page) ==
  \/ \E q \in since[<<satp, page[1]>>] : ~pte_usable(q) \/ (pte_is_leaf(q) /\ q.ppn[2] # 0)
  \/ \E q \in Leafs(page) : ~pte_usable(q) \/ ~pte_is_leaf(q)

\* Every translation in the TLB, or about to be, is one that a walk gives which reads the page tables
\* after the last flush: a walk in flight at an SFENCE.VMA or a write to satp leaves nothing behind,
\* in whichever cycle the flush meets its grant, its answer or its fill (sv32_mmu.v:201, sv32_tlb.v:81).
TranslationsCurrent ==
  /\ \A e \in DOMAIN tlb : tlb[e] # <<>> => MayMap(tlb[e][1].page, tlb[e][1].mega, tlb[e][1].pte)
  /\ fill # <<>> => MayMap(fill[1].page, fill[1].mega, fill[1].pte)

\* So is every held page fault; and it is not held for a requester that has been elsewhere since the walk
\* found it: one that comes back, after the handler mended the table, walks again ("held for the faulting
\* address until its requester moves on, never cached", sv32_mmu.v:82).
FaultsCurrent ==
  \A s \in Side : fault[s] # Off => MayFault(fault[s]) /\ ~away[s]
=============================================================================
