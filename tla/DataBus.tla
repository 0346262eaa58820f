------------------------------ MODULE DataBus -------------------------------
(***************************************************************************)
(* The data bus of rtl/top.v: the core's MEM stage, the store buffer and   *)
(* the page-table walker share the one port of the data cache.  A store    *)
(* leaves the core as soon as the buffer takes it, a load goes past the    *)
(* buffered writes to other words, and the walker waits for an empty       *)
(* buffer.  A FENCE waits in EX until the buffer has drained.              *)
(*                                                                         *)
(* One step is one clock edge.  The cache is its promise, MemPort: it does *)
(* nothing, accepts an uncached request, answers it, or serves a request   *)
(* at once.                                                                *)
(***************************************************************************)
EXTENDS StoreBuffer

CONSTANTS Lane, Byte,
          Device      \* the words that are not cached

ASSUME PayloadAssumption == Payload \subseteq UNION {[S -> Byte] : S \in (SUBSET Lane) \ {{}}}

Side == {"data", "instr", "stale"}    \* whom a walk is for; stale: nobody any more
Walk == [side : Side, level : {0, 1}, addr : Word, accepted : BOOLEAN]

ASSUME NoneAssumption ==
  /\ None \notin [addr : Word, bytes : UNION {[S -> Byte] : S \in SUBSET Lane}]
  /\ None \notin Walk /\ None \notin Side

VARIABLES mem, pend,  \* the port: contents, accepted request without an answer
          walk_owner_q, drain_owner_q,  \* whom the accepted request belongs to
          acc,        \* the access in MEM, or None
          xl,         \* its translation: "ready", "miss" or "fault"
          walk, fill, \* the walk in progress and the fill it ends with, or None
          fetch_miss, \* the fetch misses the TLB
          fence,      \* a FENCE is in EX
          arch,       \* history: the memory as the program has written it
          due,        \* history: what the accepted PTE read has to return
          got         \* observation: the read answered in this cycle, or None

cpuvars == <<acc, xl, walk, fill, fetch_miss, fence>>
vars == <<bufvars, mem, pend, walk_owner_q, drain_owner_q, cpuvars, arch, due, got>>

MP == INSTANCE MemPort WITH resp <- got
Data == MP!Data
Load == [addr : Word, bytes : {<< >>}]
Access == Entry \cup Load
we(r) == MP!we(r)
Read(a) == [addr |-> a, bytes |-> << >>]

-----------------------------------------------------------------------------
(* The combinational signals of top.v; m is what the cache does.           *)
gnt(m) == m \in {"accept", "serve"}
rvalid(m) == m \in {"answer", "serve"}

cpu_data_bus_req == acc # None /\ xl = "ready"
store_buf_push_req == cpu_data_bus_req /\ we(acc) /\ ~full
\* Faulty variant: a load overtakes the write to its own word.
cpu_load_go_NoMatch == /\ cpu_data_bus_req /\ ~we(acc)
                       /\ acc.addr \in Device => empty
\* A load waits for buffered writes to its word, a device load for all of them.
cpu_load_go == /\ cpu_data_bus_req /\ ~we(acc) /\ ~match(acc.addr)
               /\ acc.addr \in Device => empty
\* An empty buffer issues the entering write at once.
drain_req == ~empty \/ store_buf_push_req
drain_write == IF empty THEN acc ELSE head
walk_req == walk # None /\ ~walk.accepted

\* Faulty variant: the waiting core keeps the bus from the buffer.
data_bus_drain_sel_CoreFirst == drain_req /\ (cpu_data_bus_req => we(acc))
data_bus_drain_sel == drain_req /\ ~cpu_load_go
data_bus_walk_sel == walk_req /\ ~cpu_load_go /\ ~drain_req
dcache_req == data_bus_walk_sel \/ data_bus_drain_sel \/ cpu_load_go
dcache_request == IF data_bus_walk_sel THEN Read(walk.addr)
                  ELSE IF data_bus_drain_sel THEN drain_write ELSE acc

data_bus_walk_owns(m) == walk_owner_q \/ (data_bus_walk_sel /\ gnt(m))
data_bus_drain_owns(m) == drain_owner_q \/ (data_bus_drain_sel /\ gnt(m))
\* Faulty variant: takes any answer for its own while it asks.
drain_done_Any(m) == rvalid(m) /\ data_bus_drain_sel
drain_done(m) == rvalid(m) /\ data_bus_drain_owns(m)
\* Faulty variant: buffers a write that has just been performed.
store_buf_push_Twice(m) == store_buf_push_req
store_buf_push(m) == store_buf_push_req /\ ~(empty /\ drain_done(m))
store_buf_pop(m) == drain_done(m) /\ ~empty
mmu_walk_gnt(m) == gnt(m) /\ data_bus_walk_sel
mmu_walk_rvalid(m) == rvalid(m) /\ data_bus_walk_owns(m)
cpu_data_rvalid(m) ==
  IF we(acc) THEN store_buf_push_req
  ELSE rvalid(m) /\ ~data_bus_walk_owns(m) /\ ~data_bus_drain_owns(m)

\* riscv_cpu.v: MEM is held until its access is answered or faults.
mem_wait(m) == acc # None /\ ~cpu_data_rvalid(m) /\ xl # "fault"
\* Faulty variant: looks at the buffer before this cycle's push.
fence_drain_stall_Early(m) == fence /\ ~empty
fence_drain_stall(m) == fence /\ ~drained(store_buf_push(m), store_buf_pop(m))

-----------------------------------------------------------------------------
(* The parts of a cycle.                                                   *)

\* The cache port.  A cached request is served in the cycle it is granted.
Performed == IF pend = None THEN dcache_request ELSE pend
Cache(m) ==
  /\ gnt(m) => dcache_req /\ pend = None
  /\ m = "accept" => dcache_request.addr \in Device
  /\ m = "answer" => pend # None
  /\ mem' = IF rvalid(m) THEN MP!Apply(mem, Performed) ELSE mem
  /\ pend' = IF m = "accept" THEN dcache_request ELSE IF m = "answer" THEN None ELSE pend

Owners(m) ==
  /\ walk_owner_q' = IF rvalid(m) THEN FALSE
                     ELSE IF gnt(m) THEN data_bus_walk_sel ELSE walk_owner_q
  /\ drain_owner_q' = IF rvalid(m) THEN FALSE
                      ELSE IF gnt(m) THEN data_bus_drain_sel ELSE drain_owner_q

Buffer(m) ==
  /\ Clock(store_buf_push(m), acc, store_buf_pop(m))
  /\ in' = IF store_buf_push_req THEN acc ELSE None
  /\ out' = IF drain_done(m) THEN Performed ELSE None

\* The walker of sv32_mmu.v, as a bus master: the data side goes first, and a
\* walk reads one or two PTEs, then faults or fills the TLB in the next cycle.
\* A walk goes on when its access is gone.
NewWalk(side, lv) == {[side |-> side, level |-> lv, addr |-> a, accepted |-> FALSE] : a \in Word}
side(m) == IF walk.side = "data" /\ ~mem_wait(m) THEN "stale" ELSE walk.side
EndsWalk(m) == mmu_walk_rvalid(m) /\ walk' = None
Walker(m) ==
  /\ walk' \in
       IF walk = None
       THEN IF fill # None THEN {None}
            ELSE IF acc # None /\ xl = "miss"
            THEN NewWalk(IF mem_wait(m) THEN "data" ELSE "stale", 1)
            ELSE IF fetch_miss THEN NewWalk("instr", 1) ELSE {None}
       ELSE IF mmu_walk_rvalid(m)
       THEN {None} \cup IF walk.level = 1 THEN NewWalk(side(m), 0) ELSE {}
       ELSE {[walk EXCEPT !.side = side(m), !.accepted = @ \/ mmu_walk_gnt(m)]}
  /\ fill' \in IF EndsWalk(m) THEN {None, side(m)} ELSE {None}

\* What the walker does to the translation of the access held in MEM: its own
\* walk decides it, and another one's fill may bring it in or evict it, even
\* when the access is already in flight.
Translation(m) ==
  IF fill = "data" THEN {"ready", "fault"}
  ELSE IF fill # None THEN IF xl = "ready" THEN {"ready", "miss"} ELSE {"ready", "miss", "fault"}
  ELSE IF EndsWalk(m) /\ fill' = None /\ side(m) # "instr"
  THEN IF side(m) = "data" THEN {"fault"} ELSE {xl, "fault"}
  ELSE {xl}

\* The MEM stage, and a FENCE behind it in EX.
Pipeline(m) ==
  IF mem_wait(m)
  THEN /\ UNCHANGED <<acc, fence>>
       /\ xl' \in Translation(m)
       /\ fetch_miss' = (fetch_miss /\ ~(EndsWalk(m) /\ walk.side = "instr"))
  ELSE IF acc # None /\ xl = "fault"      \* the trap flushes the pipeline
  THEN /\ acc' = None /\ fence' = FALSE /\ xl' = "ready"
       /\ fetch_miss' \in BOOLEAN
  ELSE /\ acc' \in IF fence THEN {None} ELSE Access \cup {None}
       /\ xl' \in IF acc' = None THEN {"ready"} ELSE {"ready", "miss", "fault"}
       /\ fence' \in IF fence THEN {fence_drain_stall(m)} ELSE BOOLEAN
       /\ fetch_miss' \in IF fence_drain_stall(m) THEN {fetch_miss} ELSE BOOLEAN

\* What the program and its walks have to see.
Observe(m) ==
  /\ arch' = IF store_buf_push_req THEN MP!Apply(arch, acc) ELSE arch
  /\ due' = IF m = "accept" /\ data_bus_walk_sel THEN arch[walk.addr]
            ELSE IF mmu_walk_rvalid(m) THEN None ELSE due
  /\ got' = IF acc # None /\ ~we(acc) /\ cpu_data_rvalid(m)
            THEN [by |-> "cpu", data |-> mem[Performed.addr], want |-> arch[acc.addr]]
            ELSE IF mmu_walk_rvalid(m)
            THEN [by |-> "walk", data |-> mem[Performed.addr],
                  want |-> IF m = "serve" THEN arch[walk.addr] ELSE due]
            ELSE None

-----------------------------------------------------------------------------
Init ==
  /\ BufInit
  /\ mem \in [Word -> Data] /\ pend = None
  /\ walk_owner_q = FALSE /\ drain_owner_q = FALSE
  /\ acc = None /\ xl = "ready" /\ walk = None /\ fill = None /\ fetch_miss = FALSE /\ fence = FALSE
  /\ arch = mem /\ due = None /\ got = None

Cycle(m) ==
  /\ Cache(m) /\ Owners(m) /\ Buffer(m) /\ Walker(m) /\ Pipeline(m) /\ Observe(m)

Port == {"idle", "accept", "answer", "serve"}
Next == \E m \in Port : Cycle(m)

Spec == Init /\ [][Next]_vars

-----------------------------------------------------------------------------
\* Every register holds a value of its type.
TypeOK ==
  /\ BufTypeOK
  /\ mem \in [Word -> Data] /\ arch \in [Word -> Data] /\ due \in Data \cup {None}
  /\ pend \in Access \cup {None} /\ acc \in Access \cup {None}
  /\ walk_owner_q \in BOOLEAN /\ drain_owner_q \in BOOLEAN
  /\ xl \in {"ready", "miss", "fault"}
  /\ walk \in Walk \cup {None} /\ fill \in Side \cup {None}
  /\ fetch_miss \in BOOLEAN /\ fence \in BOOLEAN
  /\ got \in [by : {"cpu", "walk"}, data : Data, want : Data] \cup {None}

\* The live slots that will still write byte l of word a.
Writers(a, l) == {i \in Slot : i < count /\ q[i].addr = a /\ l \in DOMAIN q[i].bytes}

\* Memory and buffer together hold what the program wrote: a byte is that of
\* the youngest buffered write to it, else that of the memory.
ByteHeld(a, l) ==
  \/ Writers(a, l) = {} /\ arch[a][l] = mem[a][l]
  \/ \E i \in Writers(a, l) : arch[a][l] = q[i].bytes[l] /\ \A j \in Writers(a, l) : j <= i
BufferHoldsTheRest == \A a \in Word, l \in Lane : ByteHeld(a, l)

\* A load of the core and a PTE read of the walker return what the program had
\* written when the bus accepted them, although loads overtake buffered
\* writes, walks outlive their access and answers come late.
ReadsAreCurrent == got # None => got.data = got.want

\* The answer that the bus waits for goes to the master that asked: to the
\* walk, to the oldest buffered write, or to the load in MEM.
AnswerHasOwner ==
  pend # None =>
    /\ walk_owner_q =>
         ~drain_owner_q /\ walk # None /\ walk.accepted /\ pend = Read(walk.addr)
    /\ drain_owner_q => ~empty /\ pend = head
    /\ ~walk_owner_q /\ ~drain_owner_q => acc # None /\ pend = acc /\ ~we(acc) /\ empty

\* No write is lost, doubled or reordered on its way to memory, and no answer
\* is taken for that of another request.
BusAccounts == BufferHoldsTheRest /\ AnswerHasOwner

\* A FENCE leaves EX when every older write has reached memory, in particular
\* not in the cycle in which the last one enters or leaves the buffer half done.
FenceLeaves == fence /\ ~fence' /\ ~(acc # None /\ xl = "fault")
FenceDrains == [][FenceLeaves => count' = 0 /\ mem' = arch']_vars

\* An access in MEM ends: it waits for matching writes, for the whole buffer,
\* or for a walk, which itself waits for the buffer and for an earlier walk.
AccessEnds == acc # None ~> acc = None \/ in # None \/ (got # None /\ got.by = "cpu")

\* A FENCE leaves EX.
FenceEnds == fence ~> ~fence

\* Nobody on the bus waits for ever.
BusProgress == AccessEnds /\ FenceEnds
=============================================================================
