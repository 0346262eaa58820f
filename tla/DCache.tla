------------------------------- MODULE DCache -------------------------------
(***************************************************************************)
(* rtl/dcache.v: the write-back, write-allocate data cache.  One step is   *)
(* one clock edge, in which the lookup side serves at most one request and *)
(* the engine side takes one state transition; both sides share the arrays *)
(* through one read register and one write port.                           *)
(*                                                                         *)
(* Inputs of a cycle: the request r on the core side (None when there is   *)
(* none; the bus may change it every cycle until it is granted), the row   *)
(* na the next MEM address selects, clean_req, and what the memory port    *)
(* does: nothing, accept, answer, or both at once ("serve").  Any latency  *)
(* of mem_adapter.v is a choice of those.                                  *)
(***************************************************************************)
EXTENDS Integers, Sequences

CONSTANTS NumWays, NumSets, NumWords, NumMSHR,  \* the geometry
          Tag, Lane, Byte, Device, None,
          Client, Stored, \* the words the core side asks for, and those it writes
          Image           \* what memory holds at reset

Way == 0 .. NumWays - 1
Set == 0 .. NumSets - 1
Offset == 0 .. NumWords - 1
Index == Set \X Offset                \* a row of the data array
Cached == Tag \X Set \X Offset        \* a word of RAM
Word == Cached \cup Device

ASSUME GeometryAssumption ==
  /\ NumWays \in {1, 2, 4, 8} /\ NumMSHR \in 1 .. 16
  /\ {NumSets, NumWords} \subseteq {2, 4, 8, 16, 32, 64, 128, 256, 512} /\ NumSets * NumWords <= 1024
  /\ Device \cap Cached = {} /\ Stored \subseteq Client /\ Client \subseteq Word
  /\ Image \in [Word -> [Lane -> Byte]]
  /\ None \notin [addr : Word, bytes : UNION {[S -> Byte] : S \in SUBSET Lane}]

VARIABLES data_mem,   \* <<way, set, offset>> -> data
          tag_mem,    \* <<way, set>> -> tag
          rd,         \* the read register: data, tag, valid of one row, its index, rd_fresh_q
          valid, dirty, \* sets of <<way, set>>
          plru,       \* set -> tree bits
          mshr,       \* the live MSHRs: line and store bytes, entry 1 fills first
          eng,        \* eng_state, eng_clean, eng_set, eng_way, eng_tag, eng_word, evict_buf
          scan_set,
          mem, pend,  \* the memory port: contents, accepted request without an answer
          resp        \* observation: the last response on the core side

vars == <<data_mem, tag_mem, rd, valid, dirty, plru, mshr, eng, scan_set, mem, pend, resp>>

MP == INSTANCE MemPort
Data == MP!Data
Request == {r \in MP!Request : r.addr \in IF MP!we(r) THEN Stored ELSE Client}
we(r) == MP!we(r)

tag(a) == a[1]
index(a) == <<a[2], a[3]>>
line(a) == <<a[1], a[2]>>
cacheable(r) == r # None /\ r.addr \notin Device

-----------------------------------------------------------------------------
(* Tree pseudo-LRU, nodes in heap order, the ways as leaves below them: a  *)
(* node bit of 0 points the replacement left, to node 2n + 1.              *)
Leaf(w) == w + NumWays - 1
Child(bits, n) == IF n < NumWays - 1 THEN 2 * n + 1 + bits[n] ELSE n
plru_victim(bits) == Child(bits, Child(bits, Child(bits, 0))) - (NumWays - 1)

Parent(n) == (n - 1) \div 2
Path(w) == {Leaf(w), Parent(Leaf(w)), Parent(Parent(Leaf(w)))}
plru_touch(bits, w) ==
  [n \in DOMAIN bits |-> IF 2 * n + 1 \in Path(w) THEN 1
                         ELSE IF 2 * n + 2 \in Path(w) THEN 0 ELSE bits[n]]

-----------------------------------------------------------------------------
(* The combinational signals.  m is what the memory port does this cycle,  *)
(* lk the outcome of the lookup.                                           *)
mem_gnt(m) == m \in {"accept", "serve"}
mem_rvalid(m) == m \in {"answer", "serve"}

fill_write(m) == eng.state = "FILL" /\ mem_rvalid(m)
fill_last(m) == fill_write(m) /\ eng.word = NumWords - 1
lookup_block(m) == eng.state \in {"VICTIM", "BYPASS"} \/ fill_write(m)
lookup(r, m) == cacheable(r) /\ ~lookup_block(m) /\ rd.fresh /\ rd.index = index(r.addr)

way_hit(r) == {w \in Way : w \in rd.valid /\ rd.tag[w] = tag(r.addr)}
hit_any(r) == way_hit(r) # {}
hit_way(r) == CHOOSE w \in way_hit(r) : \A v \in way_hit(r) : v <= w

mshr_match(r) == {i \in DOMAIN mshr : mshr[i].line = line(r.addr)}
match_any(r) == mshr_match(r) # {}
match_index(r) == CHOOSE i \in mshr_match(r) : \A j \in mshr_match(r) : j <= i
\* Faulty variant: lets a store merge into the MSHR that is being filled.
match_filling_Never(r) == FALSE
match_filling(r) == match_any(r) /\ match_index(r) = 1 /\ eng.state = "FILL"
mshr_full == Len(mshr) = NumMSHR

\* What the lookup of r comes to.  A load miss takes an MSHR but is not served;
\* a store miss is served by the MSHR that keeps its bytes.
Outcome(r, m) ==
  CASE ~lookup(r, m) -> "none"
    [] lookup(r, m) /\ hit_any(r) -> IF we(r) THEN "store_hit" ELSE "load_hit"
    [] lookup(r, m) /\ ~hit_any(r) /\ match_any(r) ->
         IF we(r) /\ ~match_filling(r) THEN "store_merge" ELSE "wait"
    [] OTHER -> IF mshr_full THEN "wait" ELSE IF we(r) THEN "store_alloc" ELSE "load_alloc"
Alloc == {"store_alloc", "load_alloc"}
ServedStore == {"store_hit", "store_merge", "store_alloc"}
bypass_go(r) == r # None /\ ~cacheable(r) /\ eng.state = "IDLE" /\ mshr = << >>
clean == dirty = {} /\ mshr = << >> /\ eng.state = "IDLE"

\* The memory side: a word of the line in transfer, or the bypassed request.
mem_request(r) ==
  CASE eng.state = "EVICT_WRITE" ->
         [addr |-> <<eng.tag, eng.set, eng.word>>, bytes |-> eng.buf[eng.word]]
    [] eng.state = "FILL" -> [addr |-> <<Head(mshr).line[1], Head(mshr).line[2], eng.word>>, bytes |-> << >>]
    [] OTHER -> r
mem_req(r) == eng.state \in {"EVICT_WRITE", "FILL"} \/ bypass_go(r)

-----------------------------------------------------------------------------
(* The memory port, external to the cache: it accepts one request at a     *)
(* time and answers it in the same cycle or later.                         *)
Performed(r) == IF pend = None THEN mem_request(r) ELSE pend
Memory(r, m) ==
  /\ m \in {"accept", "serve"} => mem_req(r) /\ pend = None
  /\ m = "answer" => pend # None
  /\ mem' = IF mem_rvalid(m) THEN MP!Apply(mem, Performed(r)) ELSE mem
  /\ pend' = CASE m = "accept" -> mem_request(r)
               [] m = "answer" -> None
               [] OTHER -> pend

-----------------------------------------------------------------------------
(* The array ports.  The read goes to the engine's line, else to a waiting *)
(* request, else to the next MEM address; it is stale when the same edge   *)
(* writes its row or changes its set.                                      *)
read_index(r, na, lk) ==
  IF eng.state = "TAG" THEN <<eng.set, 0>>
  ELSE IF eng.state = "EVICT_READ" /\ eng.word # NumWords THEN <<eng.set, eng.word>>
  ELSE IF cacheable(r) /\ lk = "none" THEN index(r.addr)
  ELSE na

write_index(r, m) == IF fill_write(m) THEN <<eng.set, eng.word>> ELSE index(r.addr)
set_change(m) == (eng.state = "VICTIM" /\ ~eng.clean) \/ fill_last(m)
\* Faulty variant: a row read while its set changes counts as fresh.
read_stale_NoSet(r, i, m, lk) ==
  (fill_write(m) \/ lk = "store_hit") /\ write_index(r, m) = i
read_stale(r, i, m, lk) ==
  \/ (fill_write(m) \/ lk = "store_hit") /\ write_index(r, m) = i
  \/ set_change(m) /\ eng.set = i[1]

\* The fill port merges the bytes the stores left in the MSHR over the memory word.
FillWord(r) ==
  MP!Merge(mem[Performed(r).addr], [addr |-> None, bytes |-> Head(mshr).bytes[eng.word]])

Arrays(r, na, m, lk) ==
  LET i == read_index(r, na, lk) IN
  /\ rd' = [data  |-> [w \in Way |-> data_mem[<<w, i[1], i[2]>>]],
            tag   |-> [w \in Way |-> tag_mem[<<w, i[1]>>]],
            valid |-> {w \in Way : <<w, i[1]>> \in valid},
            index |-> i,
            fresh |-> ~read_stale(r, i, m, lk)]
  /\ data_mem' =
       IF fill_write(m) THEN [data_mem EXCEPT ![<<eng.way, eng.set, eng.word>>] = FillWord(r)]
       ELSE IF lk = "store_hit"
       THEN [data_mem EXCEPT ![<<hit_way(r), r.addr[2], r.addr[3]>>] = MP!Merge(@, r)]
       ELSE data_mem
  /\ tag_mem' = IF fill_last(m)
                THEN [tag_mem EXCEPT ![<<eng.way, eng.set>>] = Head(mshr).line[1]]
                ELSE tag_mem

\* The MSHRs: a miss takes the next entry, a store miss leaves its bytes, and
\* entry 1 retires as its fill ends; fill_last blocks the lookup.
NoBytes == [o \in Offset |-> << >>]
Left(bytes, r) == [bytes EXCEPT ![r.addr[3]] =
                     [l \in DOMAIN @ \cup DOMAIN r.bytes |->
                        IF l \in DOMAIN r.bytes THEN r.bytes[l] ELSE @[l]]]
MSHRs(r, m, lk) ==
  mshr' = CASE lk \in Alloc ->
                 Append(mshr, [line |-> line(r.addr), bytes |-> Left(NoBytes, r)])
            [] lk = "store_merge" -> [mshr EXCEPT ![match_index(r)].bytes = Left(@, r)]
            [] fill_last(m) -> Tail(mshr)
            [] OTHER -> mshr

\* The response: a served lookup, or the answer to an uncached access.
Respond(r, m, lk) ==
  resp' = CASE lk = "load_hit" -> [req |-> r, data |-> rd.data[hit_way(r)]]
            [] lk \in ServedStore -> [req |-> r, data |-> None]
            [] mem_rvalid(m) /\ (bypass_go(r) \/ eng.state = "BYPASS") ->
                 MP!Answered(mem, Performed(r))
            [] OTHER -> None

\* What a served lookup does to the dirty bits and the PLRU tree.
LookupOnly(r, lk) ==
  /\ dirty' = IF lk = "store_hit" THEN dirty \cup {<<hit_way(r), r.addr[2]>>} ELSE dirty
  /\ plru' = IF lk \in {"store_hit", "load_hit"}
             THEN [plru EXCEPT ![r.addr[2]] = plru_touch(@, hit_way(r))] ELSE plru
  /\ UNCHANGED valid

-----------------------------------------------------------------------------
(* The engine, one action per arm of its case statement.  Registers that   *)
(* are dead outside a transfer (way, tag, word, evict_buf) are cleared     *)
(* when it ends.                                                           *)
Junk == [l \in Lane |-> None]          \* block RAM before its first write
AtRest(state) == [state |-> state, clean |-> FALSE, set |-> 0, way |-> 0, tag |-> None,
                  word |-> 0, buf |-> [o \in Offset |-> Junk]]

\* An uncached access goes straight to memory; the engine only waits for a
\* late answer.
StartBypass(r, m, lk) ==
  /\ bypass_go(r)
  /\ eng' = IF m = "accept" THEN AtRest("BYPASS") ELSE eng
  /\ LookupOnly(r, lk)
  /\ UNCHANGED scan_set

StartFill(r, lk) ==
  /\ eng.state = "IDLE" /\ mshr # << >>
  /\ eng' = [eng EXCEPT !.state = "TAG", !.set = Head(mshr).line[2]]
  /\ LookupOnly(r, lk)
  /\ UNCHANGED scan_set

StartScan(r, lk, clean_req) ==
  /\ eng.state = "IDLE" /\ ~bypass_go(r) /\ mshr = << >>
  /\ clean_req /\ dirty # {}
  /\ eng' = AtRest("SCAN")
  /\ LookupOnly(r, lk)
  /\ UNCHANGED scan_set

Rest(r, lk, clean_req) ==
  /\ eng.state = "IDLE" /\ ~bypass_go(r) /\ mshr = << >>
  /\ ~(clean_req /\ dirty # {})
  /\ LookupOnly(r, lk)
  /\ UNCHANGED <<eng, scan_set>>

scan_dirty == \E w \in Way : <<w, scan_set>> \in dirty

EndScan(r, lk, clean_req) ==
  /\ eng.state = "SCAN" /\ (mshr # << >> \/ ~clean_req \/ dirty = {})
  /\ eng' = AtRest("IDLE")
  /\ LookupOnly(r, lk)
  /\ UNCHANGED scan_set

\* Faulty variant: never leaves the set it looks at.
Scan_Stuck(r, lk, clean_req) ==
  /\ eng.state = "SCAN" /\ mshr = << >> /\ clean_req /\ dirty # {}
  /\ eng' = IF scan_dirty
            THEN [eng EXCEPT !.state = "TAG", !.clean = TRUE, !.set = scan_set] ELSE eng
  /\ LookupOnly(r, lk)
  /\ UNCHANGED scan_set

Scan(r, lk, clean_req) ==
  /\ eng.state = "SCAN" /\ mshr = << >> /\ clean_req /\ dirty # {}
  /\ eng' = IF scan_dirty
            THEN [eng EXCEPT !.state = "TAG", !.clean = TRUE, !.set = scan_set] ELSE eng
  /\ scan_set' = IF scan_dirty THEN scan_set ELSE (scan_set + 1) % NumSets
  /\ LookupOnly(r, lk)

ReadTag(r, lk) ==
  /\ eng.state = "TAG"
  /\ eng' = [eng EXCEPT !.state = "VICTIM"]
  /\ LookupOnly(r, lk)
  /\ UNCHANGED scan_set

\* The first way without a line (for FENCE.I: the first dirty one), else PLRU.
Candidates == {w \in Way : IF eng.clean THEN <<w, eng.set>> \in dirty
                                         ELSE <<w, eng.set>> \notin valid}
victim == IF Candidates # {} THEN CHOOSE w \in Candidates : \A v \in Candidates : w <= v
          ELSE plru_victim(plru[eng.set])

ChooseVictim ==
  /\ eng.state = "VICTIM"
  /\ eng' = [eng EXCEPT !.state = IF <<victim, eng.set>> \in dirty THEN "EVICT_READ"
                                  ELSE IF eng.clean THEN "SCAN" ELSE "FILL",
                        !.way = victim, !.tag = rd.tag[victim], !.word = 0]
  /\ dirty' = dirty \ {<<victim, eng.set>>}
  /\ valid' = IF eng.clean THEN valid ELSE valid \ {<<victim, eng.set>>}
  /\ UNCHANGED <<plru, scan_set>>

\* Word n is in the read register the cycle after its row was read.
EvictRead(r, lk) ==
  /\ eng.state = "EVICT_READ"
  /\ eng' = [eng EXCEPT !.buf = IF eng.word = 0 THEN @
                                ELSE [@ EXCEPT ![eng.word - 1] = rd.data[eng.way]],
                        !.state = IF eng.word = NumWords THEN "EVICT_WRITE" ELSE @,
                        !.word = IF eng.word = NumWords THEN 0 ELSE @ + 1]
  /\ LookupOnly(r, lk)
  /\ UNCHANGED scan_set

EvictWrite(r, m, lk) ==
  /\ eng.state = "EVICT_WRITE"
  /\ eng' = IF ~mem_rvalid(m) THEN eng
            ELSE IF eng.word # NumWords - 1 THEN [eng EXCEPT !.word = @ + 1]
            ELSE IF eng.clean THEN AtRest("SCAN")
            ELSE [eng EXCEPT !.state = "FILL", !.word = 0, !.tag = None,
                             !.buf = [o \in Offset |-> Junk]]
  /\ LookupOnly(r, lk)
  /\ UNCHANGED scan_set

Fill(r, m, lk) ==
  /\ eng.state = "FILL" /\ ~fill_last(m)
  /\ eng' = IF fill_write(m) THEN [eng EXCEPT !.word = @ + 1] ELSE eng
  /\ LookupOnly(r, lk)
  /\ UNCHANGED scan_set

\* The line becomes visible, dirty when a store left bytes for it.
FillLast(m) ==
  /\ fill_last(m)
  /\ eng' = AtRest("IDLE")
  /\ valid' = valid \cup {<<eng.way, eng.set>>}
  /\ dirty' = IF Head(mshr).bytes # NoBytes THEN dirty \cup {<<eng.way, eng.set>>}
              ELSE dirty \ {<<eng.way, eng.set>>}
  /\ plru' = [plru EXCEPT ![eng.set] = plru_touch(@, eng.way)]
  /\ UNCHANGED scan_set

EndBypass(r, m, lk) ==
  /\ eng.state = "BYPASS"
  /\ eng' = IF mem_rvalid(m) THEN AtRest("IDLE") ELSE eng
  /\ LookupOnly(r, lk)
  /\ UNCHANGED scan_set

Engine(r, m, lk, clean_req) ==
  \/ StartBypass(r, m, lk) \/ StartFill(r, lk) \/ StartScan(r, lk, clean_req) \/ Rest(r, lk, clean_req)
  \/ EndScan(r, lk, clean_req) \/ Scan(r, lk, clean_req) \/ ReadTag(r, lk) \/ ChooseVictim
  \/ EvictRead(r, lk) \/ EvictWrite(r, m, lk) \/ Fill(r, m, lk) \/ FillLast(m) \/ EndBypass(r, m, lk)

-----------------------------------------------------------------------------
\* Reset clears the flops; the block RAMs hold anything, the memory its image.
Init ==
  /\ data_mem = [x \in Way \X Set \X Offset |-> Junk]
  /\ tag_mem = [x \in Way \X Set |-> None]
  /\ rd = [data |-> [w \in Way |-> Junk], tag |-> [w \in Way |-> None], valid |-> {},
           index |-> <<0, 0>>, fresh |-> FALSE]
  /\ valid = {} /\ dirty = {}
  /\ plru = [s \in Set |-> [n \in 0 .. NumWays - 2 |-> 0]]
  /\ mshr = << >>
  /\ eng = AtRest("IDLE")
  /\ scan_set = 0
  /\ mem = Image
  /\ pend = None
  /\ resp = None

Cycle(r, na, m, clean_req) ==
  LET lk == Outcome(r, m) IN
  /\ Memory(r, m)
  /\ Engine(r, m, lk, clean_req)
  /\ MSHRs(r, m, lk)
  /\ Respond(r, m, lk)
  /\ Arrays(r, na, m, lk)

Port == {"idle", "accept", "answer", "serve"}

\* The rows the next MEM address may select: those of the client, and another.
NextIndex == {index(a) : a \in Client \ Device} \cup {<<1, 0>>}

\* Inputs are enumerated only where the cycle reads them.
Next ==
  \E r \in Request \cup {None}, m \in Port :
  \E na \in IF eng.state = "TAG" \/ (cacheable(r) /\ ~lookup(r, m)) THEN {<<1, 0>>} ELSE NextIndex,
     clean_req \in IF eng.state \in {"IDLE", "SCAN"} THEN BOOLEAN ELSE {FALSE} :
    Cycle(r, na, m, clean_req)

Spec == Init /\ [][Next]_vars

-----------------------------------------------------------------------------
\* Every register holds a value of its type.
TypeOK ==
  /\ data_mem \in [Way \X Set \X Offset -> Data \cup {Junk}]
  /\ tag_mem \in [Way \X Set -> Tag \cup {None}]
  /\ valid \subseteq Way \X Set /\ dirty \subseteq Way \X Set
  /\ Len(mshr) <= NumMSHR
  /\ eng.word \in 0 .. NumWords /\ eng.set \in Set /\ eng.way \in Way
  /\ scan_set \in Set
  /\ mem \in [Word -> Data]
  /\ pend \in MP!Request \cup {None}

\* Where the current value of a RAM word lives: in the way that holds its line,
\* in the line on its way out, or in memory; below the bytes an MSHR keeps.
Resident(a) == {w \in Way : <<w, a[2]>> \in valid /\ tag_mem[<<w, a[2]>>] = tag(a)}
Leaving(a) == /\ eng.state \in {"EVICT_READ", "EVICT_WRITE"} /\ ~eng.clean
              /\ <<eng.tag, eng.set>> = line(a)
Below(a) ==
  IF Resident(a) # {} THEN data_mem[<<CHOOSE w \in Resident(a) : TRUE, a[2], a[3]>>]
  ELSE IF Leaving(a) /\ eng.state = "EVICT_READ" THEN data_mem[<<eng.way, a[2], a[3]>>]
  ELSE IF Leaving(a) /\ a[3] >= eng.word THEN eng.buf[a[3]]
  ELSE mem[a]
Contents ==
  [a \in Word |->
     IF a \in Device \/ ~\E i \in DOMAIN mshr : mshr[i].line = line(a)
     THEN IF a \in Device THEN mem[a] ELSE Below(a)
     ELSE MP!Merge(Below(a),
            [addr |-> a,
             bytes |-> mshr[CHOOSE i \in DOMAIN mshr : mshr[i].line = line(a)].bytes[a[3]]])]

\* Cache, MSHRs, the line in eviction and the memory together are one coherent
\* memory behind the bus: every load returns the last bytes stored, whether
\* it hits, misses, finds its line leaving, or reads a row at the edge that
\* changes it; and no store is lost when it merges into a miss.
Coherent == INSTANCE MemPort WITH
  mem <- Contents, pend <- IF eng.state = "BYPASS" THEN pend ELSE None
RefinesPort == Coherent!Spec

\* A line is in one place: in one way, or in one MSHR, never both.  Two copies
\* would be written back in an order nobody chose.
OneCopy ==
  /\ \A x, y \in valid : x[2] = y[2] /\ tag_mem[x] = tag_mem[y] => x = y
  /\ \A i, j \in DOMAIN mshr : mshr[i].line = mshr[j].line => i = j
  /\ \A x \in valid, i \in DOMAIN mshr : mshr[i].line # <<tag_mem[x], x[2]>>

\* FENCE.I leaves EX when clean is high: memory, which the instruction fetch
\* reads behind the cache's back, then holds every store.
CleanMeansWrittenBack == clean => mem = Contents

\* A line is where the cache looks for it and nowhere else, a written one
\* until it is in memory.
LinesAccounted == OneCopy /\ CleanMeansWrittenBack
=============================================================================
