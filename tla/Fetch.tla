-------------------------------- MODULE Fetch -------------------------------
(***************************************************************************)
(* Instruction fetch: the PC (rtl/core_modules/pc.v), the instruction      *)
(* cache (rtl/icache.v), the bookkeeping of a fetch in flight and the      *)
(* IF/ID register (rtl/riscv_cpu.v, rtl/pipeline_stages/IF_ID.v).  One     *)
(* step is one clock edge.                                                 *)
(*                                                                         *)
(* Inputs of a cycle: whether the PC is translated (ready), a pipeline     *)
(* stall, a redirect with its target, FENCE.I (which redirects too), what  *)
(* the memory port does, and a word that the data side writes to memory.   *)
(* An instruction word is its address with a version number, which tells   *)
(* the words of different addresses and of different times apart.  The     *)
(* program is abstracted: the word after the PC is any word.               *)
(***************************************************************************)
EXTENDS Integers, Sequences

CONSTANTS NumWays, NumSets, NumWords,  \* the geometry
          Tag, Uncached, None,
          Code,     \* the words the PC may hold
          Written,  \* the words that the data side may write
          Version   \* versions of a word

Way == 0 .. NumWays - 1
Set == 0 .. NumSets - 1
Offset == 0 .. NumWords - 1
Word == (Tag \X Set \X Offset) \cup Uncached

ASSUME GeometryAssumption ==
  /\ NumWays \in 1 .. 16
  /\ {NumSets, NumWords} \subseteq {2, 4, 8, 16, 32, 64, 128, 256, 512} /\ NumSets * NumWords <= 1024
  /\ Code \subseteq Word /\ Written \subseteq Word /\ None \notin Word

VARIABLES pc,
          outstanding, discard,     \* fetch_outstanding, fetch_discard
          ifid,                     \* IF/ID: None (a bubble) or the PC and its word
          data_mem, tag_mem,        \* the arrays
          valid,                    \* set of <<way, set>>
          victim_q,                 \* set -> round-robin pointer
          rd,                       \* the read register: data, tag and valid of one row
          state, fill,              \* state; fill_line, fill_word, fill_way, fill_dead
          mem,                      \* memory: word -> version
          pend,                     \* the accepted request: its address, and the versions
                                    \* its word has had since, or None
          since,                    \* history: the versions of a word since the last FENCE.I
          ended                     \* observation: the fetch was answered or redirected

cachevars == <<data_mem, tag_mem, valid, victim_q, rd, state, fill>>
vars == <<pc, outstanding, discard, ifid, cachevars, mem, pend, since, ended>>

set(a) == a[2]
tag(a) == a[1]
cacheable == pc \notin Uncached
Instr == Word \X Version

-----------------------------------------------------------------------------
(* The combinational signals; m is what the memory port does.              *)
mem_gnt(m) == m \in {"accept", "serve"}
mem_rvalid(m) == m \in {"answer", "serve"}

way_hit == {w \in Way : w \in rd.valid /\ rd.tag[w] = tag(pc)}
lookup(ready) == ready /\ cacheable /\ state = "IDLE"
hit(ready) == lookup(ready) /\ way_hit # {}
miss(ready) == lookup(ready) /\ way_hit = {}
hit_data == rd.data[CHOOSE w \in way_hit : \A v \in way_hit : v <= w]
bypass_req(ready) == ready /\ ~cacheable /\ state = "IDLE"
fill_write(m) == state = "FILL" /\ mem_rvalid(m)
fill_last(m) == fill_write(m) /\ fill.word = NumWords - 1
fill_set == fill.line[2]

gnt(ready, m) == hit(ready) \/ (bypass_req(ready) /\ mem_gnt(m))
rvalid(ready, m) == hit(ready) \/ (mem_rvalid(m) /\ (bypass_req(ready) \/ state = "BYPASS"))
mem_req(ready) == state = "FILL" \/ bypass_req(ready)
mem_addr == IF state = "FILL" THEN <<fill.line[1], fill.line[2], fill.word>> ELSE pc

\* An invalid way first, else the set's round-robin pointer.
victim == LET free == Way \ rd.valid IN
          IF free # {} THEN CHOOSE w \in free : \A v \in free : w <= v ELSE victim_q[set(pc)]

\* Faulty variant: takes the answer to the fetch of an abandoned PC.
fetch_response_valid_Any(ready, m) == rvalid(ready, m)
\* A fetch accepted before a redirect answers for the old PC: it is dropped.
fetch_response_valid(ready, m) == rvalid(ready, m) /\ ~discard

-----------------------------------------------------------------------------
(* The memory, external to the fetch path.  A request accepted earlier may *)
(* be answered with any version its word has had since.                    *)
Memory(ready, m, write) ==
  /\ mem_gnt(m) => mem_req(ready) /\ pend = None
  /\ m = "answer" => pend # None
  /\ mem' = IF write = None THEN mem ELSE [mem EXCEPT ![write[1]] = write[2]]
  /\ pend' = IF m = "accept" THEN [addr |-> mem_addr, versions |-> {mem[mem_addr], mem'[mem_addr]}]
             ELSE IF m = "answer" \/ pend = None THEN None
             ELSE [pend EXCEPT !.versions = @ \cup {mem'[pend.addr]}]

\* The words the port may answer with.
Answers(m) == IF m = "serve" THEN {<<mem_addr, mem[mem_addr]>>}
              ELSE IF m = "answer" THEN {<<pend.addr, v>> : v \in pend.versions}
              ELSE {None}

-----------------------------------------------------------------------------
(* The cache, one action per part of its clocked blocks.                   *)
\* The arrays are read with the next PC; the row of an uncached PC is never used.
ReadRow(na, flush) ==
  rd' = IF na \in Uncached THEN [rd EXCEPT !.valid = {}]
        ELSE [data  |-> [w \in Way |-> data_mem[<<w, na[2], na[3]>>]],
              tag   |-> [w \in Way |-> tag_mem[<<w, na[2]>>]],
              valid |-> IF flush THEN {} ELSE {w \in Way : <<w, na[2]>> \in valid}]

NextVictim(w) == IF w = NumWays - 1 THEN 0 ELSE w + 1

\* A fill writes a word at a time; the line is visible at the end, unless a
\* FENCE.I came in between.
Arrays(m, word, flush) ==
  /\ data_mem' = IF fill_write(m) THEN [data_mem EXCEPT ![<<fill.way, fill_set, fill.word>>] = word]
                 ELSE data_mem
  /\ tag_mem' = IF fill_last(m) THEN [tag_mem EXCEPT ![<<fill.way, fill_set>>] = fill.line[1]] ELSE tag_mem
  /\ victim_q' = IF fill_last(m) THEN [victim_q EXCEPT ![fill_set] = NextVictim(@)] ELSE victim_q
  /\ valid' = IF flush THEN {}
              ELSE IF fill_last(m) /\ ~fill.dead THEN valid \cup {<<fill.way, fill_set>>}
              ELSE valid

\* Outside a fill its registers are dead and cleared.
NoFill == [line |-> None, word |-> 0, way |-> 0, dead |-> FALSE]

StartFill(ready) ==
  /\ miss(ready)
  /\ state' = "FILL"
  /\ fill' = [line |-> <<tag(pc), set(pc)>>, word |-> 0, way |-> victim, dead |-> FALSE]

StartBypass(ready, m) ==
  /\ bypass_req(ready) /\ m = "accept"
  /\ state' = "BYPASS" /\ UNCHANGED fill

StayIdle(ready, m) ==
  /\ state = "IDLE" /\ ~miss(ready) /\ ~(bypass_req(ready) /\ m = "accept")
  /\ UNCHANGED <<state, fill>>

Fill(m, flush) ==
  /\ state = "FILL"
  /\ state' = IF fill_last(m) THEN "REFILL" ELSE state
  /\ fill' = IF fill_last(m) THEN NoFill
             ELSE [fill EXCEPT !.dead = @ \/ flush,
                               !.word = IF fill_write(m) THEN @ + 1 ELSE @]

\* Faulty variant: never goes back to the lookup.
Refill_Stuck == state = "REFILL" /\ UNCHANGED <<state, fill>>

\* The cycle in which the filled row is read again.
Refill == state = "REFILL" /\ state' = "IDLE" /\ UNCHANGED fill

EndBypass(m) ==
  /\ state = "BYPASS"
  /\ state' = IF mem_rvalid(m) THEN "IDLE" ELSE state
  /\ UNCHANGED fill

Control(ready, m, flush) ==
  \/ StartFill(ready) \/ StartBypass(ready, m) \/ StayIdle(ready, m)
  \/ Fill(m, flush) \/ Refill \/ EndBypass(m)

-----------------------------------------------------------------------------
(* The core side: PC, fetch bookkeeping and IF/ID.                         *)
\* next_pc_d: a redirect beats a stall.  fetch_wait ends on an instruction page fault too (riscv_cpu.v:433);
\* here such a fetch waits, and the move of the PC it makes is one a redirect makes as well.
NextPC(ready, m, stall, jump) ==
  IF jump # None THEN {jump}
  ELSE IF stall \/ ~fetch_response_valid(ready, m) THEN {pc} ELSE Code

Bookkeeping(ready, m, jump) ==
  /\ outstanding' = IF rvalid(ready, m) THEN FALSE
                    ELSE IF gnt(ready, m) THEN TRUE ELSE outstanding
  /\ discard' = IF rvalid(ready, m) THEN FALSE
                ELSE IF jump # None /\ (outstanding \/ gnt(ready, m)) THEN TRUE
                ELSE discard

\* A redirect flushes IF/ID, a stall keeps it, a waiting fetch leaves a bubble.
IfId(ready, m, word, stall, jump) ==
  ifid' = IF jump # None THEN None
          ELSE IF stall THEN ifid
          ELSE IF ~fetch_response_valid(ready, m) THEN None
          ELSE [pc |-> pc, word |-> IF hit(ready) THEN hit_data ELSE word]

-----------------------------------------------------------------------------
Init ==
  /\ pc \in Code \ Uncached
  /\ outstanding = FALSE /\ discard = FALSE /\ ifid = None
  /\ data_mem = [x \in Way \X Set \X Offset |-> None]
  /\ tag_mem = [x \in Way \X Set |-> None]
  /\ valid = {} /\ victim_q = [s \in Set |-> 0]
  /\ rd = [data |-> [w \in Way |-> None], tag |-> [w \in Way |-> None], valid |-> {}]
  /\ state = "IDLE" /\ fill = NoFill
  /\ mem = [a \in Word |-> CHOOSE v \in Version : TRUE]
  /\ pend = None
  /\ since = [a \in Word |-> {mem[a]}]
  /\ ended = FALSE

\* A FENCE.I redirects to the next instruction in the cycle of its flush.
Cycle(ready, m, stall, jump, flush, write) ==
  /\ Memory(ready, m, write)
  /\ \E word \in Answers(m) :
       /\ Arrays(m, word, flush)
       /\ IfId(ready, m, word, stall, jump)
  /\ Control(ready, m, flush)
  /\ pc' \in NextPC(ready, m, stall, jump)
  /\ ReadRow(pc', flush)
  /\ Bookkeeping(ready, m, jump)
  /\ since' = [a \in Word |-> (IF flush THEN {} ELSE since[a]) \cup {mem'[a]}]
  /\ ended' = (fetch_response_valid(ready, m) \/ jump # None)

Port == {"idle", "accept", "answer", "serve"}
Writes == {None} \cup {x \in Written \X Version : mem[x[1]] # x[2]}
Redirect == {<<None, FALSE>>} \cup (Code \X BOOLEAN)   \* the target, and whether it is a FENCE.I

Clock(ready, m) ==
  \E r \in Redirect, write \in Writes :
  \E stall \in IF r[1] = None THEN BOOLEAN ELSE {FALSE} :   \* a redirect beats a stall
    Cycle(ready, m, stall, r[1], r[2], write)
\* The translation is read by the lookup only.
Ready == IF state = "IDLE" THEN BOOLEAN ELSE {TRUE}
Next == \E ready \in Ready, m \in Port : Clock(ready, m)

Spec == Init /\ [][Next]_vars

-----------------------------------------------------------------------------
\* Every register holds a value of its type.
TypeOK ==
  /\ pc \in Code /\ outstanding \in BOOLEAN /\ discard \in BOOLEAN
  /\ ifid \in [pc : Code, word : Instr] \cup {None}
  /\ data_mem \in [Way \X Set \X Offset -> Instr \cup {None}]
  /\ tag_mem \in [Way \X Set -> Tag \cup {None}]
  /\ valid \subseteq Way \X Set /\ victim_q \in [Set -> Way]
  /\ state \in {"IDLE", "FILL", "REFILL", "BYPASS"}
  /\ fill.word \in Offset /\ fill.way \in Way /\ fill.dead \in BOOLEAN
  /\ mem \in [Word -> Version] /\ since \in [Word -> SUBSET Version]

\* The instruction that goes on to decode is the word at its own PC, in a
\* version not older than the last FENCE.I: not one of a line that was filled
\* around it, and not the late answer to a PC that was abandoned.
FetchedIsCurrent == ifid # None => ifid.word[1] = ifid.pc /\ ifid.word[2] \in since[ifid.pc]

\* Every line that a lookup could still hit is whole: each word belongs to its
\* address and is not older than the last FENCE.I.  The way being filled is
\* excepted; it keeps its valid bit while its words are overwritten.
LinesAreWhole ==
  \A x \in valid :
    (state = "FILL" => x # <<fill.way, fill_set>>) =>
    \A o \in Offset :
      LET a == <<tag_mem[x], x[2], o>>
          word == data_mem[<<x[1], x[2], o>>]
      IN  word[1] = a /\ word[2] \in since[a]

\* The core knows of every request the cache still owes an answer for, and of
\* no other: a redirect would else discard a good answer or take a wrong one.
OutstandingIsBypass ==
  /\ outstanding <=> state = "BYPASS"
  /\ discard => outstanding
  /\ state = "BYPASS" /\ ~discard => pend.addr = pc

\* What decode gets is current, and so is every word the cache could still
\* deliver to a core that expects it.
FetchSound == FetchedIsCurrent /\ LinesAreWhole /\ OutstandingIsBypass

\* A fetch ends: the PC gets its instruction, or is redirected.
FetchEnds == ~ended ~> ended
=============================================================================
