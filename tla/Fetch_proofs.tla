---------------------------- MODULE Fetch_proofs ----------------------------
(***************************************************************************)
(* Theorems about the instruction fetch: for every geometry of the cache,  *)
(* every program and every set of versions, what decode gets is the word   *)
(* at its own PC and not older than the last FENCE.I.                      *)
(***************************************************************************)
EXTENDS Fetch, TLAPS, WellFoundedInduction

-----------------------------------------------------------------------------
(* The inductive invariant.                                                *)

\* A word the arrays may deliver for address a.
Good(history, word, a) == word[1] = a /\ word[2] \in history[a]

Typed ==
  /\ pc \in Code
  /\ state \in {"IDLE", "FILL", "REFILL", "BYPASS"}
  /\ DOMAIN data_mem = Way \X Set \X Offset /\ DOMAIN tag_mem = Way \X Set
  /\ valid \subseteq Way \X Set /\ victim_q \in [Set -> Way]
  /\ rd = [data |-> rd.data, tag |-> rd.tag, valid |-> rd.valid] /\ rd.valid \subseteq Way
  /\ \A x \in valid : tag_mem[x] \in Tag
  /\ outstanding \in BOOLEAN /\ (ifid # None => ifid.pc \in Word)

\* The history holds what memory holds.
MemoryCurrent == \A a \in Word : mem[a] \in since[a]

\* The request that memory has accepted, and what may answer it.
PortOwes ==
  /\ state \in {"IDLE", "REFILL"} => pend = None
  /\ state = "BYPASS" =>
       /\ pend = [addr |-> pend.addr, versions |-> pend.versions] /\ pend.addr \in Word
       /\ ~discard => pend.addr = pc /\ pend.versions \subseteq since[pc]
  /\ state = "FILL" /\ pend # None =>
       /\ pend = [addr |-> pend.addr, versions |-> pend.versions] /\ pend.addr = mem_addr
       /\ ~fill.dead => pend.versions \subseteq since[pend.addr]

\* The line in transfer: the words already written are good, or a FENCE.I has come in between.
FillsWhole ==
  state = "FILL" =>
    /\ fill \in [line : Tag \X Set, word : Offset, way : Way, dead : BOOLEAN]
    /\ fill.dead => <<fill.way, fill_set>> \notin valid
    /\ ~fill.dead => \A o \in Offset :
         o < fill.word => Good(since, data_mem[<<fill.way, fill_set, o>>], <<fill.line[1], fill.line[2], o>>)

\* The read register holds the row of the PC whenever the lookup may use it.
RowIsCurrent ==
  state = "IDLE" =>
    \A w \in rd.valid : pc \notin Uncached /\ rd.tag[w] \in Tag /\ Good(since, rd.data[w], <<rd.tag[w], pc[2], pc[3]>>)

FetchInv ==
  /\ Typed /\ MemoryCurrent /\ PortOwes /\ FillsWhole /\ RowIsCurrent
  /\ FetchedIsCurrent /\ LinesAreWhole /\ OutstandingIsBypass

-----------------------------------------------------------------------------
(* Numbers and ways.                                                       *)
LEMMA LeastNumber ==
  ASSUME NEW T, T \subseteq Nat, T # {}
  PROVE  \E n \in T : \A k \in T : n <= k
  <1> DEFINE R == {ss \in Nat \X Nat : ss[1] < ss[2]}
  <1>1. PICK n \in T : \A k \in T : ~(<<k, n>> \in R)
    <2>1. IsWellFoundedOn(R, Nat)
      BY NatLessThanWellFounded, Zenon DEF OpToRel
    <2> HIDE DEF R
    <2> QED BY <2>1, WFMin
  <1>2. \A k \in T : ~(k < n)
    BY <1>1
  <1> QED BY <1>2

\* A nonempty set of ways has a first and a last one.
LEMMA FirstAndLastWay ==
  ASSUME NEW S, S \subseteq Way, S # {}
  PROVE  (\E w \in S : \A v \in S : w <= v) /\ (\E w \in S : \A v \in S : v <= w)
  <1>0. NumWays \in Nat
    BY GeometryAssumption
  <1>1. S \subseteq Nat
    BY <1>0 DEF Way
  <1>2. \E w \in S : \A v \in S : w <= v
    BY <1>1, LeastNumber
  <1>3. \E w \in S : \A v \in S : v <= w
    <2> DEFINE T == {NumWays - w : w \in S}
    <2>0. \A w \in S : w \in Nat /\ w <= NumWays - 1
      BY <1>0 DEF Way
    <2>1. T \subseteq Nat /\ T # {}
      BY <1>0, <2>0
    <2>2. PICK n \in T : \A k \in T : n <= k
      <3> HIDE DEF T
      <3> QED BY <2>1, LeastNumber
    <2>3. PICK w \in S : n = NumWays - w
      OBVIOUS
    <2>4. ASSUME NEW v \in S PROVE v <= w
      <3>1. NumWays - v \in T
        OBVIOUS
      <3>2. n <= NumWays - v
        BY <2>2, <3>1
      <3> QED BY <2>3, <3>2, <1>0, <1>1
    <2> QED BY <2>4
  <1> QED BY <1>2, <1>3

\* What the assumptions say of the words of a line.
LEMMA Geometry ==
  /\ NumWords \in Nat /\ NumWords > 0 /\ 0 \in Offset /\ NumWords - 1 \in Offset
  /\ \A o \in Offset : o \in Nat /\ o <= NumWords - 1
  /\ \A o \in Offset : o # NumWords - 1 => o + 1 \in Offset
  BY GeometryAssumption DEF Offset

\* The way a fill takes exists.
LEMMA VictimIsWay ==
  ASSUME FetchInv, state = "IDLE", cacheable
  PROVE  victim \in Way /\ pc[1] \in Tag /\ pc[2] \in Set /\ pc[3] \in Offset /\ pc = <<pc[1], pc[2], pc[3]>>
  <1>1. pc \in Tag \X Set \X Offset
    BY GeometryAssumption DEF FetchInv, Typed, cacheable, Word
  <1>2. pc[1] \in Tag /\ pc[2] \in Set /\ pc[3] \in Offset /\ pc = <<pc[1], pc[2], pc[3]>>
    BY <1>1
  <1>3. victim_q[set(pc)] \in Way
    BY <1>2 DEF FetchInv, Typed, set
  <1> DEFINE free == Way \ rd.valid
  <1>4. CASE free # {}
    <2>1. \E w \in free : \A v \in free : w <= v
      <3>1. free \subseteq Way
        OBVIOUS
      <3> HIDE DEF free
      <3> QED BY <1>4, <3>1, FirstAndLastWay
    <2>2. victim = CHOOSE w \in free : \A v \in free : w <= v
      BY <1>4 DEF victim
    <2>3. victim \in free
      <3> HIDE DEF free
      <3> QED BY <2>1, <2>2
    <2> QED BY <2>3, <1>2
  <1>5. CASE free = {}
    BY <1>2, <1>3, <1>5 DEF victim
  <1> QED BY <1>4, <1>5

\* What a hit delivers is good for the PC.
LEMMA HitIsGood ==
  ASSUME FetchInv, NEW ready, hit(ready)
  PROVE  Good(since, hit_data, pc)
  <1>1. state = "IDLE" /\ cacheable /\ way_hit # {}
    BY DEF hit, lookup
  <1>2. way_hit \subseteq Way
    BY DEF way_hit
  <1>3. PICK w \in way_hit : hit_data = rd.data[w]
    <2>1. \E w \in way_hit : \A v \in way_hit : v <= w
      BY <1>1, <1>2, FirstAndLastWay
    <2> QED BY <2>1 DEF hit_data
  <1>4. w \in rd.valid /\ rd.tag[w] = pc[1]
    BY <1>3 DEF way_hit, tag
  <1>5. pc = <<pc[1], pc[2], pc[3]>>
    BY <1>1, VictimIsWay
  <1>6. Good(since, rd.data[w], <<rd.tag[w], pc[2], pc[3]>>)
    BY <1>1, <1>4 DEF FetchInv, RowIsCurrent
  <1> QED BY <1>3, <1>4, <1>5, <1>6

-----------------------------------------------------------------------------
(* One clock edge.                                                         *)

\* A word in transfer has an address.
LEMMA FillAddress ==
  ASSUME FetchInv, state = "FILL"
  PROVE  /\ mem_addr = <<fill.line[1], fill.line[2], fill.word>> /\ mem_addr \in Word
         /\ fill.way \in Way /\ fill_set = fill.line[2] /\ fill.line[1] \in Tag /\ fill.line[2] \in Set
         /\ fill.word \in Offset /\ fill.dead \in BOOLEAN
         /\ \A o \in Offset : <<fill.line[1], fill.line[2], o>> \in Word
  BY DEF FetchInv, FillsWhole, mem_addr, fill_set, Word

\* The memory answers with a good word: for the word in transfer, or for the PC.
LEMMA AnswerIsGood ==
  ASSUME FetchInv, NEW ready, NEW m, NEW write, Memory(ready, m, write), mem_rvalid(m), NEW word \in Answers(m)
  PROVE  /\ state = "FILL" => word[1] = mem_addr /\ (~fill.dead => word[2] \in since[mem_addr])
         /\ bypass_req(ready) \/ (state = "BYPASS" /\ ~discard) => Good(since, word, pc)
  <1>1. pc \in Word
    BY GeometryAssumption DEF FetchInv, Typed
  <1>2. CASE m = "serve"
    <2>1. word = <<mem_addr, mem[mem_addr]>>
      BY <1>2 DEF Answers
    <2>2. state = "FILL" \/ bypass_req(ready)
      BY <1>2 DEF Memory, mem_gnt, mem_req
    <2>3. CASE state = "FILL"
      BY <2>1, <2>3, FillAddress DEF FetchInv, MemoryCurrent, bypass_req
    <2>4. CASE bypass_req(ready)
      BY <2>1, <2>4, <1>1 DEF FetchInv, MemoryCurrent, bypass_req, mem_addr, Good
    <2> QED BY <2>2, <2>3, <2>4
  <1>3. CASE m = "answer"
    <2>1. pend # None
      BY <1>3 DEF Memory
    <2>2. PICK v \in pend.versions : word = <<pend.addr, v>>
      BY <1>3 DEF Answers
    <2>3. CASE state = "FILL"
      BY <2>1, <2>2, <2>3 DEF FetchInv, PortOwes, bypass_req
    <2>4. CASE state # "FILL"
      BY <2>1, <2>2, <2>4 DEF FetchInv, PortOwes, bypass_req, Good
    <2> QED BY <2>3, <2>4
  <1> QED BY <1>2, <1>3 DEF mem_rvalid

\* Versions are forgotten by a FENCE.I only.
LEMMA SinceGrows ==
  ASSUME FetchInv, NEW ready, NEW m, NEW stall, NEW jump, NEW flush, NEW write,
         Cycle(ready, m, stall, jump, flush, write)
  PROVE  /\ MemoryCurrent'
         /\ ~flush => \A a \in Word : since[a] \subseteq since'[a]
         /\ ~flush => \A a \in Word : \A word : Good(since, word, a) => Good(since', word, a)
  BY DEF Cycle, MemoryCurrent, Good

\* Typed is preserved.
LEMMA TypedStep ==
  ASSUME FetchInv, NEW ready, NEW m, NEW stall, NEW jump \in Code \cup {None}, NEW flush, NEW write,
         Cycle(ready, m, stall, jump, flush, write)
  PROVE  Typed'
  <1>1. pc' \in Code
    BY DEF Cycle, NextPC, FetchInv, Typed
  <1>2. state' \in {"IDLE", "FILL", "REFILL", "BYPASS"}
    BY DEF Cycle, Control, StartFill, StartBypass, StayIdle, Fill, Refill, EndBypass, FetchInv, Typed
  <1>3. PICK word : Arrays(m, word, flush)
    BY DEF Cycle
  <1>4. DOMAIN data_mem' = Way \X Set \X Offset /\ DOMAIN tag_mem' = Way \X Set
    BY <1>3 DEF Arrays, FetchInv, Typed
  <1>5. valid' \subseteq Way \X Set
    BY <1>3, FillAddress DEF Arrays, fill_last, fill_write, FetchInv, Typed
  <1>6. victim_q' \in [Set -> Way]
    <2>1. \A w \in Way : NextVictim(w) \in Way
      BY GeometryAssumption DEF NextVictim, Way
    <2> QED BY <1>3, <2>1, FillAddress DEF Arrays, fill_last, fill_write, FetchInv, Typed
  <1>7. rd' = [data |-> rd'.data, tag |-> rd'.tag, valid |-> rd'.valid] /\ rd'.valid \subseteq Way
    <2>1. ReadRow(pc', flush)
      BY DEF Cycle
    <2>2. CASE pc' \in Uncached
      <3>1. rd' = [rd EXCEPT !.valid = {}]
        BY <2>1, <2>2 DEF ReadRow
      <3> QED BY <3>1 DEF FetchInv, Typed
    <2>3. CASE pc' \notin Uncached
      BY <2>1, <2>3 DEF ReadRow
    <2> QED BY <2>2, <2>3
  <1>8. \A x \in valid' : tag_mem'[x] \in Tag
    <2>1. CASE ~fill_last(m)
      BY <1>3, <2>1 DEF Arrays, FetchInv, Typed
    <2>2. CASE fill_last(m)
      <3>1. \A x \in Way \X Set : tag_mem'[x] = IF x = <<fill.way, fill_set>> THEN fill.line[1] ELSE tag_mem[x]
        BY <1>3, <2>2 DEF Arrays, FetchInv, Typed
      <3>2. \A x \in valid' : x \in valid \/ x = <<fill.way, fill_set>>
        BY <1>3 DEF Arrays
      <3>3. fill.line[1] \in Tag
        BY <2>2, FillAddress DEF fill_last, fill_write
      <3> QED BY <1>5, <3>1, <3>2, <3>3 DEF FetchInv, Typed
    <2> QED BY <2>1, <2>2
  <1>9. outstanding' \in BOOLEAN
    BY DEF Cycle, Bookkeeping, FetchInv, Typed
  <1>10. ifid' # None => ifid'.pc \in Word
    <2>1. pc \in Word
      BY GeometryAssumption DEF FetchInv, Typed
    <2> QED BY <2>1 DEF Cycle, IfId, FetchInv, Typed
  <1> QED BY <1>1, <1>2, <1>4, <1>5, <1>6, <1>7, <1>8, <1>9, <1>10 DEF Typed

\* The read register follows the PC.
LEMMA RowStep ==
  ASSUME FetchInv, NEW ready, NEW m, NEW stall, NEW jump \in Code \cup {None}, NEW flush, NEW write,
         Cycle(ready, m, stall, jump, flush, write)
  PROVE  RowIsCurrent'
  <1> SUFFICES ASSUME state' = "IDLE", NEW w \in rd'.valid
               PROVE  /\ pc' \notin Uncached /\ rd'.tag[w] \in Tag
                      /\ Good(since', rd'.data[w], <<rd'.tag[w], pc'[2], pc'[3]>>)
    BY DEF RowIsCurrent, Good
  <1>1. state # "FILL"
    BY DEF Cycle, Control, StartFill, StartBypass, StayIdle, Fill, Refill, EndBypass, miss, lookup, bypass_req
  <1>2. ReadRow(pc', flush)
    BY DEF Cycle
  <1>3. pc' \notin Uncached
    BY <1>2 DEF ReadRow, FetchInv, Typed
  <1>4. /\ rd'.data = [v \in Way |-> data_mem[<<v, pc'[2], pc'[3]>>]] /\ rd'.tag = [v \in Way |-> tag_mem[<<v, pc'[2]>>]]
        /\ ~flush /\ w \in Way /\ <<w, pc'[2]>> \in valid
    BY <1>2, <1>3 DEF ReadRow
  <1>5. pc' \in Tag \X Set \X Offset
    <2>1. pc' \in Code
      BY DEF Cycle, NextPC, FetchInv, Typed
    <2> QED BY <1>3, <2>1, GeometryAssumption DEF Word
  <1> DEFINE t == tag_mem[<<w, pc'[2]>>]  a == <<t, pc'[2], pc'[3]>>  d == data_mem[<<w, pc'[2], pc'[3]>>]
  <1>6. t \in Tag /\ Good(since, d, a)
    <2>1. t \in Tag
      BY <1>4 DEF FetchInv, Typed
    <2>2. pc'[3] \in Offset
      BY <1>5
    <2> QED BY <1>1, <1>4, <2>1, <2>2 DEF FetchInv, LinesAreWhole, Good
  <1>7. a \in Word
    BY <1>5, <1>6 DEF Word
  <1>8. Good(since', d, a)
    BY <1>4, <1>6, <1>7, SinceGrows
  <1> QED BY <1>3, <1>4, <1>6, <1>8

\* A cycle of the program: only a redirect flushes.
Edge(ready, m, stall, jump, flush, write) ==
  /\ m \in Port /\ jump \in Code \cup {None} /\ (flush => jump # None)
  /\ Cycle(ready, m, stall, jump, flush, write)

\* A fetch that is not discarded keeps its PC, and its history, until it is answered.
LEMMA FetchStays ==
  ASSUME FetchInv, NEW ready, NEW m, NEW stall, NEW jump, NEW flush, NEW write,
         Edge(ready, m, stall, jump, flush, write),
         ~discard', ~rvalid(ready, m), outstanding \/ gnt(ready, m)
  PROVE  pc' = pc /\ ~flush /\ ~discard
  <1>1. jump = None /\ ~discard
    BY DEF Edge, Cycle, Bookkeeping
  <1> QED BY <1>1 DEF Edge, Cycle, NextPC, fetch_response_valid

\* PortOwes is preserved.
LEMMA PortStep ==
  ASSUME FetchInv, NEW ready, NEW m, NEW stall, NEW jump, NEW flush, NEW write,
         Edge(ready, m, stall, jump, flush, write)
  PROVE  PortOwes'
  <1>1. Memory(ready, m, write) /\ m \in Port
    BY DEF Edge, Cycle
  <1>2. \A a \in Word : mem[a] \in since[a] /\ mem'[a] \in since'[a]
    BY SinceGrows DEF Edge, FetchInv, MemoryCurrent
  <1>3. ~flush => \A a \in Word : since[a] \subseteq since'[a]
    BY SinceGrows DEF Edge
  <1>4. pc \in Word
    BY GeometryAssumption DEF FetchInv, Typed
  <1>5. CASE StartFill(ready)
    <2>1. state = "IDLE" /\ pend = None /\ ~mem_req(ready) /\ state' = "FILL"
      BY <1>5 DEF StartFill, miss, lookup, mem_req, bypass_req, FetchInv, PortOwes
    <2>2. pend' = None
      BY <1>1, <2>1 DEF Memory, mem_gnt, Port
    <2> QED BY <2>1, <2>2 DEF PortOwes
  <1>6. CASE StartBypass(ready, m)
    <2>1. state = "IDLE" /\ ~cacheable /\ m = "accept" /\ bypass_req(ready) /\ state' = "BYPASS"
      BY <1>6 DEF StartBypass, bypass_req
    <2>2. pend' = [addr |-> pc, versions |-> {mem[pc], mem'[pc]}]
      BY <1>1, <2>1 DEF Memory, mem_addr
    <2>3. ~discard' => pc' = pc /\ ~flush
      <3>1. ~rvalid(ready, m) /\ gnt(ready, m)
        BY <2>1 DEF rvalid, gnt, hit, lookup, mem_rvalid, mem_gnt
      <3> QED BY <3>1, FetchStays
    <2>4. ~discard' => pend'.versions \subseteq since'[pc]
      BY <1>2, <1>3, <1>4, <2>2, <2>3
    <2> QED BY <1>4, <2>1, <2>2, <2>3, <2>4 DEF PortOwes
  <1>7. CASE StayIdle(ready, m)
    <2>1. state = "IDLE" /\ pend = None /\ state' = "IDLE" /\ ~(bypass_req(ready) /\ m = "accept")
      BY <1>7 DEF StayIdle, FetchInv, PortOwes
    <2>2. pend' = None
      BY <1>1, <2>1 DEF Memory, mem_gnt, mem_req
    <2> QED BY <2>1, <2>2 DEF PortOwes
  <1>8. CASE Fill(m, flush)
    <2>1. state = "FILL" /\ mem_addr \in Word /\ fill \in [line : Tag \X Set, word : Offset, way : Way, dead : BOOLEAN]
      BY <1>8, FillAddress DEF Fill, FetchInv, FillsWhole
    <2>2. CASE fill_last(m)
      <3>1. state' = "REFILL" /\ m \in {"answer", "serve"}
        BY <1>8, <2>2 DEF Fill, fill_last, fill_write, mem_rvalid
      <3>2. pend' = None
        BY <1>1, <3>1 DEF Memory, mem_gnt
      <3> QED BY <3>1, <3>2 DEF PortOwes
    <2>3. CASE ~fill_last(m) /\ mem_rvalid(m)
      <3>1. state' = "FILL"
        BY <1>8, <2>3, <2>1 DEF Fill
      <3>2. pend' = None
        BY <1>1, <2>3 DEF Memory, mem_gnt, mem_rvalid
      <3> QED BY <3>1, <3>2 DEF PortOwes
    <2>4. CASE ~fill_last(m) /\ ~mem_rvalid(m)
      <3>1. state' = "FILL" /\ fill' = [fill EXCEPT !.dead = @ \/ flush]
        BY <1>8, <2>1, <2>4 DEF Fill, fill_write
      <3>2. /\ fill'.line = fill.line /\ fill'.word = fill.word /\ fill'.dead = (fill.dead \/ flush)
            /\ mem_addr' = mem_addr
        BY <2>1, <3>1 DEF mem_addr
      <3>3. CASE m = "accept"
        <4>1. pend' = [addr |-> mem_addr, versions |-> {mem[mem_addr], mem'[mem_addr]}]
          BY <1>1, <3>3 DEF Memory
        <4>2. ~flush => pend'.versions \subseteq since'[mem_addr]
          BY <1>2, <1>3, <2>1, <4>1
        <4> QED BY <3>1, <3>2, <4>1, <4>2 DEF PortOwes
      <3>4. CASE m = "idle" /\ pend # None
        <4>1. /\ pend = [addr |-> pend.addr, versions |-> pend.versions] /\ pend.addr = mem_addr
              /\ ~fill.dead => pend.versions \subseteq since[mem_addr]
          BY <2>1, <3>4 DEF FetchInv, PortOwes
        <4>2. pend' = [addr |-> mem_addr, versions |-> pend.versions \cup {mem'[mem_addr]}]
          BY <1>1, <3>4, <4>1 DEF Memory
        <4>3. ~flush /\ ~fill.dead => pend'.versions \subseteq since'[mem_addr]
          BY <1>2, <1>3, <2>1, <4>1, <4>2
        <4> QED BY <3>1, <3>2, <4>2, <4>3 DEF PortOwes
      <3>5. CASE m = "idle" /\ pend = None
        <4>1. pend' = None
          BY <1>1, <3>5 DEF Memory
        <4> QED BY <3>1, <4>1 DEF PortOwes
      <3> QED BY <1>1, <2>4, <3>3, <3>4, <3>5 DEF mem_rvalid, Port
    <2> QED BY <2>2, <2>3, <2>4
  <1>9. CASE Refill
    <2>1. state = "REFILL" /\ pend = None /\ state' = "IDLE" /\ ~mem_req(ready)
      BY <1>9 DEF Refill, mem_req, bypass_req, FetchInv, PortOwes
    <2>2. pend' = None
      BY <1>1, <2>1 DEF Memory, mem_gnt
    <2> QED BY <2>1, <2>2 DEF PortOwes
  <1>10. CASE EndBypass(m)
    <2>1. state = "BYPASS" /\ ~mem_req(ready) /\ ~mem_gnt(m)
      BY <1>1, <1>10 DEF EndBypass, mem_req, bypass_req, Memory
    <2>2. CASE m = "answer"
      <3>1. pend' = None /\ state' = "IDLE"
        BY <1>1, <1>10, <2>2 DEF Memory, EndBypass, mem_rvalid
      <3> QED BY <3>1 DEF PortOwes
    <2>3. CASE m = "idle"
      <3>1. state' = "BYPASS" /\ ~rvalid(ready, m)
        BY <1>10, <2>1, <2>3 DEF EndBypass, mem_rvalid, rvalid, hit, lookup
      <3>2. /\ pend = [addr |-> pend.addr, versions |-> pend.versions] /\ pend.addr \in Word
            /\ ~discard => pend.addr = pc /\ pend.versions \subseteq since[pc]
        BY <2>1 DEF FetchInv, PortOwes
      <3>3. ~discard' => pc' = pc /\ ~flush /\ ~discard
        BY <2>1, <3>1, FetchStays DEF FetchInv, OutstandingIsBypass
      <3>4. /\ pend' = [addr |-> pend'.addr, versions |-> pend'.versions] /\ pend'.addr = pend.addr
            /\ pend'.versions \subseteq pend.versions \cup {mem'[pend.addr]}
        BY <1>1, <2>3, <3>2 DEF Memory
      <3>5. ~discard' => pend'.versions \subseteq since'[pc]
        BY <1>2, <1>3, <1>4, <3>2, <3>3, <3>4
      <3> QED BY <3>1, <3>2, <3>3, <3>4, <3>5 DEF PortOwes
    <2> QED BY <1>1, <2>1, <2>2, <2>3 DEF Port, mem_gnt
  <1> QED BY <1>5, <1>6, <1>7, <1>8, <1>9, <1>10 DEF Edge, Cycle, Control

\* What a cycle does to the arrays: it writes the word in transfer, if any.
LEMMA ArraysMove ==
  ASSUME FetchInv, NEW m, NEW word, NEW flush, Arrays(m, word, flush)
  PROVE  /\ ~fill_write(m) => data_mem' = data_mem
         /\ fill_write(m) =>
              \A x \in Way, s \in Set, o \in Offset :
                data_mem'[<<x, s, o>>] = IF x = fill.way /\ s = fill.line[2] /\ o = fill.word THEN word
                                         ELSE data_mem[<<x, s, o>>]
         /\ ~fill_last(m) => tag_mem' = tag_mem /\ valid' \subseteq valid
         /\ fill_last(m) =>
              \A x \in Way \X Set : tag_mem'[x] = IF x = <<fill.way, fill.line[2]>> THEN fill.line[1] ELSE tag_mem[x]
         /\ fill_last(m) => \A x \in valid' : x \in valid \/ (x = <<fill.way, fill.line[2]>> /\ ~fill.dead)
         /\ flush => valid' = {}
  <1>1. fill_last(m) => fill_write(m)
    BY DEF fill_last
  <1>2. fill_write(m) => /\ state = "FILL" /\ fill.way \in Way /\ fill_set = fill.line[2]
                         /\ fill.line[2] \in Set /\ fill.word \in Offset
    BY FillAddress DEF fill_write
  <1>3. ~fill_write(m) => data_mem' = data_mem
    BY DEF Arrays
  <1>4. ASSUME fill_write(m), NEW x \in Way, NEW s \in Set, NEW o \in Offset
        PROVE  data_mem'[<<x, s, o>>] = IF x = fill.way /\ s = fill.line[2] /\ o = fill.word THEN word
                                        ELSE data_mem[<<x, s, o>>]
    <2>1. data_mem' = [data_mem EXCEPT ![<<fill.way, fill.line[2], fill.word>>] = word]
      BY <1>2, <1>4 DEF Arrays
    <2>2. DOMAIN data_mem = Way \X Set \X Offset
      BY DEF FetchInv, Typed
    <2> QED BY <2>1, <2>2
  <1>5. ASSUME fill_last(m), NEW x \in Way \X Set
        PROVE  tag_mem'[x] = IF x = <<fill.way, fill.line[2]>> THEN fill.line[1] ELSE tag_mem[x]
    <2>1. tag_mem' = [tag_mem EXCEPT ![<<fill.way, fill.line[2]>>] = fill.line[1]]
      BY <1>1, <1>2, <1>5 DEF Arrays
    <2>2. DOMAIN tag_mem = Way \X Set
      BY DEF FetchInv, Typed
    <2> QED BY <2>1, <2>2
  <1>6. fill_last(m) => \A x \in valid' : x \in valid \/ (x = <<fill.way, fill.line[2]>> /\ ~fill.dead)
    BY <1>1, <1>2 DEF Arrays
  <1> QED BY <1>3, <1>4, <1>5, <1>6 DEF Arrays

\* FillsWhole is preserved: a FENCE.I forgets the words already filled, and the fill is dead.
LEMMA FillStep ==
  ASSUME FetchInv, NEW ready, NEW m, NEW stall, NEW jump, NEW flush, NEW write,
         Edge(ready, m, stall, jump, flush, write)
  PROVE  FillsWhole'
  <1> SUFFICES ASSUME state' = "FILL" PROVE FillsWhole'
    BY DEF FillsWhole
  <1>1. PICK word \in Answers(m) : Arrays(m, word, flush)
    BY DEF Edge, Cycle
  <1>2. CASE StartFill(ready)
    <2>1. state = "IDLE" /\ cacheable
      BY <1>2 DEF StartFill, miss, lookup
    <2>2. fill' = [line |-> <<tag(pc), set(pc)>>, word |-> 0, way |-> victim, dead |-> FALSE]
      BY <1>2 DEF StartFill
    <2>3. fill' \in [line : Tag \X Set, word : Offset, way : Way, dead : BOOLEAN] /\ fill'.word = 0 /\ ~fill'.dead
      BY <2>1, <2>2, VictimIsWay, Geometry DEF tag, set
    <2>4. \A o \in Offset : ~(o < 0)
      BY Geometry
    <2> QED BY <2>3, <2>4 DEF FillsWhole
  <1>3. CASE Fill(m, flush)
    <2>1. /\ state = "FILL" /\ ~fill_last(m)
          /\ fill' = [fill EXCEPT !.dead = @ \/ flush, !.word = IF fill_write(m) THEN @ + 1 ELSE @]
      BY <1>3 DEF Fill
    <2>2. /\ fill \in [line : Tag \X Set, word : Offset, way : Way, dead : BOOLEAN]
          /\ fill.dead => <<fill.way, fill.line[2]>> \notin valid
          /\ ~fill.dead => \A o \in Offset :
               o < fill.word => Good(since, data_mem[<<fill.way, fill.line[2], o>>], <<fill.line[1], fill.line[2], o>>)
      BY <2>1 DEF FetchInv, FillsWhole, fill_set
    <2>3. /\ fill'.line = fill.line /\ fill'.way = fill.way /\ fill'.dead = (fill.dead \/ flush)
          /\ fill'.word = IF fill_write(m) THEN fill.word + 1 ELSE fill.word
          /\ fill' = [line |-> fill'.line, word |-> fill'.word, way |-> fill'.way, dead |-> fill'.dead]
      BY <2>1, <2>2
    <2>4. fill'.word \in Offset
      BY <2>1, <2>2, <2>3, Geometry DEF fill_last
    <2>5. fill' \in [line : Tag \X Set, word : Offset, way : Way, dead : BOOLEAN]
      <3>1. fill'.line \in Tag \X Set /\ fill'.way \in Way /\ fill'.dead \in BOOLEAN
        BY <2>2, <2>3
      <3> QED BY <2>3, <2>4, <3>1
    <2>6. fill'.dead => <<fill.way, fill.line[2]>> \notin valid'
      BY <1>1, <2>1, <2>2, <2>3, ArraysMove
    <2>7. ASSUME ~fill'.dead, NEW o \in Offset, o < fill'.word
          PROVE  Good(since', data_mem'[<<fill.way, fill.line[2], o>>], <<fill.line[1], fill.line[2], o>>)
      <3> DEFINE a == <<fill.line[1], fill.line[2], o>>
      <3>1. ~flush /\ ~fill.dead /\ a \in Word /\ fill.way \in Way /\ fill.line[2] \in Set
        BY <2>1, <2>3, <2>7, FillAddress
      <3>2. \A d : Good(since, d, a) => Good(since', d, a)
        BY <3>1, SinceGrows DEF Edge
      <3>3. CASE fill_write(m) /\ o = fill.word
        <4>1. data_mem'[<<fill.way, fill.line[2], o>>] = word
          BY <1>1, <3>1, <3>3, ArraysMove
        <4>2. mem_rvalid(m) /\ Memory(ready, m, write)
          BY <3>3 DEF fill_write, Edge, Cycle
        <4>3. Good(since, word, a)
          BY <1>1, <2>1, <3>1, <3>3, <4>2, AnswerIsGood, FillAddress DEF Good
        <4> QED BY <3>2, <4>1, <4>3
      <3>4. CASE ~(fill_write(m) /\ o = fill.word)
        <4>1. o < fill.word
          BY <2>2, <2>3, <2>7, <3>4, Geometry
        <4>2. Good(since, data_mem[<<fill.way, fill.line[2], o>>], a)
          BY <2>2, <3>1, <4>1
        <4>3. data_mem'[<<fill.way, fill.line[2], o>>] = data_mem[<<fill.way, fill.line[2], o>>]
          BY <1>1, <3>1, <3>4, ArraysMove
        <4> QED BY <3>2, <4>2, <4>3
      <3> QED BY <3>3, <3>4
    <2> QED BY <2>3, <2>5, <2>6, <2>7 DEF FillsWhole, fill_set
  <1> QED BY <1>2, <1>3 DEF Edge, Cycle, Control, StartBypass, StayIdle, Refill, EndBypass, mem_rvalid

\* A line is good when it was and is not written, or when its last word completes it.
LEMMA LinesStep ==
  ASSUME FetchInv, NEW ready, NEW m, NEW stall, NEW jump, NEW flush, NEW write,
         Edge(ready, m, stall, jump, flush, write)
  PROVE  LinesAreWhole'
  <1>1. PICK word \in Answers(m) : Arrays(m, word, flush)
    BY DEF Edge, Cycle
  <1> SUFFICES ASSUME NEW x \in valid', state' = "FILL" => x # <<fill'.way, fill'.line[2]>>, NEW o \in Offset
               PROVE  Good(since', data_mem'[<<x[1], x[2], o>>], <<tag_mem'[x], x[2], o>>)
    BY DEF LinesAreWhole, Good, fill_set
  <1>2. ~flush /\ x \in Way \X Set
    BY <1>1, ArraysMove, TypedStep DEF Edge, Typed
  <1>3. x[1] \in Way /\ x[2] \in Set /\ x = <<x[1], x[2]>>
    BY <1>2
  <1>4. state = "FILL" /\ ~fill_last(m) => state' = "FILL" /\ fill'.way = fill.way /\ fill'.line = fill.line
    <2> SUFFICES ASSUME state = "FILL", ~fill_last(m)
                 PROVE  state' = "FILL" /\ fill'.way = fill.way /\ fill'.line = fill.line
      OBVIOUS
    <2>1. Fill(m, flush)
      BY DEF Edge, Cycle, Control, StartFill, StartBypass, StayIdle, Refill, EndBypass, miss, lookup, bypass_req
    <2>2. fill \in [line : Tag \X Set, word : Offset, way : Way, dead : BOOLEAN]
      BY DEF FetchInv, FillsWhole
    <2> QED BY <2>1, <2>2 DEF Fill
  <1>5. ASSUME x \in valid, state = "FILL" => x # <<fill.way, fill.line[2]>>,
               tag_mem'[x] = tag_mem[x], data_mem'[<<x[1], x[2], o>>] = data_mem[<<x[1], x[2], o>>]
        PROVE  Good(since', data_mem'[<<x[1], x[2], o>>], <<tag_mem'[x], x[2], o>>)
    <2>1. Good(since, data_mem[<<x[1], x[2], o>>], <<tag_mem[x], x[2], o>>)
      BY <1>5 DEF FetchInv, LinesAreWhole, Good, fill_set
    <2>2. <<tag_mem[x], x[2], o>> \in Word
      BY <1>3, <1>5 DEF FetchInv, Typed, Word
    <2> QED BY <1>2, <1>5, <2>1, <2>2, SinceGrows DEF Edge
  <1>6. CASE ~fill_last(m)
    <2>1. x \in valid /\ tag_mem'[x] = tag_mem[x]
      BY <1>1, <1>6, ArraysMove
    <2>2. state = "FILL" => x # <<fill.way, fill.line[2]>>
      BY <1>4, <1>6
    <2>3. fill_write(m) => state = "FILL"
      BY DEF fill_write
    <2>4. data_mem'[<<x[1], x[2], o>>] = data_mem[<<x[1], x[2], o>>]
      BY <1>1, <1>3, <2>2, <2>3, ArraysMove
    <2> QED BY <1>5, <2>1, <2>2, <2>4
  <1>7. CASE fill_last(m)
    <2>1. state = "FILL" /\ fill_write(m) /\ mem_rvalid(m) /\ fill.word = NumWords - 1
      BY <1>7 DEF fill_last, fill_write
    <2>2. CASE x # <<fill.way, fill.line[2]>>
      <3>1. x \in valid /\ tag_mem'[x] = tag_mem[x]
        BY <1>1, <1>2, <1>7, <2>2, ArraysMove
      <3>2. data_mem'[<<x[1], x[2], o>>] = data_mem[<<x[1], x[2], o>>]
        BY <1>1, <1>3, <2>1, <2>2, ArraysMove
      <3> QED BY <1>5, <2>2, <3>1, <3>2
    <2>3. CASE x = <<fill.way, fill.line[2]>>
      <3> DEFINE a == <<fill.line[1], fill.line[2], o>>
      <3>1. ~fill.dead /\ tag_mem'[x] = fill.line[1]
        BY <1>1, <1>2, <1>7, <2>1, <2>3, ArraysMove DEF FetchInv, FillsWhole, fill_set
      <3>2. x[1] = fill.way /\ x[2] = fill.line[2] /\ a \in Word
        BY <2>1, <2>3, FillAddress
      <3>3. Good(since, data_mem'[<<x[1], x[2], o>>], a)
        <4>1. CASE o = fill.word
          <5>1. data_mem'[<<x[1], x[2], o>>] = word
            BY <1>1, <1>3, <2>1, <3>2, <4>1, ArraysMove
          <5>2. Memory(ready, m, write)
            BY DEF Edge, Cycle
          <5> QED BY <1>1, <2>1, <3>1, <4>1, <5>1, <5>2, AnswerIsGood, FillAddress DEF Good
        <4>2. CASE o # fill.word
          <5>1. data_mem'[<<x[1], x[2], o>>] = data_mem[<<fill.way, fill.line[2], o>>]
            BY <1>1, <1>3, <2>1, <3>2, <4>2, ArraysMove
          <5>2. o < fill.word
            BY <2>1, <4>2, Geometry
          <5> QED BY <2>1, <3>1, <5>1, <5>2 DEF FetchInv, FillsWhole, fill_set
        <4> QED BY <4>1, <4>2
      <3> QED BY <1>2, <3>1, <3>2, <3>3, SinceGrows DEF Edge
    <2> QED BY <2>2, <2>3
  <1> QED BY <1>6, <1>7

\* What decode gets comes from a hit or from an answer that is not discarded.
LEMMA FetchedStep ==
  ASSUME FetchInv, NEW ready, NEW m, NEW stall, NEW jump, NEW flush, NEW write,
         Edge(ready, m, stall, jump, flush, write)
  PROVE  FetchedIsCurrent'
  <1> SUFFICES ASSUME ifid' # None PROVE Good(since', ifid'.word, ifid'.pc)
    BY DEF FetchedIsCurrent, Good
  <1>1. PICK word \in Answers(m) : IfId(ready, m, word, stall, jump)
    BY DEF Edge, Cycle
  <1>2. jump = None /\ ~flush
    BY <1>1 DEF IfId, Edge
  <1>3. pc \in Word
    BY GeometryAssumption DEF FetchInv, Typed
  <1>4. \A a \in Word : \A d : Good(since, d, a) => Good(since', d, a)
    BY <1>2, SinceGrows DEF Edge
  <1>5. CASE stall
    <2>1. ifid' = ifid
      BY <1>1, <1>2, <1>5 DEF IfId
    <2>2. Good(since, ifid.word, ifid.pc) /\ ifid.pc \in Word
      BY <2>1 DEF FetchInv, FetchedIsCurrent, Typed, Good
    <2> QED BY <1>4, <2>1, <2>2
  <1>6. CASE ~stall
    <2>1. /\ fetch_response_valid(ready, m)
          /\ ifid' = [pc |-> pc, word |-> IF hit(ready) THEN hit_data ELSE word]
      BY <1>1, <1>2, <1>6 DEF IfId
    <2>2. CASE hit(ready)
      BY <1>3, <1>4, <2>1, <2>2, HitIsGood
    <2>3. CASE ~hit(ready)
      <3>1. mem_rvalid(m) /\ (bypass_req(ready) \/ state = "BYPASS") /\ ~discard
        BY <2>1, <2>3 DEF fetch_response_valid, rvalid
      <3>2. Memory(ready, m, write)
        BY DEF Edge, Cycle
      <3>3. Good(since, word, pc)
        BY <3>1, <3>2, AnswerIsGood
      <3> QED BY <1>3, <1>4, <2>1, <2>3, <3>3
    <2> QED BY <2>2, <2>3
  <1> QED BY <1>5, <1>6

\* Only a bypass stays outstanding.
LEMMA OutstandingStep ==
  ASSUME FetchInv, NEW ready, NEW m, NEW stall, NEW jump, NEW flush, NEW write,
         Edge(ready, m, stall, jump, flush, write)
  PROVE  OutstandingIsBypass'
  <1>1. Bookkeeping(ready, m, jump) /\ Memory(ready, m, write) /\ Control(ready, m, flush) /\ m \in Port
    BY DEF Edge, Cycle
  <1>2. PortOwes'
    BY PortStep
  <1>3. outstanding \in BOOLEAN /\ (outstanding <=> state = "BYPASS") /\ (discard => outstanding)
    BY DEF FetchInv, OutstandingIsBypass, Typed
  <1>4. outstanding' <=> state' = "BYPASS"
    <2>1. CASE state = "IDLE"
      BY <1>1, <1>3, <2>1 DEF Bookkeeping, Control, StartFill, StartBypass, StayIdle, Fill, Refill, EndBypass, rvalid,
            gnt, hit, miss, lookup, bypass_req, mem_gnt, mem_rvalid, Port, Memory, FetchInv, PortOwes
    <2>2. CASE state = "BYPASS"
      BY <1>1, <1>3, <2>2 DEF Bookkeeping, Control, StartFill, StartBypass, StayIdle, Fill, Refill, EndBypass, rvalid,
            gnt, hit, miss, lookup, bypass_req
    <2>3. CASE state \in {"FILL", "REFILL"}
      BY <1>1, <1>3, <2>3 DEF Bookkeeping, Control, StartFill, StartBypass, StayIdle, Fill, Refill, EndBypass, rvalid,
            gnt, hit, miss, lookup, bypass_req
    <2> QED BY <2>1, <2>2, <2>3 DEF FetchInv, Typed
  <1>5. discard' => outstanding'
    BY <1>1, <1>3 DEF Bookkeeping
  <1>6. state' = "BYPASS" /\ ~discard' => pend'.addr = pc'
    BY <1>2 DEF PortOwes
  <1> QED BY <1>4, <1>5, <1>6 DEF OutstandingIsBypass

-----------------------------------------------------------------------------
\* Reset.
LEMMA FetchInitially == Init => FetchInv
  <1> SUFFICES ASSUME Init PROVE FetchInv
    OBVIOUS
  <1>1. pc \in Code \ Uncached /\ pc \in Word
    BY GeometryAssumption DEF Init
  <1>2. Typed
    <2>1. victim_q \in [Set -> Way]
      BY GeometryAssumption DEF Init, Way
    <2>2. rd = [data |-> rd.data, tag |-> rd.tag, valid |-> rd.valid] /\ rd.valid = {}
      BY DEF Init
    <2> QED BY <1>1, <2>1, <2>2 DEF Init, Typed
  <1>3. MemoryCurrent
    BY DEF Init, MemoryCurrent
  <1>4. PortOwes /\ FillsWhole /\ RowIsCurrent /\ FetchedIsCurrent /\ LinesAreWhole /\ OutstandingIsBypass
    BY DEF Init, PortOwes, FillsWhole, RowIsCurrent, FetchedIsCurrent, LinesAreWhole, OutstandingIsBypass
  <1> QED BY <1>2, <1>3, <1>4 DEF FetchInv

\* FetchInv is inductive.
LEMMA FetchStep == FetchInv /\ [Next]_vars => FetchInv'
  <1>1. ASSUME FetchInv, Next PROVE FetchInv'
    <2>1. PICK ready \in Ready, m \in Port, r \in Redirect, write \in Writes, stall \in BOOLEAN :
             Cycle(ready, m, stall, r[1], r[2], write)
      BY <1>1 DEF Next, Clock
    <2>2. None \notin Code
      BY GeometryAssumption
    <2>3. r[1] \in Code \cup {None} /\ (r[2] => r[1] # None)
      <3>1. CASE r = <<None, FALSE>>
        BY <3>1
      <3>2. CASE r \in Code \X BOOLEAN
        BY <2>2, <3>2
      <3> QED BY <3>1, <3>2 DEF Redirect
    <2>4. Edge(ready, m, stall, r[1], r[2], write)
      BY <2>1, <2>3 DEF Edge
    <2>5. Typed' /\ MemoryCurrent' /\ RowIsCurrent'
      BY <1>1, <2>1, <2>3, TypedStep, SinceGrows, RowStep
    <2>6. PortOwes' /\ FillsWhole' /\ FetchedIsCurrent' /\ LinesAreWhole' /\ OutstandingIsBypass'
      BY <1>1, <2>4, PortStep, FillStep, FetchedStep, LinesStep, OutstandingStep
    <2> QED BY <2>5, <2>6 DEF FetchInv
  <1>2. ASSUME FetchInv, UNCHANGED vars PROVE FetchInv'
    BY <1>2 DEF FetchInv, vars, cachevars, Typed, MemoryCurrent, PortOwes, FillsWhole, RowIsCurrent, FetchedIsCurrent,
          LinesAreWhole, OutstandingIsBypass, Good, mem_addr, fill_set
  <1> QED BY <1>1, <1>2

\* Whatever the program does, and whenever memory answers: decode gets the word at its own PC in a version
\* not older than the last FENCE.I, every line a lookup can hit is whole, and the core knows exactly which
\* fetch is owed an answer (icache.v, and the bookkeeping of riscv_cpu.v).
THEOREM FetchIsSound == Spec => []FetchSound
  <1>1. FetchInv => FetchSound
    BY DEF FetchInv, FetchSound
  <1> QED BY <1>1, FetchInitially, FetchStep, PTL DEF Spec

=============================================================================
