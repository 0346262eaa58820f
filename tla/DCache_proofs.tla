---------------------------- MODULE DCache_proofs ---------------------------
(***************************************************************************)
(* For every geometry the code can elaborate, any number of MSHRs, any     *)
(* words, bytes and image, and every behaviour of the memory port, the     *)
(* data cache of rtl/dcache.v is a coherent memory: it implements MemPort. *)
(***************************************************************************)
EXTENDS DCache, SequenceTheorems, TLAPS

-----------------------------------------------------------------------------
(* The inductive invariant.                                                *)

Cell == [Lane -> Byte \cup {None}]
Bytes == UNION {[S -> Byte] : S \in SUBSET Lane}
Entry == [line : Tag \X Set, bytes : [Offset -> Bytes]]
State == {"IDLE", "TAG", "VICTIM", "EVICT_READ", "EVICT_WRITE", "FILL", "SCAN", "BYPASS"}
Transfer == [state : State, clean : BOOLEAN, set : Set, way : Way, tag : Tag \cup {None},
             word : 0 .. NumWords, buf : [Offset -> Cell]]
Row == [data : [Way -> Cell], tag : [Way -> Tag \cup {None}], valid : SUBSET Way, index : Index, fresh : BOOLEAN]
Evicting == eng.state \in {"EVICT_READ", "EVICT_WRITE"}
Slot == <<eng.way, eng.set>>       \* the way in transfer

\* What the registers and arrays hold; a dirty way holds a line, and a line has a tag.
Typed ==
  /\ data_mem \in [Way \X Set \X Offset -> Cell]
  /\ tag_mem \in [Way \X Set -> Tag \cup {None}]
  /\ rd \in Row
  /\ dirty \subseteq valid /\ valid \subseteq Way \X Set
  /\ \A x \in valid : tag_mem[x] \in Tag
  /\ plru \in [Set -> [0 .. NumWays - 2 -> {0, 1}]]
  /\ mshr \in Seq(Entry)
  /\ eng \in Transfer
  /\ scan_set \in Set
  /\ mem \in [Word -> Cell]

\* The engine in transfer is about the oldest MSHR, or cleans; the way it fills or evicts for a
\* fill is out of sight, and no other way has the line on its way out.
EngineOwns ==
  /\ eng.state \in {"IDLE", "BYPASS", "FILL"} => ~eng.clean
  /\ eng.state \in {"TAG", "VICTIM", "EVICT_READ", "EVICT_WRITE", "FILL"} /\ ~eng.clean =>
       mshr # << >> /\ mshr[1].line[2] = eng.set
  /\ eng.state = "VICTIM" => \A w \in Way : rd.tag[w] = tag_mem[<<w, eng.set>>]
  /\ Evicting => eng.tag = tag_mem[Slot] /\ eng.tag \in Tag /\ (eng.clean <=> Slot \in valid)
  /\ Evicting /\ ~eng.clean => \A x \in valid : x[2] = eng.set => tag_mem[x] # eng.tag
  /\ eng.state \in {"EVICT_WRITE", "FILL"} => eng.word < NumWords
  /\ eng.state = "FILL" => Slot \notin valid

\* The memory owes an answer to the engine's word or to a device access, to nothing else.
PortOwes ==
  /\ pend # None => eng.state \in {"EVICT_WRITE", "FILL", "BYPASS"}
  /\ pend # None /\ eng.state \in {"EVICT_WRITE", "FILL"} => pend = mem_request(None)
  /\ eng.state = "BYPASS" => pend \in MP!Request /\ pend.addr \in Device

\* A fresh row is what the arrays hold now.
RowIsCurrent ==
  rd.fresh => \A w \in Way : /\ rd.data[w] = data_mem[<<w, rd.index[1], rd.index[2]>>]
                             /\ rd.tag[w] = tag_mem[<<w, rd.index[1]>>]
                             /\ w \in rd.valid <=> <<w, rd.index[1]>> \in valid

\* A line nobody wrote is what memory holds, unless it is the one on its way there.
CleanLines ==
  \A x \in valid \ dirty : \A o \in Offset :
    ~(Evicting /\ eng.clean /\ x = Slot) => data_mem[<<x[1], x[2], o>>] = mem[<<tag_mem[x], x[2], o>>]

\* The words of the line on its way out, as far as nobody wrote it since: read, in the buffer, in memory.
EvictedSoFar ==
  Slot \notin dirty =>
    /\ eng.state = "EVICT_READ" =>
         /\ \A o \in Offset : o < eng.word - 1 => eng.buf[o] = data_mem[<<eng.way, eng.set, o>>]
         /\ eng.word > 0 => rd.data[eng.way] = data_mem[<<eng.way, eng.set, eng.word - 1>>]
    /\ eng.state = "EVICT_WRITE" => \A o \in Offset :
         /\ eng.word <= o => eng.buf[o] = data_mem[<<eng.way, eng.set, o>>]
         /\ o < eng.word /\ eng.clean => mem[<<eng.tag, eng.set, o>>] = data_mem[<<eng.way, eng.set, o>>]

\* The words of the line on its way in.
FilledSoFar ==
  eng.state = "FILL" => \A o \in Offset : o < eng.word =>
    data_mem[<<eng.way, eng.set, o>>] =
      MP!Merge(mem[<<mshr[1].line[1], mshr[1].line[2], o>>], [addr |-> None, bytes |-> mshr[1].bytes[o]])

CacheInv == /\ Typed /\ EngineOwns /\ PortOwes /\ RowIsCurrent
            /\ CleanLines /\ EvictedSoFar /\ FilledSoFar /\ OneCopy

-----------------------------------------------------------------------------
(* The operators of the model.                                             *)

\* What the assumptions say of ways, sets and words.
LEMMA Geometry ==
  /\ NumWays \in {1, 2, 4, 8} /\ NumWays \in Nat /\ 0 \in Way /\ Way \subseteq 0 .. 7
  /\ NumSets \in Nat /\ NumSets > 1 /\ 0 \in Set /\ 1 \in Set /\ Set \subseteq Nat
  /\ NumWords \in Nat /\ NumWords > 1 /\ 0 \in Offset /\ Offset \subseteq Nat
  BY GeometryAssumption DEF Way, Set, Offset

\* The tree names a way, whatever its bits are.
LEMMA PlruVictim ==
  ASSUME NEW bits \in [0 .. NumWays - 2 -> {0, 1}]
  PROVE  plru_victim(bits) \in Way
  <1>1. ASSUME NEW n \in Nat, n < NumWays - 1 PROVE Child(bits, n) \in {2 * n + 1, 2 * n + 2}
    <2>1. n \in 0 .. NumWays - 2
      BY <1>1, Geometry
    <2>2. bits[n] \in {0, 1}
      BY <2>1
    <2> QED BY <1>1, <2>2 DEF Child
  <1>2. ASSUME NEW n \in Nat, ~(n < NumWays - 1) PROVE Child(bits, n) = n
    BY <1>2 DEF Child
  <1>3. CASE NumWays = 1
    BY <1>2, <1>3 DEF plru_victim, Way
  <1>4. CASE NumWays = 2
    <2>1. Child(bits, 0) \in {1, 2}
      BY <1>1, <1>4
    <2>2. Child(bits, Child(bits, 0)) \in {1, 2}
      BY <2>1, <1>2, <1>4
    <2>3. Child(bits, Child(bits, Child(bits, 0))) \in {1, 2}
      BY <2>2, <1>2, <1>4
    <2> QED BY <2>3, <1>4 DEF plru_victim, Way
  <1>5. CASE NumWays = 4
    <2>1. Child(bits, 0) \in {1, 2}
      BY <1>1, <1>5
    <2>2. Child(bits, Child(bits, 0)) \in {3, 4, 5, 6}
      BY <2>1, <1>1, <1>5
    <2>3. Child(bits, Child(bits, Child(bits, 0))) \in {3, 4, 5, 6}
      BY <2>2, <1>2, <1>5
    <2> QED BY <2>3, <1>5 DEF plru_victim, Way
  <1>6. CASE NumWays = 8
    <2>1. Child(bits, 0) \in {1, 2}
      BY <1>1, <1>6
    <2>2. Child(bits, Child(bits, 0)) \in {3, 4, 5, 6}
      BY <2>1, <1>1, <1>6
    <2>3. Child(bits, Child(bits, Child(bits, 0))) \in 7 .. 14
      BY <2>2, <1>1, <1>6
    <2> QED BY <2>3, <1>6 DEF plru_victim, Way
  <1> QED BY <1>3, <1>4, <1>5, <1>6, Geometry

\* A touched tree is a tree of the same nodes.
LEMMA PlruTouch ==
  ASSUME NEW bits \in [0 .. NumWays - 2 -> {0, 1}], NEW w
  PROVE  plru_touch(bits, w) \in [0 .. NumWays - 2 -> {0, 1}]
  BY DEF plru_touch

\* A nonempty set of ways has a first one.
LEMMA FirstWay ==
  ASSUME NEW C, C \subseteq Way, C # {}
  PROVE  \E w \in C : \A v \in C : w <= v
  <1>1. C \subseteq 0 .. 7
    BY Geometry
  <1>2. CASE \A v \in C : 4 <= v
    <2>1. \A v \in C : v \in 4 .. 7
      BY <1>1, <1>2
    <2>2. \E k \in C : \A v \in C : k <= v
      <3>1. CASE 4 \in C
        BY <2>1, <3>1
      <3>2. CASE 4 \notin C /\ 5 \in C
        BY <2>1, <3>2
      <3>3. CASE 4 \notin C /\ 5 \notin C /\ 6 \in C
        BY <2>1, <3>3
      <3>4. CASE 4 \notin C /\ 5 \notin C /\ 6 \notin C
        <4>1. \A v \in C : v = 7
          BY <2>1, <3>4
        <4> QED BY <4>1
      <3> QED BY <3>1, <3>2, <3>3, <3>4
    <2> QED BY <2>2
  <1>3. CASE 0 \in C
    BY <1>1, <1>3
  <1>4. CASE 0 \notin C /\ 1 \in C
    BY <1>1, <1>4
  <1>5. CASE 0 \notin C /\ 1 \notin C /\ 2 \in C
    BY <1>1, <1>5
  <1>6. CASE 0 \notin C /\ 1 \notin C /\ 2 \notin C /\ 3 \in C
    BY <1>1, <1>6
  <1>7. CASE 0 \notin C /\ 1 \notin C /\ 2 \notin C /\ 3 \notin C
    BY <1>1, <1>2, <1>7
  <1> QED BY <1>3, <1>4, <1>5, <1>6, <1>7

\* The victim is a way, and for a FENCE.I a dirty one if there is one.
LEMMA VictimIsWay ==
  ASSUME Typed
  PROVE  victim \in Way
  <1>1. Candidates \subseteq Way
    BY DEF Candidates
  <1>2. CASE Candidates # {}
    <2>1. \E w \in Candidates : \A v \in Candidates : w <= v
      BY <1>1, <1>2, FirstWay
    <2> QED BY <1>1, <1>2, <2>1 DEF victim
  <1>3. CASE Candidates = {}
    BY <1>3, PlruVictim DEF victim, Typed, Transfer
  <1> QED BY <1>2, <1>3

\* Bytes over a word, and bytes over bytes.
Over(old, new) == [l \in DOMAIN old \cup DOMAIN new |-> IF l \in DOMAIN new THEN new[l] ELSE old[l]]

\* A write of some lanes is a function from them to bytes.
LEMMA ByteFacts ==
  ASSUME NEW b
  PROVE  b \in Bytes <=> /\ b = [l \in DOMAIN b |-> b[l]] /\ DOMAIN b \subseteq Lane
                         /\ \A l \in DOMAIN b : b[l] \in Byte
  <1>1. ASSUME b \in Bytes
        PROVE  b = [l \in DOMAIN b |-> b[l]] /\ DOMAIN b \subseteq Lane /\ \A l \in DOMAIN b : b[l] \in Byte
    <2>1. PICK S \in SUBSET Lane : b \in [S -> Byte]
      BY <1>1 DEF Bytes
    <2> QED BY <2>1
  <1>2. ASSUME b = [l \in DOMAIN b |-> b[l]], DOMAIN b \subseteq Lane, \A l \in DOMAIN b : b[l] \in Byte
        PROVE  b \in Bytes
    <2>1. b \in [DOMAIN b -> Byte]
      BY <1>2
    <2> QED BY <1>2, <2>1 DEF Bytes
  <1> QED BY <1>1, <1>2

\* Two writes to one word make one of the lanes of both.
LEMMA OverFacts ==
  ASSUME NEW old \in Bytes, NEW new \in Bytes
  PROVE  Over(old, new) \in Bytes /\ DOMAIN Over(old, new) = DOMAIN old \cup DOMAIN new
  <1> DEFINE o == Over(old, new)
  <1>1. DOMAIN o = DOMAIN old \cup DOMAIN new /\ o = [l \in DOMAIN o |-> o[l]]
    BY DEF Over
  <1>2. DOMAIN o \subseteq Lane
    BY <1>1, ByteFacts
  <1>3. ASSUME NEW l \in DOMAIN o PROVE o[l] \in Byte
    BY <1>1, <1>3, ByteFacts DEF Over
  <1> HIDE DEF o
  <1>4. o \in Bytes
    BY <1>1, <1>2, <1>3, ByteFacts
  <1> QED BY <1>1, <1>4 DEF o

\* MemPort's Merge, of the bytes alone.
With(old, b) == [l \in Lane |-> IF l \in DOMAIN b THEN b[l] ELSE old[l]]

\* A write onto a word: of no lane, of all, and two in a row.
LEMMA MergeFacts ==
  /\ \A old, r : MP!Merge(old, r) = With(old, r.bytes)
  /\ \A old \in Cell : \A b \in Bytes : With(old, b) \in Cell
  /\ \A old \in Cell : \A b : DOMAIN b = {} => With(old, b) = old
  /\ \A old : \A b \in Cell : With(old, b) = b
  /\ \A old : \A b, c \in Bytes : With(With(old, b), c) = With(old, Over(b, c))
  <1>1. \A old, r : MP!Merge(old, r) = With(old, r.bytes)
    BY DEF MP!Merge, With
  <1>2. ASSUME NEW old \in Cell, NEW b \in Bytes PROVE With(old, b) \in Cell
    BY ByteFacts DEF With, Cell
  <1>3. ASSUME NEW old \in Cell, NEW b, DOMAIN b = {} PROVE With(old, b) = old
    BY <1>3 DEF With, Cell
  <1>4. ASSUME NEW old, NEW b \in Cell PROVE With(old, b) = b
    BY DEF With, Cell
  <1>5. ASSUME NEW old, NEW b \in Bytes, NEW c \in Bytes
        PROVE  With(With(old, b), c) = With(old, Over(b, c))
    BY DEF With, Over
  <1> QED BY <1>1, <1>2, <1>3, <1>4, <1>5

-----------------------------------------------------------------------------
(* The lookup.                                                             *)

\* The parts of a request.
LEMMA RequestFacts ==
  ASSUME NEW r \in MP!Request
  PROVE  /\ r # None /\ r.addr \in Word /\ r.bytes \in Bytes
         /\ cacheable(r) => /\ r.addr \in Cached /\ r.addr = <<r.addr[1], r.addr[2], r.addr[3]>>
                            /\ r.addr[1] \in Tag /\ r.addr[2] \in Set /\ r.addr[3] \in Offset
  <1>1. MP!Request = [addr : Word, bytes : Bytes]
    BY DEF MP!Request, Bytes
  <1>2. r # None
    BY GeometryAssumption DEF MP!Request
  <1> QED BY <1>1, <1>2 DEF cacheable, Word, Cached

\* The lookup of r finds its line in way w.
Hit(r, w) ==
  /\ w \in Way /\ <<w, r.addr[2]>> \in valid /\ tag_mem[<<w, r.addr[2]>>] = r.addr[1]
  /\ rd.data[w] = data_mem[<<w, r.addr[2], r.addr[3]>>]

\* ... or in MSHR k, which is not being filled.
Matched(r, k) == k \in DOMAIN mshr /\ mshr[k].line = line(r.addr) /\ (k = 1 => eng.state # "FILL")

\* ... or nowhere.
Missed(r) ==
  /\ \A x \in valid : x[2] = r.addr[2] => tag_mem[x] # r.addr[1]
  /\ \A i \in DOMAIN mshr : mshr[i].line # line(r.addr)

\* What each outcome of the lookup says of the place of the line.
LEMMA Lookups ==
  ASSUME CacheInv, NEW r \in MP!Request \cup {None}, NEW m
  PROVE  /\ Outcome(r, m) \in {"none", "wait", "load_hit", "store_hit", "store_merge", "store_alloc", "load_alloc"}
         /\ Outcome(r, m) # "none" => r \in MP!Request /\ cacheable(r) /\ ~lookup_block(m)
         /\ Outcome(r, m) \in {"load_hit", "store_hit"} => Hit(r, hit_way(r))
         /\ Outcome(r, m) = "store_merge" => Matched(r, match_index(r))
         /\ Outcome(r, m) \in Alloc => Missed(r)
         /\ Outcome(r, m) \in ServedStore => we(r)
         /\ Outcome(r, m) \in {"load_hit", "load_alloc"} => ~we(r)
  <1> DEFINE lk == Outcome(r, m)
  <1>1. /\ lk \in {"none", "wait", "load_hit", "store_hit", "store_merge", "store_alloc", "load_alloc"}
        /\ lk # "none" => lookup(r, m)
        /\ lk \in {"load_hit", "store_hit"} => hit_any(r)
        /\ lk = "store_merge" => match_any(r) /\ ~match_filling(r)
        /\ lk \in Alloc => ~hit_any(r) /\ ~match_any(r)
        /\ lk \in ServedStore => we(r)
        /\ lk \in {"load_hit", "load_alloc"} => ~we(r)
    <2> DEFINE L == lookup(r, m)
               H == hit_any(r)
               M == match_any(r)
               W == we(r)
    <2>1. \/ ~L /\ lk = "none"
          \/ L /\ H /\ lk = IF W THEN "store_hit" ELSE "load_hit"
          \/ L /\ ~H /\ M /\ lk = IF W /\ ~match_filling(r) THEN "store_merge" ELSE "wait"
          \/ L /\ ~H /\ ~M /\ lk = IF mshr_full THEN "wait" ELSE IF W THEN "store_alloc" ELSE "load_alloc"
      BY Zenon DEF Outcome
    <2> HIDE DEF L, H, M, W, lk
    <2>2. /\ lk \in {"none", "wait", "load_hit", "store_hit", "store_merge", "store_alloc", "load_alloc"}
          /\ lk # "none" => L
          /\ lk \in {"load_hit", "store_hit"} => H
          /\ lk = "store_merge" => M /\ ~match_filling(r)
          /\ lk \in Alloc => ~H /\ ~M
          /\ lk \in ServedStore => W
          /\ lk \in {"load_hit", "load_alloc"} => ~W
      BY <2>1 DEF Alloc, ServedStore
    <2> QED BY <2>2 DEF L, H, M, W
  <1> HIDE DEF lk
  <1>2. ASSUME lookup(r, m)
        PROVE  /\ r \in MP!Request /\ cacheable(r) /\ ~lookup_block(m)
               /\ rd.fresh /\ rd.index[1] = r.addr[2] /\ rd.index[2] = r.addr[3]
    BY <1>2 DEF lookup, cacheable, index
  <1>3. ASSUME lookup(r, m), NEW w \in Way
        PROVE  /\ rd.data[w] = data_mem[<<w, r.addr[2], r.addr[3]>>]
               /\ w \in way_hit(r) <=> <<w, r.addr[2]>> \in valid /\ tag_mem[<<w, r.addr[2]>>] = r.addr[1]
    BY <1>2, <1>3 DEF CacheInv, RowIsCurrent, way_hit, tag
  <1>4. ASSUME lookup(r, m), hit_any(r) PROVE Hit(r, hit_way(r))
    <2>1. PICK w \in Way : w \in way_hit(r)
      BY <1>4 DEF hit_any, way_hit
    <2>2. ASSUME NEW v \in way_hit(r) PROVE v = w
      <3>1. v \in Way
        BY DEF way_hit
      <3>2. <<v, r.addr[2]>> \in valid /\ tag_mem[<<v, r.addr[2]>>] = r.addr[1]
        BY <1>3, <1>4, <2>2, <3>1
      <3>3. <<w, r.addr[2]>> \in valid /\ tag_mem[<<w, r.addr[2]>>] = r.addr[1]
        BY <1>3, <1>4, <2>1
      <3>4. <<v, r.addr[2]>> = <<w, r.addr[2]>>
        BY <3>2, <3>3 DEF CacheInv, OneCopy
      <3> QED BY <3>4
    <2>3. w <= w
      BY <2>1, Geometry
    <2>4. hit_way(r) = w
      BY <2>1, <2>2, <2>3 DEF hit_way
    <2> QED BY <1>3, <1>4, <2>1, <2>4 DEF Hit
  <1>5. ASSUME match_any(r)
        PROVE  match_index(r) \in DOMAIN mshr /\ mshr[match_index(r)].line = line(r.addr)
    <2>1. PICK k \in DOMAIN mshr : k \in mshr_match(r) /\ mshr[k].line = line(r.addr)
      BY <1>5 DEF match_any, mshr_match
    <2>2. ASSUME NEW j \in mshr_match(r) PROVE j = k
      BY <2>1, <2>2 DEF CacheInv, OneCopy, mshr_match
    <2>3. k <= k
      BY <2>1, LenProperties DEF CacheInv, Typed
    <2>4. match_index(r) = k
      BY <2>1, <2>2, <2>3 DEF match_index
    <2> QED BY <2>1, <2>4
  <1>6. lk = "store_merge" => Matched(r, match_index(r))
    BY <1>1, <1>5 DEF Matched, match_filling
  <1>7. ASSUME lookup(r, m), ~hit_any(r), ~match_any(r) PROVE Missed(r)
    <2>1. ASSUME NEW x \in valid, x[2] = r.addr[2] PROVE tag_mem[x] # r.addr[1]
      <3>1. x[1] \in Way /\ x = <<x[1], r.addr[2]>>
        BY <2>1 DEF CacheInv, Typed
      <3>2. x[1] \notin way_hit(r)
        BY <1>7 DEF hit_any
      <3> QED BY <1>3, <1>7, <3>1, <3>2
    <2> QED BY <1>7, <2>1 DEF Missed, match_any, mshr_match
  <1>8. lk \in Alloc => lk # "none"
    BY DEF Alloc
  <1> QED BY <1>1, <1>2, <1>4, <1>6, <1>7, <1>8 DEF lk

-----------------------------------------------------------------------------
(* What a cycle may do to the arrays, the MSHRs and the memory.            *)

Word1 == <<mshr[1].line[1], mshr[1].line[2], eng.word>>     \* the word being filled

\* Lines stay where they are; a served lookup writes the array or an MSHR.
Looks(r, lk) ==
  /\ tag_mem' = tag_mem /\ valid' = valid
  /\ data_mem' = IF lk = "store_hit"
                 THEN [data_mem EXCEPT ![<<hit_way(r), r.addr[2], r.addr[3]>>] = MP!Merge(@, r)] ELSE data_mem
  /\ dirty' = IF lk = "store_hit" THEN dirty \cup {<<hit_way(r), r.addr[2]>>} ELSE dirty
  /\ lk \in Alloc => mshr' = Append(mshr, [line |-> line(r.addr), bytes |-> Left(NoBytes, r)])
  /\ lk = "store_merge" => mshr' = [mshr EXCEPT ![match_index(r)].bytes = Left(@, r)]
  /\ lk \notin Alloc /\ lk # "store_merge" => mshr' = mshr

\* The engine rests, waits, or is on its way to a victim.
Turns ==
  \/ eng' = eng
  \/ eng' = AtRest("IDLE") \/ eng' = AtRest("BYPASS") \/ eng' = AtRest("SCAN")
  \/ eng.state = "IDLE" /\ mshr # << >> /\ eng' = [eng EXCEPT !.state = "TAG", !.set = mshr[1].line[2]]
  \/ eng.state = "SCAN" /\ eng' = [eng EXCEPT !.state = "TAG", !.clean = TRUE, !.set = scan_set]
  \/ eng.state = "TAG" /\ eng' = [eng EXCEPT !.state = "VICTIM"]

Passing(r, lk) ==
  /\ Looks(r, lk) /\ Turns
  /\ eng.state # "VICTIM" /\ ~Evicting /\ eng'.state \notin {"EVICT_READ", "EVICT_WRITE"}
  /\ eng'.state = "FILL" => eng' = eng
  /\ \A a \in Cached : mem'[a] = mem[a]

Reading(r, lk) ==
  /\ eng.state = "EVICT_READ" /\ mem' = mem
  /\ Looks(r, lk)
  /\ eng' = [eng EXCEPT !.buf = IF eng.word = 0 THEN @
                                ELSE [@ EXCEPT ![eng.word - 1] = rd.data[eng.way]],
                        !.state = IF eng.word = NumWords THEN "EVICT_WRITE" ELSE @,
                        !.word = IF eng.word = NumWords THEN 0 ELSE @ + 1]

Waiting(r, lk) ==
  /\ eng.state = "EVICT_WRITE" /\ mem' = mem /\ eng' = eng
  /\ Looks(r, lk)

Writing(r, lk) ==
  /\ eng.state = "EVICT_WRITE" /\ mem' = [mem EXCEPT ![<<eng.tag, eng.set, eng.word>>] = eng.buf[eng.word]]
  /\ Looks(r, lk)
  /\ eng' = IF eng.word # NumWords - 1 THEN [eng EXCEPT !.word = @ + 1]
            ELSE IF eng.clean THEN AtRest("SCAN")
            ELSE [eng EXCEPT !.state = "FILL", !.word = 0, !.tag = None,
                             !.buf = [o \in Offset |-> Junk]]

Choosing ==
  /\ eng.state = "VICTIM" /\ ChooseVictim
  /\ UNCHANGED <<data_mem, tag_mem, mshr, mem>>

Filling ==
  /\ eng.state = "FILL"
  /\ data_mem' = [data_mem EXCEPT ![<<eng.way, eng.set, eng.word>>] = With(mem[Word1], mshr[1].bytes[eng.word])]
  /\ mem' = mem
  /\ \/ /\ eng.word # NumWords - 1
        /\ eng' = [eng EXCEPT !.word = @ + 1]
        /\ UNCHANGED <<tag_mem, valid, dirty, mshr>>
     \/ /\ eng.word = NumWords - 1
        /\ eng' = AtRest("IDLE")
        /\ tag_mem' = [tag_mem EXCEPT ![<<eng.way, eng.set>>] = mshr[1].line[1]]
        /\ valid' = valid \cup {Slot}
        /\ dirty' = IF mshr[1].bytes # NoBytes THEN dirty \cup {Slot} ELSE dirty \ {Slot}
        /\ mshr' = Tail(mshr)

\* What the memory port does for the engine, and for devices.
LEMMA MemoryStep ==
  ASSUME CacheInv, NEW r \in MP!Request \cup {None}, NEW m \in Port, Memory(r, m)
  PROVE  /\ mem' \in [Word -> Cell]
         /\ eng.state = "EVICT_WRITE" =>
              (mem' = IF mem_rvalid(m) THEN [mem EXCEPT ![<<eng.tag, eng.set, eng.word>>] = eng.buf[eng.word]]
                      ELSE mem)
         /\ eng.state = "FILL" => mem' = mem /\ Performed(r).addr = Word1
         /\ eng.state \notin {"EVICT_WRITE", "FILL"} => \A a \in Cached : mem'[a] = mem[a]
         /\ eng.state \notin {"EVICT_WRITE", "FILL", "BYPASS"} /\ ~bypass_go(r) => mem' = mem /\ m = "idle"
         /\ eng.state = "BYPASS" \/ bypass_go(r) =>
              /\ Performed(r) \in MP!Request /\ Performed(r).addr \in Device
              /\ mem' = IF mem_rvalid(m) THEN MP!Apply(mem, Performed(r)) ELSE mem
  <1> DEFINE p == Performed(r)
  <1>1. /\ mem \in [Word -> Cell] /\ eng.word \in 0 .. NumWords /\ eng.set \in Set /\ eng.buf \in [Offset -> Cell]
        /\ mshr \in Seq(Entry)
    BY DEF CacheInv, Typed, Transfer
  <1>2. mem' = IF mem_rvalid(m) THEN MP!Apply(mem, p) ELSE mem
    BY DEF Memory
  <1>3. MP!Apply(mem, p) = [mem EXCEPT ![p.addr] = With(mem[p.addr], p.bytes)]
    BY MergeFacts DEF MP!Apply
  <1> HIDE DEF p
  <1>4. CASE eng.state = "EVICT_WRITE"
    <2>1. p = [addr |-> <<eng.tag, eng.set, eng.word>>, bytes |-> eng.buf[eng.word]]
      BY <1>4 DEF p, Performed, mem_request, CacheInv, PortOwes
    <2>2. eng.word \in Offset /\ eng.buf[eng.word] \in Cell
      BY <1>1, <1>4, Geometry DEF CacheInv, EngineOwns, Offset
    <2>3. With(mem[p.addr], p.bytes) = eng.buf[eng.word]
      BY <2>1, <2>2, MergeFacts
    <2>4. ~bypass_go(r)
      BY <1>4 DEF bypass_go
    <2>5. mem' = IF mem_rvalid(m) THEN [mem EXCEPT ![<<eng.tag, eng.set, eng.word>>] = eng.buf[eng.word]] ELSE mem
      BY <1>2, <1>3, <2>1, <2>3
    <2>6. mem' \in [Word -> Cell]
      BY <1>1, <2>2, <2>5
    <2> QED BY <1>4, <2>4, <2>5, <2>6
  <1>5. CASE eng.state = "FILL"
    <2>1. p = [addr |-> Word1, bytes |-> << >>]
      BY <1>5 DEF p, Performed, mem_request, CacheInv, PortOwes, Word1
    <2>2. Word1 \in Word
      <3>1. eng.word \in Offset
        BY <1>1, <1>5, Geometry DEF CacheInv, EngineOwns, Offset
      <3>2. mshr # << >>
        BY <1>5 DEF CacheInv, EngineOwns
      <3>3. 1 \in 1 .. Len(mshr)
        BY <1>1, <3>2, EmptySeq, LenProperties
      <3>4. mshr[1] \in Entry
        BY <1>1, <3>3, ElementOfSeq
      <3> QED BY <3>1, <3>4 DEF Word1, Word, Cached, Entry
    <2>3. DOMAIN p.bytes = {}
      <3>1. p.bytes = << >>
        BY <2>1
      <3> QED BY <3>1
    <2>4. With(mem[p.addr], p.bytes) = mem[p.addr]
      BY <1>1, <2>1, <2>2, <2>3, MergeFacts
    <2>5. ~bypass_go(r)
      BY <1>5 DEF bypass_go
    <2>6. mem' = mem
      <3>1. [mem EXCEPT ![p.addr] = mem[p.addr]] = mem
        BY <1>1
      <3> QED BY <1>2, <1>3, <2>4, <3>1
    <2>7. Performed(r).addr = Word1
      BY <2>1 DEF p
    <2> QED BY <1>1, <1>5, <2>5, <2>6, <2>7
  <1>6. CASE eng.state = "BYPASS" \/ bypass_go(r)
    <2>1. eng.state \in {"BYPASS", "IDLE"}
      BY <1>6 DEF bypass_go
    <2>2. p \in MP!Request /\ p.addr \in Device
      <3>1. CASE eng.state = "BYPASS"
        BY <3>1, RequestFacts DEF p, Performed, CacheInv, PortOwes
      <3>2. CASE bypass_go(r)
        <4>1. eng.state = "IDLE" /\ pend = None /\ mem_request(r) = r /\ r \in MP!Request /\ r.addr \in Device
          BY <3>2 DEF bypass_go, cacheable, mem_request, CacheInv, PortOwes
        <4> QED BY <4>1 DEF p, Performed
      <3> QED BY <1>6, <3>1, <3>2
    <2>3. p.bytes \in Bytes /\ p.addr \in Word /\ p.addr \notin Cached
      BY <2>2, RequestFacts, GeometryAssumption
    <2>4. With(mem[p.addr], p.bytes) \in Cell
      BY <1>1, <2>3, MergeFacts
    <2>5. mem' \in [Word -> Cell] /\ \A a \in Cached : mem'[a] = mem[a]
      <3>1. CASE mem' = mem
        BY <1>1, <3>1
      <3>2. CASE mem' = [mem EXCEPT ![p.addr] = With(mem[p.addr], p.bytes)]
        <4>1. PICK d \in Cell : mem' = [mem EXCEPT ![p.addr] = d]
          BY <2>4, <3>2
        <4>2. \A a \in Word : mem'[a] = IF a = p.addr THEN d ELSE mem[a]
          BY <1>1, <4>1
        <4> QED BY <1>1, <2>3, <4>1, <4>2 DEF Word
      <3> QED BY <1>2, <1>3, <3>1, <3>2
    <2>6. Performed(r) \in MP!Request /\ Performed(r).addr \in Device
          /\ mem' = IF mem_rvalid(m) THEN MP!Apply(mem, Performed(r)) ELSE mem
      BY <1>2, <2>2 DEF p
    <2> QED BY <1>6, <2>1, <2>5, <2>6
  <1>7. CASE eng.state \notin {"EVICT_WRITE", "FILL", "BYPASS"} /\ ~bypass_go(r)
    <2>1. pend = None /\ ~mem_req(r)
      BY <1>7 DEF CacheInv, PortOwes, mem_req
    <2>2. m = "idle"
      BY <2>1 DEF Memory, Port
    <2> QED BY <1>1, <1>2, <1>7, <2>2 DEF mem_rvalid
  <1> QED BY <1>4, <1>5, <1>6, <1>7

\* Every cycle is of one of six kinds; only a lookup may come with the first four.
LEMMA StepKinds ==
  ASSUME CacheInv, NEW r \in MP!Request \cup {None}, NEW na, NEW m \in Port, NEW clean_req,
         Cycle(r, na, m, clean_req), NEW lk, lk = Outcome(r, m)
  PROVE  \/ Passing(r, lk) \/ Reading(r, lk) \/ Waiting(r, lk) \/ Writing(r, lk)
         \/ lk = "none" /\ (Choosing \/ (fill_write(m) /\ Filling))
  <1>1. /\ Memory(r, m) /\ Engine(r, m, lk, clean_req) /\ MSHRs(r, m, lk) /\ Arrays(r, na, m, lk)
    BY DEF Cycle
  <1>2. lk # "none" => ~lookup_block(m)
    BY Lookups
  <1>3. ~fill_write(m) /\ LookupOnly(r, lk) => Looks(r, lk)
    <2>1. ~fill_write(m) => ~fill_last(m)
      BY DEF fill_last
    <2>2. ~fill_write(m) => tag_mem' = tag_mem /\ data_mem' =
            IF lk = "store_hit"
            THEN [data_mem EXCEPT ![<<hit_way(r), r.addr[2], r.addr[3]>>] = MP!Merge(@, r)] ELSE data_mem
      BY <1>1, <2>1 DEF Arrays
    <2>3. "store_merge" \notin Alloc
      BY DEF Alloc
    <2>4. ~fill_write(m) =>
            /\ lk \in Alloc => mshr' = Append(mshr, [line |-> line(r.addr), bytes |-> Left(NoBytes, r)])
            /\ lk = "store_merge" => mshr' = [mshr EXCEPT ![match_index(r)].bytes = Left(@, r)]
            /\ lk \notin Alloc /\ lk # "store_merge" => mshr' = mshr
      BY <1>1, <2>1, <2>3, Zenon DEF MSHRs
    <2> QED BY <2>2, <2>4, Zenon DEF Looks, LookupOnly
  <1>4. eng.state # "FILL" => ~fill_write(m)
    BY DEF fill_write
  <1>5. CASE eng.state \notin {"VICTIM", "EVICT_READ", "EVICT_WRITE", "FILL"}
    <2>1. LookupOnly(r, lk) /\ Turns /\ eng'.state \notin {"EVICT_READ", "EVICT_WRITE", "FILL"}
      <3> DEFINE E == {"EVICT_READ", "EVICT_WRITE", "FILL"}
      <3>1. /\ eng.state \notin E /\ AtRest("IDLE").state \notin E /\ AtRest("BYPASS").state \notin E
            /\ AtRest("SCAN").state \notin E
        BY <1>5 DEF AtRest
      <3>2. ~ChooseVictim /\ ~EvictRead(r, lk) /\ ~EvictWrite(r, m, lk) /\ ~Fill(r, m, lk) /\ ~FillLast(m)
        BY <1>5 DEF ChooseVictim, EvictRead, EvictWrite, Fill, FillLast, fill_last, fill_write
      <3>3. eng \in Transfer
        BY DEF CacheInv, Typed
      <3>4. CASE StartBypass(r, m, lk) \/ StartScan(r, lk, clean_req) \/ Rest(r, lk, clean_req)
                 \/ EndScan(r, lk, clean_req) \/ EndBypass(r, m, lk)
        BY <3>1, <3>4 DEF StartBypass, StartScan, Rest, EndScan, EndBypass, Turns
      <3>5. CASE StartFill(r, lk)
        <4>1. Head(mshr) = mshr[1]
          OBVIOUS
        <4> QED BY <3>1, <3>3, <3>5, <4>1 DEF StartFill, Transfer, Turns
      <3>6. CASE Scan(r, lk, clean_req)
        BY <3>1, <3>3, <3>6 DEF Scan, Transfer, Turns
      <3>7. CASE ReadTag(r, lk)
        BY <3>1, <3>3, <3>7 DEF ReadTag, Transfer, Turns
      <3> QED BY <1>1, <3>2, <3>4, <3>5, <3>6, <3>7 DEF Engine
    <2>2. \A a \in Cached : mem'[a] = mem[a]
      BY <1>1, <1>5, MemoryStep
    <2> QED BY <1>3, <1>4, <1>5, <2>1, <2>2 DEF Passing, Evicting
  <1>6. CASE eng.state = "VICTIM"
    <2>1. lk = "none" /\ ~bypass_go(r) /\ ~fill_last(m) /\ ~fill_write(m)
      BY <1>2, <1>4, <1>6 DEF lookup_block, bypass_go, fill_last
    <2>2. ChooseVictim
      BY <1>1, <1>6, <2>1
      DEF Engine, StartBypass, StartFill, StartScan, Rest, EndScan, Scan, ReadTag, EvictRead,
          EvictWrite, Fill, FillLast, EndBypass
    <2>3. mem' = mem
      BY <1>1, <1>6, <2>1, MemoryStep
    <2>4. UNCHANGED <<data_mem, tag_mem>>
      BY <1>1, <2>1 DEF Arrays
    <2>5. mshr' = mshr
      BY <1>1, <2>1, Zenon DEF MSHRs, Alloc
    <2> QED BY <1>6, <2>1, <2>2, <2>3, <2>4, <2>5 DEF Choosing
  <1>7. CASE eng.state = "EVICT_READ"
    <2>1. EvictRead(r, lk)
      BY <1>1, <1>7
      DEF Engine, StartBypass, StartFill, StartScan, Rest, EndScan, Scan, ReadTag, ChooseVictim,
          EvictWrite, Fill, FillLast, fill_last, fill_write, EndBypass, bypass_go
    <2>2. mem' = mem
      BY <1>1, <1>7, MemoryStep DEF bypass_go
    <2> QED BY <1>3, <1>4, <1>7, <2>1, <2>2 DEF EvictRead, Reading
  <1>8. CASE eng.state = "EVICT_WRITE"
    <2>1. EvictWrite(r, m, lk)
      BY <1>1, <1>8
      DEF Engine, StartBypass, StartFill, StartScan, Rest, EndScan, Scan, ReadTag, ChooseVictim,
          EvictRead, Fill, FillLast, fill_last, fill_write, EndBypass, bypass_go
    <2>2. mem' = IF mem_rvalid(m) THEN [mem EXCEPT ![<<eng.tag, eng.set, eng.word>>] = eng.buf[eng.word]]
                 ELSE mem
      BY <1>1, <1>8, MemoryStep
    <2> QED BY <1>3, <1>4, <1>8, <2>1, <2>2 DEF EvictWrite, Writing, Waiting
  <1>9. CASE eng.state = "FILL"
    <2>1. Fill(r, m, lk) \/ FillLast(m)
      BY <1>1, <1>9
      DEF Engine, StartBypass, StartFill, StartScan, Rest, EndScan, Scan, ReadTag, ChooseVictim,
          EvictRead, EvictWrite, EndBypass, bypass_go
    <2>2. mem' = mem /\ Performed(r).addr = Word1
      BY <1>1, <1>9, MemoryStep
    <2>3. CASE ~fill_write(m)
      <3>1. Fill(r, m, lk)
        BY <2>1, <2>3 DEF FillLast, fill_last
      <3> QED BY <1>3, <1>9, <2>2, <2>3, <3>1 DEF Fill, Passing, Turns, Evicting
    <2>4. CASE fill_write(m)
      <3>1. lk = "none"
        BY <1>2, <2>4 DEF lookup_block
      <3>2. FillWord(r) = With(mem[Word1], mshr[1].bytes[eng.word])
        BY <2>2, MergeFacts DEF FillWord
      <3>3. data_mem' = [data_mem EXCEPT ![<<eng.way, eng.set, eng.word>>] = With(mem[Word1], mshr[1].bytes[eng.word])]
        BY <1>1, <2>4, <3>2 DEF Arrays
      <3>4. CASE fill_last(m)
        <4>1. eng.word = NumWords - 1 /\ FillLast(m)
          BY <2>1, <3>4 DEF fill_last, Fill
        <4>2. mshr' = Tail(mshr)
          BY <1>1, <3>1, <3>4, Zenon DEF MSHRs, Alloc
        <4>3. tag_mem' = [tag_mem EXCEPT ![<<eng.way, eng.set>>] = mshr[1].line[1]]
          <5>1. tag_mem' = [tag_mem EXCEPT ![<<eng.way, eng.set>>] = Head(mshr).line[1]]
            BY <1>1, <3>4, Zenon DEF Arrays
          <5>2. Head(mshr) = mshr[1]
            OBVIOUS
          <5> QED BY <5>1, <5>2, Zenon
        <4> QED BY <1>9, <2>2, <2>4, <3>1, <3>3, <4>1, <4>2, <4>3 DEF FillLast, Filling, Slot
      <3>5. CASE ~fill_last(m)
        <4>1. eng.word # NumWords - 1 /\ Fill(r, m, lk)
          BY <2>1, <2>4, <3>5 DEF fill_last, FillLast
        <4>2. mshr' = mshr
          BY <1>1, <3>1, <3>5, Zenon DEF MSHRs, Alloc
        <4>3. tag_mem' = tag_mem
          BY <1>1, <3>5 DEF Arrays
        <4>4. eng' = [eng EXCEPT !.word = @ + 1] /\ UNCHANGED <<valid, dirty>>
          BY <2>4, <3>1, <4>1 DEF Fill, LookupOnly
        <4> QED BY <1>9, <2>2, <2>4, <3>1, <3>3, <4>1, <4>2, <4>3, <4>4 DEF Filling
      <3> QED BY <3>4, <3>5
    <2> QED BY <2>3, <2>4
  <1> QED BY <1>5, <1>6, <1>7, <1>8, <1>9

-----------------------------------------------------------------------------
(* The MSHRs.                                                              *)

\* A new MSHR has no bytes.
LEMMA NoBytesTyped == << >> \in Bytes /\ DOMAIN << >> = {} /\ NoBytes \in [Offset -> Bytes]
  <1>1. << >> \in [{} -> Byte] /\ DOMAIN << >> = {}
    OBVIOUS
  <1>2. << >> \in Bytes
    BY <1>1 DEF Bytes
  <1> QED BY <1>1, <1>2 DEF NoBytes

\* A store leaves its bytes over those of its word.
LEMMA LeftFacts ==
  ASSUME NEW bytes \in [Offset -> Bytes], NEW r \in MP!Request, cacheable(r)
  PROVE  /\ Left(bytes, r) \in [Offset -> Bytes]
         /\ \A o \in Offset : Left(bytes, r)[o] = IF o = r.addr[3] THEN Over(bytes[o], r.bytes) ELSE bytes[o]
  <1>1. r.addr[3] \in Offset /\ r.bytes \in Bytes
    BY RequestFacts
  <1>2. Left(bytes, r) = [bytes EXCEPT ![r.addr[3]] = Over(bytes[r.addr[3]], r.bytes)]
    BY DEF Left, Over
  <1>3. Over(bytes[r.addr[3]], r.bytes) \in Bytes
    BY <1>1, OverFacts
  <1> QED BY <1>1, <1>2, <1>3

\* The entries are those of before; a store that merges into one changes a word of it, a miss takes
\* the next one.
Kept(r, lk) ==
  \A i \in 1 .. Len(mshr) :
    /\ i \in 1 .. Len(mshr') /\ mshr'[i].line = mshr[i].line
    /\ \A o \in Offset : mshr'[i].bytes[o] =
         IF lk = "store_merge" /\ i = match_index(r) /\ o = r.addr[3] THEN Over(mshr[i].bytes[o], r.bytes)
         ELSE mshr[i].bytes[o]
    /\ ~(lk = "store_merge" /\ i = match_index(r)) => mshr'[i] = mshr[i]
Taken(r, lk) ==
  /\ lk \notin Alloc => Len(mshr') = Len(mshr)
  /\ lk \in Alloc =>
       /\ Len(mshr') = Len(mshr) + 1 /\ mshr'[Len(mshr')].line = line(r.addr)
       /\ \A o \in Offset : mshr'[Len(mshr')].bytes[o] = IF o = r.addr[3] THEN Over(<< >>, r.bytes) ELSE << >>

\* The parts of an MSHR.
LEMMA EntryFacts ==
  ASSUME Typed
  PROVE  /\ Len(mshr) \in Nat /\ DOMAIN mshr = 1 .. Len(mshr)
         /\ \A i \in 1 .. Len(mshr) :
              /\ mshr[i] \in Entry /\ mshr[i] = [line |-> mshr[i].line, bytes |-> mshr[i].bytes]
              /\ mshr[i].line = <<mshr[i].line[1], mshr[i].line[2]>>
              /\ mshr[i].line[1] \in Tag /\ mshr[i].line[2] \in Set
              /\ mshr[i].bytes \in [Offset -> Bytes]
         /\ mshr # << >> <=> 1 \in 1 .. Len(mshr)
  <1>1. Len(mshr) \in Nat /\ DOMAIN mshr = 1 .. Len(mshr)
    BY LenProperties DEF Typed
  <1>2. ASSUME NEW i \in 1 .. Len(mshr) PROVE mshr[i] \in Entry
    BY ElementOfSeq DEF Typed
  <1>3. mshr # << >> <=> Len(mshr) # 0
    BY EmptySeq DEF Typed
  <1> QED BY <1>1, <1>2, <1>3 DEF Entry

\* A lookup keeps the MSHRs, merges into one or appends one, in every cycle but the last of a fill.
LEMMA MshrStep ==
  ASSUME CacheInv, NEW r \in MP!Request \cup {None}, NEW m \in Port, NEW lk, lk = Outcome(r, m), Looks(r, lk)
  PROVE  mshr' \in Seq(Entry) /\ Kept(r, lk) /\ Taken(r, lk)
  <1> USE EntryFacts DEF CacheInv
  <1>1. CASE lk \in Alloc
    <2>1. r \in MP!Request /\ cacheable(r) /\ lk # "store_merge"
      BY <1>1, Lookups DEF Alloc
    <2> DEFINE e == [line |-> line(r.addr), bytes |-> Left(NoBytes, r)]
    <2>2. e \in Entry
      BY <2>1, RequestFacts, LeftFacts, NoBytesTyped DEF Entry, line
    <2>3. \A o \in Offset : e.bytes[o] = IF o = r.addr[3] THEN Over(<< >>, r.bytes) ELSE << >>
      BY <2>1, LeftFacts, NoBytesTyped DEF NoBytes
    <2>4. e.line = line(r.addr)
      OBVIOUS
    <2> HIDE DEF e
    <2>5. mshr' = Append(mshr, e)
      BY <1>1 DEF Looks, e
    <2>6. /\ mshr' \in Seq(Entry) /\ Len(mshr') = Len(mshr) + 1
          /\ \A i \in 1 .. Len(mshr) : mshr'[i] = mshr[i]
          /\ mshr'[Len(mshr) + 1] = e
      BY <2>2, <2>5, AppendProperties DEF Typed
    <2>7. Taken(r, lk)
      BY <1>1, <2>3, <2>4, <2>6 DEF Taken
    <2>8. Kept(r, lk)
      BY <2>1, <2>6 DEF Kept
    <2> QED BY <2>6, <2>7, <2>8
  <1>2. CASE lk = "store_merge"
    <2>1. r \in MP!Request /\ cacheable(r) /\ lk \notin Alloc /\ match_index(r) \in 1 .. Len(mshr)
      BY <1>2, Lookups DEF Alloc, Matched
    <2> DEFINE k == match_index(r)
               e == [mshr[k] EXCEPT !.bytes = Left(mshr[k].bytes, r)]
    <2>2. e \in Entry /\ e.line = mshr[k].line
      BY <2>1, LeftFacts DEF Entry
    <2>3. \A o \in Offset : e.bytes[o] = IF o = r.addr[3] THEN Over(mshr[k].bytes[o], r.bytes) ELSE mshr[k].bytes[o]
      BY <2>1, LeftFacts DEF Entry
    <2>4. mshr' = [mshr EXCEPT ![k] = e]
      BY <1>2, <2>1 DEF Looks
    <2> HIDE DEF e, k
    <2>5. k \in 1 .. Len(mshr)
      BY <2>1 DEF k
    <2>6. /\ mshr' \in Seq(Entry) /\ Len(mshr') = Len(mshr)
          /\ \A i \in 1 .. Len(mshr) : mshr'[i] = IF i = k THEN e ELSE mshr[i]
      BY <2>2, <2>4, <2>5, ExceptSeq DEF Typed
    <2>7. Taken(r, lk)
      BY <2>1, <2>6 DEF Taken
    <2>8. Kept(r, lk)
      BY <1>2, <2>2, <2>3, <2>6 DEF Kept, k
    <2> QED BY <2>6, <2>7, <2>8
  <1>3. CASE lk \notin Alloc /\ lk # "store_merge"
    <2>1. mshr' = mshr
      BY <1>3 DEF Looks
    <2> QED BY <1>3, <2>1 DEF Kept, Taken, Typed
  <1> QED BY <1>1, <1>2, <1>3

\* A fill that ends retires the oldest entry.
LEMMA Retired ==
  ASSUME Typed, mshr # << >>, mshr' = Tail(mshr)
  PROVE  mshr' \in Seq(Entry) /\ Len(mshr') = Len(mshr) - 1 /\ \A i \in 1 .. Len(mshr') : mshr'[i] = mshr[i + 1]
  BY HeadTailProperties DEF Typed

-----------------------------------------------------------------------------
(* The types.                                                              *)

\* The inputs of a cycle.
Input(r, na, m, clean_req) ==
  /\ r \in MP!Request \cup {None} /\ na \in Index /\ m \in Port /\ clean_req \in BOOLEAN

\* A step is a cycle with inputs of the right kind.
LEMMA Inputs ==
  ASSUME Next
  PROVE  \E r, na, m, clean_req : Input(r, na, m, clean_req) /\ Cycle(r, na, m, clean_req)
  <1>1. PICK r \in Request \cup {None}, m \in Port :
          \E na \in IF eng.state = "TAG" \/ (cacheable(r) /\ ~lookup(r, m)) THEN {<<1, 0>>} ELSE NextIndex,
             clean_req \in IF eng.state \in {"IDLE", "SCAN"} THEN BOOLEAN ELSE {FALSE} :
            Cycle(r, na, m, clean_req)
    BY DEF Next
  <1>2. PICK na \in IF eng.state = "TAG" \/ (cacheable(r) /\ ~lookup(r, m)) THEN {<<1, 0>>} ELSE NextIndex,
             clean_req \in IF eng.state \in {"IDLE", "SCAN"} THEN BOOLEAN ELSE {FALSE} :
            Cycle(r, na, m, clean_req)
    BY <1>1
  <1>3. <<1, 0>> \in Index
    BY Geometry DEF Index
  <1>4. ASSUME NEW a \in Client \ Device PROVE index(a) \in Index
    <2>1. a \in Cached
      BY GeometryAssumption DEF Word
    <2> QED BY <2>1 DEF Cached, Index, index
  <1>5. na \in Index
    BY <1>3, <1>4 DEF NextIndex
  <1> QED BY <1>1, <1>2, <1>5 DEF Input, Request

\* The arrays are read within their bounds.
LEMMA ReadIndex ==
  ASSUME CacheInv, NEW r \in MP!Request \cup {None}, NEW na \in Index, NEW lk
  PROVE  read_index(r, na, lk) \in Index
  <1>1. eng.set \in Set /\ eng.word \in 0 .. NumWords /\ (eng.word # NumWords => eng.word \in Offset) /\ 0 \in Offset
    BY Geometry DEF CacheInv, Typed, Transfer, Offset
  <1>2. cacheable(r) => index(r.addr) \in Index
    BY RequestFacts DEF index, Index, cacheable
  <1>3. \/ read_index(r, na, lk) = <<eng.set, 0>>
        \/ read_index(r, na, lk) = <<eng.set, eng.word>> /\ eng.word # NumWords
        \/ read_index(r, na, lk) = index(r.addr) /\ cacheable(r)
        \/ read_index(r, na, lk) = na
    BY DEF read_index
  <1> QED BY <1>1, <1>2, <1>3 DEF Index

\* A word of block RAM before its first write, and the engine at rest.
LEMMA JunkFacts == Junk \in Cell /\ \A s \in State : AtRest(s) \in Transfer
  <1>1. Junk \in Cell
    BY DEF Junk, Cell
  <1>2. 0 \in Set /\ 0 \in Way /\ 0 \in 0 .. NumWords
    BY Geometry
  <1> QED BY <1>1, <1>2 DEF AtRest, Transfer

\* The engine keeps to its registers.
LEMMA EngineTyped ==
  ASSUME CacheInv, NEW r \in MP!Request \cup {None}, NEW m \in Port, NEW clean_req, NEW lk,
         Engine(r, m, lk, clean_req)
  PROVE  eng' \in Transfer /\ scan_set' \in Set
  <1>1. /\ eng \in Transfer /\ scan_set \in Set /\ NumWords \in Nat /\ 0 \in 0 .. NumWords /\ rd \in Row
        /\ NumSets \in Nat /\ NumSets > 0
    BY Geometry DEF CacheInv, Typed
  <1>2. AtRest("IDLE") \in Transfer /\ AtRest("BYPASS") \in Transfer /\ AtRest("SCAN") \in Transfer
    BY JunkFacts DEF State
  <1>3. (scan_set + 1) % NumSets \in Set
    BY <1>1 DEF Set
  <1>4. CASE StartBypass(r, m, lk) \/ StartScan(r, lk, clean_req) \/ Rest(r, lk, clean_req)
             \/ EndScan(r, lk, clean_req) \/ EndBypass(r, m, lk) \/ FillLast(m)
    BY <1>1, <1>2, <1>4 DEF StartBypass, StartScan, Rest, EndScan, EndBypass, FillLast
  <1>5. CASE StartFill(r, lk)
    <2>1. Head(mshr).line[2] \in Set
      <3>1. Head(mshr) = mshr[1]
        OBVIOUS
      <3> QED BY <1>5, <3>1, EntryFacts DEF StartFill, CacheInv
    <2> QED BY <1>1, <1>5, <2>1 DEF StartFill, Transfer, State
  <1>6. CASE Scan(r, lk, clean_req) \/ ReadTag(r, lk)
    BY <1>1, <1>3, <1>6 DEF Scan, ReadTag, Transfer, State
  <1>7. CASE ChooseVictim
    <2>1. victim \in Way /\ rd.tag[victim] \in Tag \cup {None}
      BY <1>1, VictimIsWay DEF Row, CacheInv
    <2> DEFINE s == IF <<victim, eng.set>> \in dirty THEN "EVICT_READ" ELSE IF eng.clean THEN "SCAN" ELSE "FILL"
    <2>2. eng' = [eng EXCEPT !.state = s, !.way = victim, !.tag = rd.tag[victim], !.word = 0]
      BY <1>7 DEF ChooseVictim
    <2>3. s \in State
      BY DEF State
    <2> HIDE DEF s
    <2> QED BY <1>1, <1>7, <2>1, <2>2, <2>3 DEF ChooseVictim, Transfer
  <1>8. CASE EvictRead(r, lk)
    <2> DEFINE b == IF eng.word = 0 THEN eng.buf ELSE [eng.buf EXCEPT ![eng.word - 1] = rd.data[eng.way]]
               s == IF eng.word = NumWords THEN "EVICT_WRITE" ELSE eng.state
               n == IF eng.word = NumWords THEN 0 ELSE eng.word + 1
    <2>1. eng' = [eng EXCEPT !.buf = b, !.state = s, !.word = n]
      BY <1>8 DEF EvictRead
    <2>2. b \in [Offset -> Cell] /\ s \in State /\ n \in 0 .. NumWords
      <3>1. /\ eng.buf \in [Offset -> Cell] /\ rd.data[eng.way] \in Cell /\ eng.word \in 0 .. NumWords
            /\ eng.state \in State
        BY <1>1 DEF Transfer, Row
      <3>2. b \in [Offset -> Cell]
        BY <3>1
      <3>3. s \in State
        BY <3>1 DEF State
      <3>4. n \in 0 .. NumWords
        BY <1>1, <3>1
      <3> QED BY <3>2, <3>3, <3>4
    <2> HIDE DEF b, s, n
    <2> QED BY <1>1, <1>8, <2>1, <2>2 DEF EvictRead, Transfer
  <1>9. CASE EvictWrite(r, m, lk)
    <2>1. eng.word # NumWords - 1 => eng.word + 1 \in 0 .. NumWords
      BY <1>1, <1>9 DEF EvictWrite, CacheInv, EngineOwns, Transfer
    <2>2. [o \in Offset |-> Junk] \in [Offset -> Cell]
      BY JunkFacts
    <2>3. \/ eng' = eng
          \/ eng.word # NumWords - 1 /\ eng' = [eng EXCEPT !.word = @ + 1]
          \/ eng' = AtRest("SCAN")
          \/ eng' = [eng EXCEPT !.state = "FILL", !.word = 0, !.tag = None, !.buf = [o \in Offset |-> Junk]]
      BY <1>9 DEF EvictWrite
    <2> QED BY <1>1, <1>2, <1>9, <2>1, <2>2, <2>3 DEF EvictWrite, Transfer, State
  <1>10. CASE Fill(r, m, lk)
    <2>1. fill_write(m) => eng.word # NumWords - 1 /\ eng.word < NumWords
      BY <1>10 DEF Fill, fill_last, CacheInv, EngineOwns
    <2> QED BY <1>1, <1>10, <2>1 DEF Fill, Transfer
  <1> QED BY <1>4, <1>5, <1>6, <1>7, <1>8, <1>9, <1>10 DEF Engine

\* A store hit keeps the type of the array.
LEMMA StoredTyped ==
  ASSUME CacheInv, NEW r \in MP!Request, NEW w \in Way, cacheable(r)
  PROVE  [data_mem EXCEPT ![<<w, r.addr[2], r.addr[3]>>] = MP!Merge(@, r)] \in [Way \X Set \X Offset -> Cell]
  <1>1. <<w, r.addr[2], r.addr[3]>> \in Way \X Set \X Offset /\ r.bytes \in Bytes
    BY RequestFacts
  <1>2. data_mem[<<w, r.addr[2], r.addr[3]>>] \in Cell /\ data_mem \in [Way \X Set \X Offset -> Cell]
    BY <1>1 DEF CacheInv, Typed
  <1>3. MP!Merge(data_mem[<<w, r.addr[2], r.addr[3]>>], r) \in Cell
    BY <1>1, <1>2, MergeFacts
  <1> QED BY <1>2, <1>3

\* What the engine does to the tree and to the row register is the same whatever the kind of cycle.
LEMMA PlruStep ==
  ASSUME CacheInv, NEW r \in MP!Request \cup {None}, NEW m \in Port, NEW clean_req, NEW lk,
         Engine(r, m, lk, clean_req)
  PROVE  plru' \in [Set -> [0 .. NumWays - 2 -> {0, 1}]]
  <1>1. plru \in [Set -> [0 .. NumWays - 2 -> {0, 1}]]
    BY DEF CacheInv, Typed
  <1>2. ASSUME NEW s, NEW w, plru' = [plru EXCEPT ![s] = plru_touch(@, w)]
        PROVE  plru' \in [Set -> [0 .. NumWays - 2 -> {0, 1}]]
    <2>1. CASE s \in Set
      <3>1. plru_touch(plru[s], w) \in [0 .. NumWays - 2 -> {0, 1}]
        BY <1>1, <2>1, PlruTouch
      <3> QED BY <1>1, <1>2, <3>1
    <2>2. CASE s \notin Set
      BY <1>1, <1>2, <2>2
    <2> QED BY <2>1, <2>2
  <1>3. LookupOnly(r, lk) => plru' \in [Set -> [0 .. NumWays - 2 -> {0, 1}]]
    BY <1>1, <1>2 DEF LookupOnly
  <1>4. ChooseVictim \/ FillLast(m) => plru' \in [Set -> [0 .. NumWays - 2 -> {0, 1}]]
    BY <1>1, <1>2 DEF ChooseVictim, FillLast
  <1> QED
    BY <1>3, <1>4
    DEF Engine, StartBypass, StartFill, StartScan, Rest, EndScan, Scan, ReadTag, EvictRead, EvictWrite, Fill, EndBypass

\* The read register keeps its type.
LEMMA RowStep ==
  ASSUME CacheInv, NEW r \in MP!Request \cup {None}, NEW na \in Index, NEW m, NEW lk, Arrays(r, na, m, lk)
  PROVE  rd' \in Row
  <1>1. PICK i \in Index : i = read_index(r, na, lk)
    BY ReadIndex
  <1>2. rd' = [data  |-> [w \in Way |-> data_mem[<<w, i[1], i[2]>>]],
               tag   |-> [w \in Way |-> tag_mem[<<w, i[1]>>]],
               valid |-> {w \in Way : <<w, i[1]>> \in valid},
               index |-> i,
               fresh |-> ~read_stale(r, i, m, lk)]
    BY <1>1, Zenon DEF Arrays
  <1>3. i[1] \in Set /\ i[2] \in Offset
    BY DEF Index
  <1>4. \A w \in Way : data_mem[<<w, i[1], i[2]>>] \in Cell /\ tag_mem[<<w, i[1]>>] \in Tag \cup {None}
    BY <1>3 DEF CacheInv, Typed
  <1>5. read_stale(r, i, m, lk) \in BOOLEAN
    BY DEF read_stale
  <1> QED BY <1>2, <1>4, <1>5 DEF Row

\* Typed is preserved.
LEMMA TypedStep ==
  ASSUME CacheInv, NEW r, NEW na, NEW m, NEW clean_req, Input(r, na, m, clean_req), Cycle(r, na, m, clean_req)
  PROVE  Typed'
  <1>1. PICK lk : lk = Outcome(r, m)
    OBVIOUS
  <1>2. /\ r \in MP!Request \cup {None} /\ na \in Index /\ m \in Port
        /\ Engine(r, m, lk, clean_req) /\ Arrays(r, na, m, lk) /\ Memory(r, m)
    BY <1>1 DEF Input, Cycle
  <1>3. /\ rd' \in Row /\ plru' \in [Set -> [0 .. NumWays - 2 -> {0, 1}]]
        /\ eng' \in Transfer /\ scan_set' \in Set /\ mem' \in [Word -> Cell]
    BY <1>2, RowStep, PlruStep, EngineTyped, MemoryStep
  <1> SUFFICES /\ data_mem' \in [Way \X Set \X Offset -> Cell]
               /\ tag_mem' \in [Way \X Set -> Tag \cup {None}]
               /\ dirty' \subseteq valid' /\ valid' \subseteq Way \X Set
               /\ \A x \in valid' : tag_mem'[x] \in Tag
               /\ mshr' \in Seq(Entry)
    BY <1>3 DEF Typed
  <1>4. /\ data_mem \in [Way \X Set \X Offset -> Cell]
        /\ tag_mem \in [Way \X Set -> Tag \cup {None}]
        /\ dirty \subseteq valid /\ valid \subseteq Way \X Set
        /\ \A x \in valid : tag_mem[x] \in Tag
        /\ mshr \in Seq(Entry) /\ eng \in Transfer
    BY DEF CacheInv, Typed
  <1>5. CASE Looks(r, lk)
    <2>1. CASE lk = "store_hit"
      <3>1. r \in MP!Request /\ cacheable(r) /\ Hit(r, hit_way(r))
        BY <1>1, <1>2, <2>1, Lookups
      <3>2. data_mem' \in [Way \X Set \X Offset -> Cell]
        BY <1>5, <2>1, <3>1, StoredTyped DEF Looks, Hit
      <3>3. mshr' = mshr
        BY <1>5, <2>1 DEF Looks, Alloc
      <3> QED BY <1>4, <1>5, <2>1, <3>1, <3>2, <3>3 DEF Looks, Hit
    <2>2. CASE lk # "store_hit"
      <3>1. mshr' \in Seq(Entry)
        BY <1>1, <1>2, <1>5, MshrStep
      <3> QED BY <1>4, <1>5, <2>2, <3>1 DEF Looks
    <2> QED BY <2>1, <2>2
  <1>6. CASE Choosing
    BY <1>4, <1>6 DEF Choosing, ChooseVictim
  <1>7. CASE Filling
    <2>1. /\ mshr # << >> /\ mshr[1].line[1] \in Tag /\ mshr[1].line[2] \in Set
          /\ mshr[1].bytes \in [Offset -> Bytes] /\ eng.word \in Offset
          /\ Slot \in Way \X Set
      BY <1>4, <1>7, EntryFacts, Geometry DEF Filling, CacheInv, EngineOwns, Transfer, Offset, Slot
    <2>2. Word1 \in Word /\ mshr[1].bytes[eng.word] \in Bytes
      BY <2>1, EntryFacts, <1>7 DEF Word1, Word, Cached, CacheInv, EngineOwns, Filling
    <2>3. With(mem[Word1], mshr[1].bytes[eng.word]) \in Cell
      BY <2>2, MergeFacts DEF CacheInv, Typed
    <2>4. data_mem' \in [Way \X Set \X Offset -> Cell]
      BY <1>4, <1>7, <2>3 DEF Filling
    <2>5. CASE eng.word # NumWords - 1
      BY <1>4, <1>7, <2>4, <2>5 DEF Filling
    <2>6. CASE eng.word = NumWords - 1
      <3>1. mshr' \in Seq(Entry)
        BY <1>7, <2>1, <2>6, Retired DEF Filling, CacheInv
      <3>2. /\ tag_mem' = [tag_mem EXCEPT ![Slot] = mshr[1].line[1]]
            /\ valid' = valid \cup {Slot} /\ dirty' \subseteq dirty \cup {Slot}
        BY <1>7, <2>6 DEF Filling, Slot
      <3>3. tag_mem' \in [Way \X Set -> Tag \cup {None}] /\ tag_mem'[Slot] \in Tag
        BY <1>4, <2>1, <3>2
      <3>4. \A x \in valid' : tag_mem'[x] \in Tag
        BY <1>4, <2>1, <3>2, <3>3
      <3> QED BY <1>4, <2>1, <2>4, <3>1, <3>2, <3>3, <3>4
    <2> QED BY <2>5, <2>6
  <1> QED BY <1>1, <1>2, <1>5, <1>6, <1>7, StepKinds DEF Passing, Reading, Waiting, Writing

\* PortOwes is preserved: a request is repeated until the port takes it.
LEMMA PortStep ==
  ASSUME CacheInv, NEW r, NEW na, NEW m, NEW clean_req, Input(r, na, m, clean_req), Cycle(r, na, m, clean_req)
  PROVE  PortOwes'
  <1>1. PICK lk : lk = Outcome(r, m)
    OBVIOUS
  <1>2. /\ r \in MP!Request \cup {None} /\ na \in Index /\ m \in Port
        /\ Engine(r, m, lk, clean_req) /\ Memory(r, m)
    BY <1>1 DEF Input, Cycle
  <1>3. /\ m \in {"accept", "serve"} => mem_req(r) /\ pend = None
        /\ m = "answer" => pend # None
        /\ m = "accept" => pend' = mem_request(r)
        /\ m = "answer" => pend' = None
        /\ m \in {"idle", "serve"} => pend' = pend
        /\ m \in {"idle", "accept", "answer", "serve"}
        /\ mem_rvalid(m) <=> m \in {"answer", "serve"}
    BY <1>2 DEF Memory, Port, mem_rvalid
  <1>4. CASE eng.state \notin {"EVICT_WRITE", "FILL", "BYPASS"} /\ ~bypass_go(r)
    <2>1. pend = None /\ m = "idle"
      BY <1>2, <1>4, MemoryStep DEF CacheInv, PortOwes
    <2>2. pend' = None
      BY <1>3, <2>1
    <2>3. eng'.state # "BYPASS"
      <3>1. /\ ~StartBypass(r, m, lk) /\ ~EvictWrite(r, m, lk) /\ ~Fill(r, m, lk) /\ ~FillLast(m)
            /\ ~EndBypass(r, m, lk)
        BY <1>4 DEF StartBypass, EvictWrite, Fill, FillLast, fill_last, fill_write, EndBypass
      <3>2. CASE StartScan(r, lk, clean_req) \/ Rest(r, lk, clean_req) \/ EndScan(r, lk, clean_req)
        BY <1>4, <3>2 DEF StartScan, Rest, EndScan, AtRest
      <3>3. CASE StartFill(r, lk) \/ Scan(r, lk, clean_req) \/ ReadTag(r, lk)
        BY <1>4, <3>3 DEF StartFill, Scan, ReadTag, CacheInv, Typed, Transfer
      <3>4. CASE ChooseVictim \/ EvictRead(r, lk)
        BY <1>4, <3>4 DEF ChooseVictim, EvictRead, CacheInv, Typed, Transfer
      <3> QED BY <1>2, <3>1, <3>2, <3>3, <3>4 DEF Engine
    <2> QED BY <2>2, <2>3 DEF PortOwes
  <1>5. CASE eng.state = "EVICT_WRITE" \/ eng.state = "FILL"
    <2>1. mem_request(r) = mem_request(None) /\ ~bypass_go(r)
      BY <1>5 DEF mem_request, bypass_go
    <2>2. EvictWrite(r, m, lk) \/ Fill(r, m, lk) \/ FillLast(m)
      BY <1>2, <1>5, <2>1
      DEF Engine, StartBypass, StartFill, StartScan, Rest, EndScan, Scan, ReadTag, ChooseVictim, EvictRead, EndBypass
    <2>3. CASE mem_rvalid(m)
      <3>1. pend' = None
        BY <1>3, <2>3
      <3>2. eng'.state # "BYPASS"
        <4>1. CASE EvictWrite(r, m, lk)
          <5>1. eng.state = "EVICT_WRITE" /\ eng \in Transfer
            BY <4>1 DEF EvictWrite, CacheInv, Typed
          <5> DEFINE B == [o \in Offset |-> Junk]
          <5>2. \/ eng' = eng
                \/ eng' = [eng EXCEPT !.word = @ + 1]
                \/ eng' = AtRest("SCAN")
                \/ eng' = [eng EXCEPT !.state = "FILL", !.word = 0, !.tag = None, !.buf = B]
            BY <4>1 DEF EvictWrite
          <5> HIDE DEF B
          <5>3. CASE eng' = AtRest("SCAN")
            BY <5>3 DEF AtRest
          <5>4. CASE eng' = [eng EXCEPT !.state = "FILL", !.word = 0, !.tag = None, !.buf = B]
            BY <5>1, <5>4 DEF Transfer
          <5>5. CASE eng' = [eng EXCEPT !.word = @ + 1]
            BY <5>1, <5>5 DEF Transfer
          <5>6. CASE eng' = eng
            BY <5>1, <5>6
          <5> QED BY <5>2, <5>3, <5>4, <5>5, <5>6, Zenon
        <4>2. CASE Fill(r, m, lk)
          <5>1. eng.state = "FILL" /\ eng \in Transfer /\ (eng' = eng \/ eng' = [eng EXCEPT !.word = @ + 1])
            BY <4>2 DEF Fill, CacheInv, Typed
          <5> QED BY <5>1 DEF Transfer
        <4>3. CASE FillLast(m)
          BY <4>3 DEF FillLast, AtRest
        <4> QED BY <2>2, <4>1, <4>2, <4>3
      <3> QED BY <3>1, <3>2 DEF PortOwes
    <2>4. CASE ~mem_rvalid(m)
      <3>1. eng' = eng /\ eng.state # "BYPASS"
        BY <1>5, <2>2, <2>4 DEF EvictWrite, Fill, FillLast, fill_last, fill_write
      <3>2. pend' \in {None, mem_request(None)}
        BY <1>3, <1>5, <2>1, <2>4 DEF CacheInv, PortOwes
      <3>3. mem_request(None)' = mem_request(None)
        <4>1. CASE eng.state = "EVICT_WRITE"
          BY <3>1, <4>1 DEF mem_request
        <4>2. CASE eng.state = "FILL"
          <5>1. Passing(r, lk)
            <6>1. ~Filling
              <7>1. eng' # [eng EXCEPT !.word = @ + 1]
                <8>1. PICK x : x = [eng EXCEPT !.word = @ + 1]
                  OBVIOUS
                <8>2. eng.word \in Nat /\ x.word = eng.word + 1
                  BY <8>1, Geometry DEF CacheInv, Typed, Transfer
                <8>3. x # eng
                  BY <8>2
                <8> QED BY <3>1, <8>1, <8>3
              <7>2. eng' # AtRest("IDLE")
                BY <3>1, <4>2 DEF AtRest
              <7> QED BY <7>1, <7>2, Zenon DEF Filling
            <6> QED BY <1>1, <4>2, <6>1, StepKinds DEF Reading, Waiting, Writing, Choosing, Input
          <5>2. mshr # << >> /\ 1 \in 1 .. Len(mshr)
            BY <4>2, EntryFacts DEF CacheInv, EngineOwns
          <5>3. mshr'[1].line = mshr[1].line
            BY <1>1, <1>2, <5>1, <5>2, MshrStep DEF Passing, Kept
          <5> QED BY <3>1, <4>2, <5>3 DEF mem_request
        <4> QED BY <1>5, <4>1, <4>2
      <3> QED BY <1>5, <3>1, <3>2, <3>3 DEF PortOwes
    <2> QED BY <2>3, <2>4
  <1>6. CASE eng.state = "BYPASS"
    <2>1. EndBypass(r, m, lk)
      BY <1>2, <1>6
      DEF Engine, StartBypass, StartFill, StartScan, Rest, EndScan, Scan, ReadTag, ChooseVictim, EvictRead,
          EvictWrite, Fill, FillLast, fill_last, fill_write, bypass_go
    <2>2. pend # None
      BY <1>6, RequestFacts DEF CacheInv, PortOwes
    <2>3. CASE mem_rvalid(m)
      <3>1. pend' = None /\ eng'.state = "IDLE"
        BY <1>3, <2>1, <2>3 DEF EndBypass, AtRest
      <3> QED BY <3>1 DEF PortOwes
    <2>4. CASE ~mem_rvalid(m)
      <3>1. pend' = pend /\ eng' = eng
        BY <1>3, <2>1, <2>2, <2>4 DEF EndBypass
      <3> QED BY <1>6, <3>1 DEF PortOwes, CacheInv
    <2> QED BY <2>3, <2>4
  <1>7. CASE bypass_go(r)
    <2>1. eng.state = "IDLE" /\ mshr = << >> /\ pend = None
      BY <1>7 DEF bypass_go, CacheInv, PortOwes
    <2>2. StartBypass(r, m, lk)
      BY <1>2, <1>7, <2>1
      DEF Engine, StartBypass, StartFill, StartScan, Rest, EndScan, Scan, ReadTag, ChooseVictim, EvictRead,
          EvictWrite, Fill, FillLast, fill_last, fill_write, EndBypass
    <2>3. Performed(r) = mem_request(r) /\ Performed(r) \in MP!Request /\ Performed(r).addr \in Device
      BY <1>2, <1>7, <2>1, MemoryStep DEF Performed
    <2>4. CASE m = "accept"
      BY <1>3, <2>2, <2>3, <2>4 DEF StartBypass, AtRest, PortOwes
    <2>5. CASE m # "accept"
      BY <1>3, <2>1, <2>2, <2>5 DEF StartBypass, PortOwes
    <2> QED BY <2>4, <2>5
  <1> QED BY <1>4, <1>5, <1>6, <1>7

-----------------------------------------------------------------------------
(* The arrays.                                                             *)

\* A served store writes one word of one way, and makes it dirty.
LEMMA LooksFacts ==
  ASSUME CacheInv, NEW r \in MP!Request \cup {None}, NEW m \in Port, NEW lk, lk = Outcome(r, m), Looks(r, lk)
  PROVE  /\ lk # "store_hit" => data_mem' = data_mem /\ dirty' = dirty
         /\ lk = "store_hit" =>
              /\ Hit(r, hit_way(r)) /\ dirty' = dirty \cup {<<hit_way(r), r.addr[2]>>}
              /\ \A x \in Way \X Set \X Offset :
                   data_mem'[x] = IF x = <<hit_way(r), r.addr[2], r.addr[3]>> THEN With(data_mem[x], r.bytes)
                                  ELSE data_mem[x]
  <1>1. CASE lk # "store_hit"
    BY <1>1 DEF Looks
  <1>2. CASE lk = "store_hit"
    <2>1. Hit(r, hit_way(r))
      BY <1>2, Lookups
    <2>2. PICK h : h = <<hit_way(r), r.addr[2], r.addr[3]>>
      OBVIOUS
    <2>3. data_mem' = [data_mem EXCEPT ![h] = With(data_mem[h], r.bytes)]
      BY <1>2, <2>2, MergeFacts DEF Looks
    <2>4. data_mem \in [Way \X Set \X Offset -> Cell]
      BY DEF CacheInv, Typed
    <2>5. \A x \in Way \X Set \X Offset :
            data_mem'[x] = IF x = h THEN With(data_mem[x], r.bytes) ELSE data_mem[x]
      <3>1. PICK d : d = With(data_mem[h], r.bytes)
        OBVIOUS
      <3>2. data_mem' = [data_mem EXCEPT ![h] = d]
        BY <2>3, <3>1
      <3> QED BY <2>4, <3>1, <3>2
    <2> QED BY <1>2, <2>1, <2>2, <2>5 DEF Looks
  <1> QED BY <1>1, <1>2

\* So a way without a line is as it was, and one that is not dirty afterwards too.
LEMMA Unwritten ==
  ASSUME CacheInv, NEW r \in MP!Request \cup {None}, NEW m \in Port, NEW lk, lk = Outcome(r, m), Looks(r, lk),
         NEW w \in Way, NEW s \in Set, <<w, s>> \notin dirty' \/ <<w, s>> \notin valid
  PROVE  /\ \A o \in Offset : data_mem'[<<w, s, o>>] = data_mem[<<w, s, o>>]
         /\ <<w, s>> \notin dirty' => <<w, s>> \notin dirty
  <1>1. lk = "store_hit" => <<w, s>> # <<hit_way(r), r.addr[2]>>
    BY LooksFacts DEF Hit
  <1>2. ASSUME NEW o \in Offset PROVE data_mem'[<<w, s, o>>] = data_mem[<<w, s, o>>]
    BY <1>1, LooksFacts
  <1>3. <<w, s>> \notin dirty' => <<w, s>> \notin dirty
    BY LooksFacts
  <1> QED BY <1>2, <1>3

\* RowIsCurrent is preserved: whatever writes a row or changes its set makes it stale.
LEMMA RowCurrentStep ==
  ASSUME CacheInv, NEW r, NEW na, NEW m, NEW clean_req, Input(r, na, m, clean_req), Cycle(r, na, m, clean_req)
  PROVE  RowIsCurrent'
  <1>1. PICK lk : lk = Outcome(r, m)
    OBVIOUS
  <1>2. /\ r \in MP!Request \cup {None} /\ na \in Index /\ m \in Port /\ Arrays(r, na, m, lk)
    BY <1>1 DEF Input, Cycle
  <1>3. PICK i \in Index : i = read_index(r, na, lk)
    BY <1>2, ReadIndex
  <1>4. rd' = [data  |-> [w \in Way |-> data_mem[<<w, i[1], i[2]>>]],
               tag   |-> [w \in Way |-> tag_mem[<<w, i[1]>>]],
               valid |-> {w \in Way : <<w, i[1]>> \in valid},
               index |-> i,
               fresh |-> ~read_stale(r, i, m, lk)]
    BY <1>2, <1>3, Zenon DEF Arrays
  <1>5. i[1] \in Set /\ i[2] \in Offset
    BY DEF Index
  <1> SUFFICES ASSUME ~read_stale(r, i, m, lk), NEW w \in Way
               PROVE  /\ data_mem'[<<w, i[1], i[2]>>] = data_mem[<<w, i[1], i[2]>>]
                      /\ tag_mem'[<<w, i[1]>>] = tag_mem[<<w, i[1]>>]
                      /\ <<w, i[1]>> \in valid' <=> <<w, i[1]>> \in valid
    BY <1>4 DEF RowIsCurrent
  <1>6. CASE Looks(r, lk)
    <2>1. lk = "store_hit" => ~fill_write(m) /\ r \in MP!Request /\ cacheable(r)
      BY <1>1, <1>2, Lookups DEF lookup_block
    <2>2. lk = "store_hit" => <<r.addr[2], r.addr[3]>> # i
      BY <2>1 DEF read_stale, write_index, index
    <2>3. i = <<i[1], i[2]>>
      BY DEF Index
    <2>4. data_mem'[<<w, i[1], i[2]>>] = data_mem[<<w, i[1], i[2]>>]
      BY <1>1, <1>2, <1>5, <1>6, <2>2, <2>3, LooksFacts
    <2> QED BY <1>6, <2>4 DEF Looks
  <1>7. CASE Choosing
    <2>1. ~eng.clean => eng.set # i[1]
      BY <1>7 DEF Choosing, read_stale, set_change
    <2> QED BY <1>7, <2>1 DEF Choosing, ChooseVictim
  <1>8. CASE fill_write(m) /\ Filling
    <2>1. <<eng.set, eng.word>> # i
      BY <1>8 DEF read_stale, write_index
    <2>2. i = <<i[1], i[2]>>
      BY DEF Index
    <2>3. data_mem'[<<w, i[1], i[2]>>] = data_mem[<<w, i[1], i[2]>>]
      <3>1. PICK d, h : d = With(mem[Word1], mshr[1].bytes[eng.word]) /\ h = <<eng.way, eng.set, eng.word>>
        OBVIOUS
      <3>2. data_mem' = [data_mem EXCEPT ![h] = d]
        BY <1>8, <3>1 DEF Filling
      <3>3. <<w, i[1], i[2]>> # h
        BY <2>1, <2>2, <3>1
      <3> QED BY <1>5, <3>2, <3>3 DEF CacheInv, Typed
    <2>4. CASE eng.word # NumWords - 1
      BY <1>8, <2>3, <2>4 DEF Filling
    <2>5. CASE eng.word = NumWords - 1
      <3>1. eng.set # i[1]
        BY <1>8, <2>5 DEF read_stale, set_change, fill_last
      <3>2. PICK t, h : t = mshr[1].line[1] /\ h = <<eng.way, eng.set>>
        OBVIOUS
      <3>3. tag_mem' = [tag_mem EXCEPT ![h] = t] /\ valid' = valid \cup {h}
        BY <1>8, <2>5, <3>2, Geometry DEF Filling, Slot, CacheInv, Typed, Transfer
      <3>4. <<w, i[1]>> # h
        BY <3>1, <3>2
      <3> QED BY <1>5, <2>3, <3>3, <3>4 DEF CacheInv, Typed
    <2> QED BY <2>4, <2>5
  <1> QED BY <1>1, <1>2, <1>6, <1>7, <1>8, StepKinds DEF Passing, Reading, Waiting, Writing

\* What a line of the fill that ends is.
LEMMA LineIn ==
  ASSUME CacheInv, eng.state = "FILL"
  PROVE  /\ 1 \in 1 .. Len(mshr) /\ mshr # << >> /\ mshr[1].line = <<mshr[1].line[1], eng.set>>
         /\ mshr[1].line[1] \in Tag /\ mshr[1].bytes \in [Offset -> Bytes]
         /\ Slot \in Way \X Set /\ Slot \notin valid /\ eng.word \in Offset /\ ~eng.clean
  <1>1. ~eng.clean /\ mshr # << >> /\ mshr[1].line[2] = eng.set /\ Slot \notin valid /\ eng.word < NumWords
    BY DEF CacheInv, EngineOwns
  <1>2. eng.way \in Way /\ eng.set \in Set /\ eng.word \in 0 .. NumWords
    BY DEF CacheInv, Typed, Transfer
  <1>3. eng.word \in Offset
    BY <1>1, <1>2, Geometry DEF Offset
  <1>4. /\ 1 \in 1 .. Len(mshr) /\ mshr[1].line = <<mshr[1].line[1], mshr[1].line[2]>>
        /\ mshr[1].line[1] \in Tag /\ mshr[1].bytes \in [Offset -> Bytes]
    BY <1>1, EntryFacts DEF CacheInv
  <1> QED BY <1>1, <1>2, <1>3, <1>4 DEF Slot

\* A way that takes its line, and the words of the line.
LEMMA FillFacts ==
  ASSUME CacheInv, Filling
  PROVE  /\ \A x \in Way \X Set \X Offset :
              data_mem'[x] = IF x = <<eng.way, eng.set, eng.word>> THEN With(mem[Word1], mshr[1].bytes[eng.word])
                             ELSE data_mem[x]
         /\ eng.word = NumWords - 1 =>
              \A x \in Way \X Set : tag_mem'[x] = IF x = Slot THEN mshr[1].line[1] ELSE tag_mem[x]
  <1>1. data_mem \in [Way \X Set \X Offset -> Cell] /\ tag_mem \in [Way \X Set -> Tag \cup {None}]
    BY DEF CacheInv, Typed
  <1>2. PICK d, h : d = With(mem[Word1], mshr[1].bytes[eng.word]) /\ h = <<eng.way, eng.set, eng.word>>
    OBVIOUS
  <1>3. data_mem' = [data_mem EXCEPT ![h] = d]
    BY <1>2 DEF Filling
  <1>4. \A x \in Way \X Set \X Offset : data_mem'[x] = IF x = h THEN d ELSE data_mem[x]
    BY <1>1, <1>3
  <1>5. PICK t : t = mshr[1].line[1]
    OBVIOUS
  <1>6. eng.word = NumWords - 1 => tag_mem' = [tag_mem EXCEPT ![Slot] = t]
    BY <1>5, LineIn, Geometry DEF Filling, Slot, Offset
  <1>7. eng.word = NumWords - 1 =>
          \A x \in Way \X Set : tag_mem'[x] = IF x = Slot THEN mshr[1].line[1] ELSE tag_mem[x]
    BY <1>1, <1>5, <1>6
  <1> QED BY <1>2, <1>4, <1>7

-----------------------------------------------------------------------------
(* The invariant is kept.                                                  *)

\* OneCopy is preserved: a line gets an MSHR only when no way and no MSHR has it.
LEMMA OneCopyStep ==
  ASSUME CacheInv, Typed', NEW r \in MP!Request \cup {None}, NEW m \in Port, NEW lk, lk = Outcome(r, m),
         Looks(r, lk) \/ Choosing \/ Filling
  PROVE  OneCopy'
  <1>1. /\ Len(mshr) \in Nat /\ DOMAIN mshr = 1 .. Len(mshr) /\ valid \subseteq Way \X Set
        /\ Len(mshr') \in Nat /\ DOMAIN mshr' = 1 .. Len(mshr')
    <2>1. Len(mshr') \in Nat /\ DOMAIN mshr' = 1 .. Len(mshr')
      BY LenProperties DEF Typed
    <2> QED BY <2>1, EntryFacts DEF CacheInv, Typed
  <1>2. /\ \A x, y \in valid : x[2] = y[2] /\ tag_mem[x] = tag_mem[y] => x = y
        /\ \A i, j \in 1 .. Len(mshr) : mshr[i].line = mshr[j].line => i = j
        /\ \A x \in valid, i \in 1 .. Len(mshr) : mshr[i].line # <<tag_mem[x], x[2]>>
    BY <1>1 DEF CacheInv, OneCopy
  <1>3. CASE Looks(r, lk)
    <2>1. Kept(r, lk) /\ Taken(r, lk)
      BY <1>3, MshrStep
    <2>4. valid' = valid /\ tag_mem' = tag_mem
      BY <1>3 DEF Looks
    <2>2. CASE lk \notin Alloc
      <3>1. Len(mshr') = Len(mshr) /\ \A i \in 1 .. Len(mshr) : mshr'[i].line = mshr[i].line
        BY <2>1, <2>2 DEF Kept, Taken
      <3> QED BY <1>1, <1>2, <2>4, <3>1 DEF OneCopy
    <2>3. CASE lk \in Alloc
      <3>1. /\ Len(mshr') = Len(mshr) + 1 /\ \A i \in 1 .. Len(mshr) : mshr'[i].line = mshr[i].line
            /\ mshr'[Len(mshr) + 1].line = line(r.addr)
        BY <1>1, <2>1, <2>3 DEF Kept, Taken
      <3>2. /\ \A i \in 1 .. Len(mshr) : mshr[i].line # line(r.addr)
            /\ \A x \in valid : <<tag_mem[x], x[2]>> # line(r.addr)
        BY <1>1, <2>3, Lookups DEF Missed, line
      <3>3. \A i, j \in 1 .. Len(mshr') : mshr'[i].line = mshr'[j].line => i = j
        BY <1>1, <1>2, <3>1, <3>2
      <3>4. \A x \in valid', i \in 1 .. Len(mshr') : mshr'[i].line # <<tag_mem'[x], x[2]>>
        <4> SUFFICES ASSUME NEW x \in valid, NEW i \in 1 .. Len(mshr')
                     PROVE  mshr'[i].line # <<tag_mem[x], x[2]>>
          BY <2>4
        <4>1. CASE i \in 1 .. Len(mshr)
          BY <1>2, <3>1, <4>1
        <4>2. CASE i = Len(mshr) + 1
          BY <3>1, <3>2, <4>2
        <4> QED BY <1>1, <3>1, <4>1, <4>2
      <3> QED BY <1>1, <1>2, <2>4, <3>3, <3>4 DEF OneCopy
    <2> QED BY <2>2, <2>3
  <1>4. CASE Choosing
    <2>1. valid' \subseteq valid /\ tag_mem' = tag_mem /\ mshr' = mshr
      BY <1>4 DEF Choosing, ChooseVictim
    <2> QED BY <1>1, <1>2, <2>1 DEF OneCopy
  <1>5. CASE Filling /\ eng.word # NumWords - 1
    BY <1>1, <1>2, <1>5 DEF Filling, OneCopy
  <1>6. CASE Filling /\ eng.word = NumWords - 1
    <2>1. eng.state = "FILL" /\ valid' = valid \cup {Slot} /\ mshr' = Tail(mshr)
      BY <1>6, LineIn, Geometry DEF Filling, Offset
    <2>2. /\ mshr # << >> /\ 1 \in 1 .. Len(mshr) /\ mshr[1].line = <<mshr[1].line[1], eng.set>>
          /\ Slot \in Way \X Set /\ Slot \notin valid /\ Slot[2] = eng.set
      BY <2>1, LineIn DEF Slot
    <2>3. Len(mshr') = Len(mshr) - 1 /\ \A i \in 1 .. Len(mshr') : mshr'[i] = mshr[i + 1]
      BY <2>1, <2>2, Retired DEF CacheInv
    <2>4. tag_mem'[Slot] = mshr[1].line[1] /\ \A x \in valid : tag_mem'[x] = tag_mem[x]
      BY <1>1, <1>6, <2>2, FillFacts
    <2>5. <<tag_mem'[Slot], Slot[2]>> = mshr[1].line
      BY <2>2, <2>4
    <2>6. \A x \in valid : <<tag_mem'[x], x[2]>> # mshr[1].line
      BY <1>2, <2>2, <2>4
    <2>7. \A x, y \in valid' : x[2] = y[2] /\ tag_mem'[x] = tag_mem'[y] => x = y
      BY <1>2, <2>1, <2>4, <2>5, <2>6
    <2>8. \A i, j \in 1 .. Len(mshr') : mshr'[i].line = mshr'[j].line => i = j
      <3> SUFFICES ASSUME NEW i \in 1 .. Len(mshr'), NEW j \in 1 .. Len(mshr'), mshr'[i].line = mshr'[j].line
                   PROVE  i = j
        OBVIOUS
      <3>1. i + 1 \in 1 .. Len(mshr) /\ j + 1 \in 1 .. Len(mshr) /\ mshr[i + 1].line = mshr[j + 1].line
        BY <1>1, <2>3
      <3>2. i + 1 = j + 1
        BY <1>2, <3>1
      <3> QED BY <1>1, <3>2
    <2>9. \A x \in valid', i \in 1 .. Len(mshr') : mshr'[i].line # <<tag_mem'[x], x[2]>>
      <3> SUFFICES ASSUME NEW x \in valid', NEW i \in 1 .. Len(mshr')
                   PROVE  mshr'[i].line # <<tag_mem'[x], x[2]>>
        OBVIOUS
      <3>1. i + 1 \in 1 .. Len(mshr) /\ i + 1 # 1 /\ mshr'[i] = mshr[i + 1]
        BY <1>1, <2>3
      <3>2. mshr[i + 1].line # mshr[1].line
        BY <1>2, <2>2, <3>1
      <3> QED BY <1>2, <2>1, <2>4, <2>5, <3>1, <3>2
    <2> QED BY <1>1, <2>7, <2>8, <2>9 DEF OneCopy
  <1> QED BY <1>3, <1>4, <1>5, <1>6

\* The oldest MSHR stays the oldest until its fill ends.
LEMMA OldestStays ==
  ASSUME CacheInv, NEW r \in MP!Request \cup {None}, NEW m \in Port, NEW lk, lk = Outcome(r, m), Looks(r, lk),
         mshr # << >>
  PROVE  /\ mshr' # << >> /\ mshr'[1].line = mshr[1].line
         /\ eng.state = "FILL" => mshr'[1] = mshr[1]
  <1>1. 1 \in 1 .. Len(mshr)
    BY EntryFacts DEF CacheInv
  <1>2. Kept(r, lk) /\ mshr' \in Seq(Entry)
    BY MshrStep
  <1>3. 1 \in 1 .. Len(mshr') /\ mshr'[1].line = mshr[1].line
    BY <1>1, <1>2 DEF Kept
  <1>4. mshr' # << >>
    BY <1>3, EmptySeq
  <1>5. eng.state = "FILL" /\ lk = "store_merge" => match_index(r) # 1
    BY Lookups DEF Matched
  <1> QED BY <1>1, <1>2, <1>3, <1>4, <1>5 DEF Kept

\* What the engine takes over when it chooses a victim.
LEMMA ChosenFacts ==
  ASSUME CacheInv, Choosing
  PROVE  /\ victim \in Way /\ eng \in Transfer /\ eng.set \in Set /\ rd.tag[victim] = tag_mem[<<victim, eng.set>>]
         /\ eng'.way = victim /\ eng'.set = eng.set /\ eng'.clean = eng.clean /\ eng'.word = 0
         /\ eng'.tag = tag_mem[<<victim, eng.set>>]
         /\ eng'.state = IF <<victim, eng.set>> \in dirty THEN "EVICT_READ"
                         ELSE IF eng.clean THEN "SCAN" ELSE "FILL"
  <1>1. victim \in Way /\ eng \in Transfer /\ eng.state = "VICTIM"
    BY VictimIsWay DEF CacheInv, Typed, Choosing
  <1>2. rd.tag[victim] = tag_mem[<<victim, eng.set>>]
    BY <1>1 DEF CacheInv, EngineOwns
  <1>3. PICK s : s = IF <<victim, eng.set>> \in dirty THEN "EVICT_READ" ELSE IF eng.clean THEN "SCAN" ELSE "FILL"
    OBVIOUS
  <1>4. eng' = [eng EXCEPT !.state = s, !.way = victim, !.tag = rd.tag[victim], !.word = 0]
    BY <1>3 DEF Choosing, ChooseVictim
  <1> QED BY <1>1, <1>2, <1>3, <1>4 DEF Transfer

\* What the engine does in a cycle of each other kind, field by field.
LEMMA TransferStep ==
  ASSUME CacheInv
  PROVE  /\ \A r, lk : Reading(r, lk) =>
              /\ eng'.clean = eng.clean /\ eng'.set = eng.set /\ eng'.way = eng.way /\ eng'.tag = eng.tag
              /\ \/ eng.word # NumWords /\ eng'.state = "EVICT_READ" /\ eng'.word = eng.word + 1
                 \/ eng.word = NumWords /\ eng'.state = "EVICT_WRITE" /\ eng'.word = 0
              /\ \A o \in Offset : eng'.buf[o] = IF o = eng.word - 1 THEN rd.data[eng.way] ELSE eng.buf[o]
         /\ \A r, lk : Writing(r, lk) =>
              \/ /\ eng.word # NumWords - 1 /\ eng'.state = "EVICT_WRITE" /\ eng'.word = eng.word + 1
                 /\ eng'.clean = eng.clean /\ eng'.set = eng.set /\ eng'.way = eng.way /\ eng'.tag = eng.tag
                 /\ eng'.buf = eng.buf
              \/ eng.word = NumWords - 1 /\ eng.clean /\ eng' = AtRest("SCAN")
              \/ /\ eng.word = NumWords - 1 /\ ~eng.clean /\ eng'.state = "FILL" /\ eng'.word = 0
                 /\ ~eng'.clean /\ eng'.set = eng.set /\ eng'.way = eng.way
         /\ Filling =>
              \/ /\ eng.word # NumWords - 1 /\ eng'.state = "FILL" /\ eng'.word = eng.word + 1
                 /\ eng'.clean = eng.clean /\ eng'.set = eng.set /\ eng'.way = eng.way
              \/ eng.word = NumWords - 1 /\ eng' = AtRest("IDLE")
  <1>1. eng \in Transfer /\ eng.buf \in [Offset -> Cell] /\ eng.word \in 0 .. NumWords /\ NumWords \in Nat
    BY Geometry DEF CacheInv, Typed, Transfer
  <1>2. ASSUME NEW r, NEW lk, Reading(r, lk)
        PROVE  /\ eng'.clean = eng.clean /\ eng'.set = eng.set /\ eng'.way = eng.way /\ eng'.tag = eng.tag
               /\ \/ eng.word # NumWords /\ eng'.state = "EVICT_READ" /\ eng'.word = eng.word + 1
                  \/ eng.word = NumWords /\ eng'.state = "EVICT_WRITE" /\ eng'.word = 0
               /\ \A o \in Offset : eng'.buf[o] = IF o = eng.word - 1 THEN rd.data[eng.way] ELSE eng.buf[o]
    <2>1. PICK b, s, n :
            /\ b = IF eng.word = 0 THEN eng.buf ELSE [eng.buf EXCEPT ![eng.word - 1] = rd.data[eng.way]]
            /\ s = IF eng.word = NumWords THEN "EVICT_WRITE" ELSE eng.state
            /\ n = IF eng.word = NumWords THEN 0 ELSE eng.word + 1
      OBVIOUS
    <2>2. eng' = [eng EXCEPT !.buf = b, !.state = s, !.word = n] /\ eng.state = "EVICT_READ"
      BY <1>2, <2>1 DEF Reading
    <2>3. /\ eng'.clean = eng.clean /\ eng'.set = eng.set /\ eng'.way = eng.way /\ eng'.tag = eng.tag
          /\ eng'.buf = b /\ eng'.state = s /\ eng'.word = n
      BY <1>1, <2>2 DEF Transfer
    <2>4. \A o \in Offset : b[o] = IF o = eng.word - 1 THEN rd.data[eng.way] ELSE eng.buf[o]
      <3>1. PICK d : d = rd.data[eng.way]
        OBVIOUS
      <3>2. CASE eng.word = 0
        BY <2>1, <3>2, Geometry DEF Offset
      <3>3. CASE eng.word # 0
        BY <1>1, <2>1, <3>1, <3>3
      <3> QED BY <3>2, <3>3
    <2> QED BY <2>1, <2>2, <2>3, <2>4
  <1>3. ASSUME NEW r, NEW lk, Writing(r, lk)
        PROVE  \/ /\ eng.word # NumWords - 1 /\ eng'.state = "EVICT_WRITE" /\ eng'.word = eng.word + 1
                  /\ eng'.clean = eng.clean /\ eng'.set = eng.set /\ eng'.way = eng.way /\ eng'.tag = eng.tag
                  /\ eng'.buf = eng.buf
               \/ eng.word = NumWords - 1 /\ eng.clean /\ eng' = AtRest("SCAN")
               \/ /\ eng.word = NumWords - 1 /\ ~eng.clean /\ eng'.state = "FILL" /\ eng'.word = 0
                  /\ ~eng'.clean /\ eng'.set = eng.set /\ eng'.way = eng.way
    <2>1. PICK B : B = [o \in Offset |-> Junk]
      OBVIOUS
    <2>2. /\ eng.state = "EVICT_WRITE"
          /\ \/ eng.word # NumWords - 1 /\ eng' = [eng EXCEPT !.word = @ + 1]
             \/ eng.word = NumWords - 1 /\ eng.clean /\ eng' = AtRest("SCAN")
             \/ /\ eng.word = NumWords - 1 /\ ~eng.clean
                /\ eng' = [eng EXCEPT !.state = "FILL", !.word = 0, !.tag = None, !.buf = B]
      BY <1>3, <2>1 DEF Writing
    <2>3. CASE eng.word # NumWords - 1 /\ eng' = [eng EXCEPT !.word = @ + 1]
      BY <1>1, <2>2, <2>3 DEF Transfer
    <2>4. CASE /\ eng.word = NumWords - 1 /\ ~eng.clean
               /\ eng' = [eng EXCEPT !.state = "FILL", !.word = 0, !.tag = None, !.buf = B]
      BY <1>1, <2>4 DEF Transfer
    <2> QED BY <2>2, <2>3, <2>4, Zenon
  <1>4. ASSUME Filling
        PROVE  \/ /\ eng.word # NumWords - 1 /\ eng'.state = "FILL" /\ eng'.word = eng.word + 1
                  /\ eng'.clean = eng.clean /\ eng'.set = eng.set /\ eng'.way = eng.way
               \/ eng.word = NumWords - 1 /\ eng' = AtRest("IDLE")
    <2>1. \/ eng.word # NumWords - 1 /\ eng' = [eng EXCEPT !.word = @ + 1]
          \/ eng.word = NumWords - 1 /\ eng' = AtRest("IDLE")
      BY <1>4 DEF Filling
    <2>2. eng.state = "FILL"
      BY <1>4 DEF Filling
    <2> QED BY <1>1, <2>1, <2>2 DEF Transfer
  <1> QED BY <1>2, <1>3, <1>4

\* EngineOwns is preserved.
LEMMA EngineStep ==
  ASSUME CacheInv, NEW r, NEW na, NEW m, NEW clean_req, Input(r, na, m, clean_req), Cycle(r, na, m, clean_req)
  PROVE  EngineOwns'
  <1>1. PICK lk : lk = Outcome(r, m)
    OBVIOUS
  <1>2. r \in MP!Request \cup {None} /\ na \in Index /\ m \in Port /\ Arrays(r, na, m, lk)
    BY <1>1 DEF Input, Cycle
  <1>3. eng \in Transfer /\ eng.set \in Set /\ eng.way \in Way /\ eng.word \in 0 .. NumWords
    BY DEF CacheInv, Typed, Transfer
  <1>4. /\ eng.state \in {"IDLE", "BYPASS", "FILL"} => ~eng.clean
        /\ eng.state \in {"TAG", "VICTIM", "EVICT_READ", "EVICT_WRITE", "FILL"} /\ ~eng.clean =>
             mshr # << >> /\ mshr[1].line[2] = eng.set
        /\ eng.state \in {"EVICT_WRITE", "FILL"} => eng.word < NumWords
        /\ eng.state = "FILL" => Slot \notin valid
    BY DEF CacheInv, EngineOwns
  <1>5. CASE Passing(r, lk)
    <2>1. Looks(r, lk) /\ Turns /\ valid' = valid /\ tag_mem' = tag_mem
      BY <1>5 DEF Passing, Looks
    <2>2. mshr # << >> => mshr' # << >> /\ mshr'[1].line = mshr[1].line
      BY <1>1, <1>2, <2>1, OldestStays
    <2>3. ~Evicting /\ eng.state # "VICTIM" /\ eng'.state \notin {"EVICT_READ", "EVICT_WRITE"}
      BY <1>5 DEF Passing
    <2>4. CASE eng' = eng
      BY <1>4, <2>1, <2>2, <2>3, <2>4 DEF EngineOwns, Evicting, Slot
    <2>5. CASE eng' = AtRest("IDLE") \/ eng' = AtRest("BYPASS") \/ eng' = AtRest("SCAN")
      <3>1. eng'.state \in {"IDLE", "BYPASS", "SCAN"} /\ ~eng'.clean
        BY <2>5 DEF AtRest
      <3> QED BY <3>1 DEF EngineOwns, Evicting
    <2>6. CASE eng.state = "IDLE" /\ mshr # << >> /\ eng' = [eng EXCEPT !.state = "TAG", !.set = mshr[1].line[2]]
      <3>1. eng'.state = "TAG" /\ eng'.set = mshr[1].line[2]
        BY <1>3, <2>6 DEF Transfer
      <3> QED BY <2>2, <2>6, <3>1 DEF EngineOwns, Evicting
    <2>7. CASE eng.state = "SCAN" /\ eng' = [eng EXCEPT !.state = "TAG", !.clean = TRUE, !.set = scan_set]
      <3>1. eng'.state = "TAG" /\ eng'.clean
        BY <1>3, <2>7 DEF Transfer
      <3> QED BY <3>1 DEF EngineOwns, Evicting
    <2>8. CASE eng.state = "TAG" /\ eng' = [eng EXCEPT !.state = "VICTIM"]
      <3>1. eng'.state = "VICTIM" /\ eng'.set = eng.set /\ eng'.clean = eng.clean
        BY <1>3, <2>8 DEF Transfer
      <3>2. read_index(r, na, lk) = <<eng.set, 0>>
        BY <2>8 DEF read_index
      <3>3. \A w \in Way : rd'.tag[w] = tag_mem[<<w, eng.set>>]
        <4>1. rd'.tag = [w \in Way |-> tag_mem[<<w, read_index(r, na, lk)[1]>>]]
          BY <1>2 DEF Arrays
        <4> QED BY <3>2, <4>1
      <3> QED BY <1>4, <2>1, <2>2, <2>8, <3>1, <3>3 DEF EngineOwns, Evicting
    <2> QED BY <2>1, <2>4, <2>5, <2>6, <2>7, <2>8 DEF Turns
  <1>6. CASE Reading(r, lk) \/ Waiting(r, lk) \/ Writing(r, lk)
    <2>1. Looks(r, lk) /\ valid' = valid /\ tag_mem' = tag_mem /\ Evicting
      BY <1>6 DEF Reading, Waiting, Writing, Looks, Evicting
    <2>2. mshr # << >> => mshr' # << >> /\ mshr'[1].line = mshr[1].line
      BY <1>1, <1>2, <2>1, OldestStays
    <2>3. /\ ~eng.clean => mshr # << >> /\ mshr[1].line[2] = eng.set
          /\ eng.tag = tag_mem[Slot] /\ eng.tag \in Tag /\ (eng.clean <=> Slot \in valid)
          /\ ~eng.clean => \A x \in valid : x[2] = eng.set => tag_mem[x] # eng.tag
      BY <2>1 DEF CacheInv, EngineOwns, Evicting
    <2>4. CASE /\ eng'.state \in {"EVICT_READ", "EVICT_WRITE"} /\ (eng'.state = "EVICT_WRITE" => eng'.word < NumWords)
               /\ eng'.clean = eng.clean /\ eng'.set = eng.set /\ eng'.way = eng.way /\ eng'.tag = eng.tag
      BY <2>1, <2>2, <2>3, <2>4 DEF EngineOwns, Evicting, Slot
    <2>5. CASE Reading(r, lk)
      <3>1. /\ eng'.state \in {"EVICT_READ", "EVICT_WRITE"} /\ (eng'.state = "EVICT_WRITE" => eng'.word < NumWords)
            /\ eng'.clean = eng.clean /\ eng'.set = eng.set /\ eng'.way = eng.way /\ eng'.tag = eng.tag
        BY <2>5, TransferStep, Geometry
      <3> QED BY <2>4, <3>1
    <2>6. CASE Waiting(r, lk)
      BY <1>4, <2>4, <2>6 DEF Waiting
    <2>7. CASE Writing(r, lk)
      <3>1. CASE eng.word = NumWords - 1 /\ eng.clean /\ eng' = AtRest("SCAN")
        <4>1. eng'.state = "SCAN" /\ ~eng'.clean
          BY <3>1 DEF AtRest
        <4> QED BY <4>1 DEF EngineOwns, Evicting
      <3>2. CASE /\ eng.word = NumWords - 1 /\ ~eng.clean /\ eng'.state = "FILL" /\ eng'.word = 0
                 /\ ~eng'.clean /\ eng'.set = eng.set /\ eng'.way = eng.way
        BY <2>1, <2>2, <2>3, <3>2, Geometry DEF EngineOwns, Evicting, Slot
      <3>3. CASE /\ eng.word # NumWords - 1 /\ eng'.state = "EVICT_WRITE" /\ eng'.word = eng.word + 1
                 /\ eng'.clean = eng.clean /\ eng'.set = eng.set /\ eng'.way = eng.way /\ eng'.tag = eng.tag
        <4>1. eng'.word < NumWords
          BY <1>3, <1>4, <2>7, <3>3, Geometry DEF Writing
        <4> QED BY <2>4, <3>3, <4>1
      <3> QED BY <2>7, <3>1, <3>2, <3>3, TransferStep
    <2> QED BY <1>6, <2>5, <2>6, <2>7
  <1>7. CASE Choosing
    <2>1. PICK x : x = <<victim, eng.set>>
      OBVIOUS
    <2>2. /\ eng.state = "VICTIM" /\ tag_mem' = tag_mem /\ mshr' = mshr
          /\ valid' = IF eng.clean THEN valid ELSE valid \ {x}
      BY <1>7, <2>1 DEF Choosing, ChooseVictim
    <2>3. /\ eng'.way = victim /\ eng'.set = eng.set /\ eng'.clean = eng.clean /\ eng'.word = 0
          /\ eng'.tag = tag_mem[x] /\ Slot' = x
          /\ eng'.state = IF x \in dirty THEN "EVICT_READ" ELSE IF eng.clean THEN "SCAN" ELSE "FILL"
      BY <1>7, <2>1, ChosenFacts DEF Slot
    <2>4. x \in dirty => x \in valid /\ tag_mem[x] \in Tag
      BY DEF CacheInv, Typed
    <2>5. x \in dirty /\ ~eng.clean => \A y \in valid' : y[2] = eng.set => tag_mem[y] # tag_mem[x]
      BY <2>1, <2>2, <2>4 DEF CacheInv, OneCopy
    <2>6. eng'.state \in {"EVICT_READ", "FILL", "SCAN"} /\ (eng'.state = "FILL" => ~eng.clean)
          /\ (eng'.state = "EVICT_READ" => x \in dirty)
      BY <2>3
    <2> QED BY <1>4, <2>2, <2>3, <2>4, <2>5, <2>6, Geometry DEF EngineOwns, Evicting
  <1>8. CASE Filling
    <2>1. eng.state = "FILL"
      BY <1>8 DEF Filling
    <2>2. CASE /\ eng.word # NumWords - 1 /\ eng'.state = "FILL" /\ eng'.word = eng.word + 1
               /\ eng'.clean = eng.clean /\ eng'.set = eng.set /\ eng'.way = eng.way
      <3>1. valid' = valid /\ mshr' = mshr
        BY <1>8, <2>2 DEF Filling
      <3>2. eng'.word < NumWords
        BY <1>3, <1>4, <2>1, <2>2, Geometry
      <3> QED BY <1>4, <2>1, <2>2, <3>1, <3>2 DEF EngineOwns, Evicting, Slot
    <2>3. CASE eng' = AtRest("IDLE")
      BY <2>3 DEF EngineOwns, Evicting, AtRest
    <2> QED BY <1>8, <2>2, <2>3, TransferStep
  <1> QED BY <1>1, <1>2, <1>5, <1>6, <1>7, <1>8, StepKinds

\* What a cycle does to the memory of the cached words: one word of an eviction, or nothing.
LEMMA MemFacts ==
  ASSUME CacheInv, NEW r, NEW lk
  PROVE  /\ Writing(r, lk) =>
              /\ eng.word \in Offset /\ eng.tag \in Tag
              /\ \A t \in Tag, s \in Set, o \in Offset :
                   mem'[<<t, s, o>>] = IF t = eng.tag /\ s = eng.set /\ o = eng.word THEN eng.buf[o]
                                       ELSE mem[<<t, s, o>>]
         /\ Passing(r, lk) => \A t \in Tag, s \in Set, o \in Offset : mem'[<<t, s, o>>] = mem[<<t, s, o>>]
  <1>1. mem \in [Word -> Cell] /\ eng.word \in 0 .. NumWords
    BY DEF CacheInv, Typed, Transfer
  <1>2. \A t \in Tag, s \in Set, o \in Offset : <<t, s, o>> \in Cached /\ <<t, s, o>> \in Word
    BY DEF Cached, Word
  <1>3. ASSUME Writing(r, lk)
        PROVE  /\ eng.word \in Offset /\ eng.tag \in Tag
               /\ \A t \in Tag, s \in Set, o \in Offset :
                    mem'[<<t, s, o>>] = IF t = eng.tag /\ s = eng.set /\ o = eng.word THEN eng.buf[o]
                                        ELSE mem[<<t, s, o>>]
    <2>1. eng.state = "EVICT_WRITE" /\ mem' = [mem EXCEPT ![<<eng.tag, eng.set, eng.word>>] = eng.buf[eng.word]]
      BY <1>3 DEF Writing
    <2>2. eng.word \in Offset /\ eng.tag \in Tag
      BY <1>1, <2>1, Geometry DEF CacheInv, EngineOwns, Evicting, Offset
    <2>3. PICK h, d : h = <<eng.tag, eng.set, eng.word>> /\ d = eng.buf[eng.word]
      OBVIOUS
    <2>4. mem' = [mem EXCEPT ![h] = d]
      BY <2>1, <2>3
    <2>5. \A a \in Word : mem'[a] = IF a = h THEN d ELSE mem[a]
      BY <1>1, <2>4
    <2> QED BY <1>2, <2>2, <2>3, <2>5
  <1> QED BY <1>2, <1>3 DEF Passing

\* CleanLines is preserved: a line becomes clean when its last word is in memory, or with its fill.
LEMMA CleanLinesStep ==
  ASSUME CacheInv, NEW r \in MP!Request \cup {None}, NEW m \in Port, NEW lk, lk = Outcome(r, m),
         \/ Passing(r, lk) \/ Reading(r, lk) \/ Waiting(r, lk) \/ Writing(r, lk) \/ Choosing \/ Filling
  PROVE  CleanLines'
  <1> SUFFICES ASSUME NEW x \in valid', x \notin dirty', NEW o \in Offset,
                      ~(Evicting' /\ eng'.clean /\ x = Slot')
               PROVE  data_mem'[<<x[1], x[2], o>>] = mem'[<<tag_mem'[x], x[2], o>>]
    BY DEF CleanLines
  <1>1. valid \subseteq Way \X Set /\ \A y \in valid : tag_mem[y] \in Tag
    BY DEF CacheInv, Typed
  <1>2. \A y \in valid \ dirty : ~(Evicting /\ eng.clean /\ y = Slot) =>
          data_mem[<<y[1], y[2], o>>] = mem[<<tag_mem[y], y[2], o>>]
    BY DEF CacheInv, CleanLines
  <1>3. ASSUME Looks(r, lk)
        PROVE  /\ x \in valid /\ x \notin dirty /\ x[1] \in Way /\ x[2] \in Set /\ x = <<x[1], x[2]>>
               /\ tag_mem'[x] = tag_mem[x] /\ tag_mem[x] \in Tag
               /\ data_mem'[<<x[1], x[2], o>>] = data_mem[<<x[1], x[2], o>>]
    <2>1. x \in valid /\ tag_mem' = tag_mem
      BY <1>3 DEF Looks
    <2>2. x[1] \in Way /\ x[2] \in Set /\ x = <<x[1], x[2]>>
      BY <1>1, <2>1
    <2> QED BY <1>1, <1>3, <2>1, <2>2, Unwritten
  <1>4. CASE Passing(r, lk)
    <2>1. Looks(r, lk) /\ ~Evicting
      BY <1>4 DEF Passing
    <2> QED BY <1>2, <1>3, <1>4, <2>1, MemFacts
  <1>5. CASE Reading(r, lk)
    <2>1. Looks(r, lk) /\ mem' = mem /\ eng'.clean = eng.clean /\ Slot' = Slot /\ Evicting'
      BY <1>5, TransferStep DEF Reading, Slot, Evicting
    <2> QED BY <1>2, <1>3, <2>1
  <1>6. CASE Waiting(r, lk)
    <2>1. Looks(r, lk) /\ mem' = mem /\ eng' = eng
      BY <1>6 DEF Waiting
    <2> QED BY <1>2, <1>3, <2>1 DEF Evicting, Slot
  <1>7. CASE Writing(r, lk)
    <2>1. Looks(r, lk) /\ eng.state = "EVICT_WRITE"
      BY <1>7 DEF Writing
    <2>2. eng.tag = tag_mem[Slot] /\ (eng.clean <=> Slot \in valid) /\ Slot[2] = eng.set
          /\ (~eng.clean => \A y \in valid : y[2] = eng.set => tag_mem[y] # eng.tag)
      BY <2>1 DEF CacheInv, EngineOwns, Evicting, Slot
    <2>3. CASE tag_mem[x] = eng.tag /\ x[2] = eng.set
      <3>1. eng.clean /\ x = Slot
        BY <1>3, <2>1, <2>2, <2>3 DEF CacheInv, OneCopy
      <3>2. eng.word = NumWords - 1
        BY <1>7, <3>1, TransferStep DEF Evicting, Slot
      <3>3. /\ eng.word <= o => eng.buf[o] = data_mem[<<eng.way, eng.set, o>>]
            /\ o < eng.word => mem[<<eng.tag, eng.set, o>>] = data_mem[<<eng.way, eng.set, o>>]
        BY <1>3, <2>1, <3>1 DEF CacheInv, EvictedSoFar
      <3>4. o < eng.word \/ o = eng.word
        BY <3>2, Geometry DEF Offset
      <3>5. x[1] = eng.way
        BY <3>1 DEF Slot
      <3> QED BY <1>3, <1>7, <2>1, <2>3, <3>2, <3>3, <3>4, <3>5, MemFacts, Geometry
    <2>4. CASE ~(tag_mem[x] = eng.tag /\ x[2] = eng.set)
      <3>1. mem'[<<tag_mem[x], x[2], o>>] = mem[<<tag_mem[x], x[2], o>>]
        BY <1>3, <1>7, <2>1, <2>4, MemFacts
      <3>2. x # Slot
        BY <2>2, <2>4
      <3> QED BY <1>2, <1>3, <2>1, <3>1, <3>2
    <2> QED BY <2>3, <2>4
  <1>8. CASE Choosing
    <2>1. PICK y : y = <<victim, eng.set>>
      OBVIOUS
    <2>2. /\ eng.state = "VICTIM" /\ tag_mem' = tag_mem /\ mem' = mem /\ data_mem' = data_mem
          /\ valid' = (IF eng.clean THEN valid ELSE valid \ {y}) /\ dirty' = dirty \ {y}
      BY <1>8, <2>1 DEF Choosing, ChooseVictim
    <2>3. Slot' = y /\ eng'.clean = eng.clean /\ (y \in dirty => eng'.state = "EVICT_READ")
      BY <1>8, <2>1, ChosenFacts DEF Slot
    <2>4. x \notin dirty
      BY <2>2, <2>3 DEF Evicting
    <2> QED BY <1>2, <2>2, <2>4 DEF Evicting
  <1>9. CASE Filling
    <2>1. /\ eng.state = "FILL" /\ mem' = mem /\ Slot \notin valid /\ Slot \in Way \X Set
          /\ mshr[1].line = <<mshr[1].line[1], eng.set>>
          /\ eng.word \in Offset /\ mshr[1].line[1] \in Tag /\ mshr[1].bytes \in [Offset -> Bytes]
      BY <1>9, LineIn DEF Filling
    <2>2. CASE x \in valid
      <3>1. x # Slot /\ x[1] \in Way /\ x[2] \in Set /\ x = <<x[1], x[2]>> /\ x \notin dirty
        BY <1>1, <1>9, <2>1, <2>2 DEF Filling
      <3>2. data_mem'[<<x[1], x[2], o>>] = data_mem[<<x[1], x[2], o>>]
        BY <1>9, <3>1, FillFacts DEF Slot
      <3>3. tag_mem'[x] = tag_mem[x]
        BY <1>9, <3>1, FillFacts DEF Filling
      <3> QED BY <1>2, <2>1, <2>2, <3>1, <3>2, <3>3 DEF Evicting
    <2>3. CASE x \notin valid
      <3>1. x = Slot /\ eng.word = NumWords - 1 /\ mshr[1].bytes = NoBytes
        BY <1>9, <2>3 DEF Filling
      <3>2. tag_mem'[x] = mshr[1].line[1] /\ x[1] = eng.way /\ x[2] = eng.set
        BY <1>9, <2>1, <3>1, FillFacts DEF Slot
      <3>3. \A p \in Offset : <<mshr[1].line[1], eng.set, p>> \in Word
        BY <1>1, <2>1 DEF Word, Cached, Slot
      <3>4. With(mem[<<mshr[1].line[1], eng.set, o>>], mshr[1].bytes[o]) = mem[<<mshr[1].line[1], eng.set, o>>]
        <4>1. mshr[1].bytes[o] = << >> /\ DOMAIN mshr[1].bytes[o] = {}
          BY <3>1, NoBytesTyped DEF NoBytes
        <4> QED BY <3>3, <4>1, MergeFacts DEF CacheInv, Typed
      <3>5. data_mem'[<<eng.way, eng.set, o>>] = With(mem[<<mshr[1].line[1], eng.set, o>>], mshr[1].bytes[o])
        <4>1. <<eng.way, eng.set, o>> \in Way \X Set \X Offset
          BY <2>1 DEF Slot
        <4>2. CASE o = eng.word
          BY <1>9, <2>1, <4>1, <4>2, FillFacts DEF Word1
        <4>3. CASE o # eng.word
          <5>1. o < eng.word
            BY <3>1, <4>3, Geometry DEF Offset
          <5>2. data_mem[<<eng.way, eng.set, o>>] = With(mem[<<mshr[1].line[1], eng.set, o>>], mshr[1].bytes[o])
            <6>1. mshr[1].line[2] = eng.set
              BY <2>1
            <6> QED BY <2>1, <5>1, <6>1, MergeFacts DEF CacheInv, FilledSoFar
          <5> QED BY <1>9, <4>1, <4>3, <5>2, FillFacts
        <4> QED BY <4>2, <4>3
      <3> QED BY <2>1, <3>2, <3>4, <3>5
    <2> QED BY <2>2, <2>3
  <1> QED BY <1>4, <1>5, <1>6, <1>7, <1>8, <1>9

\* EvictedSoFar is preserved: a store to a line in eviction makes its way dirty again.
LEMMA EvictedStep ==
  ASSUME CacheInv, NEW r \in MP!Request \cup {None}, NEW na \in Index, NEW m \in Port, NEW lk, lk = Outcome(r, m),
         Arrays(r, na, m, lk),
         \/ Passing(r, lk) \/ Reading(r, lk) \/ Waiting(r, lk) \/ Writing(r, lk) \/ Choosing \/ Filling
  PROVE  EvictedSoFar'
  <1>1. /\ eng.word \in 0 .. NumWords /\ NumWords \in Nat /\ eng.way \in Way /\ eng.set \in Set
        /\ Slot \in Way \X Set /\ Slot = <<eng.way, eng.set>>
    BY Geometry DEF CacheInv, Typed, Transfer, Slot
  <1>2. ASSUME Looks(r, lk), Slot \notin dirty'
        PROVE  /\ Slot \notin dirty
               /\ \A o \in Offset : data_mem'[<<eng.way, eng.set, o>>] = data_mem[<<eng.way, eng.set, o>>]
    BY <1>1, <1>2, Unwritten DEF Slot
  <1>3. Slot \notin dirty =>
          /\ eng.state = "EVICT_READ" =>
               /\ \A o \in Offset : o < eng.word - 1 => eng.buf[o] = data_mem[<<eng.way, eng.set, o>>]
               /\ eng.word > 0 => rd.data[eng.way] = data_mem[<<eng.way, eng.set, eng.word - 1>>]
          /\ eng.state = "EVICT_WRITE" => \A o \in Offset :
               /\ eng.word <= o => eng.buf[o] = data_mem[<<eng.way, eng.set, o>>]
               /\ o < eng.word /\ eng.clean => mem[<<eng.tag, eng.set, o>>] = data_mem[<<eng.way, eng.set, o>>]
    BY DEF CacheInv, EvictedSoFar
  <1>4. CASE Passing(r, lk)
    BY <1>4 DEF Passing, EvictedSoFar
  <1>5. CASE Reading(r, lk)
    <2>1. /\ eng.state = "EVICT_READ" /\ Looks(r, lk) /\ eng'.set = eng.set /\ eng'.way = eng.way /\ Slot' = Slot
          /\ \A o \in Offset : eng'.buf[o] = IF o = eng.word - 1 THEN rd.data[eng.way] ELSE eng.buf[o]
      BY <1>5, TransferStep DEF Reading, Slot
    <2> SUFFICES ASSUME Slot \notin dirty'
                 PROVE  /\ eng'.state = "EVICT_READ" =>
                             /\ \A o \in Offset : o < eng'.word - 1 => eng'.buf[o] = data_mem'[<<eng.way, eng.set, o>>]
                             /\ eng'.word > 0 => rd'.data[eng.way] = data_mem'[<<eng.way, eng.set, eng'.word - 1>>]
                        /\ eng'.state = "EVICT_WRITE" => \A o \in Offset :
                             /\ eng'.word <= o => eng'.buf[o] = data_mem'[<<eng.way, eng.set, o>>]
                             /\ o < eng'.word => FALSE
      BY <2>1 DEF EvictedSoFar
    <2>2. /\ \A o \in Offset : data_mem'[<<eng.way, eng.set, o>>] = data_mem[<<eng.way, eng.set, o>>]
          /\ \A o \in Offset : o < eng.word - 1 => eng.buf[o] = data_mem[<<eng.way, eng.set, o>>]
          /\ eng.word > 0 => rd.data[eng.way] = data_mem[<<eng.way, eng.set, eng.word - 1>>]
      BY <1>2, <1>3, <2>1
    <2>3. \A o \in Offset : o < eng.word => eng'.buf[o] = data_mem'[<<eng.way, eng.set, o>>]
      <3> SUFFICES ASSUME NEW o \in Offset, o < eng.word PROVE eng'.buf[o] = data_mem'[<<eng.way, eng.set, o>>]
        OBVIOUS
      <3>1. CASE o = eng.word - 1
        BY <1>1, <2>1, <2>2, <3>1, Geometry DEF Offset
      <3>2. CASE o # eng.word - 1
        <4>1. o < eng.word - 1
          BY <1>1, <3>2, Geometry DEF Offset
        <4> QED BY <2>1, <2>2, <3>2, <4>1
      <3> QED BY <3>1, <3>2
    <2>4. CASE eng.word # NumWords /\ eng'.state = "EVICT_READ" /\ eng'.word = eng.word + 1
      <3>1. eng.word \in Offset /\ eng'.word - 1 = eng.word
        BY <1>1, <2>4 DEF Offset
      <3>2. read_index(r, na, lk) = <<eng.set, eng.word>>
        BY <2>1, <2>4 DEF read_index
      <3>3. rd'.data[eng.way] = data_mem[<<eng.way, eng.set, eng.word>>]
        <4>1. rd'.data = [w \in Way |-> data_mem[<<w, read_index(r, na, lk)[1], read_index(r, na, lk)[2]>>]]
          BY DEF Arrays
        <4> QED BY <1>1, <3>2, <4>1
      <3> QED BY <2>2, <2>3, <2>4, <3>1, <3>3
    <2>5. CASE eng.word = NumWords /\ eng'.state = "EVICT_WRITE" /\ eng'.word = 0
      BY <2>3, <2>5, Geometry DEF Offset
    <2> QED BY <1>5, <2>4, <2>5, TransferStep
  <1>6. CASE Waiting(r, lk)
    <2>1. Looks(r, lk) /\ mem' = mem /\ eng' = eng /\ Slot' = Slot /\ eng.state = "EVICT_WRITE"
      BY <1>6 DEF Waiting, Slot
    <2> QED BY <1>2, <1>3, <2>1 DEF EvictedSoFar
  <1>7. CASE Writing(r, lk)
    <2>1. Looks(r, lk) /\ eng.state = "EVICT_WRITE"
      BY <1>7 DEF Writing
    <2>2. CASE eng'.state # "EVICT_WRITE"
      <3>1. eng'.state # "EVICT_READ"
        BY <1>7, TransferStep DEF AtRest
      <3> QED BY <2>2, <3>1 DEF EvictedSoFar
    <2>3. CASE eng'.state = "EVICT_WRITE"
      <3>1. /\ eng'.word = eng.word + 1 /\ eng'.clean = eng.clean /\ eng'.set = eng.set /\ eng'.way = eng.way
            /\ eng'.tag = eng.tag /\ eng'.buf = eng.buf /\ Slot' = Slot
        BY <1>7, <2>3, TransferStep DEF AtRest, Slot
      <3> SUFFICES ASSUME Slot \notin dirty', NEW o \in Offset
                   PROVE  /\ eng.word + 1 <= o => eng.buf[o] = data_mem'[<<eng.way, eng.set, o>>]
                          /\ o < eng.word + 1 /\ eng.clean =>
                               mem'[<<eng.tag, eng.set, o>>] = data_mem'[<<eng.way, eng.set, o>>]
        BY <2>3, <3>1 DEF EvictedSoFar
      <3>2. /\ data_mem'[<<eng.way, eng.set, o>>] = data_mem[<<eng.way, eng.set, o>>]
            /\ eng.word <= o => eng.buf[o] = data_mem[<<eng.way, eng.set, o>>]
            /\ o < eng.word /\ eng.clean => mem[<<eng.tag, eng.set, o>>] = data_mem[<<eng.way, eng.set, o>>]
        BY <1>2, <1>3, <2>1
      <3>3. o \in Nat /\ eng.word \in Nat
        BY <1>1, Geometry
      <3>4. eng.tag \in Tag /\ mem'[<<eng.tag, eng.set, o>>] =
              IF o = eng.word THEN eng.buf[o] ELSE mem[<<eng.tag, eng.set, o>>]
        BY <1>1, <1>7, MemFacts
      <3> QED BY <3>2, <3>3, <3>4
    <2> QED BY <2>2, <2>3
  <1>8. CASE Choosing
    <2>1. eng'.word = 0 /\ eng'.state # "EVICT_WRITE"
      BY <1>8, ChosenFacts
    <2>2. ~(eng'.word > 0) /\ \A o \in Offset : ~(o < eng'.word - 1)
      BY <2>1, Geometry
    <2> QED BY <2>1, <2>2, Zenon DEF EvictedSoFar
  <1>9. CASE Filling
    <2>1. eng'.state \notin {"EVICT_READ", "EVICT_WRITE"}
      BY <1>9, TransferStep DEF AtRest
    <2> QED BY <2>1 DEF EvictedSoFar
  <1> QED BY <1>4, <1>5, <1>6, <1>7, <1>8, <1>9

\* FilledSoFar is preserved: the MSHR in fill takes no more stores.
LEMMA FilledStep ==
  ASSUME CacheInv, NEW r \in MP!Request \cup {None}, NEW m \in Port, NEW lk, lk = Outcome(r, m),
         \/ Passing(r, lk) \/ Reading(r, lk) \/ Waiting(r, lk) \/ Writing(r, lk) \/ Choosing \/ Filling
  PROVE  FilledSoFar'
  <1>1. eng.state = "FILL" => \A o \in Offset : o < eng.word =>
          data_mem[<<eng.way, eng.set, o>>] = With(mem[<<mshr[1].line[1], mshr[1].line[2], o>>], mshr[1].bytes[o])
    BY MergeFacts DEF CacheInv, FilledSoFar
  <1> SUFFICES ASSUME eng'.state = "FILL", NEW o \in Offset, o < eng'.word
               PROVE  data_mem'[<<eng'.way, eng'.set, o>>] =
                        With(mem'[<<mshr'[1].line[1], mshr'[1].line[2], o>>], mshr'[1].bytes[o])
    BY MergeFacts DEF FilledSoFar
  <1>2. CASE Passing(r, lk)
    <2>1. Looks(r, lk) /\ eng' = eng
      BY <1>2 DEF Passing
    <2>2. /\ mshr # << >> /\ Slot \notin valid /\ Slot \in Way \X Set
          /\ mshr[1].line = <<mshr[1].line[1], eng.set>> /\ mshr[1].line[1] \in Tag
      BY <2>1, LineIn
    <2>3. mshr'[1] = mshr[1]
      BY <2>1, <2>2, OldestStays
    <2>4. data_mem'[<<eng.way, eng.set, o>>] = data_mem[<<eng.way, eng.set, o>>]
      BY <2>1, <2>2, Unwritten DEF Slot
    <2>5. mem'[<<mshr[1].line[1], mshr[1].line[2], o>>] = mem[<<mshr[1].line[1], mshr[1].line[2], o>>]
      BY <1>2, <2>2, MemFacts DEF Slot
    <2> QED BY <1>1, <2>1, <2>3, <2>4, <2>5
  <1>3. CASE Reading(r, lk) \/ Waiting(r, lk) \/ Writing(r, lk) \/ Choosing
    <2>1. eng'.word = 0
      <3>1. CASE Waiting(r, lk)
        BY <3>1 DEF Waiting
      <3>2. CASE Reading(r, lk)
        BY <3>2, TransferStep
      <3>3. CASE Writing(r, lk)
        BY <3>3, TransferStep DEF AtRest
      <3>4. CASE Choosing
        BY <3>4, ChosenFacts
      <3> QED BY <1>3, <3>1, <3>2, <3>3, <3>4
    <2> QED BY <2>1, Geometry
  <1>4. CASE Filling
    <2>1. /\ eng.state = "FILL" /\ mem' = mem /\ mshr[1].line = <<mshr[1].line[1], eng.set>> /\ eng.word \in Offset
          /\ Slot \in Way \X Set
      BY <1>4, LineIn DEF Filling
    <2>2. /\ eng.word # NumWords - 1 /\ eng'.word = eng.word + 1 /\ eng'.set = eng.set /\ eng'.way = eng.way
      BY <1>4, TransferStep DEF AtRest
    <2>3. mshr' = mshr
      BY <1>4, <2>2 DEF Filling
    <2>4. <<eng.way, eng.set, o>> \in Way \X Set \X Offset
      BY <2>1 DEF Slot
    <2>5. CASE o = eng.word
      BY <1>4, <2>1, <2>2, <2>3, <2>4, <2>5, FillFacts DEF Word1
    <2>6. CASE o # eng.word
      <3>1. o < eng.word
        BY <2>1, <2>2, <2>6, Geometry
      <3>2. data_mem'[<<eng.way, eng.set, o>>] = data_mem[<<eng.way, eng.set, o>>]
        BY <1>4, <2>4, <2>6, FillFacts
      <3> QED BY <1>1, <2>1, <2>2, <2>3, <3>1, <3>2
    <2> QED BY <2>5, <2>6
  <1> QED BY <1>2, <1>3, <1>4

-----------------------------------------------------------------------------
\* After reset the cache is empty.
LEMMA CacheInit == Init => CacheInv
  <1> SUFFICES ASSUME Init PROVE CacheInv
    OBVIOUS
  <1>1. /\ data_mem = [x \in Way \X Set \X Offset |-> Junk] /\ tag_mem = [x \in Way \X Set |-> None]
        /\ valid = {} /\ dirty = {} /\ mshr = << >> /\ eng = AtRest("IDLE") /\ scan_set = 0
        /\ mem = Image /\ pend = None /\ ~rd.fresh
    BY DEF Init
  <1>2. eng.state = "IDLE" /\ ~eng.clean /\ eng \in Transfer
    BY <1>1, JunkFacts DEF AtRest, State
  <1>3. rd \in Row
    <2>1. <<0, 0>> \in Index
      BY Geometry DEF Index
    <2> QED BY <2>1, JunkFacts DEF Init, Row
  <1>4. mem \in [Word -> Cell]
    <2>1. Image \in [Word -> [Lane -> Byte]]
      BY GeometryAssumption
    <2>2. [Lane -> Byte] \subseteq Cell
      BY DEF Cell
    <2> QED BY <1>1, <2>1, <2>2
  <1>5. plru \in [Set -> [0 .. NumWays - 2 -> {0, 1}]]
    BY DEF Init
  <1>6. Typed
    BY <1>1, <1>2, <1>3, <1>4, <1>5, JunkFacts, Geometry DEF Typed
  <1>7. EngineOwns /\ PortOwes /\ RowIsCurrent /\ CleanLines /\ EvictedSoFar /\ FilledSoFar /\ OneCopy
    BY <1>1, <1>2
    DEF EngineOwns, Evicting, PortOwes, RowIsCurrent, CleanLines, EvictedSoFar, FilledSoFar, OneCopy
  <1> QED BY <1>6, <1>7 DEF CacheInv

\* CacheInv is inductive.
LEMMA CacheStep == CacheInv /\ [Next]_vars => CacheInv'
  <1> SUFFICES ASSUME CacheInv, [Next]_vars PROVE CacheInv'
    OBVIOUS
  <1>1. CASE Next
    <2>1. PICK r, na, m, clean_req : Input(r, na, m, clean_req) /\ Cycle(r, na, m, clean_req)
      BY <1>1, Inputs
    <2>2. PICK lk : lk = Outcome(r, m)
      OBVIOUS
    <2>3. r \in MP!Request \cup {None} /\ na \in Index /\ m \in Port /\ Arrays(r, na, m, lk)
      BY <2>1, <2>2 DEF Input, Cycle
    <2>4. \/ Passing(r, lk) \/ Reading(r, lk) \/ Waiting(r, lk) \/ Writing(r, lk) \/ Choosing \/ Filling
      BY <2>1, <2>2, <2>3, StepKinds
    <2>5. Looks(r, lk) \/ Choosing \/ Filling
      BY <2>4 DEF Passing, Reading, Waiting, Writing
    <2>6. Typed' /\ EngineOwns' /\ PortOwes' /\ RowIsCurrent'
      BY <2>1, TypedStep, EngineStep, PortStep, RowCurrentStep
    <2>7. CleanLines' /\ EvictedSoFar' /\ FilledSoFar' /\ OneCopy'
      BY <2>2, <2>3, <2>4, <2>5, <2>6, CleanLinesStep, EvictedStep, FilledStep, OneCopyStep
    <2> QED BY <2>6, <2>7 DEF CacheInv
  <1>2. CASE UNCHANGED vars
    BY <1>2
    DEF vars, CacheInv, Typed, EngineOwns, Slot, Evicting, PortOwes, mem_request, RowIsCurrent, CleanLines,
        EvictedSoFar, FilledSoFar, OneCopy
  <1> QED BY <1>1, <1>2

\* The invariant of the data cache (dcache.v): rows, lines, MSHRs and engine agree about every line.
THEOREM CacheIsSound == Spec => []CacheInv
  BY CacheInit, CacheStep, PTL DEF Spec

-----------------------------------------------------------------------------
(* Where a word is.                                                        *)

Held(a, w) == <<w, a[2]>> \in valid /\ tag_mem[<<w, a[2]>>] = a[1]
Unheld(a) == IF Leaving(a) /\ eng.state = "EVICT_READ" THEN data_mem[<<eng.way, a[2], a[3]>>]
             ELSE IF Leaving(a) /\ a[3] >= eng.word THEN eng.buf[a[3]]
             ELSE mem[a]
Missing(a) == \A i \in 1 .. Len(mshr) : mshr[i].line # line(a)

\* The current value of a RAM word, below the MSHRs and with them.
BelowIs ==
  \A a \in Cached :
    /\ \A w \in Way : Held(a, w) => Below(a) = data_mem[<<w, a[2], a[3]>>]
    /\ (\A w \in Way : ~Held(a, w)) => Below(a) = Unheld(a)
    /\ Below(a) \in Cell
ContentsIs ==
  /\ Contents = [a \in Word |-> Contents[a]]
  /\ \A a \in Device : Contents[a] = mem[a]
  /\ \A a \in Cached :
       /\ \A i \in 1 .. Len(mshr) : mshr[i].line = line(a) => Contents[a] = With(Below(a), mshr[i].bytes[a[3]])
       /\ Missing(a) => Contents[a] = Below(a)

\* The parts of a cached address.
LEMMA WordParts ==
  ASSUME NEW a \in Cached
  PROVE  /\ a = <<a[1], a[2], a[3]>> /\ a[1] \in Tag /\ a[2] \in Set /\ a[3] \in Offset
         /\ a \in Word /\ a \notin Device
  BY GeometryAssumption DEF Cached, Word

\* Below and Contents, said without choosing a way.
LEMMA WhereWordsAre == CacheInv => BelowIs /\ ContentsIs
  <1> SUFFICES ASSUME CacheInv PROVE BelowIs /\ ContentsIs
    OBVIOUS
  <1>1. BelowIs
    <2> SUFFICES ASSUME NEW a \in Cached
                 PROVE  /\ \A w \in Way : Held(a, w) => Below(a) = data_mem[<<w, a[2], a[3]>>]
                        /\ (\A w \in Way : ~Held(a, w)) => Below(a) = Unheld(a)
                        /\ Below(a) \in Cell
      BY DEF BelowIs
    <2>1. /\ a = <<a[1], a[2], a[3]>> /\ a[1] \in Tag /\ a[2] \in Set /\ a[3] \in Offset /\ a \in Word
      BY WordParts
    <2>2. /\ data_mem \in [Way \X Set \X Offset -> Cell] /\ mem \in [Word -> Cell]
          /\ eng.way \in Way /\ eng.buf \in [Offset -> Cell]
      BY DEF CacheInv, Typed, Transfer
    <2>3. \A w \in Way : w \in Resident(a) <=> Held(a, w)
      BY DEF Resident, Held, tag
    <2>4. Unheld(a) \in Cell
      BY <2>1, <2>2 DEF Unheld
    <2>5. ASSUME NEW w \in Way, Held(a, w) PROVE Below(a) = data_mem[<<w, a[2], a[3]>>]
      <3>1. w \in Resident(a)
        BY <2>3, <2>5
      <3>2. ASSUME NEW v \in Resident(a) PROVE v = w
        <4>1. v \in Way /\ Held(a, v)
          BY <2>3 DEF Resident
        <4>2. <<v, a[2]>> = <<w, a[2]>>
          BY <2>5, <4>1 DEF CacheInv, OneCopy, Held
        <4> QED BY <4>2
      <3>3. (CHOOSE v \in Resident(a) : TRUE) = w
        BY <3>1, <3>2
      <3> QED BY <3>1, <3>3, Zenon DEF Below
    <2>6. ASSUME \A w \in Way : ~Held(a, w) PROVE Below(a) = Unheld(a)
      <3>1. Resident(a) = {}
        BY <2>3, <2>6 DEF Resident
      <3> QED BY <3>1, Zenon DEF Below, Unheld
    <2>7. Below(a) \in Cell
      <3>1. CASE \E w \in Way : Held(a, w)
        BY <2>1, <2>2, <2>5, <3>1
      <3>2. CASE \A w \in Way : ~Held(a, w)
        BY <2>4, <2>6, <3>2
      <3> QED BY <3>1, <3>2
    <2> QED BY <2>5, <2>6, <2>7
  <1>2. Contents = [a \in Word |-> Contents[a]]
    BY DEF Contents
  <1>3. \A a \in Device : Contents[a] = mem[a]
    BY DEF Contents, Word
  <1>4. ASSUME NEW a \in Cached
        PROVE  /\ \A i \in 1 .. Len(mshr) : mshr[i].line = line(a) => Contents[a] = With(Below(a), mshr[i].bytes[a[3]])
               /\ Missing(a) => Contents[a] = Below(a)
    <2>1. DOMAIN mshr = 1 .. Len(mshr) /\ a \in Word /\ a \notin Device
      BY EntryFacts, WordParts DEF CacheInv
    <2>2. Contents[a] = IF ~\E i \in DOMAIN mshr : mshr[i].line = line(a) THEN Below(a)
                        ELSE With(Below(a), mshr[CHOOSE i \in DOMAIN mshr : mshr[i].line = line(a)].bytes[a[3]])
      BY <2>1, MergeFacts DEF Contents
    <2>3. Missing(a) => Contents[a] = Below(a)
      BY <2>1, <2>2 DEF Missing
    <2>4. ASSUME NEW i \in 1 .. Len(mshr), mshr[i].line = line(a)
          PROVE  Contents[a] = With(Below(a), mshr[i].bytes[a[3]])
      <3>1. \A j \in DOMAIN mshr : mshr[j].line = line(a) => j = i
        BY <2>1, <2>4 DEF CacheInv, OneCopy
      <3>2. (CHOOSE j \in DOMAIN mshr : mshr[j].line = line(a)) = i
        BY <2>1, <2>4, <3>1
      <3> QED BY <2>1, <2>2, <2>4, <3>2
    <2> QED BY <2>3, <2>4
  <1> QED BY <1>1, <1>2, <1>3, <1>4 DEF ContentsIs

\* When the cache is clean, every word is what memory holds.
LEMMA WrittenBack == CacheInv => CleanMeansWrittenBack
  <1> SUFFICES ASSUME CacheInv, clean PROVE mem = Contents
    BY DEF CleanMeansWrittenBack
  <1>1. BelowIs /\ ContentsIs
    BY WhereWordsAre
  <1>2. dirty = {} /\ mshr = << >> /\ eng.state = "IDLE"
    BY DEF clean
  <1>3. mem \in [Word -> Cell]
    BY DEF CacheInv, Typed
  <1>4. ASSUME NEW a \in Cached PROVE Contents[a] = mem[a]
    <2>1. Contents[a] = Below(a)
      BY <1>1, <1>2 DEF ContentsIs, Missing
    <2>2. CASE \E w \in Way : Held(a, w)
      <3>1. PICK w \in Way : Held(a, w)
        BY <2>2
      <3>2. Below(a) = data_mem[<<w, a[2], a[3]>>]
        BY <1>1, <3>1 DEF BelowIs
      <3>3. PICK x \in valid : x = <<w, a[2]>> /\ tag_mem[x] = a[1]
        BY <3>1 DEF Held
      <3>4. data_mem[<<x[1], x[2], a[3]>>] = mem[<<tag_mem[x], x[2], a[3]>>]
        BY <1>2, WordParts DEF CacheInv, CleanLines, Evicting
      <3> QED BY <2>1, <3>2, <3>3, <3>4, WordParts
    <2>3. CASE \A w \in Way : ~Held(a, w)
      BY <1>1, <1>2, <2>1, <2>3 DEF BelowIs, Unheld, Leaving
    <2> QED BY <2>2, <2>3
  <1>5. \A a \in Word : Contents[a] = mem[a]
    BY <1>1, <1>4 DEF ContentsIs, Word
  <1> QED BY <1>1, <1>3, <1>5 DEF ContentsIs

\* A line is in one place, and FENCE.I finds memory up to date when the cache says it is clean.
THEOREM LinesAreAccounted == Spec => []LinesAccounted
  <1>1. CacheInv => LinesAccounted
    BY WrittenBack DEF CacheInv, LinesAccounted
  <1> QED BY <1>1, CacheIsSound, PTL

-----------------------------------------------------------------------------
(* What a cycle does to the current values.                                *)

\* A store hit finds its word where Below does.
LEMMA HeldStep ==
  ASSUME CacheInv, NEW r \in MP!Request \cup {None}, NEW m \in Port, NEW lk, lk = Outcome(r, m), Looks(r, lk),
         NEW a \in Cached, NEW w \in Way, Held(a, w)
  PROVE  data_mem'[<<w, a[2], a[3]>>] =
           IF lk = "store_hit" /\ a = r.addr THEN With(data_mem[<<w, a[2], a[3]>>], r.bytes)
           ELSE data_mem[<<w, a[2], a[3]>>]
  <1>1. <<w, a[2], a[3]>> \in Way \X Set \X Offset
    BY WordParts
  <1>2. CASE lk # "store_hit"
    BY <1>2, LooksFacts
  <1>3. CASE lk = "store_hit"
    <2>1. Hit(r, hit_way(r)) /\ r \in MP!Request /\ cacheable(r)
      BY <1>3, LooksFacts, Lookups
    <2>2. data_mem'[<<w, a[2], a[3]>>] =
            IF w = hit_way(r) /\ a[2] = r.addr[2] /\ a[3] = r.addr[3] THEN With(data_mem[<<w, a[2], a[3]>>], r.bytes)
            ELSE data_mem[<<w, a[2], a[3]>>]
      BY <1>1, <1>3, LooksFacts
    <2>3. w = hit_way(r) /\ a[2] = r.addr[2] /\ a[3] = r.addr[3] => a = r.addr
      <3>1. w = hit_way(r) /\ a[2] = r.addr[2] => a[1] = r.addr[1]
        BY <2>1 DEF Held, Hit
      <3> QED BY <2>1, <3>1, WordParts, RequestFacts
    <2>4. a = r.addr => w = hit_way(r)
      <3>1. a = r.addr => <<w, a[2]>> = <<hit_way(r), a[2]>>
        BY <2>1 DEF Held, Hit, CacheInv, OneCopy
      <3> QED BY <3>1
    <2> QED BY <1>3, <2>2, <2>3, <2>4
  <1> QED BY <1>2, <1>3

\* The engine moves lines about without changing what they hold.
LEMMA UnheldStep ==
  ASSUME CacheInv, CacheInv', NEW r \in MP!Request \cup {None}, NEW m \in Port, NEW lk, lk = Outcome(r, m),
         Passing(r, lk) \/ Reading(r, lk) \/ Waiting(r, lk) \/ Writing(r, lk),
         NEW a \in Cached, \A w \in Way : ~Held(a, w)
  PROVE  Unheld(a)' = Unheld(a)
  <1>1. /\ a = <<a[1], a[2], a[3]>> /\ a[1] \in Tag /\ a[2] \in Set /\ a[3] \in Offset /\ line(a) = <<a[1], a[2]>>
    BY WordParts DEF line
  <1>2. /\ eng.way \in Way /\ eng.set \in Set /\ eng.word \in 0 .. NumWords /\ Slot = <<eng.way, eng.set>>
    BY DEF CacheInv, Typed, Transfer, Slot
  <1>3. Looks(r, lk)
    BY DEF Passing, Reading, Waiting, Writing
  <1>4. ASSUME Leaving(a)
        PROVE  /\ eng.tag = a[1] /\ eng.set = a[2] /\ ~eng.clean /\ Slot \notin valid
               /\ data_mem'[<<eng.way, a[2], a[3]>>] = data_mem[<<eng.way, a[2], a[3]>>]
    <2>1. Evicting /\ ~eng.clean /\ eng.tag = a[1] /\ eng.set = a[2]
      BY <1>1, <1>4 DEF Leaving, Evicting
    <2>2. Slot \notin valid
      BY <2>1 DEF CacheInv, EngineOwns
    <2> QED BY <1>1, <1>2, <1>3, <2>1, <2>2, Unwritten
  <1>5. CASE Passing(r, lk)
    <2>1. ~Leaving(a) /\ ~Leaving(a)'
      BY <1>5 DEF Passing, Evicting, Leaving
    <2>2. mem'[a] = mem[a]
      BY <1>5 DEF Passing
    <2> QED BY <2>1, <2>2 DEF Unheld
  <1>6. CASE Reading(r, lk)
    <2>1. /\ eng.state = "EVICT_READ" /\ eng'.state \in {"EVICT_READ", "EVICT_WRITE"} /\ mem' = mem
          /\ eng'.clean = eng.clean /\ eng'.set = eng.set /\ eng'.way = eng.way /\ eng'.tag = eng.tag
          /\ Slot' = Slot /\ valid' = valid
      BY <1>3, <1>6, TransferStep DEF Reading, Slot, Looks
    <2>2. Leaving(a)' <=> Leaving(a)
      BY <2>1 DEF Leaving
    <2>3. CASE ~Leaving(a)
      BY <2>1, <2>2, <2>3 DEF Unheld
    <2>4. CASE Leaving(a) /\ eng'.state = "EVICT_READ"
      BY <1>4, <2>1, <2>2, <2>4 DEF Unheld
    <2>5. CASE Leaving(a) /\ eng'.state = "EVICT_WRITE"
      <3>1. eng'.word = 0
        BY <1>6, <2>5, TransferStep
      <3>2. Slot' \notin dirty'
        BY <1>4, <2>1, <2>5 DEF CacheInv, Typed
      <3>3. eng'.buf[a[3]] = data_mem'[<<eng.way, eng.set, a[3]>>]
        <4>1. EvictedSoFar'
          BY DEF CacheInv
        <4>2. eng'.word <= a[3]
          BY <1>1, <3>1, Geometry
        <4>3. \A o \in Offset : eng'.word <= o => eng'.buf[o] = data_mem'[<<eng'.way, eng'.set, o>>]
          BY <2>5, <3>2, <4>1, Zenon DEF EvictedSoFar
        <4> QED BY <1>1, <2>1, <4>2, <4>3
      <3>4. a[3] >= eng'.word
        BY <1>1, <3>1, Geometry
      <3>5. Unheld(a)' = eng'.buf[a[3]]
        BY <2>2, <2>5, <3>4 DEF Unheld
      <3>6. Unheld(a) = data_mem[<<eng.way, a[2], a[3]>>]
        BY <2>1, <2>5 DEF Unheld
      <3> QED BY <1>4, <2>5, <3>3, <3>5, <3>6
    <2> QED BY <2>1, <2>3, <2>4, <2>5
  <1>7. CASE Waiting(r, lk)
    <2>1. eng' = eng /\ mem' = mem /\ eng.state = "EVICT_WRITE"
      BY <1>7 DEF Waiting
    <2> QED BY <2>1 DEF Unheld, Leaving
  <1>8. CASE Writing(r, lk)
    <2>1. /\ eng.state = "EVICT_WRITE" /\ eng.word \in Offset
          /\ mem'[a] = IF a[1] = eng.tag /\ a[2] = eng.set /\ a[3] = eng.word THEN eng.buf[a[3]] ELSE mem[a]
      BY <1>1, <1>8, MemFacts DEF Writing
    <2>2. a[3] \in Nat /\ eng.word \in Nat /\ a[3] < NumWords /\ NumWords \in Nat
      BY <1>1, <2>1, Geometry DEF Offset
    <2>3. CASE Leaving(a)
      <3>1. Unheld(a) = IF a[3] >= eng.word THEN eng.buf[a[3]] ELSE mem[a]
        BY <2>1, <2>3 DEF Unheld
      <3>2. mem'[a] = IF a[3] = eng.word THEN eng.buf[a[3]] ELSE mem[a]
        BY <1>4, <2>1, <2>3
      <3>3. CASE /\ eng.word # NumWords - 1 /\ eng'.state = "EVICT_WRITE" /\ eng'.word = eng.word + 1
                 /\ eng'.clean = eng.clean /\ eng'.set = eng.set /\ eng'.way = eng.way /\ eng'.tag = eng.tag
                 /\ eng'.buf = eng.buf
        <4>1. Unheld(a)' = IF a[3] >= eng.word + 1 THEN eng.buf[a[3]] ELSE mem'[a]
          BY <2>1, <2>3, <3>3 DEF Unheld, Leaving
        <4> QED BY <2>2, <3>1, <3>2, <4>1
      <3>4. CASE eng.word = NumWords - 1 /\ eng'.state \notin {"EVICT_READ", "EVICT_WRITE"}
        <4>1. Unheld(a)' = mem'[a]
          BY <3>4 DEF Unheld, Leaving
        <4> QED BY <2>2, <3>1, <3>2, <3>4, <4>1
      <3> QED BY <1>8, <3>3, <3>4, TransferStep DEF AtRest
    <2>4. CASE ~Leaving(a)
      <3>1. mem'[a] = mem[a]
        <4>1. eng.tag = a[1] /\ eng.set = a[2] => eng.clean
          BY <1>1, <2>1, <2>4 DEF Leaving
        <4>2. eng.tag = a[1] /\ eng.set = a[2] => Held(a, eng.way)
          BY <2>1, <4>1 DEF CacheInv, EngineOwns, Evicting, Held, Slot
        <4> QED BY <1>2, <2>1, <4>2
      <3>2. ~Leaving(a)'
        <4>1. CASE /\ eng'.state = "EVICT_WRITE"
                   /\ eng'.clean = eng.clean /\ eng'.set = eng.set /\ eng'.tag = eng.tag
          BY <2>1, <2>4, <4>1 DEF Leaving
        <4>2. CASE eng'.state \notin {"EVICT_READ", "EVICT_WRITE"}
          BY <4>2 DEF Leaving
        <4> QED BY <1>8, <4>1, <4>2, TransferStep DEF AtRest
      <3> QED BY <2>4, <3>1, <3>2 DEF Unheld
    <2> QED BY <2>3, <2>4
  <1> QED BY <1>5, <1>6, <1>7, <1>8

\* The same after a cycle.
LEMMA WhereWordsWillBe == CacheInv' => BelowIs' /\ ContentsIs'
  BY WhereWordsAre, PTL

\* Under the MSHRs, a lookup changes the word of a store hit and no other.
LEMMA BelowLooks ==
  ASSUME CacheInv, CacheInv', NEW r \in MP!Request \cup {None}, NEW m \in Port, NEW lk, lk = Outcome(r, m),
         Passing(r, lk) \/ Reading(r, lk) \/ Waiting(r, lk) \/ Writing(r, lk),
         NEW a \in Cached
  PROVE  Below(a)' = IF lk = "store_hit" /\ a = r.addr THEN With(Below(a), r.bytes) ELSE Below(a)
  <1>1. BelowIs /\ BelowIs'
    BY WhereWordsAre, WhereWordsWillBe
  <1>2. Looks(r, lk)
    BY DEF Passing, Reading, Waiting, Writing
  <1>3. \A w \in Way : Held(a, w)' <=> Held(a, w)
    BY <1>2 DEF Held, Looks
  <1>4. CASE \E w \in Way : Held(a, w)
    <2>1. PICK w \in Way : Held(a, w)
      BY <1>4
    <2>2. Below(a) = data_mem[<<w, a[2], a[3]>>] /\ Below(a)' = data_mem'[<<w, a[2], a[3]>>]
      BY <1>1, <1>3, <2>1 DEF BelowIs
    <2> QED BY <1>2, <2>1, <2>2, HeldStep
  <1>5. CASE \A w \in Way : ~Held(a, w)
    <2>1. Below(a) = Unheld(a) /\ Below(a)' = Unheld(a)'
      BY <1>1, <1>3, <1>5 DEF BelowIs
    <2>2. ~(lk = "store_hit" /\ a = r.addr)
      BY <1>2, <1>5, LooksFacts DEF Hit, Held
    <2> QED BY <1>5, <2>1, <2>2, UnheldStep
  <1> QED BY <1>4, <1>5

\* A lookup changes the value of the word it stores to, wherever it is, and no other.
LEMMA ContentsLooks ==
  ASSUME CacheInv, CacheInv', NEW r \in MP!Request \cup {None}, NEW m \in Port, NEW lk, lk = Outcome(r, m),
         Passing(r, lk) \/ Reading(r, lk) \/ Waiting(r, lk) \/ Writing(r, lk),
         NEW a \in Cached
  PROVE  Contents'[a] = IF lk \in ServedStore /\ a = r.addr THEN With(Contents[a], r.bytes) ELSE Contents[a]
  <1>1. ContentsIs /\ ContentsIs' /\ BelowIs
    BY WhereWordsAre, WhereWordsWillBe
  <1>2. Looks(r, lk)
    BY DEF Passing, Reading, Waiting, Writing
  <1>3. PICK b, c : b = Below(a) /\ c = Below(a)'
    OBVIOUS
  <1>4. c = (IF lk = "store_hit" /\ a = r.addr THEN With(b, r.bytes) ELSE b) /\ b \in Cell
    BY <1>1, <1>3, BelowLooks DEF BelowIs
  <1>5. /\ \A i \in 1 .. Len(mshr) : mshr[i].line = line(a) => Contents[a] = With(b, mshr[i].bytes[a[3]])
        /\ Missing(a) => Contents[a] = b
    BY <1>1, <1>3 DEF ContentsIs
  <1>6. /\ \A i \in 1 .. Len(mshr') : mshr'[i].line = line(a) => Contents'[a] = With(c, mshr'[i].bytes[a[3]])
        /\ (\A i \in 1 .. Len(mshr') : mshr'[i].line # line(a)) => Contents'[a] = c
    BY <1>1, <1>3 DEF ContentsIs, Missing
  <1>7. Kept(r, lk) /\ Taken(r, lk)
    BY <1>2, MshrStep
  <1>8. Len(mshr) \in Nat /\ \A i \in 1 .. Len(mshr) : mshr[i].bytes \in [Offset -> Bytes]
    BY EntryFacts DEF CacheInv
  <1>9. lk \in {"store_hit", "store_merge", "store_alloc", "load_alloc"} =>
          /\ r \in MP!Request /\ cacheable(r) /\ r.bytes \in Bytes
          /\ a = r.addr <=> line(a) = line(r.addr) /\ a[3] = r.addr[3]
    <2>1. ASSUME lk \in {"store_hit", "store_merge", "store_alloc", "load_alloc"}
          PROVE  r \in MP!Request /\ cacheable(r)
      BY <2>1, Lookups
    <2> QED BY <2>1, RequestFacts, WordParts DEF line
  <1>10. CASE lk \in Alloc
    <2>1. lk \in {"store_alloc", "load_alloc"} /\ lk # "store_merge" /\ lk # "store_hit"
      BY <1>10 DEF Alloc
    <2>2. /\ Len(mshr') = Len(mshr) + 1 /\ mshr'[Len(mshr')].line = line(r.addr)
          /\ \A o \in Offset : mshr'[Len(mshr')].bytes[o] = IF o = r.addr[3] THEN Over(<< >>, r.bytes) ELSE << >>
          /\ \A i \in 1 .. Len(mshr) : mshr'[i] = mshr[i]
      BY <1>7, <1>10, <2>1 DEF Kept, Taken
    <2>3. c = b
      BY <1>4, <2>1
    <2>4. CASE line(a) # line(r.addr)
      <3>1. Contents'[a] = Contents[a]
        <4>1. CASE Missing(a)
          <5>1. \A i \in 1 .. Len(mshr') : mshr'[i].line # line(a)
            <6> SUFFICES ASSUME NEW i \in 1 .. Len(mshr') PROVE mshr'[i].line # line(a)
              OBVIOUS
            <6>1. i \in 1 .. Len(mshr) \/ i = Len(mshr')
              BY <1>8, <2>2
            <6> QED BY <2>2, <2>4, <4>1, <6>1 DEF Missing
          <5> QED BY <1>5, <1>6, <2>3, <4>1, <5>1
        <4>2. CASE ~Missing(a)
          <5>1. PICK i \in 1 .. Len(mshr) : mshr[i].line = line(a)
            BY <4>2 DEF Missing
          <5>2. i \in 1 .. Len(mshr') /\ mshr'[i] = mshr[i]
            BY <1>8, <2>2
          <5> QED BY <1>5, <1>6, <2>3, <5>1, <5>2
        <4> QED BY <4>1, <4>2
      <3>2. a # r.addr
        BY <2>4
      <3> QED BY <3>1, <3>2
    <2>5. CASE line(a) = line(r.addr)
      <3>1. Missing(a)
        <4>1. Missed(r) /\ DOMAIN mshr = 1 .. Len(mshr)
          BY <1>10, Lookups, EntryFacts DEF CacheInv
        <4> QED BY <2>5, <4>1 DEF Missed, Missing
      <3>2. Contents[a] = b
        BY <1>5, <3>1
      <3>3. Contents'[a] = With(b, IF a[3] = r.addr[3] THEN Over(<< >>, r.bytes) ELSE << >>)
        <4>1. Len(mshr') \in 1 .. Len(mshr') /\ a[3] \in Offset
          BY <1>8, <2>2, WordParts
        <4> QED BY <1>6, <2>2, <2>3, <2>5, <4>1
      <3>4. With(b, << >>) = b
        BY <1>4, NoBytesTyped, MergeFacts
      <3>5. With(b, Over(<< >>, r.bytes)) = With(b, r.bytes)
        <4>1. With(With(b, << >>), r.bytes) = With(b, Over(<< >>, r.bytes))
          BY <1>9, <2>1, NoBytesTyped, MergeFacts
        <4> QED BY <3>4, <4>1
      <3>6. CASE lk = "store_alloc"
        BY <1>9, <2>5, <3>2, <3>3, <3>4, <3>5, <3>6 DEF ServedStore
      <3>7. CASE lk = "load_alloc"
        <4>1. DOMAIN r.bytes = {} /\ lk \notin ServedStore
          BY <3>7, Lookups DEF we, MP!we, ServedStore
        <4>2. With(b, r.bytes) = b
          BY <1>4, <4>1, MergeFacts
        <4> QED BY <3>2, <3>3, <3>4, <3>5, <4>1, <4>2
      <3> QED BY <2>1, <3>6, <3>7
    <2> QED BY <2>4, <2>5
  <1>11. CASE lk \notin Alloc
    <2>1. Len(mshr') = Len(mshr) /\ \A i \in 1 .. Len(mshr) : mshr'[i].line = mshr[i].line
      BY <1>7, <1>11 DEF Kept, Taken
    <2>2. CASE Missing(a)
      <3>1. Contents[a] = b /\ Contents'[a] = c
        BY <1>5, <1>6, <2>1, <2>2 DEF Missing
      <3>2. lk \in ServedStore /\ a = r.addr => lk = "store_hit"
        <4>1. lk = "store_merge" => a # r.addr
          <5>1. lk = "store_merge" => match_index(r) \in 1 .. Len(mshr) /\ mshr[match_index(r)].line = line(r.addr)
            BY Lookups, EntryFacts DEF Matched, CacheInv
          <5> QED BY <2>2, <5>1 DEF Missing
        <4> QED BY <1>11, <4>1 DEF ServedStore, Alloc
      <3>3. "store_hit" \in ServedStore
        BY DEF ServedStore
      <3> QED BY <1>4, <3>1, <3>2, <3>3
    <2>3. CASE ~Missing(a)
      <3>1. PICK i \in 1 .. Len(mshr) : mshr[i].line = line(a)
        BY <2>3 DEF Missing
      <3>2. Contents[a] = With(b, mshr[i].bytes[a[3]]) /\ Contents'[a] = With(c, mshr'[i].bytes[a[3]])
        BY <1>5, <1>6, <2>1, <3>1
      <3>3. ~(lk = "store_hit" /\ a = r.addr)
        <4>1. lk = "store_hit" => <<hit_way(r), r.addr[2]>> \in valid /\ tag_mem[<<hit_way(r), r.addr[2]>>] = r.addr[1]
          BY <1>2, LooksFacts DEF Hit
        <4>2. DOMAIN mshr = 1 .. Len(mshr) /\ \A x \in valid : mshr[i].line # <<tag_mem[x], x[2]>>
          BY EntryFacts DEF CacheInv, OneCopy
        <4> QED BY <3>1, <4>1, <4>2 DEF line
      <3>4. c = b
        BY <1>4, <3>3
      <3>5. CASE lk = "store_merge"
        <4>1. /\ match_index(r) \in 1 .. Len(mshr) /\ mshr[match_index(r)].line = line(r.addr)
              /\ DOMAIN mshr = 1 .. Len(mshr)
          BY <3>5, Lookups, EntryFacts DEF Matched, CacheInv
        <4>2. i = match_index(r) <=> line(a) = line(r.addr)
          BY <3>1, <4>1 DEF CacheInv, OneCopy
        <4>3. a[3] \in Offset
          BY WordParts
        <4>4. mshr'[i].bytes[a[3]] = IF a = r.addr THEN Over(mshr[i].bytes[a[3]], r.bytes) ELSE mshr[i].bytes[a[3]]
          BY <1>7, <1>9, <3>5, <4>2, <4>3 DEF Kept
        <4>5. With(With(b, mshr[i].bytes[a[3]]), r.bytes) = With(b, Over(mshr[i].bytes[a[3]], r.bytes))
          <5>1. mshr[i].bytes[a[3]] \in Bytes
            BY <1>8, <4>3
          <5> QED BY <1>9, <3>5, <5>1, MergeFacts
        <4>6. lk \in ServedStore
          BY <3>5 DEF ServedStore
        <4> QED BY <3>2, <3>4, <4>4, <4>5, <4>6
      <3>6. CASE lk # "store_merge"
        <4>1. mshr'[i].bytes[a[3]] = mshr[i].bytes[a[3]]
          BY <1>7, <3>6 DEF Kept
        <4>2. ~(lk \in ServedStore /\ a = r.addr)
          BY <1>11, <3>3, <3>6 DEF ServedStore, Alloc
        <4> QED BY <3>2, <3>4, <4>1, <4>2
      <3> QED BY <3>5, <3>6
    <2> QED BY <2>2, <2>3
  <1> QED BY <1>10, <1>11

\* Choosing the victim takes a line from its way: on its way out if it was written, else it is in memory.
LEMMA ContentsChoosing ==
  ASSUME CacheInv, CacheInv', Choosing, NEW a \in Cached
  PROVE  Contents'[a] = Contents[a]
  <1>1. ContentsIs /\ ContentsIs' /\ BelowIs /\ BelowIs'
    BY WhereWordsAre, WhereWordsWillBe
  <1>2. PICK x : x = <<victim, eng.set>>
    OBVIOUS
  <1>3. /\ eng.state = "VICTIM" /\ tag_mem' = tag_mem /\ mem' = mem /\ data_mem' = data_mem /\ mshr' = mshr
        /\ valid' = IF eng.clean THEN valid ELSE valid \ {x}
    BY <1>2 DEF Choosing, ChooseVictim
  <1>4. /\ victim \in Way /\ x[2] = eng.set /\ x[1] = victim
        /\ eng'.way = victim /\ eng'.set = eng.set /\ eng'.clean = eng.clean /\ eng'.word = 0 /\ eng'.tag = tag_mem[x]
        /\ eng'.state = IF x \in dirty THEN "EVICT_READ" ELSE IF eng.clean THEN "SCAN" ELSE "FILL"
    BY <1>2, ChosenFacts
  <1>5. x \in dirty => x \in valid
    BY DEF CacheInv, Typed
  <1>6. /\ a = <<a[1], a[2], a[3]>> /\ a[1] \in Tag /\ a[2] \in Set /\ a[3] \in Offset /\ line(a) = <<a[1], a[2]>>
    BY WordParts DEF line
  <1>7. ~Leaving(a) /\ Unheld(a) = mem[a]
    BY <1>3 DEF Leaving, Unheld
  <1>8. Leaving(a)' <=> x \in dirty /\ ~eng.clean /\ tag_mem[x] = a[1] /\ eng.set = a[2]
    BY <1>4, <1>6 DEF Leaving
  <1>9. Below(a)' = Below(a)
    <2>1. CASE \A w \in Way : ~Held(a, w)
      <3>1. \A w \in Way : ~Held(a, w)'
        BY <1>3, <2>1 DEF Held
      <3>2. ~Leaving(a)'
        <4>1. Leaving(a)' => Held(a, victim)
          BY <1>2, <1>5, <1>8 DEF Held
        <4> QED BY <1>4, <2>1, <4>1
      <3>3. Unheld(a)' = mem[a]
        BY <1>3, <3>2 DEF Unheld
      <3>4. Below(a) = Unheld(a) /\ Below(a)' = Unheld(a)'
        BY <1>1, <2>1, <3>1 DEF BelowIs
      <3> QED BY <1>7, <3>3, <3>4
    <2>2. CASE \E w \in Way : Held(a, w) /\ (<<w, a[2]>> # x \/ eng.clean)
      <3>1. PICK w \in Way : Held(a, w) /\ (<<w, a[2]>> # x \/ eng.clean)
        BY <2>2
      <3>2. Held(a, w)'
        BY <1>3, <3>1 DEF Held
      <3>3. Below(a) = data_mem[<<w, a[2], a[3]>>] /\ Below(a)' = data_mem'[<<w, a[2], a[3]>>]
        BY <1>1, <3>1, <3>2 DEF BelowIs
      <3> QED BY <1>3, <3>3
    <2>3. CASE Held(a, victim) /\ <<victim, a[2]>> = x /\ ~eng.clean
      <3>1. x \in valid /\ tag_mem[x] = a[1] /\ eng.set = a[2] /\ x \notin valid'
        BY <1>2, <1>3, <2>3 DEF Held
      <3>2. \A w \in Way : ~Held(a, w)'
        <4> SUFFICES ASSUME NEW w \in Way, Held(a, w)' PROVE FALSE
          OBVIOUS
        <4>1. <<w, a[2]>> \in valid /\ tag_mem[<<w, a[2]>>] = a[1] /\ <<w, a[2]>> # x
          BY <1>3, <3>1 DEF Held
        <4> QED BY <1>2, <3>1, <4>1 DEF CacheInv, OneCopy
      <3>3. Below(a) = data_mem[<<victim, a[2], a[3]>>] /\ Below(a)' = Unheld(a)'
        BY <1>1, <1>4, <2>3, <3>2 DEF BelowIs
      <3>4. CASE x \in dirty
        BY <1>3, <1>4, <1>8, <2>3, <3>1, <3>3, <3>4 DEF Unheld
      <3>5. CASE x \notin dirty
        <4>1. Unheld(a)' = mem[a]
          BY <1>3, <1>8, <3>5 DEF Unheld
        <4>2. data_mem[<<x[1], x[2], a[3]>>] = mem[<<tag_mem[x], x[2], a[3]>>]
          BY <1>3, <1>6, <3>1, <3>5 DEF CacheInv, CleanLines, Evicting
        <4> QED BY <1>4, <1>6, <3>1, <3>3, <4>1, <4>2
      <3> QED BY <3>4, <3>5
    <2>4. ASSUME NEW w \in Way, Held(a, w), <<w, a[2]>> = x PROVE w = victim
      BY <1>2, <2>4
    <2> QED BY <2>1, <2>2, <2>3, <2>4
  <1>10. PICK b : b = Below(a) /\ b = Below(a)'
    BY <1>9
  <1>11. CASE Missing(a)
    <2>1. Missing(a)'
      BY <1>3, <1>11 DEF Missing
    <2> QED BY <1>1, <1>10, <1>11, <2>1 DEF ContentsIs
  <1>12. CASE ~Missing(a)
    <2>1. PICK i \in 1 .. Len(mshr) : mshr[i].line = line(a)
      BY <1>12 DEF Missing
    <2>2. Contents[a] = With(b, mshr[i].bytes[a[3]])
      BY <1>1, <1>10, <2>1 DEF ContentsIs
    <2>3. Contents'[a] = With(b, mshr[i].bytes[a[3]])
      BY <1>1, <1>3, <1>10, <2>1 DEF ContentsIs
    <2> QED BY <2>2, <2>3
  <1> QED BY <1>11, <1>12

\* A fill brings the line in with the bytes its MSHR kept.
LEMMA ContentsFilling ==
  ASSUME CacheInv, CacheInv', Filling, NEW a \in Cached
  PROVE  Contents'[a] = Contents[a]
  <1>1. ContentsIs /\ ContentsIs' /\ BelowIs /\ BelowIs'
    BY WhereWordsAre, WhereWordsWillBe
  <1>2. /\ eng.state = "FILL" /\ mem' = mem /\ Slot \notin valid /\ Slot \in Way \X Set /\ Slot = <<eng.way, eng.set>>
        /\ mshr # << >> /\ 1 \in 1 .. Len(mshr) /\ mshr[1].line = <<mshr[1].line[1], eng.set>>
        /\ eng.word \in Offset
    BY LineIn DEF Filling, Slot
  <1>3. /\ a = <<a[1], a[2], a[3]>> /\ a[1] \in Tag /\ a[2] \in Set /\ a[3] \in Offset /\ line(a) = <<a[1], a[2]>>
    BY WordParts DEF line
  <1>4. ~Leaving(a) /\ Unheld(a) = mem[a]
    BY <1>2 DEF Leaving, Unheld
  <1>5. eng'.state \notin {"EVICT_READ", "EVICT_WRITE"}
    BY TransferStep DEF AtRest
  <1>6. Unheld(a)' = mem[a]
    BY <1>2, <1>5 DEF Leaving, Unheld
  <1>7. Len(mshr) \in Nat /\ DOMAIN mshr = 1 .. Len(mshr)
    BY EntryFacts DEF CacheInv
  <1>8. ASSUME NEW w \in Way, Held(a, w), Held(a, w)' PROVE Below(a)' = Below(a)
    <2>1. <<w, a[2]>> # Slot
      BY <1>2, <1>8 DEF Held
    <2>2. data_mem'[<<w, a[2], a[3]>>] = data_mem[<<w, a[2], a[3]>>]
      BY <1>2, <1>3, <2>1, FillFacts
    <2>3. Below(a) = data_mem[<<w, a[2], a[3]>>] /\ Below(a)' = data_mem'[<<w, a[2], a[3]>>]
      BY <1>1, <1>8 DEF BelowIs
    <2> QED BY <2>2, <2>3
  <1>9. ASSUME \A w \in Way : ~Held(a, w), \A w \in Way : ~Held(a, w)' PROVE Below(a)' = Below(a)
    <2>1. Below(a) = Unheld(a) /\ Below(a)' = Unheld(a)'
      BY <1>1, <1>9 DEF BelowIs
    <2> QED BY <1>4, <1>6, <2>1
  <1>10. CASE eng.word # NumWords - 1
    <2>1. valid' = valid /\ tag_mem' = tag_mem /\ mshr' = mshr
      BY <1>10 DEF Filling
    <2>2. \A w \in Way : Held(a, w)' <=> Held(a, w)
      BY <2>1 DEF Held
    <2>3. PICK b : b = Below(a) /\ b = Below(a)'
      BY <1>8, <1>9, <2>2
    <2>4. CASE Missing(a)
      <3>1. Missing(a)'
        BY <2>1, <2>4 DEF Missing
      <3> QED BY <1>1, <2>3, <2>4, <3>1 DEF ContentsIs
    <2>5. CASE ~Missing(a)
      <3>1. PICK i \in 1 .. Len(mshr) : mshr[i].line = line(a)
        BY <2>5 DEF Missing
      <3>2. Contents[a] = With(b, mshr[i].bytes[a[3]])
        BY <1>1, <2>3, <3>1 DEF ContentsIs
      <3>3. Contents'[a] = With(b, mshr[i].bytes[a[3]])
        BY <1>1, <2>1, <2>3, <3>1 DEF ContentsIs
      <3> QED BY <3>2, <3>3
    <2> QED BY <2>4, <2>5
  <1>11. CASE eng.word = NumWords - 1
    <2>1. valid' = valid \cup {Slot} /\ mshr' = Tail(mshr)
      BY <1>2, <1>11, Geometry DEF Filling, Offset
    <2>2. Len(mshr') = Len(mshr) - 1 /\ \A i \in 1 .. Len(mshr') : mshr'[i] = mshr[i + 1]
      BY <1>2, <2>1, Retired DEF CacheInv
    <2>3. /\ tag_mem'[Slot] = mshr[1].line[1] /\ \A x \in Way \X Set : x # Slot => tag_mem'[x] = tag_mem[x]
      BY <1>2, <1>11, FillFacts
    <2>4. \A w \in Way : Held(a, w)' <=> Held(a, w) \/ (<<w, a[2]>> = Slot /\ mshr[1].line = line(a))
      <3> SUFFICES ASSUME NEW w \in Way
                   PROVE  Held(a, w)' <=> Held(a, w) \/ (<<w, a[2]>> = Slot /\ mshr[1].line = line(a))
        OBVIOUS
      <3>1. CASE <<w, a[2]>> = Slot
        <4>1. a[2] = eng.set
          BY <1>2, <3>1
        <4>2. ~Held(a, w) /\ (Held(a, w)' <=> mshr[1].line[1] = a[1])
          BY <1>2, <2>1, <2>3, <3>1 DEF Held
        <4> QED BY <1>2, <1>3, <3>1, <4>1, <4>2
      <3>2. CASE <<w, a[2]>> # Slot
        BY <1>3, <2>1, <2>3, <3>2 DEF Held
      <3> QED BY <3>1, <3>2
    <2>5. CASE mshr[1].line = line(a)
      <3>1. \A w \in Way : ~Held(a, w)
        <4> SUFFICES ASSUME NEW w \in Way, Held(a, w) PROVE FALSE
          OBVIOUS
        <4>1. PICK x \in valid : x = <<w, a[2]>> /\ tag_mem[x] = a[1]
          BY DEF Held
        <4> QED BY <1>2, <1>3, <1>7, <2>5, <4>1 DEF CacheInv, OneCopy
      <3>2. Contents[a] = With(mem[a], mshr[1].bytes[a[3]])
        <4>1. Below(a) = mem[a]
          BY <1>1, <1>4, <3>1 DEF BelowIs
        <4>2. \A i \in 1 .. Len(mshr) : mshr[i].line = line(a) => Contents[a] = With(Below(a), mshr[i].bytes[a[3]])
          BY <1>1 DEF ContentsIs
        <4>3. Contents[a] = With(Below(a), mshr[1].bytes[a[3]])
          BY <1>2, <2>5, <4>2
        <4> QED BY <4>1, <4>3
      <3>3. Missing(a)'
        <4> SUFFICES ASSUME NEW i \in 1 .. Len(mshr') PROVE mshr'[i].line # line(a)
          BY DEF Missing, line
        <4>1. i + 1 \in 1 .. Len(mshr) /\ i + 1 # 1 /\ mshr'[i] = mshr[i + 1]
          BY <1>7, <2>2
        <4> QED BY <1>2, <1>7, <2>5, <4>1 DEF CacheInv, OneCopy
      <3>4. PICK w \in Way : w = eng.way /\ a[2] = eng.set /\ Held(a, w)'
        <4>1. a[2] = eng.set
          BY <1>2, <1>3, <2>5
        <4>2. eng.way \in Way /\ <<eng.way, a[2]>> = Slot
          BY <1>2, <4>1
        <4>3. PICK w \in Way : w = eng.way
          BY <4>2
        <4> QED BY <2>4, <2>5, <4>1, <4>2, <4>3
      <3>5. Contents'[a] = data_mem'[<<eng.way, eng.set, a[3]>>]
        <4>1. Below(a)' = data_mem'[<<w, a[2], a[3]>>]
          BY <1>1, <3>4 DEF BelowIs
        <4>2. Contents'[a] = Below(a)'
          BY <1>1, <3>3 DEF ContentsIs
        <4> QED BY <3>4, <4>1, <4>2
      <3>6. mshr[1].line[1] = a[1] /\ mshr[1].line[2] = a[2]
        BY <1>3, <2>5
      <3>7. data_mem'[<<eng.way, eng.set, a[3]>>] = With(mem[a], mshr[1].bytes[a[3]])
        <4>1. CASE a[3] = eng.word
          <5>1. Word1 = a
            BY <1>3, <3>6, <4>1 DEF Word1
          <5>2. <<eng.way, eng.set, a[3]>> \in Way \X Set \X Offset
            BY <1>3, <3>4
          <5> QED BY <4>1, <5>1, <5>2, FillFacts
        <4>2. CASE a[3] # eng.word
          <5>1. a[3] < eng.word
            BY <1>3, <1>11, <4>2, Geometry DEF Offset
          <5>2. data_mem[<<eng.way, eng.set, a[3]>>] = With(mem[<<mshr[1].line[1], mshr[1].line[2], a[3]>>], mshr[1].bytes[a[3]])
            BY <1>2, <1>3, <5>1, MergeFacts DEF CacheInv, FilledSoFar
          <5>3. <<eng.way, eng.set, a[3]>> \in Way \X Set \X Offset
            BY <1>3, <3>4
          <5>4. <<mshr[1].line[1], mshr[1].line[2], a[3]>> = a
            BY <1>3, <3>6
          <5> QED BY <4>2, <5>2, <5>3, <5>4, FillFacts
        <4> QED BY <4>1, <4>2
      <3> QED BY <3>2, <3>5, <3>7
    <2>6. CASE mshr[1].line # line(a)
      <3>1. \A w \in Way : Held(a, w)' <=> Held(a, w)
        BY <2>4, <2>6
      <3>2. PICK b : b = Below(a) /\ b = Below(a)'
        BY <1>8, <1>9, <3>1
      <3>3. CASE Missing(a)
        <4>1. Missing(a)'
          <5> SUFFICES ASSUME NEW i \in 1 .. Len(mshr') PROVE mshr'[i].line # line(a)
            BY DEF Missing, line
          <5>1. i + 1 \in 1 .. Len(mshr) /\ mshr'[i] = mshr[i + 1]
            BY <1>7, <2>2
          <5> QED BY <3>3, <5>1 DEF Missing
        <4> QED BY <1>1, <3>2, <3>3, <4>1 DEF ContentsIs
      <3>4. CASE ~Missing(a)
        <4>1. PICK i \in 1 .. Len(mshr) : mshr[i].line = line(a)
          BY <3>4 DEF Missing
        <4>2. i # 1 /\ i - 1 \in 1 .. Len(mshr') /\ mshr'[i - 1] = mshr[i]
          <5>1. i # 1
            BY <2>6, <4>1
          <5>2. i - 1 \in 1 .. Len(mshr') /\ (i - 1) + 1 = i
            BY <1>7, <2>2, <5>1
          <5> QED BY <2>2, <5>1, <5>2
        <4>3. Contents[a] = With(b, mshr[i].bytes[a[3]])
          BY <1>1, <3>2, <4>1 DEF ContentsIs
        <4>4. Contents'[a] = With(b, mshr'[i - 1].bytes[a[3]])
          BY <1>1, <3>2, <4>1, <4>2 DEF ContentsIs
        <4> QED BY <4>2, <4>3, <4>4
      <3> QED BY <3>3, <3>4
    <2> QED BY <2>5, <2>6
  <1> QED BY <1>10, <1>11

-----------------------------------------------------------------------------
(* The cache is a memory.                                                  *)

\* The engine waits for a device exactly while the port owes it the answer.
LEMMA BypassStep ==
  ASSUME CacheInv, NEW r \in MP!Request \cup {None}, NEW m \in Port, NEW clean_req, NEW lk,
         Engine(r, m, lk, clean_req)
  PROVE  eng'.state = "BYPASS" <=> \/ bypass_go(r) /\ m = "accept"
                                   \/ eng.state = "BYPASS" /\ ~mem_rvalid(m)
  <1>1. eng \in Transfer
    BY DEF CacheInv, Typed
  <1>2. CASE StartBypass(r, m, lk)
    BY <1>2 DEF StartBypass, bypass_go, AtRest
  <1>3. CASE EndBypass(r, m, lk)
    BY <1>3 DEF EndBypass, bypass_go, AtRest
  <1>4. CASE StartFill(r, lk) \/ Scan(r, lk, clean_req) \/ ReadTag(r, lk)
    <2>1. eng.state \in {"IDLE", "SCAN", "TAG"} /\ ~bypass_go(r)
      BY <1>4 DEF StartFill, Scan, ReadTag, bypass_go
    <2>2. eng'.state # "BYPASS"
      BY <1>1, <1>4, <2>1 DEF StartFill, Scan, ReadTag, Transfer
    <2> QED BY <2>1, <2>2
  <1>5. CASE StartScan(r, lk, clean_req) \/ Rest(r, lk, clean_req) \/ EndScan(r, lk, clean_req)
    BY <1>5 DEF StartScan, Rest, EndScan, AtRest, bypass_go
  <1>6. CASE ChooseVictim \/ EvictRead(r, lk)
    <2>1. eng.state \in {"VICTIM", "EVICT_READ"} /\ ~bypass_go(r)
      BY <1>6 DEF ChooseVictim, EvictRead, bypass_go
    <2>2. eng'.state # "BYPASS"
      BY <1>1, <1>6, <2>1 DEF ChooseVictim, EvictRead, Transfer
    <2> QED BY <2>1, <2>2
  <1>7. CASE EvictWrite(r, m, lk)
    <2>1. eng.state = "EVICT_WRITE" /\ ~bypass_go(r)
      BY <1>7 DEF EvictWrite, bypass_go
    <2> DEFINE B == [o \in Offset |-> Junk]
    <2>2. \/ eng' = eng
          \/ eng' = [eng EXCEPT !.word = @ + 1]
          \/ eng' = AtRest("SCAN")
          \/ eng' = [eng EXCEPT !.state = "FILL", !.word = 0, !.tag = None, !.buf = B]
      BY <1>7 DEF EvictWrite
    <2> HIDE DEF B
    <2>3. eng'.state # "BYPASS"
      <3>1. CASE eng' = AtRest("SCAN")
        BY <3>1 DEF AtRest
      <3>2. CASE eng' = [eng EXCEPT !.state = "FILL", !.word = 0, !.tag = None, !.buf = B]
        BY <1>1, <3>2 DEF Transfer
      <3>3. CASE eng' = eng \/ eng' = [eng EXCEPT !.word = @ + 1]
        BY <1>1, <2>1, <3>3 DEF Transfer
      <3> QED BY <2>2, <3>1, <3>2, <3>3
    <2> QED BY <2>1, <2>3
  <1>8. CASE Fill(r, m, lk)
    <2>1. eng.state = "FILL" /\ ~bypass_go(r) /\ (eng' = eng \/ eng' = [eng EXCEPT !.word = @ + 1])
      BY <1>8 DEF Fill, bypass_go
    <2>2. eng'.state # "BYPASS"
      BY <1>1, <2>1 DEF Transfer
    <2> QED BY <2>1, <2>2
  <1>9. CASE FillLast(m)
    BY <1>9 DEF FillLast, fill_last, fill_write, bypass_go, AtRest
  <1> QED BY <1>2, <1>3, <1>4, <1>5, <1>6, <1>7, <1>8, <1>9 DEF Engine

Bypassing(r) == eng.state = "BYPASS" \/ bypass_go(r)

\* A device access goes to memory, which a transfer leaves alone.
LEMMA DeviceStep ==
  ASSUME CacheInv, NEW r \in MP!Request \cup {None}, NEW m \in Port, Memory(r, m), NEW a \in Device
  PROVE  mem'[a] = IF Bypassing(r) /\ mem_rvalid(m) /\ a = Performed(r).addr THEN With(mem[a], Performed(r).bytes)
                   ELSE mem[a]
  <1>1. mem \in [Word -> Cell] /\ a \in Word
    BY DEF CacheInv, Typed, Word
  <1>2. CASE Bypassing(r)
    <2>1. mem' = IF mem_rvalid(m) THEN MP!Apply(mem, Performed(r)) ELSE mem
      BY <1>2, MemoryStep DEF Bypassing
    <2>2. PICK p : p = Performed(r)
      OBVIOUS
    <2>3. PICK d : d = With(mem[p.addr], p.bytes)
      OBVIOUS
    <2>4. MP!Apply(mem, p) = [mem EXCEPT ![p.addr] = d]
      BY <2>3, MergeFacts DEF MP!Apply
    <2>5. MP!Apply(mem, p)[a] = IF a = p.addr THEN d ELSE mem[a]
      BY <1>1, <2>4
    <2> QED BY <1>2, <2>1, <2>2, <2>3, <2>5
  <1>3. CASE ~Bypassing(r)
    <2>1. CASE eng.state = "EVICT_WRITE"
      <3>1. mem' = IF mem_rvalid(m) THEN [mem EXCEPT ![<<eng.tag, eng.set, eng.word>>] = eng.buf[eng.word]] ELSE mem
        BY <2>1, MemoryStep
      <3>2. <<eng.tag, eng.set, eng.word>> # a
        <4>1. eng.word \in Offset /\ eng.tag \in Tag /\ eng.set \in Set
          BY <2>1, Geometry DEF CacheInv, EngineOwns, Evicting, Typed, Transfer, Offset
        <4>2. <<eng.tag, eng.set, eng.word>> \in Cached
          BY <4>1 DEF Cached
        <4> QED BY <4>2, GeometryAssumption
      <3>3. PICK h, d : h = <<eng.tag, eng.set, eng.word>> /\ d = eng.buf[eng.word]
        OBVIOUS
      <3>4. [mem EXCEPT ![h] = d][a] = mem[a]
        BY <1>1, <3>2, <3>3
      <3> QED BY <1>3, <3>1, <3>3, <3>4
    <2>2. CASE eng.state # "EVICT_WRITE"
      <3>1. mem' = mem
        BY <1>3, <2>2, MemoryStep DEF Bypassing
      <3> QED BY <1>3, <3>1
    <2> QED BY <2>1, <2>2
  <1> QED BY <1>2, <1>3

\* Every cycle changes the current values as its one served request says, and not otherwise.
LEMMA ContentsStep ==
  ASSUME CacheInv, CacheInv', NEW r, NEW na, NEW m, NEW clean_req, Input(r, na, m, clean_req),
         Cycle(r, na, m, clean_req), NEW lk, lk = Outcome(r, m), NEW a \in Word
  PROVE  Contents'[a] =
           IF lk \in ServedStore /\ a = r.addr THEN With(Contents[a], r.bytes)
           ELSE IF Bypassing(r) /\ mem_rvalid(m) /\ a = Performed(r).addr THEN With(Contents[a], Performed(r).bytes)
           ELSE Contents[a]
  <1>1. r \in MP!Request \cup {None} /\ na \in Index /\ m \in Port /\ Memory(r, m)
    BY DEF Input, Cycle
  <1>2. lk \in ServedStore => r.addr \in Cached /\ r.addr \notin Device
    <2>1. ASSUME lk \in ServedStore PROVE r \in MP!Request /\ cacheable(r)
      BY <1>1, <2>1, Lookups DEF ServedStore
    <2> QED BY <2>1, RequestFacts, WordParts
  <1>3. CASE a \in Device
    <2>1. Contents'[a] = mem'[a] /\ Contents[a] = mem[a]
      BY <1>3, WhereWordsAre, WhereWordsWillBe DEF ContentsIs
    <2> QED BY <1>1, <1>2, <1>3, <2>1, DeviceStep
  <1>4. CASE a \in Cached
    <2>1. Bypassing(r) => a # Performed(r).addr
      BY <1>1, <1>4, MemoryStep, WordParts DEF Bypassing
    <2>2. CASE Passing(r, lk) \/ Reading(r, lk) \/ Waiting(r, lk) \/ Writing(r, lk)
      BY <1>1, <1>4, <2>1, <2>2, ContentsLooks
    <2>3. CASE lk = "none" /\ (Choosing \/ Filling)
      BY <1>4, <2>1, <2>3, ContentsChoosing, ContentsFilling DEF ServedStore
    <2> QED BY <1>1, <2>2, <2>3, StepKinds
  <1> QED BY <1>3, <1>4 DEF Word

\* Written as MemPort writes it.
LEMMA ContentsApply ==
  ASSUME CacheInv, CacheInv', NEW p,
         \A a \in Word : Contents'[a] = IF a = p.addr THEN With(Contents[a], p.bytes) ELSE Contents[a]
  PROVE  Contents' = MP!Apply(Contents, p)
  <1>1. /\ Contents = [a \in Word |-> Contents[a]] /\ Contents' = [a \in Word |-> Contents'[a]]
    BY WhereWordsAre, WhereWordsWillBe DEF ContentsIs
  <1>2. PICK d : d = With(Contents[p.addr], p.bytes)
    OBVIOUS
  <1>3. MP!Apply(Contents, p) = [Contents EXCEPT ![p.addr] = d]
    BY <1>2, MergeFacts DEF MP!Apply
  <1>4. PICK c, e : c = Contents /\ e = Contents'
    OBVIOUS
  <1>5. c = [a \in Word |-> c[a]] /\ e = [a \in Word |-> e[a]]
    BY <1>1, <1>4
  <1>6. \A a \in Word : e[a] = IF a = p.addr THEN d ELSE c[a]
    BY <1>2, <1>4
  <1>7. e = [c EXCEPT ![p.addr] = d]
    BY <1>5, <1>6
  <1> QED BY <1>3, <1>4, <1>7

\* Contents is the function its values say.
LEMMA ContentsSame ==
  ASSUME CacheInv, CacheInv', \A a \in Word : Contents'[a] = Contents[a]
  PROVE  Contents' = Contents
  <1>1. /\ Contents = [a \in Word |-> Contents[a]] /\ Contents' = [a \in Word |-> Contents'[a]]
    BY WhereWordsAre, WhereWordsWillBe DEF ContentsIs
  <1> QED BY <1>1

\* After reset the contents are those of memory, and nothing is owed.
LEMMA PortInit == Init => Coherent!Init
  <1> SUFFICES ASSUME Init PROVE Coherent!Init
    OBVIOUS
  <1>1. CacheInv /\ clean
    BY CacheInit DEF Init, clean, AtRest
  <1>2. mem = Contents
    BY <1>1, WrittenBack DEF CleanMeansWrittenBack
  <1>3. mem \in [Word -> [Lane -> Byte]]
    BY GeometryAssumption DEF Init
  <1>4. eng.state # "BYPASS" /\ resp = None
    BY DEF Init, AtRest
  <1> QED BY <1>2, <1>3, <1>4 DEF Coherent!Init, Coherent!Data

\* The response, read off the values.
LEMMA Responds ==
  ASSUME CacheInv, NEW r, NEW na, NEW m, NEW clean_req, Input(r, na, m, clean_req), Cycle(r, na, m, clean_req),
         NEW lk, lk = Outcome(r, m)
  PROVE  /\ lk \in ServedStore => resp' = MP!Answered(Contents, r)
         /\ lk = "load_hit" => resp' = MP!Answered(Contents, r)
         /\ lk \notin ServedStore /\ lk # "load_hit" =>
              resp' = IF Bypassing(r) /\ mem_rvalid(m) THEN MP!Answered(Contents, Performed(r)) ELSE None
  <1>1. r \in MP!Request \cup {None} /\ m \in Port /\ Respond(r, m, lk) /\ Memory(r, m)
    BY DEF Input, Cycle
  <1>2. BelowIs /\ ContentsIs
    BY WhereWordsAre
  <1>3. "load_hit" \notin ServedStore
    BY DEF ServedStore
  <1>4. lk \in ServedStore \/ lk = "load_hit" => ~Bypassing(r)
    <2>1. ASSUME lk \in ServedStore \/ lk = "load_hit" PROVE cacheable(r) /\ ~lookup_block(m)
      BY <1>1, <2>1, Lookups DEF ServedStore
    <2> QED BY <2>1 DEF Bypassing, bypass_go, lookup_block
  <1>5. CASE lk \in ServedStore
    <2>1. we(r)
      BY <1>1, <1>5, Lookups
    <2>2. resp' = [req |-> r, data |-> None]
      BY <1>1, <1>3, <1>4, <1>5, Zenon DEF Respond, Bypassing
    <2> QED BY <1>3, <1>5, <2>1, <2>2 DEF MP!Answered, we
  <1>6. CASE lk = "load_hit"
    <2>1. ~we(r) /\ r \in MP!Request /\ cacheable(r) /\ Hit(r, hit_way(r))
      BY <1>1, <1>6, Lookups
    <2>2. resp' = [req |-> r, data |-> rd.data[hit_way(r)]]
      BY <1>1, <1>3, <1>4, <1>6, Zenon DEF Respond, Bypassing
    <2>3. r.addr \in Cached /\ hit_way(r) \in Way /\ Held(r.addr, hit_way(r))
          /\ rd.data[hit_way(r)] = data_mem[<<hit_way(r), r.addr[2], r.addr[3]>>]
      BY <2>1, RequestFacts DEF Hit, Held
    <2>4. Below(r.addr) = rd.data[hit_way(r)]
      BY <1>2, <2>3 DEF BelowIs
    <2>5. Missing(r.addr)
      BY <2>3, EntryFacts DEF Missing, Held, CacheInv, OneCopy, line
    <2>6. Contents[r.addr] = rd.data[hit_way(r)]
      BY <1>2, <2>3, <2>4, <2>5 DEF ContentsIs
    <2> QED BY <1>3, <1>6, <2>1, <2>2, <2>6 DEF MP!Answered, we
  <1>7. CASE lk \notin ServedStore /\ lk # "load_hit"
    <2>1. resp' = IF Bypassing(r) /\ mem_rvalid(m) THEN MP!Answered(mem, Performed(r)) ELSE None
      BY <1>1, <1>7, Zenon DEF Respond, Bypassing
    <2>2. Bypassing(r) => Contents[Performed(r).addr] = mem[Performed(r).addr]
      BY <1>1, <1>2, MemoryStep DEF Bypassing, ContentsIs
    <2> QED BY <1>7, <2>1, <2>2 DEF MP!Answered
  <1> QED BY <1>5, <1>6, <1>7

\* Every cycle is a step of MemPort or a stutter of it.
LEMMA PortCycle ==
  ASSUME CacheInv, CacheInv', NEW r, NEW na, NEW m, NEW clean_req, Input(r, na, m, clean_req),
         Cycle(r, na, m, clean_req)
  PROVE  Coherent!Next
  <1>1. PICK lk : lk = Outcome(r, m)
    OBVIOUS
  <1>2. /\ r \in MP!Request \cup {None} /\ m \in Port /\ Memory(r, m) /\ Engine(r, m, lk, clean_req)
    BY <1>1 DEF Input, Cycle
  <1>3. /\ mem_rvalid(m) <=> m \in {"answer", "serve"}
        /\ m \in {"accept", "serve"} => pend = None
        /\ m = "answer" => pend # None
        /\ m = "accept" => pend' = mem_request(r)
        /\ m = "idle" => pend' = pend
        /\ m \in {"idle", "accept", "answer", "serve"}
    BY <1>2 DEF Memory, mem_rvalid, Port
  <1>4. /\ lk \in ServedStore \/ lk = "load_hit" => r \in MP!Request /\ ~Bypassing(r)
        /\ lk = "load_hit" => DOMAIN r.bytes = {} /\ r.addr \in Cached /\ lk \notin ServedStore
    <2>1. ASSUME lk \in ServedStore \/ lk = "load_hit" PROVE r \in MP!Request /\ cacheable(r) /\ ~lookup_block(m)
      BY <1>1, <1>2, <2>1, Lookups DEF ServedStore
    <2>2. lk = "load_hit" => ~we(r)
      BY <1>1, <1>2, Lookups
    <2>3. "load_hit" \notin ServedStore
      BY DEF ServedStore
    <2> QED BY <2>1, <2>2, <2>3, RequestFacts DEF Bypassing, bypass_go, lookup_block, we, MP!we
  <1>5. eng'.state = "BYPASS" <=> (bypass_go(r) /\ m = "accept") \/ (eng.state = "BYPASS" /\ ~mem_rvalid(m))
    BY <1>2, BypassStep
  <1>6. \A a \in Word : Contents'[a] =
          IF lk \in ServedStore /\ a = r.addr THEN With(Contents[a], r.bytes)
          ELSE IF Bypassing(r) /\ mem_rvalid(m) /\ a = Performed(r).addr THEN With(Contents[a], Performed(r).bytes)
          ELSE Contents[a]
    BY <1>1, ContentsStep
  <1>7. eng.state = "BYPASS" => ~bypass_go(r) /\ pend # None /\ Performed(r) = pend
    BY RequestFacts DEF bypass_go, CacheInv, PortOwes, Performed
  <1>8. bypass_go(r) => /\ eng.state = "IDLE" /\ pend = None /\ mem_request(r) = r /\ Performed(r) = r
                        /\ r \in MP!Request
    BY <1>2 DEF bypass_go, mem_request, CacheInv, PortOwes, Performed
  <1>9. ASSUME NEW p \in MP!Request, eng.state # "BYPASS", eng'.state # "BYPASS",
               resp' = MP!Answered(Contents, p), Contents' = MP!Apply(Contents, p)
        PROVE  Coherent!Next
    <2>1. Coherent!Serve(p)
      BY <1>9
      DEF Coherent!Serve, Coherent!Answered, MP!Answered, Coherent!we, MP!we, Coherent!Apply, MP!Apply,
          Coherent!Merge, MP!Merge
    <2>2. p \in Coherent!Request
      BY DEF Coherent!Request, MP!Request
    <2> QED BY <2>1, <2>2 DEF Coherent!Next
  <1>10. CASE lk \in ServedStore
    <2>1. Contents' = MP!Apply(Contents, r)
      BY <1>4, <1>6, <1>10, ContentsApply
    <2>2. resp' = MP!Answered(Contents, r)
      BY <1>1, <1>10, Responds
    <2> QED BY <1>4, <1>5, <1>9, <1>10, <2>1, <2>2 DEF Bypassing
  <1>11. CASE lk = "load_hit"
    <2>1. \A a \in Word : Contents'[a] = Contents[a]
      BY <1>4, <1>6, <1>11
    <2>2. With(Contents[r.addr], r.bytes) = Contents[r.addr]
      <3>1. Missing(r.addr)
        <4>1. <<hit_way(r), r.addr[2]>> \in valid /\ tag_mem[<<hit_way(r), r.addr[2]>>] = r.addr[1]
          BY <1>1, <1>2, <1>11, Lookups DEF Hit
        <4> QED BY <4>1, EntryFacts DEF Missing, CacheInv, OneCopy, line
      <3>2. Contents[r.addr] \in Cell
        BY <1>4, <1>11, <3>1, WhereWordsAre DEF BelowIs, ContentsIs
      <3> QED BY <1>4, <1>11, <3>2, MergeFacts
    <2>3. Contents' = MP!Apply(Contents, r)
      BY <2>1, <2>2, ContentsApply
    <2>4. resp' = MP!Answered(Contents, r)
      BY <1>1, <1>11, Responds
    <2> QED BY <1>4, <1>5, <1>9, <1>11, <2>3, <2>4 DEF Bypassing
  <1>12. CASE lk \notin ServedStore /\ lk # "load_hit" /\ Bypassing(r) /\ mem_rvalid(m)
    <2>1. Contents' = MP!Apply(Contents, Performed(r))
      BY <1>6, <1>12, ContentsApply
    <2>2. resp' = MP!Answered(Contents, Performed(r))
      BY <1>1, <1>12, Responds
    <2>3. Performed(r) \in MP!Request
      BY <1>2, <1>12, MemoryStep DEF Bypassing
    <2>4. CASE eng.state = "BYPASS"
      <3>1. eng'.state # "BYPASS"
        BY <1>5, <1>7, <1>12, <2>4
      <3>2. Coherent!Answer
        BY <1>7, <2>1, <2>2, <2>4, <3>1
        DEF Coherent!Answer, Coherent!Answered, MP!Answered, Coherent!we, MP!we, Coherent!Apply, MP!Apply,
            Coherent!Merge, MP!Merge
      <3> QED BY <3>2 DEF Coherent!Next
    <2>5. CASE bypass_go(r)
      <3>1. eng.state # "BYPASS" /\ eng'.state # "BYPASS"
        BY <1>3, <1>5, <1>8, <1>12, <2>5
      <3> QED BY <1>9, <2>1, <2>2, <2>3, <3>1
    <2> QED BY <1>12, <2>4, <2>5 DEF Bypassing
  <1>13. CASE lk \notin ServedStore /\ lk # "load_hit" /\ ~(Bypassing(r) /\ mem_rvalid(m))
    <2>1. Contents' = Contents
      BY <1>6, <1>13, ContentsSame
    <2>2. resp' = None
      BY <1>1, <1>13, Responds
    <2>3. CASE bypass_go(r) /\ m = "accept"
      <3>1. eng.state # "BYPASS" /\ eng'.state = "BYPASS" /\ pend' = r
        BY <1>3, <1>5, <1>8, <2>3
      <3>2. Coherent!Accept(r)
        BY <2>1, <2>2, <3>1 DEF Coherent!Accept
      <3>3. r \in Coherent!Request
        BY <1>8, <2>3 DEF Coherent!Request, MP!Request
      <3> QED BY <3>2, <3>3 DEF Coherent!Next
    <2>4. CASE ~(bypass_go(r) /\ m = "accept")
      <3>1. eng'.state = "BYPASS" <=> eng.state = "BYPASS"
        BY <1>5, <1>13, <2>4 DEF Bypassing
      <3>2. eng.state = "BYPASS" => pend' = pend
        BY <1>3, <1>7, <1>13 DEF Bypassing
      <3>3. Coherent!Quiet
        BY <2>1, <2>2, <3>1, <3>2 DEF Coherent!Quiet
      <3> QED BY <3>3 DEF Coherent!Next
    <2> QED BY <2>3, <2>4
  <1> QED BY <1>10, <1>11, <1>12, <1>13

\* Every load returns the last bytes stored to its word, whatever the cache was doing with the line.
THEOREM CacheIsMemory == Spec => RefinesPort
  <1>1. CacheInv /\ CacheInv' /\ [Next]_vars => [Coherent!Next]_Coherent!vars
    <2> SUFFICES ASSUME CacheInv, CacheInv', [Next]_vars PROVE [Coherent!Next]_Coherent!vars
      OBVIOUS
    <2>1. CASE Next
      BY <2>1, Inputs, PortCycle
    <2>2. CASE UNCHANGED vars
      BY <2>2 DEF vars, Coherent!vars, Contents, Below, Resident, Leaving
    <2> QED BY <2>1, <2>2
  <1> QED BY <1>1, PortInit, CacheIsSound, PTL DEF Spec, RefinesPort, Coherent!Spec
=============================================================================
