--------------------------- MODULE DataBus_proofs ---------------------------
(***************************************************************************)
(* For every buffer depth up to 255, every set of words, bytes and devices *)
(* and every behaviour of the cache port, the data bus of rtl/top.v hands  *)
(* every read the value the program has written, performs every write      *)
(* once and in order, and lets a FENCE go only when all of them are        *)
(* performed. The store buffer below it is proved first, by itself.        *)
(***************************************************************************)
EXTENDS DataBus, SequenceTheorems, TLAPS

-----------------------------------------------------------------------------
(* The store buffer: its shift register implements the FIFO of WriteQueue. *)

\* The part of the type invariant that speaks of the registers.
RegsOK == q \in [Slot -> Entry] /\ count \in 0 .. Depth

\* The COUNT_WIDTH-bit counter is wide enough: neither the decrement of a
\* non-empty buffer nor the increment of one that is not full wraps.
LEMMA NoWrap ==
  ASSUME count \in 0 .. Depth
  PROVE  /\ (count + 0) % CountModulus = count
         /\ count < Depth => (count + 1) % CountModulus = count + 1
         /\ count > 0 => /\ (count + CountModulus - 1) % CountModulus = count - 1
                         /\ (count - 1 + 0) % CountModulus = count - 1
                         /\ (count - 1 + 1) % CountModulus = count
<1>1. CountModulus \in {2, 4, 8, 16, 256} /\ CountModulus > Depth
  BY DepthAssumption DEF CountModulus
<1>2. \A n \in 0 .. Depth : n % CountModulus = n
  BY <1>1, DepthAssumption
<1>3. ASSUME count > 0
      PROVE  (count + CountModulus - 1) % CountModulus = count - 1
  BY <1>1, <1>3, DepthAssumption
<1>4. QED
  BY <1>2, <1>3, DepthAssumption

\* The four kinds of clock edge, with the counter arithmetic done.
LEMMA ClockEffect ==
  ASSUME RegsOK, NEW e
  PROVE  /\ Clock(FALSE, e, FALSE) => count' = count /\ q' = q
         /\ count # Depth /\ Clock(TRUE, e, FALSE) =>
              /\ count' = count + 1
              /\ q' = [j \in Slot |-> IF j = count THEN e ELSE q[j]]
         /\ count # 0 /\ Clock(FALSE, e, TRUE) =>
              /\ count' = count - 1
              /\ q' = [j \in Slot |-> IF j < Depth - 1 THEN q[j + 1] ELSE q[j]]
         /\ count # 0 /\ Clock(TRUE, e, TRUE) =>
              /\ count' = count
              /\ q' = [j \in Slot |-> IF j = count - 1 THEN e
                                      ELSE IF j < Depth - 1 THEN q[j + 1] ELSE q[j]]
<1>1. count \in 0 .. Depth /\ Depth \in Nat /\ q = [j \in Slot |-> q[j]]
  BY DepthAssumption DEF RegsOK
<1>2. Clock(FALSE, e, FALSE) => /\ count' = (count + 0) % CountModulus
                                /\ q' = [j \in Slot |-> q[j]]
  BY DEF Clock, Shifted, tail
<1>3. Clock(TRUE, e, FALSE) => /\ count' = (count + 1) % CountModulus
                               /\ q' = [j \in Slot |-> IF j = count THEN e ELSE q[j]]
  BY DEF Clock, Shifted, tail
<1>4. Clock(FALSE, e, TRUE) =>
        /\ count' = (((count + CountModulus - 1) % CountModulus) + 0) % CountModulus
        /\ q' = [j \in Slot |-> IF j < Depth - 1 THEN q[j + 1] ELSE q[j]]
  BY DEF Clock, Shifted, tail
<1>5. ASSUME count # 0, Clock(TRUE, e, TRUE)
      PROVE  /\ count' = count
             /\ q' = [j \in Slot |-> IF j = count - 1 THEN e
                                     ELSE IF j < Depth - 1 THEN q[j + 1] ELSE q[j]]
  <2> DEFINE t == (count + CountModulus - 1) % CountModulus
  <2>1. /\ count' = (t + 1) % CountModulus
        /\ q' = [j \in Slot |-> IF j = t THEN e
                                ELSE IF j < Depth - 1 THEN q[j + 1] ELSE q[j]]
    BY <1>5 DEF Clock, Shifted, tail
  <2>2. t = count - 1
    BY <1>1, <1>5, NoWrap
  <2> HIDE DEF t
  <2>3. QED
    BY <1>1, <1>5, <2>1, <2>2, NoWrap
<1>6. /\ (count + 0) % CountModulus = count
      /\ count # Depth => (count + 1) % CountModulus = count + 1
      /\ count # 0 => (((count + CountModulus - 1) % CountModulus) + 0) % CountModulus = count - 1
  BY <1>1, NoWrap
<1>7. QED
  BY <1>1, <1>2, <1>3, <1>4, <1>5, <1>6, Zenon

\* Every kind of clock edge keeps the registers in their types.
LEMMA RegsType ==
  ASSUME RegsOK, NEW e
  PROVE  /\ Clock(FALSE, e, FALSE) => RegsOK'
         /\ e \in Entry /\ count # Depth /\ Clock(TRUE, e, FALSE) => RegsOK'
         /\ count # 0 /\ Clock(FALSE, e, TRUE) => RegsOK'
         /\ e \in Entry /\ count # 0 /\ Clock(TRUE, e, TRUE) => RegsOK'
<1>1. /\ Depth \in Nat /\ 0 \in Slot /\ count \in 0 .. Depth
      /\ \A j \in Slot : j < Depth - 1 => j + 1 \in Slot
      /\ \A j \in Slot : q[j] \in Entry
  BY DepthAssumption DEF RegsOK, Slot
<1>2. Clock(FALSE, e, FALSE) => RegsOK'
  BY ClockEffect DEF RegsOK
<1>3. ASSUME e \in Entry, count # Depth, Clock(TRUE, e, FALSE) PROVE RegsOK'
  <2>1. /\ count' = count + 1
        /\ q' = [j \in Slot |-> IF j = count THEN e ELSE q[j]]
    BY <1>3, ClockEffect
  <2>2. QED
    BY <1>1, <1>3, <2>1 DEF RegsOK
<1>4. ASSUME count # 0, Clock(FALSE, e, TRUE) PROVE RegsOK'
  <2>1. /\ count' = count - 1
        /\ q' = [j \in Slot |-> IF j < Depth - 1 THEN q[j + 1] ELSE q[j]]
    BY <1>4, ClockEffect
  <2>2. QED
    BY <1>1, <1>4, <2>1 DEF RegsOK
<1>5. ASSUME e \in Entry, count # 0, Clock(TRUE, e, TRUE) PROVE RegsOK'
  <2>1. /\ count' = count
        /\ q' = [j \in Slot |-> IF j = count - 1 THEN e
                                ELSE IF j < Depth - 1 THEN q[j + 1] ELSE q[j]]
    BY <1>5, ClockEffect
  <2>2. QED
    BY <1>1, <1>5, <2>1 DEF RegsOK
<1>6. QED
  BY <1>2, <1>3, <1>4, <1>5

-----------------------------------------------------------------------------
\* Queue is a sequence of entries whose i-th element sits in slot i - 1.
QueueOK ==
  /\ Queue \in Seq(Entry) /\ Len(Queue) = count
  /\ \A i \in 1 .. count : Queue[i] = q[i - 1]

\* Registers of the right type make Queue a sequence of writes.
LEMMA QueueIsSeq == RegsOK => QueueOK
<1> SUFFICES ASSUME RegsOK PROVE QueueOK
  OBVIOUS
<1>1. Depth \in Nat /\ count \in Nat /\ \A i \in 1 .. count : i - 1 \in Slot
  BY DepthAssumption DEF RegsOK, Slot
<1>2. Queue \in [1 .. count -> Entry]
  BY <1>1 DEF Queue, RegsOK
<1>3. Queue \in Seq(Entry)
  BY <1>1, <1>2
<1>4. QED
  BY <1>1, <1>2, <1>3 DEF Queue, QueueOK

\* What each kind of clock edge does to the sequence of live entries.
LEMMA QueueEffect ==
  ASSUME RegsOK, NEW e
  PROVE  /\ Clock(FALSE, e, FALSE) => Queue' = Queue
         /\ e \in Entry /\ count # Depth /\ Clock(TRUE, e, FALSE) => Queue' = Append(Queue, e)
         /\ count # 0 /\ Clock(FALSE, e, TRUE) => Queue' = Tail(Queue)
         /\ e \in Entry /\ count # 0 /\ Clock(TRUE, e, TRUE) => Queue' = Append(Tail(Queue), e)
         /\ count = 0 => Queue = << >>
         /\ count # 0 => Queue # << >> /\ Head(Queue) = head
<1>1. /\ Queue \in Seq(Entry) /\ Len(Queue) = count
      /\ \A i \in 1 .. count : Queue[i] = q[i - 1]
  BY QueueIsSeq DEF QueueOK
<1>2. ASSUME RegsOK'
      PROVE  /\ Queue' \in Seq(Entry) /\ Len(Queue') = count'
             /\ \A i \in 1 .. count' : Queue'[i] = q'[i - 1]
  <2>1. QueueOK'
    BY <1>2, QueueIsSeq, PTL
  <2>2. QED
    BY <2>1 DEF QueueOK
<1>d. Depth \in Nat /\ Depth > 0 /\ count \in 0 .. Depth /\ Slot = 0 .. Depth - 1
  BY DepthAssumption DEF RegsOK, Slot
<1>3. Clock(FALSE, e, FALSE) => Queue' = Queue
  BY ClockEffect DEF Queue
<1>4. ASSUME e \in Entry, count # Depth, Clock(TRUE, e, FALSE) PROVE Queue' = Append(Queue, e)
  <2>1. /\ count' = count + 1
        /\ q' = [j \in Slot |-> IF j = count THEN e ELSE q[j]]
        /\ RegsOK'
    BY <1>4, ClockEffect, RegsType
  <2>q. /\ Queue' \in Seq(Entry) /\ Len(Queue') = count'
        /\ \A i \in 1 .. count' : Queue'[i] = q'[i - 1]
    BY <1>2, <2>1
  <2>2. ASSUME NEW i \in Nat, 1 <= i, i <= count + 1
        PROVE  Queue'[i] = Append(Queue, e)[i]
    <3>1. i - 1 \in Slot /\ Queue'[i] = q'[i - 1]
      BY <1>d, <1>4, <2>q, <2>1, <2>2
    <3>2. CASE i = count + 1
      BY <1>1, <1>d, <2>1, <3>1, <3>2
    <3>3. CASE i # count + 1
      BY <1>1, <1>d, <2>1, <2>2, <3>1, <3>3
    <3>4. QED
      BY <3>2, <3>3
  <2>3. QED
    BY <1>1, <1>d, <2>1, <2>q, <2>2
<1>5. ASSUME count # 0, Clock(FALSE, e, TRUE) PROVE Queue' = Tail(Queue)
  <2>1. /\ count' = count - 1
        /\ q' = [j \in Slot |-> IF j < Depth - 1 THEN q[j + 1] ELSE q[j]]
        /\ RegsOK'
    BY <1>5, ClockEffect, RegsType
  <2>q. /\ Queue' \in Seq(Entry) /\ Len(Queue') = count'
        /\ \A i \in 1 .. count' : Queue'[i] = q'[i - 1]
    BY <1>2, <2>1
  <2>2. ASSUME NEW i \in Nat, 1 <= i, i <= count - 1
        PROVE  Queue'[i] = Tail(Queue)[i]
    <3>1. Queue'[i] = q'[i - 1] /\ i - 1 \in Slot /\ i - 1 < Depth - 1
      BY <1>d, <2>q, <2>1, <2>2
    <3>2. q'[i - 1] = q[i] /\ Queue[i + 1] = q[i]
      BY <1>1, <1>d, <2>1, <2>2, <3>1
    <3>3. QED
      BY <1>1, <1>d, <2>2, <3>1, <3>2
  <2>3. QED
    BY <1>1, <1>d, <1>5, <2>1, <2>q, <2>2
<1>6. ASSUME e \in Entry, count # 0, Clock(TRUE, e, TRUE) PROVE Queue' = Append(Tail(Queue), e)
  <2>1. /\ count' = count
        /\ q' = [j \in Slot |-> IF j = count - 1 THEN e
                                ELSE IF j < Depth - 1 THEN q[j + 1] ELSE q[j]]
        /\ RegsOK'
    BY <1>6, ClockEffect, RegsType
  <2>2. Tail(Queue) \in Seq(Entry) /\ Len(Tail(Queue)) = count - 1
    BY <1>1, <1>d, <1>6
  <2>q. /\ Queue' \in Seq(Entry) /\ Len(Queue') = count'
        /\ \A i \in 1 .. count' : Queue'[i] = q'[i - 1]
    BY <1>2, <2>1
  <2>3. ASSUME NEW i \in Nat, 1 <= i, i <= count
        PROVE  Queue'[i] = Append(Tail(Queue), e)[i]
    <3>1. Queue'[i] = q'[i - 1] /\ i - 1 \in Slot
      BY <1>d, <2>q, <2>1, <2>3
    <3>2. CASE i = count
      BY <1>d, <2>1, <2>2, <3>1, <3>2
    <3>3. CASE i # count
      <4>1. q'[i - 1] = q[i] /\ Queue[i + 1] = q[i]
        BY <1>1, <1>d, <2>1, <2>3, <3>1, <3>3
      <4>2. Append(Tail(Queue), e)[i] = Queue[i + 1]
        BY <1>1, <1>d, <2>2, <2>3, <3>3
      <4>3. QED
        BY <3>1, <4>1, <4>2
    <3>4. QED
      BY <3>2, <3>3
  <2>4. QED
    BY <1>1, <1>d, <1>6, <2>1, <2>2, <2>q, <2>3
<1>7. /\ count = 0 => Queue = << >>
      /\ count # 0 => Queue # << >> /\ Head(Queue) = head
  BY <1>1, <1>d DEF head
<1>8. QED
  BY <1>3, <1>4, <1>5, <1>6, <1>7

-----------------------------------------------------------------------------
\* Init and every clock edge keep the type invariant.
LEMMA InitBufTypeOK == BufInit => BufTypeOK
  BY DepthAssumption DEF BufInit, BufTypeOK, Slot

\* The buffer keeps its types, and the counter its range.
LEMMA NextBufTypeOK == BufTypeOK /\ [BufNext]_bufvars => BufTypeOK'
<1> SUFFICES ASSUME BufTypeOK, [BufNext]_bufvars PROVE BufTypeOK'
  OBVIOUS
<1>0. RegsOK /\ (count # 0 => head \in Entry) /\ Depth \in Nat /\ count \in 0 .. Depth
  BY DepthAssumption DEF BufTypeOK, RegsOK, head, Slot
<1>1. ASSUME NEW e \in Entry, Push(e) PROVE BufTypeOK'
  <2>1. count # Depth /\ Clock(TRUE, e, FALSE) /\ in' = e /\ out' = None
    BY <1>1 DEF Push, full
  <2>2. QED
    BY <1>0, <2>1, RegsType DEF BufTypeOK, RegsOK
<1>2. CASE Pop
  <2>1. count # 0 /\ Clock(FALSE, head, TRUE) /\ in' = None /\ out' = head
    BY <1>2 DEF Pop, empty
  <2>2. QED
    BY <1>0, <2>1, RegsType DEF BufTypeOK, RegsOK
<1>3. ASSUME NEW e \in Entry, PushPop(e) PROVE BufTypeOK'
  <2>1. count # 0 /\ Clock(TRUE, e, TRUE) /\ in' = e /\ out' = head
    BY <1>3 DEF PushPop, empty
  <2>2. QED
    BY <1>0, <2>1, RegsType DEF BufTypeOK, RegsOK
<1>4. CASE Idle
  BY <1>4 DEF Idle, BufTypeOK
<1>5. CASE UNCHANGED bufvars
  BY <1>5 DEF bufvars, BufTypeOK
<1>6. QED
  BY <1>1, <1>2, <1>3, <1>4, <1>5 DEF BufNext

\* Every reachable state of the buffer is well typed: count never exceeds the
\* number of slots, so no write is ever aimed past the last one.
THEOREM BufTypeCorrect == BufSpec => []BufTypeOK
  BY InitBufTypeOK, NextBufTypeOK, PTL DEF BufSpec

\* Every clock edge of the registers is a step of the FIFO.
LEMMA StepRefines == BufTypeOK /\ [BufNext]_bufvars => [WQ!Next]_(WQ!vars)
<1> SUFFICES ASSUME BufTypeOK, [BufNext]_bufvars PROVE [WQ!Next]_(WQ!vars)
  OBVIOUS
<1>0. RegsOK /\ (count # 0 => head \in Entry) /\ Depth \in Nat /\ count \in 0 .. Depth
  BY DepthAssumption DEF BufTypeOK, RegsOK, head, Slot
<1>1. ASSUME NEW e \in Entry, Push(e) PROVE WQ!Enqueue(e)
  <2>1. count # Depth /\ Clock(TRUE, e, FALSE) /\ in' = e /\ out' = None
    BY <1>1 DEF Push, full
  <2>2. Len(Queue) = count
    BY <1>0, QueueIsSeq DEF QueueOK
  <2>3. Len(Queue) < Depth
    BY <1>0, <1>1, <2>2 DEF Push, full
  <2>4. QED
    BY <1>0, <2>1, <2>3, QueueEffect DEF WQ!Enqueue
<1>2. CASE Pop
  <2>1. count # 0 /\ Clock(FALSE, head, TRUE) /\ in' = None /\ out' = head
    BY <1>2 DEF Pop, empty
  <2>2. WQ!Dequeue
    BY <1>0, <2>1, QueueEffect DEF WQ!Dequeue
  <2>3. QED
    BY <2>2 DEF WQ!Next
<1>3. ASSUME NEW e \in Entry, PushPop(e) PROVE WQ!Exchange(e)
  <2>1. count # 0 /\ Clock(TRUE, e, TRUE) /\ in' = e /\ out' = head
    BY <1>3 DEF PushPop, empty
  <2>2. QED
    BY <1>0, <2>1, QueueEffect DEF WQ!Exchange
<1>4. CASE Idle
  BY <1>4 DEF Idle, WQ!Next, WQ!Quiet, Queue
<1>5. CASE UNCHANGED bufvars
  BY <1>5 DEF bufvars, WQ!vars, Queue
<1>6. QED
  BY <1>1, <1>2, <1>3, <1>4, <1>5 DEF BufNext, WQ!Next

\* The reset registers are the empty FIFO.
LEMMA InitRefines == BufInit => WQ!Init
<1> SUFFICES ASSUME BufInit PROVE WQ!Init
  OBVIOUS
<1>1. RegsOK /\ count = 0 /\ in = None /\ out = None
  BY InitBufTypeOK DEF BufInit, BufTypeOK, RegsOK
<1>2. Queue = << >>
  BY <1>1, QueueIsSeq DEF QueueOK
<1>3. QED
  BY <1>1, <1>2 DEF WQ!Init

\* The shift register is a FIFO of writes: whatever the depth, a write that
\* entered is drained exactly once, behind every older and before every
\* younger one, also when it enters the slot another write leaves.
THEOREM BufferIsFifo == BufSpec => RefinesQueue
  BY BufTypeCorrect, InitRefines, StepRefines, PTL DEF BufSpec, RefinesQueue, WQ!Spec

-----------------------------------------------------------------------------
(* The data bus.                                                           *)

\* The port's owner registers are set only while a request is accepted, the
\* walker agrees with them, and the memory cannot move under an accepted read.
OwnersAgree ==
  /\ pend = None => ~walk_owner_q /\ ~drain_owner_q
  /\ walk # None /\ walk.accepted => walk_owner_q
  /\ walk_owner_q => due = mem[walk.addr]
  /\ pend # None /\ ~walk_owner_q /\ ~drain_owner_q => xl # "fault" /\ fill = None

\* A walk for the access in MEM finds it there, still without a translation.
WalkIsAwaited ==
  /\ fill # None => walk = None
  /\ walk # None /\ walk.side = "data" => acc # None /\ xl = "miss"
  /\ fill = "data" => acc # None /\ xl = "miss"

\* The inductive invariant: what the registers hold, who waits for the answer,
\* and what memory and buffer hold together.
Inv == /\ TypeOK
       /\ AnswerHasOwner
       /\ OwnersAgree
       /\ WalkIsAwaited
       /\ BufferHoldsTheRest
       /\ ReadsAreCurrent

-----------------------------------------------------------------------------
(* Accesses and what they do to a memory.                                  *)

\* The facts of TypeOK in the form the other proofs use.
LEMMA TypeFacts ==
  ASSUME TypeOK
  PROVE  /\ RegsOK /\ count \in 0 .. Depth /\ Depth \in Nat /\ Depth > 0
         /\ Slot = 0 .. Depth - 1 /\ 0 \in Slot /\ \A i \in Slot : q[i] \in Entry
         /\ count # 0 => head = q[0] /\ head \in Entry
         /\ mem \in [Word -> Data] /\ arch \in [Word -> Data]
         /\ walk \in Walk \cup {None} /\ (walk # None => walk.addr \in Word)
<1>1. BufTypeOK /\ mem \in [Word -> Data] /\ arch \in [Word -> Data] /\ walk \in Walk \cup {None}
  BY DEF TypeOK
<1>2. walk # None => walk.addr \in Word
  BY <1>1 DEF Walk
<1>3. QED
  BY <1>1, <1>2, DepthAssumption DEF BufTypeOK, RegsOK, Slot, head

\* What is a store, what is a load, and what a request to the port may be.
LEMMA AccessFacts ==
  /\ None \notin Access
  /\ \A r \in Access : r.addr \in Word
  /\ \A e \in Entry : we(e)
  /\ \A r \in Load : ~we(r) /\ r.bytes = << >>
  /\ \A a \in Word : Read(a) \in Load /\ Read(a).addr = a
<1>1. << >> \in UNION {[S -> Byte] : S \in SUBSET Lane}
  <2>1. << >> \in [{} -> Byte] /\ {} \in SUBSET Lane
    OBVIOUS
  <2>2. QED
    BY <2>1
<1>2. \A p \in Payload : DOMAIN p # {} /\ p \in UNION {[S -> Byte] : S \in SUBSET Lane}
  BY PayloadAssumption
<1>3. Access \subseteq [addr : Word, bytes : UNION {[S -> Byte] : S \in SUBSET Lane}]
  BY <1>1, <1>2 DEF Access, Entry, Load
<1>4. DOMAIN << >> = {}
  OBVIOUS
<1>5. QED
  BY <1>2, <1>3, <1>4, NoneAssumption DEF Access, Entry, Load, we, MP!we, Read

\* A write replaces the enabled bytes of its own word and nothing else.
LEMMA ApplyWrite ==
  ASSUME NEW M \in [Word -> Data], NEW e \in Entry
  PROVE  /\ MP!Apply(M, e) \in [Word -> Data]
         /\ \A a \in Word, l \in Lane :
              MP!Apply(M, e)[a][l] =
                IF a = e.addr /\ l \in DOMAIN e.bytes THEN e.bytes[l] ELSE M[a][l]
<1>1. e.addr \in Word /\ \A l \in DOMAIN e.bytes : e.bytes[l] \in Byte
  BY PayloadAssumption DEF Entry
<1>2. MP!Merge(M[e.addr], e) \in Data
  BY <1>1 DEF MP!Merge, Data, MP!Data
<1>3. QED
  BY <1>1, <1>2 DEF MP!Apply, MP!Merge, Data, MP!Data

\* A read leaves the memory as it is.
LEMMA ApplyRead ==
  ASSUME NEW M \in [Word -> Data], NEW r \in Load
  PROVE  MP!Apply(M, r) = M
<1>1. DOMAIN r.bytes = {} /\ r.addr \in Word
  BY DEF Load
<1>2. MP!Merge(M[r.addr], r) = M[r.addr]
  BY <1>1 DEF MP!Merge, Data, MP!Data
<1>3. QED
  BY <1>1, <1>2 DEF MP!Apply

-----------------------------------------------------------------------------
(* The five things a cycle can do to buffer, memory and program.           *)
QuietStep == /\ Clock(FALSE, acc, FALSE) /\ in' = None /\ out' = None
             /\ mem' = mem /\ arch' = arch
PushStep == /\ acc \in Entry /\ count # Depth
            /\ Clock(TRUE, acc, FALSE) /\ in' = acc /\ out' = None
            /\ mem' = mem /\ arch' = MP!Apply(arch, acc)
PopStep == /\ count # 0
           /\ Clock(FALSE, acc, TRUE) /\ in' = None /\ out' = head
           /\ mem' = MP!Apply(mem, head) /\ arch' = arch
PushPopStep == /\ acc \in Entry /\ count # 0 /\ count # Depth
               /\ Clock(TRUE, acc, TRUE) /\ in' = acc /\ out' = head
               /\ mem' = MP!Apply(mem, head) /\ arch' = MP!Apply(arch, acc)
PassStep == /\ acc \in Entry /\ count = 0
            /\ Clock(FALSE, acc, FALSE) /\ in' = acc /\ out' = acc
            /\ mem' = MP!Apply(mem, acc) /\ arch' = MP!Apply(arch, acc)

\* What the answered request is, by the master the answer goes to.
LEMMA PerformedCases ==
  ASSUME TypeOK, AnswerHasOwner, OwnersAgree, NEW m \in Port, Cache(m), rvalid(m)
  PROVE  /\ drain_done(m) => /\ Performed = (IF empty THEN acc ELSE head)
                             /\ empty => store_buf_push_req
         /\ ~drain_done(m) => Performed \in Load
         /\ ~drain_done(m) /\ data_bus_walk_owns(m) =>
              walk # None /\ Performed = Read(walk.addr) /\ (m = "serve" => data_bus_walk_sel)
         /\ ~drain_done(m) /\ ~data_bus_walk_owns(m) =>
              acc \in Load /\ Performed = acc /\ ~match(acc.addr)
<1>1. CASE pend # None
  <2>1. m = "answer" /\ ~gnt(m) /\ Performed = pend
    BY <1>1 DEF Cache, gnt, rvalid, Port, Performed
  <2>2. CASE walk_owner_q
    <3>1. ~drain_owner_q /\ walk # None /\ pend = Read(walk.addr)
      BY <1>1, <2>2 DEF AnswerHasOwner
    <3>2. Read(walk.addr) \in Load
      BY <3>1, AccessFacts, TypeFacts
    <3>3. QED
      BY <2>1, <2>2, <3>1, <3>2 DEF drain_done, data_bus_drain_owns, data_bus_walk_owns
  <2>3. CASE ~walk_owner_q /\ drain_owner_q
    <3>1. ~empty /\ pend = head
      BY <1>1, <2>3 DEF AnswerHasOwner
    <3>2. QED
      BY <2>1, <2>3, <3>1 DEF drain_done, data_bus_drain_owns
  <2>4. CASE ~walk_owner_q /\ ~drain_owner_q
    <3>1. acc # None /\ pend = acc /\ ~we(acc) /\ empty
      BY <1>1, <2>4 DEF AnswerHasOwner
    <3>2. acc \in Load
      BY <3>1, AccessFacts DEF TypeOK, Access
    <3>3. ~match(acc.addr)
      BY <3>1 DEF empty, match, Slot
    <3>4. QED
      BY <2>1, <2>4, <3>1, <3>2, <3>3 DEF drain_done, data_bus_drain_owns, data_bus_walk_owns
  <2>5. QED
    BY <2>2, <2>3, <2>4
<1>2. CASE pend = None
  <2>1. m = "serve" /\ gnt(m) /\ dcache_req /\ Performed = dcache_request
    BY <1>2 DEF Cache, gnt, rvalid, Port, Performed
  <2>2. ~walk_owner_q /\ ~drain_owner_q
    BY <1>2 DEF OwnersAgree
  <2>3. CASE data_bus_walk_sel
    <3>1. walk # None /\ ~data_bus_drain_sel /\ Performed = Read(walk.addr)
      BY <2>1, <2>3 DEF data_bus_walk_sel, walk_req, data_bus_drain_sel, dcache_request
    <3>2. Read(walk.addr) \in Load
      BY <3>1, AccessFacts, TypeFacts
    <3>3. QED
      BY <2>1, <2>2, <2>3, <3>1, <3>2 DEF drain_done, data_bus_drain_owns, data_bus_walk_owns
  <2>4. CASE ~data_bus_walk_sel /\ data_bus_drain_sel
    BY <2>1, <2>2, <2>4
    DEF dcache_request, drain_write, drain_done, data_bus_drain_owns, data_bus_drain_sel, drain_req
  <2>5. CASE ~data_bus_walk_sel /\ ~data_bus_drain_sel
    <3>1. cpu_load_go /\ Performed = acc
      BY <2>1, <2>5 DEF dcache_req, dcache_request
    <3>2. acc # None /\ ~we(acc) /\ ~match(acc.addr)
      BY <3>1 DEF cpu_load_go, cpu_data_bus_req
    <3>3. acc \in Load
      BY <3>2, AccessFacts DEF TypeOK, Access
    <3>4. QED
      BY <2>1, <2>2, <2>5, <3>1, <3>2, <3>3 DEF drain_done, data_bus_drain_owns, data_bus_walk_owns
  <2>6. QED
    BY <2>3, <2>4, <2>5
<1>3. QED
  BY <1>1, <1>2

\* The cycles by what enters and leaves the buffer, as the signals of top.v combine.
LEMMA CycleCases ==
  ASSUME TypeOK, AnswerHasOwner, OwnersAgree, NEW m \in Port, Cycle(m)
  PROVE  QuietStep \/ PushStep \/ PopStep \/ PushPopStep \/ PassStep
<1>1. /\ Cache(m) /\ Buffer(m)
      /\ arch' = IF store_buf_push_req THEN MP!Apply(arch, acc) ELSE arch
  BY DEF Cycle, Observe
<1>2. /\ Clock(store_buf_push(m), acc, store_buf_pop(m))
      /\ in' = IF store_buf_push_req THEN acc ELSE None
      /\ out' = IF drain_done(m) THEN Performed ELSE None
  BY <1>1 DEF Buffer
<1>3. store_buf_push_req => acc \in Entry /\ count # Depth
  BY AccessFacts DEF store_buf_push_req, cpu_data_bus_req, TypeOK, Access, full
<1>4. ~drain_done(m) => mem' = mem
  <2>1. CASE rvalid(m) /\ ~drain_done(m)
    BY <1>1, <2>1, PerformedCases, ApplyRead DEF Cache, TypeOK
  <2>2. CASE ~rvalid(m)
    BY <1>1, <2>2 DEF Cache
  <2>3. QED
    BY <2>1, <2>2
<1>5. drain_done(m) => /\ rvalid(m) /\ Performed = (IF empty THEN acc ELSE head)
                       /\ empty => store_buf_push_req
                       /\ mem' = MP!Apply(mem, Performed)
  BY <1>1, PerformedCases DEF drain_done, Cache
<1>6. CASE ~drain_done(m) /\ ~store_buf_push_req
  <2>1. store_buf_push(m) = FALSE /\ store_buf_pop(m) = FALSE
    BY <1>6 DEF store_buf_push, store_buf_pop
  <2>2. QED
    BY <1>1, <1>2, <1>4, <1>6, <2>1 DEF QuietStep
<1>7. CASE ~drain_done(m) /\ store_buf_push_req
  <2>1. store_buf_push(m) = TRUE /\ store_buf_pop(m) = FALSE
    BY <1>7 DEF store_buf_push, store_buf_pop
  <2>2. QED
    BY <1>1, <1>2, <1>3, <1>4, <1>7, <2>1 DEF PushStep
<1>8. CASE drain_done(m) /\ ~store_buf_push_req
  <2>1. store_buf_push(m) = FALSE /\ store_buf_pop(m) = TRUE /\ ~empty
    BY <1>5, <1>8 DEF store_buf_push, store_buf_pop
  <2>2. QED
    BY <1>1, <1>2, <1>5, <1>8, <2>1 DEF PopStep, empty
<1>9. CASE drain_done(m) /\ store_buf_push_req /\ ~empty
  <2>1. store_buf_push(m) = TRUE /\ store_buf_pop(m) = TRUE
    BY <1>9 DEF store_buf_push, store_buf_pop
  <2>2. QED
    BY <1>1, <1>2, <1>3, <1>5, <1>9, <2>1 DEF PushPopStep, empty
<1>10. CASE drain_done(m) /\ store_buf_push_req /\ empty
  <2>1. store_buf_push(m) = FALSE /\ store_buf_pop(m) = FALSE
    BY <1>10 DEF store_buf_push, store_buf_pop
  <2>2. QED
    BY <1>1, <1>2, <1>3, <1>5, <1>10, <2>1 DEF PassStep, empty
<1>11. QED
  BY <1>6, <1>7, <1>8, <1>9, <1>10

-----------------------------------------------------------------------------
(* Memory and buffer together hold what the program wrote.                 *)

\* A cycle keeps memory and buffer together equal to what the program wrote.
LEMMA RestKept ==
  ASSUME TypeOK, BufferHoldsTheRest,
         QuietStep \/ PushStep \/ PopStep \/ PushPopStep \/ PassStep
  PROVE  BufferHoldsTheRest'
<1> SUFFICES ASSUME NEW a \in Word, NEW l \in Lane PROVE ByteHeld(a, l)'
  BY DEF BufferHoldsTheRest
<1>0. /\ RegsOK /\ count \in 0 .. Depth /\ Depth \in Nat /\ Depth > 0
      /\ Slot = 0 .. Depth - 1 /\ \A i \in Slot : q[i] \in Entry
      /\ mem \in [Word -> Data] /\ arch \in [Word -> Data]
      /\ count # 0 => head = q[0] /\ head \in Entry
  BY TypeFacts
<1>1. ByteHeld(a, l)
  BY DEF BufferHoldsTheRest
<1>2. CASE QuietStep
  <2>1. q' = q /\ count' = count /\ mem' = mem /\ arch' = arch
    BY <1>0, <1>2, ClockEffect DEF QuietStep
  <2>2. QED
    BY <1>1, <2>1 DEF ByteHeld, Writers
<1>3. CASE PassStep
  <2>1. /\ q' = q /\ count' = count /\ count = 0 /\ acc \in Entry
        /\ mem' = MP!Apply(mem, acc) /\ arch' = MP!Apply(arch, acc)
    BY <1>0, <1>3, ClockEffect DEF PassStep
  <2>2. arch[a][l] = mem[a][l]
    BY <1>0, <1>1, <2>1 DEF ByteHeld, Writers
  <2>3. arch'[a][l] = mem'[a][l]
    BY <1>0, <2>1, <2>2, ApplyWrite
  <2>4. Writers(a, l)' = {}
    BY <1>0, <2>1 DEF Writers
  <2>5. QED
    BY <2>3, <2>4 DEF ByteHeld
<1>4. CASE PushStep
  <2>1. /\ count # Depth /\ count' = count + 1 /\ acc \in Entry
        /\ q' = [j \in Slot |-> IF j = count THEN acc ELSE q[j]]
        /\ mem' = mem /\ arch' = MP!Apply(arch, acc)
    BY <1>0, <1>4, ClockEffect DEF PushStep
  <2>2. CASE a = acc.addr /\ l \in DOMAIN acc.bytes
    <3>1. count \in Writers(a, l)' /\ \A j \in Writers(a, l)' : j <= count
      BY <1>0, <2>1, <2>2 DEF Writers
    <3>2. arch'[a][l] = q'[count].bytes[l]
      BY <1>0, <2>1, <2>2, ApplyWrite
    <3>3. QED
      BY <3>1, <3>2 DEF ByteHeld
  <2>3. CASE ~(a = acc.addr /\ l \in DOMAIN acc.bytes)
    <3>1. Writers(a, l)' = Writers(a, l)
      BY <1>0, <2>1, <2>3 DEF Writers
    <3>2. arch'[a][l] = arch[a][l] /\ \A i \in Writers(a, l) : q'[i] = q[i]
      BY <1>0, <2>1, <2>3, ApplyWrite DEF Writers
    <3>3. QED
      BY <1>1, <2>1, <3>1, <3>2 DEF ByteHeld
  <2>4. QED
    BY <2>2, <2>3
<1>5. ASSUME count # 0, mem' = MP!Apply(mem, head), arch'[a][l] = arch[a][l],
             \A i \in Slot : i + 1 < count => q'[i] = q[i + 1],
             Writers(a, l)' = {i \in Slot : i + 1 \in Writers(a, l)}
      PROVE  ByteHeld(a, l)'
  <2>1. CASE Writers(a, l) = {}
    <3>1. mem'[a][l] = mem[a][l]
      BY <1>0, <1>5, <2>1, ApplyWrite DEF Writers
    <3>2. QED
      BY <1>1, <1>5, <2>1, <3>1 DEF ByteHeld
  <2>2. CASE Writers(a, l) # {}
    <3>1. PICK i \in Writers(a, l) : arch[a][l] = q[i].bytes[l] /\ \A j \in Writers(a, l) : j <= i
      BY <1>1, <2>2 DEF ByteHeld
    <3>2. i \in Nat /\ i < count /\ i \in Slot
      BY <1>0, <3>1 DEF Writers
    <3>3. CASE i = 0
      <4>1. Writers(a, l)' = {}
        BY <1>0, <1>5, <3>1, <3>3
      <4>2. mem'[a][l] = q[0].bytes[l]
        BY <1>0, <1>5, <3>1, <3>3, ApplyWrite DEF Writers
      <4>3. QED
        BY <1>5, <3>1, <3>3, <4>1, <4>2 DEF ByteHeld
    <3>4. CASE i # 0
      <4>1. i - 1 \in Slot /\ (i - 1) + 1 = i
        BY <1>0, <3>2, <3>4
      <4>2. i - 1 \in Writers(a, l)' /\ q'[i - 1] = q[i]
        BY <1>5, <3>1, <3>2, <4>1
      <4>3. \A j \in Writers(a, l)' : j <= i - 1
        BY <1>0, <1>5, <3>1, <3>2
      <4>4. arch'[a][l] = q'[i - 1].bytes[l]
        BY <1>5, <3>1, <4>2
      <4>5. QED
        BY <4>2, <4>3, <4>4 DEF ByteHeld
    <3>5. QED
      BY <3>3, <3>4
  <2>3. QED
    BY <2>1, <2>2
<1>6. CASE PopStep
  <2>1. /\ count # 0 /\ count' = count - 1
        /\ q' = [j \in Slot |-> IF j < Depth - 1 THEN q[j + 1] ELSE q[j]]
        /\ mem' = MP!Apply(mem, head) /\ arch' = arch
    BY <1>0, <1>6, ClockEffect DEF PopStep
  <2>2. \A i \in Slot : i + 1 < count => i + 1 \in Slot /\ q'[i] = q[i + 1]
    BY <1>0, <2>1
  <2>3. Writers(a, l)' = {i \in Slot : i + 1 \in Writers(a, l)}
    BY <1>0, <2>1, <2>2 DEF Writers
  <2>4. QED
    BY <1>5, <2>1, <2>2, <2>3
<1>7. CASE PushPopStep
  <2>1. /\ count # 0 /\ count # Depth /\ count' = count /\ acc \in Entry
        /\ q' = [j \in Slot |-> IF j = count - 1 THEN acc
                                ELSE IF j < Depth - 1 THEN q[j + 1] ELSE q[j]]
        /\ mem' = MP!Apply(mem, head) /\ arch' = MP!Apply(arch, acc)
    BY <1>0, <1>7, ClockEffect DEF PushPopStep
  <2>2. \A i \in Slot : i + 1 < count => i + 1 \in Slot /\ q'[i] = q[i + 1]
    BY <1>0, <2>1
  <2>3. count - 1 \in Slot /\ q'[count - 1] = acc
    BY <1>0, <2>1
  <2>4. CASE a = acc.addr /\ l \in DOMAIN acc.bytes
    <3>1. count - 1 \in Writers(a, l)' /\ \A j \in Writers(a, l)' : j <= count - 1
      BY <1>0, <2>1, <2>3, <2>4 DEF Writers
    <3>2. arch'[a][l] = q'[count - 1].bytes[l]
      BY <1>0, <2>1, <2>3, <2>4, ApplyWrite
    <3>3. QED
      BY <3>1, <3>2 DEF ByteHeld
  <2>5. CASE ~(a = acc.addr /\ l \in DOMAIN acc.bytes)
    <3>1. arch'[a][l] = arch[a][l]
      BY <1>0, <2>1, <2>5, ApplyWrite
    <3>2. Writers(a, l)' = {i \in Slot : i + 1 \in Writers(a, l)}
      BY <1>0, <2>1, <2>2, <2>3, <2>5 DEF Writers
    <3>3. QED
      BY <1>5, <2>1, <2>2, <3>1, <3>2
  <2>6. QED
    BY <2>4, <2>5
<1>8. QED
  BY <1>2, <1>3, <1>4, <1>6, <1>7

-----------------------------------------------------------------------------
(* The types.                                                              *)

\* The request that top.v selects for the cache is a load or a write.
LEMMA RequestType ==
  ASSUME TypeOK, dcache_req
  PROVE  dcache_request \in Access
<1>1. CASE data_bus_walk_sel
  <2>1. walk # None
    BY <1>1 DEF data_bus_walk_sel, walk_req
  <2>2. Read(walk.addr) \in Load
    BY <2>1, AccessFacts, TypeFacts
  <2>3. QED
    BY <1>1, <2>2 DEF dcache_request, Access
<1>2. CASE ~data_bus_walk_sel /\ data_bus_drain_sel
  <2>1. dcache_request = IF empty THEN acc ELSE head
    BY <1>2 DEF dcache_request, drain_write
  <2>2. CASE empty
    <3>1. acc # None
      BY <1>2, <2>2 DEF data_bus_drain_sel, drain_req, store_buf_push_req, cpu_data_bus_req
    <3>2. QED
      BY <2>1, <2>2, <3>1 DEF TypeOK
  <2>3. CASE ~empty
    BY <2>1, <2>3, TypeFacts DEF empty, Access
  <2>4. QED
    BY <2>2, <2>3
<1>3. CASE ~data_bus_walk_sel /\ ~data_bus_drain_sel
  <2>1. cpu_load_go /\ dcache_request = acc
    BY <1>3 DEF dcache_req, dcache_request
  <2>2. acc # None
    BY <2>1 DEF cpu_load_go, cpu_data_bus_req
  <2>3. QED
    BY <2>1, <2>2 DEF TypeOK
<1>4. QED
  BY <1>1, <1>2, <1>3

\* A cycle keeps the memory and the program's memory in their types.
LEMMA StorageType ==
  ASSUME TypeOK, QuietStep \/ PushStep \/ PopStep \/ PushPopStep \/ PassStep
  PROVE  BufTypeOK' /\ mem' \in [Word -> Data] /\ arch' \in [Word -> Data]
<1>0. RegsOK /\ mem \in [Word -> Data] /\ arch \in [Word -> Data] /\ (count # 0 => head \in Entry)
  BY TypeFacts
<1>1. RegsOK'
  BY <1>0, RegsType DEF QuietStep, PushStep, PopStep, PushPopStep, PassStep
<1>2. in' \in Entry \cup {None} /\ out' \in Entry \cup {None}
  BY <1>0 DEF QuietStep, PushStep, PopStep, PushPopStep, PassStep
<1>3. mem' \in [Word -> Data] /\ arch' \in [Word -> Data]
  <2>1. /\ \/ mem' = mem
           \/ count # 0 /\ mem' = MP!Apply(mem, head)
           \/ acc \in Entry /\ mem' = MP!Apply(mem, acc)
        /\ arch' = arch \/ (acc \in Entry /\ arch' = MP!Apply(arch, acc))
    BY DEF QuietStep, PushStep, PopStep, PushPopStep, PassStep
  <2>2. \A M \in [Word -> Data], e \in Entry : MP!Apply(M, e) \in [Word -> Data]
    BY ApplyWrite
  <2>3. QED
    BY <1>0, <2>1, <2>2
<1>4. QED
  BY <1>1, <1>2, <1>3 DEF BufTypeOK, RegsOK

-----------------------------------------------------------------------------
(* Reads.                                                                  *)

\* A word without a buffered write is in memory as the program wrote it.
LEMMA UnmatchedIsCurrent ==
  ASSUME TypeOK, BufferHoldsTheRest, NEW a \in Word, ~match(a)
  PROVE  mem[a] = arch[a]
<1>1. \A l \in Lane : Writers(a, l) = {}
  BY DEF match, Writers
<1>2. \A l \in Lane : mem[a][l] = arch[a][l]
  BY <1>1 DEF BufferHoldsTheRest, ByteHeld
<1>3. mem[a] \in [Lane -> Byte] /\ arch[a] \in [Lane -> Byte]
  BY DEF TypeOK, Data, MP!Data
<1>4. QED
  BY <1>2, <1>3

\* An empty store buffer matches no load.
LEMMA EmptyIsUnmatched == ASSUME empty, NEW a PROVE ~match(a)
  BY DEF empty, match, Slot

\* The walker and the buffer never own the same answer.
LEMMA OneOwner ==
  ASSUME AnswerHasOwner, OwnersAgree, NEW m \in Port, Cache(m), data_bus_walk_owns(m)
  PROVE  ~data_bus_drain_owns(m)
<1>1. CASE walk_owner_q
  <2>1. pend # None /\ ~drain_owner_q
    BY <1>1 DEF OwnersAgree, AnswerHasOwner
  <2>2. ~gnt(m)
    BY <2>1 DEF Cache
  <2>3. QED
    BY <2>1, <2>2 DEF data_bus_drain_owns
<1>2. CASE ~walk_owner_q
  <2>1. data_bus_walk_sel /\ gnt(m)
    BY <1>2 DEF data_bus_walk_owns
  <2>2. pend = None /\ ~data_bus_drain_sel
    BY <2>1 DEF Cache, data_bus_walk_sel, data_bus_drain_sel
  <2>3. QED
    BY <2>2 DEF data_bus_drain_owns, OwnersAgree
<1>3. QED
  BY <1>1, <1>2

\* Every read that a cycle answers, of the core or of the walker, is current.
LEMMA ReadsKept ==
  ASSUME TypeOK, AnswerHasOwner, OwnersAgree, BufferHoldsTheRest, NEW m \in Port, Cycle(m)
  PROVE  ReadsAreCurrent' /\ got' \in [by : {"cpu", "walk"}, data : Data, want : Data] \cup {None}
<1>0. /\ Cache(m)
      /\ mem \in [Word -> Data] /\ arch \in [Word -> Data]
      /\ got' = IF acc # None /\ ~we(acc) /\ cpu_data_rvalid(m)
                THEN [by |-> "cpu", data |-> mem[Performed.addr], want |-> arch[acc.addr]]
                ELSE IF mmu_walk_rvalid(m)
                THEN [by |-> "walk", data |-> mem[Performed.addr],
                      want |-> IF m = "serve" THEN arch[walk.addr] ELSE due]
                ELSE None
  BY DEF Cycle, Observe, TypeOK
<1>1. CASE acc # None /\ ~we(acc) /\ cpu_data_rvalid(m)
  <2>1. rvalid(m) /\ ~data_bus_walk_owns(m) /\ ~drain_done(m)
    BY <1>1 DEF cpu_data_rvalid, drain_done
  <2>2. acc \in Load /\ Performed = acc /\ ~match(acc.addr)
    BY <1>0, <2>1, PerformedCases
  <2>3. acc.addr \in Word
    BY <2>2 DEF Load
  <2>4. mem[acc.addr] = arch[acc.addr] /\ mem[acc.addr] \in Data
    BY <1>0, <2>2, <2>3, UnmatchedIsCurrent
  <2>5. got' = [by |-> "cpu", data |-> mem[acc.addr], want |-> arch[acc.addr]]
    BY <1>0, <1>1, <2>2
  <2>6. QED
    BY <2>4, <2>5 DEF ReadsAreCurrent
<1>2. CASE ~(acc # None /\ ~we(acc) /\ cpu_data_rvalid(m)) /\ mmu_walk_rvalid(m)
  <2>1. rvalid(m) /\ data_bus_walk_owns(m)
    BY <1>2 DEF mmu_walk_rvalid
  <2>2. ~drain_done(m)
    BY <1>0, <2>1, OneOwner DEF drain_done
  <2>3. walk # None /\ Performed = Read(walk.addr) /\ (m = "serve" => data_bus_walk_sel)
    BY <1>0, <2>1, <2>2, PerformedCases
  <2>4. walk.addr \in Word /\ Performed.addr = walk.addr
    BY <2>3, TypeFacts DEF Read
  <2>5. CASE m = "serve"
    <3>1. empty
      BY <2>3, <2>5 DEF data_bus_walk_sel, drain_req
    <3>2. mem[walk.addr] = arch[walk.addr]
      BY <2>4, <3>1, EmptyIsUnmatched, UnmatchedIsCurrent
    <3>3. got' = [by |-> "walk", data |-> mem[walk.addr], want |-> arch[walk.addr]]
      BY <1>0, <1>2, <2>4, <2>5
    <3>4. QED
      BY <1>0, <2>4, <3>2, <3>3 DEF ReadsAreCurrent
  <2>6. CASE m # "serve"
    <3>1. walk_owner_q
      BY <2>1, <2>6 DEF rvalid, gnt, data_bus_walk_owns
    <3>2. due = mem[walk.addr]
      BY <3>1 DEF OwnersAgree
    <3>3. got' = [by |-> "walk", data |-> mem[walk.addr], want |-> mem[walk.addr]]
      BY <1>0, <1>2, <2>4, <2>6, <3>2
    <3>4. QED
      BY <1>0, <2>4, <3>3 DEF ReadsAreCurrent
  <2>7. QED
    BY <2>5, <2>6
<1>3. CASE ~(acc # None /\ ~we(acc) /\ cpu_data_rvalid(m)) /\ ~mmu_walk_rvalid(m)
  BY <1>0, <1>3 DEF ReadsAreCurrent
<1>4. QED
  BY <1>1, <1>2, <1>3

-----------------------------------------------------------------------------
(* The owner of the accepted request.                                      *)

\* While nothing is answered the oldest buffered write stays where it is.
LEMMA HeadKept ==
  ASSUME TypeOK, NEW m, Buffer(m), ~rvalid(m)
  PROVE  /\ count # 0 => count' # 0 /\ head' = head
         /\ store_buf_push_req /\ count = 0 => count' # 0 /\ head' = acc
         /\ ~store_buf_push_req => count' = count
<1>0. RegsOK /\ count \in 0 .. Depth /\ Depth \in Nat /\ Depth > 0 /\ 0 \in Slot
  BY TypeFacts
<1>1. store_buf_pop(m) = FALSE /\ store_buf_push(m) = store_buf_push_req
  BY DEF store_buf_pop, store_buf_push, drain_done, store_buf_push_req
<1>2. CASE store_buf_push_req
  <2>1. Clock(TRUE, acc, FALSE) /\ count # Depth
    BY <1>1, <1>2 DEF Buffer, store_buf_push_req, full
  <2>2. count' = count + 1 /\ q' = [j \in Slot |-> IF j = count THEN acc ELSE q[j]]
    BY <1>0, <2>1, ClockEffect
  <2>3. QED
    BY <1>0, <1>2, <2>2 DEF head
<1>3. CASE ~store_buf_push_req
  <2>1. store_buf_push(m) = FALSE
    BY <1>3 DEF store_buf_push
  <2>c. Clock(FALSE, acc, FALSE)
    BY <1>1, <2>1 DEF Buffer
  <2>2. count' = count /\ q' = q
    BY <1>0, <2>c, ClockEffect
  <2>3. QED
    BY <1>3, <2>2 DEF head
<1>4. QED
  BY <1>2, <1>3

\* The walker of sv32_mmu.v keeps an accepted PTE read until its answer comes.
LEMMA WalkKept ==
  ASSUME TypeOK, NEW m \in Port, Walker(m), mmu_walk_rvalid(m) => walk # None
  PROVE  /\ walk # None /\ ~mmu_walk_rvalid(m) =>
              /\ walk' # None /\ walk'.addr = walk.addr
              /\ walk'.accepted <=> (walk.accepted \/ mmu_walk_gnt(m))
         /\ walk' # None /\ (walk = None \/ mmu_walk_rvalid(m)) => ~walk'.accepted
         /\ ~mmu_walk_rvalid(m) => fill' = None
         /\ walk' \in Walk \cup {None} /\ fill' \in Side \cup {None}
<1>0. walk \in Walk \cup {None} /\ (walk # None => side(m) \in Side)
  BY TypeFacts DEF Walk, side, Side
<1>1. ASSUME NEW s \in Side, NEW lv \in {0, 1}, NEW w \in NewWalk(s, lv)
      PROVE  w \in Walk /\ ~w.accepted
  <2>1. PICK a \in Word : w = [side |-> s, level |-> lv, addr |-> a, accepted |-> FALSE]
    BY DEF NewWalk
  <2>2. QED
    BY <2>1 DEF Walk
<1>2. fill' \in Side \cup {None} /\ (~mmu_walk_rvalid(m) => fill' = None)
  <2>1. CASE EndsWalk(m)
    <3>1. walk # None /\ mmu_walk_rvalid(m)
      BY <2>1 DEF EndsWalk
    <3>2. QED
      BY <1>0, <2>1, <3>1 DEF Walker
  <2>2. CASE ~EndsWalk(m)
    BY <2>2 DEF Walker
  <2>3. QED
    BY <2>1, <2>2
<1>3. CASE walk = None
  <2>1. walk' \in {None} \cup NewWalk("data", 1) \cup NewWalk("stale", 1) \cup NewWalk("instr", 1)
    BY <1>3 DEF Walker
  <2>2. QED
    BY <1>1, <1>2, <1>3, <2>1 DEF Side
<1>4. CASE walk # None /\ mmu_walk_rvalid(m)
  <2>1. walk' \in {None} \cup NewWalk(side(m), 0)
    BY <1>4 DEF Walker
  <2>2. QED
    BY <1>0, <1>1, <1>2, <1>4, <2>1
<1>5. CASE walk # None /\ ~mmu_walk_rvalid(m)
  <2>1. walk' = [walk EXCEPT !.side = side(m), !.accepted = @ \/ mmu_walk_gnt(m)]
    BY <1>5 DEF Walker
  <2>2. walk' \in Walk
    BY <1>0, <1>5, <2>1 DEF Walk
  <2>3. walk'.addr = walk.addr /\ walk'.accepted = (walk.accepted \/ mmu_walk_gnt(m))
    BY <1>0, <1>5, <2>1 DEF Walk
  <2>4. QED
    BY <1>2, <1>5, <2>2, <2>3, NoneAssumption
<1>6. QED
  BY <1>3, <1>4, <1>5

\* Only a walk that has been accepted, now or before, gets an answer.
LEMMA WalkerAsked ==
  ASSUME AnswerHasOwner, OwnersAgree, NEW m, mmu_walk_rvalid(m)
  PROVE  walk # None
  BY DEF AnswerHasOwner, OwnersAgree, mmu_walk_rvalid, data_bus_walk_owns, data_bus_walk_sel, walk_req

\* A cycle keeps the owner registers of top.v true to the accepted request.
LEMMA OwnersKept ==
  ASSUME TypeOK, AnswerHasOwner, OwnersAgree, WalkIsAwaited, BufferHoldsTheRest,
         NEW m \in Port, Cycle(m)
  PROVE  AnswerHasOwner' /\ OwnersAgree'
<1>0. Cache(m) /\ Owners(m) /\ Buffer(m) /\ Walker(m) /\ Pipeline(m) /\ Observe(m)
  BY DEF Cycle
<1>1. mmu_walk_rvalid(m) => walk # None
  BY WalkerAsked
<1>2. /\ walk # None /\ ~mmu_walk_rvalid(m) =>
           /\ walk' # None /\ walk'.addr = walk.addr
           /\ walk'.accepted <=> (walk.accepted \/ mmu_walk_gnt(m))
      /\ walk' # None /\ (walk = None \/ mmu_walk_rvalid(m)) => ~walk'.accepted
      /\ ~mmu_walk_rvalid(m) => fill' = None
  BY <1>0, <1>1, WalkKept
<1>3. CASE rvalid(m)
  <2>1. pend' = None /\ walk_owner_q' = FALSE /\ drain_owner_q' = FALSE
    BY <1>0, <1>3 DEF Cache, Owners, rvalid, gnt, Port
  <2>2. walk' # None => ~walk'.accepted
    <3>1. CASE walk = None \/ mmu_walk_rvalid(m)
      BY <1>2, <3>1
    <3>2. CASE walk # None /\ ~mmu_walk_rvalid(m)
      <4>1. ~data_bus_walk_owns(m)
        BY <1>3, <3>2 DEF mmu_walk_rvalid
      <4>2. ~walk.accepted /\ ~mmu_walk_gnt(m)
        BY <3>2, <4>1 DEF data_bus_walk_owns, mmu_walk_gnt, OwnersAgree
      <4>3. QED
        BY <1>2, <3>2, <4>2
    <3>3. QED
      BY <3>1, <3>2
  <2>3. QED
    BY <2>1, <2>2 DEF AnswerHasOwner, OwnersAgree
<1>4. CASE ~rvalid(m)
  <2>1. /\ mem' = mem /\ ~mmu_walk_rvalid(m) /\ fill' = None
        /\ ~drain_done(m)
    BY <1>0, <1>2, <1>4 DEF Cache, mmu_walk_rvalid, drain_done
  <2>2. /\ count # 0 => count' # 0 /\ head' = head
        /\ store_buf_push_req /\ count = 0 => count' # 0 /\ head' = acc
        /\ ~store_buf_push_req => count' = count
    BY <1>0, <1>4, HeadKept
  \* A load in MEM that is not answered stays there.
  <2>3. ASSUME acc # None, ~we(acc), xl # "fault" PROVE acc' = acc /\ mem_wait(m)
    <3>1. mem_wait(m)
      BY <1>4, <2>3 DEF mem_wait, cpu_data_rvalid
    <3>2. QED
      BY <1>0, <3>1 DEF Pipeline
  <2>4. CASE m = "idle"
    <3>1. /\ pend' = pend /\ walk_owner_q' = walk_owner_q /\ drain_owner_q' = drain_owner_q
          /\ ~gnt(m) /\ ~mmu_walk_gnt(m) /\ due' = due
      BY <1>0, <2>1, <2>4 DEF Cache, Owners, Observe, gnt, rvalid, mmu_walk_gnt
    <3>2. CASE pend = None
      BY <1>2, <2>1, <3>1, <3>2 DEF AnswerHasOwner, OwnersAgree
    <3>3. CASE pend # None /\ walk_owner_q
      <4>1. walk # None /\ walk.accepted /\ pend = Read(walk.addr) /\ ~drain_owner_q
        BY <3>3 DEF AnswerHasOwner
      <4>2. walk' # None /\ walk'.addr = walk.addr /\ walk'.accepted
        BY <1>2, <2>1, <4>1
      <4>3. QED
        BY <2>1, <3>1, <3>3, <4>1, <4>2 DEF AnswerHasOwner, OwnersAgree, Read
    <3>4. CASE pend # None /\ ~walk_owner_q /\ drain_owner_q
      <4>1. count # 0 /\ pend = head
        BY <3>4 DEF AnswerHasOwner, empty
      <4>2. count' # 0 /\ head' = head
        BY <2>2, <4>1
      <4>3. walk' # None => ~walk'.accepted
        BY <1>2, <2>1, <3>1, <3>4 DEF OwnersAgree
      <4>4. QED
        BY <3>1, <3>4, <4>1, <4>2, <4>3 DEF AnswerHasOwner, OwnersAgree, empty
    <3>5. CASE pend # None /\ ~walk_owner_q /\ ~drain_owner_q
      <4>1. acc # None /\ pend = acc /\ ~we(acc) /\ empty /\ xl # "fault" /\ fill = None
        BY <3>5 DEF AnswerHasOwner, OwnersAgree
      <4>2. acc' = acc /\ mem_wait(m)
        BY <2>3, <4>1
      <4>3. xl' = xl
        <5>1. xl' \in Translation(m)
          BY <1>0, <4>2 DEF Pipeline
        <5>2. ~EndsWalk(m) /\ fill # "data"
          BY <2>1, <4>1, NoneAssumption DEF EndsWalk, Side
        <5>3. QED
          BY <4>1, <5>1, <5>2 DEF Translation
      <4>4. count' = count
        BY <2>2, <4>1 DEF store_buf_push_req
      <4>5. walk' # None => ~walk'.accepted
        BY <1>2, <2>1, <3>1, <3>5 DEF OwnersAgree
      <4>6. we(acc') = we(acc)
        BY <4>2
      <4>7. QED
        BY <2>1, <3>1, <3>5, <4>1, <4>2, <4>3, <4>4, <4>5, <4>6
        DEF AnswerHasOwner, OwnersAgree, empty, we, MP!we
    <3>6. QED
      BY <3>2, <3>3, <3>4, <3>5
  <2>5. CASE m = "accept"
    <3>1. /\ pend = None /\ dcache_req /\ pend' = dcache_request /\ gnt(m)
          /\ dcache_request.addr \in Device
          /\ ~walk_owner_q /\ ~drain_owner_q
          /\ walk_owner_q' = data_bus_walk_sel /\ drain_owner_q' = data_bus_drain_sel
          /\ due' = IF data_bus_walk_sel THEN arch[walk.addr] ELSE due
      BY <1>0, <1>4, <2>1, <2>5 DEF Cache, Owners, Observe, gnt, rvalid, OwnersAgree
    <3>2. pend' # None
      BY <3>1, RequestType, AccessFacts
    <3>3. CASE data_bus_walk_sel
      <4>1. walk # None /\ empty /\ ~data_bus_drain_sel /\ pend' = Read(walk.addr)
        BY <3>1, <3>3
        DEF data_bus_walk_sel, walk_req, drain_req, data_bus_drain_sel, dcache_request
      <4>2. walk' # None /\ walk'.addr = walk.addr /\ walk'.accepted
        BY <1>2, <2>1, <3>1, <3>3, <4>1 DEF mmu_walk_gnt
      <4>3. mem[walk.addr] = arch[walk.addr]
        BY <4>1, TypeFacts, EmptyIsUnmatched, UnmatchedIsCurrent
      <4>4. QED
        BY <2>1, <3>1, <3>2, <3>3, <4>1, <4>2, <4>3 DEF AnswerHasOwner, OwnersAgree, Read
    <3>4. CASE ~data_bus_walk_sel
      <4>0. walk' # None => ~walk'.accepted
        BY <1>2, <2>1, <3>1, <3>4 DEF OwnersAgree, mmu_walk_gnt
      <4>1. CASE data_bus_drain_sel
        <5>1. pend' = (IF empty THEN acc ELSE head) /\ (empty => store_buf_push_req)
          BY <3>1, <3>4, <4>1 DEF dcache_request, drain_write, data_bus_drain_sel, drain_req
        <5>2. count' # 0 /\ head' = pend'
          BY <2>2, <5>1 DEF empty
        <5>3. QED
          BY <3>1, <3>2, <3>4, <4>0, <4>1, <5>2 DEF AnswerHasOwner, OwnersAgree, empty
      <4>2. CASE ~data_bus_drain_sel
        <5>1. cpu_load_go /\ pend' = acc
          BY <3>1, <3>4, <4>2 DEF dcache_req, dcache_request
        <5>2. acc # None /\ ~we(acc) /\ xl = "ready" /\ empty
          BY <3>1, <5>1, <3>4, <4>2 DEF cpu_load_go, cpu_data_bus_req, dcache_request
        <5>3. acc' = acc /\ mem_wait(m)
          BY <2>3, <5>2
        <5>4. count' = count
          BY <2>2, <5>2 DEF store_buf_push_req
        <5>5. xl' # "fault"
          <6>1. xl' \in Translation(m)
            BY <1>0, <5>3 DEF Pipeline
          <6>2. fill # "data"
            BY <5>2 DEF WalkIsAwaited
          <6>3. QED
            BY <2>1, <5>2, <6>1, <6>2 DEF Translation, EndsWalk
        <5>6. QED
          BY <2>1, <3>1, <3>2, <3>4, <4>0, <4>2, <5>1, <5>2, <5>3, <5>4, <5>5
          DEF AnswerHasOwner, OwnersAgree, empty, we, MP!we
      <4>3. QED
        BY <4>1, <4>2
    <3>5. QED
      BY <3>3, <3>4
  <2>6. QED
    BY <1>4, <2>4, <2>5 DEF Port, rvalid
<1>5. QED
  BY <1>3, <1>4

\* A cycle keeps the expected value of the accepted PTE read right.
LEMMA AwaitedKept ==
  ASSUME TypeOK, AnswerHasOwner, OwnersAgree, WalkIsAwaited, NEW m \in Port, Cycle(m)
  PROVE  WalkIsAwaited'
<1>0. Walker(m) /\ Pipeline(m) /\ walk \in Walk \cup {None} /\ (mmu_walk_rvalid(m) => walk # None)
  BY WalkerAsked, TypeFacts DEF Cycle
<1>1. mem_wait(m) => acc # None /\ acc' = acc /\ xl' \in Translation(m)
  BY <1>0 DEF Pipeline, mem_wait
<1>n. None # "data" /\ None \notin Walk
  BY NoneAssumption DEF Side
<1>2. fill' # None => walk' = None
  BY <1>0 DEF Walker, EndsWalk
<1>3. ASSUME walk' # None, walk'.side = "data" PROVE acc' # None /\ xl' = "miss"
  <2>1. ~EndsWalk(m)
    BY <1>3 DEF EndsWalk
  <2>2. mem_wait(m) /\ xl = "miss" /\ fill = None
    <3>1. CASE walk = None
      <4>1. fill = None
        BY <1>0, <1>3, <3>1 DEF Walker
      <4>2. CASE acc # None /\ xl = "miss"
        <5>1. walk' \in NewWalk(IF mem_wait(m) THEN "data" ELSE "stale", 1)
          BY <1>0, <3>1, <4>1, <4>2 DEF Walker
        <5>2. walk'.side = IF mem_wait(m) THEN "data" ELSE "stale"
          BY <5>1 DEF NewWalk
        <5>3. QED
          BY <1>3, <4>1, <4>2, <5>2
      <4>3. CASE ~(acc # None /\ xl = "miss")
        <5>1. walk' \in NewWalk("instr", 1)
          BY <1>0, <1>3, <3>1, <4>1, <4>3 DEF Walker
        <5>2. walk'.side = "instr"
          BY <5>1 DEF NewWalk
        <5>3. QED
          BY <1>3, <5>2
      <4>4. QED
        BY <4>2, <4>3
    <3>2. CASE walk # None
      <4>1. walk'.side = side(m)
        <5>1. CASE mmu_walk_rvalid(m)
          <6>1. walk' \in NewWalk(side(m), 0)
            BY <1>0, <1>3, <3>2, <5>1 DEF Walker
          <6>2. QED
            BY <6>1 DEF NewWalk
        <5>2. CASE ~mmu_walk_rvalid(m)
          <6>1. walk' = [walk EXCEPT !.side = side(m), !.accepted = @ \/ mmu_walk_gnt(m)]
            BY <1>0, <3>2, <5>2 DEF Walker
          <6>2. QED
            BY <1>0, <3>2, <6>1 DEF Walk
        <5>3. QED
          BY <5>1, <5>2
      <4>2. mem_wait(m) /\ walk.side = "data"
        BY <1>3, <4>1 DEF side
      <4>3. QED
        BY <3>2, <4>2 DEF WalkIsAwaited
    <3>3. QED
      BY <3>1, <3>2
  <2>3. QED
    BY <1>1, <1>n, <2>1, <2>2 DEF Translation
<1>4. ASSUME fill' = "data" PROVE acc' # None /\ xl' = "miss"
  <2>1. EndsWalk(m) /\ side(m) = "data"
    BY <1>0, <1>4, <1>n DEF Walker
  <2>2. walk # None /\ mem_wait(m) /\ walk.side = "data"
    BY <1>0, <2>1 DEF EndsWalk, side
  <2>3. xl = "miss" /\ fill = None
    BY <2>2 DEF WalkIsAwaited
  <2>4. QED
    BY <1>1, <1>4, <1>n, <2>2, <2>3 DEF Translation
<1>5. QED
  BY <1>2, <1>3, <1>4 DEF WalkIsAwaited

-----------------------------------------------------------------------------
\* A cycle keeps every register of the bus in its type.
LEMMA TypeKept ==
  ASSUME Inv, NEW m \in Port, Cycle(m)
  PROVE  TypeOK'
<1>0. /\ TypeOK /\ AnswerHasOwner /\ OwnersAgree /\ WalkIsAwaited /\ BufferHoldsTheRest
      /\ Cache(m) /\ Owners(m) /\ Walker(m) /\ Pipeline(m) /\ Observe(m)
  BY DEF Inv, Cycle
<1>1. BufTypeOK' /\ mem' \in [Word -> Data] /\ arch' \in [Word -> Data]
  BY <1>0, CycleCases, StorageType
<1>2. pend' \in Access \cup {None}
  <2>1. CASE m = "accept"
    <3>1. dcache_req /\ pend' = dcache_request
      BY <1>0, <2>1 DEF Cache, gnt
    <3>2. QED
      BY <1>0, <3>1, RequestType
  <2>2. CASE m # "accept"
    <3>1. pend \in Access \cup {None}
      BY <1>0 DEF TypeOK
    <3>2. QED
      BY <1>0, <2>2, <3>1 DEF Cache
  <2>3. QED
    BY <2>1, <2>2
<1>3. walk_owner_q' \in BOOLEAN /\ drain_owner_q' \in BOOLEAN
  <2>1. /\ walk_owner_q \in BOOLEAN /\ drain_owner_q \in BOOLEAN
        /\ data_bus_walk_sel \in BOOLEAN /\ data_bus_drain_sel \in BOOLEAN
    BY <1>0 DEF TypeOK, data_bus_walk_sel, data_bus_drain_sel
  <2>2. QED
    BY <1>0, <2>1 DEF Owners
<1>4. walk' \in Walk \cup {None} /\ fill' \in Side \cup {None}
  BY <1>0, WalkKept, WalkerAsked
<1>5. got' \in [by : {"cpu", "walk"}, data : Data, want : Data] \cup {None}
  BY <1>0, ReadsKept
<1>6. due' \in Data \cup {None}
  <2>1. data_bus_walk_sel => arch[walk.addr] \in Data
    BY <1>0, TypeFacts DEF data_bus_walk_sel, walk_req
  <2>2. due \in Data \cup {None}
    BY <1>0 DEF TypeOK
  <2>3. QED
    BY <1>0, <2>1, <2>2 DEF Observe
<1>7. acc' \in Access \cup {None} /\ xl' \in {"ready", "miss", "fault"}
  <2>1. acc \in Access \cup {None} /\ xl \in {"ready", "miss", "fault"}
    BY <1>0 DEF TypeOK
  <2>2. Translation(m) \subseteq {"ready", "miss", "fault"}
    BY <2>1 DEF Translation
  <2>3. QED
    BY <1>0, <2>1, <2>2 DEF Pipeline
<1>8. fetch_miss' \in BOOLEAN /\ fence' \in BOOLEAN
  <2>1. fetch_miss \in BOOLEAN /\ fence \in BOOLEAN /\ fence_drain_stall(m) \in BOOLEAN
    BY <1>0 DEF TypeOK, fence_drain_stall
  <2>2. QED
    BY <1>0, <2>1 DEF Pipeline
<1>9. QED
  BY <1>1, <1>2, <1>3, <1>4, <1>5, <1>6, <1>7, <1>8 DEF TypeOK

\* Reset establishes the inductive invariant.
LEMMA InitInv == Init => Inv
<1> SUFFICES ASSUME Init PROVE Inv
  OBVIOUS
<1>1. BufTypeOK /\ count = 0
  BY InitBufTypeOK DEF Init, BufInit
<1>2. TypeOK
  BY <1>1 DEF Init, TypeOK
<1>3. AnswerHasOwner /\ OwnersAgree /\ ReadsAreCurrent
  BY DEF Init, AnswerHasOwner, OwnersAgree, ReadsAreCurrent
<1>4. WalkIsAwaited
  BY NoneAssumption DEF Init, WalkIsAwaited, Side
<1>5. BufferHoldsTheRest
  <2>1. \A a, l : Writers(a, l) = {}
    BY <1>1 DEF Writers, Slot
  <2>2. QED
    BY <2>1 DEF BufferHoldsTheRest, ByteHeld, Init
<1>6. QED
  BY <1>2, <1>3, <1>4, <1>5 DEF Inv

\* Every clock edge keeps the inductive invariant.
LEMMA NextInv == Inv /\ [Next]_vars => Inv'
<1> SUFFICES ASSUME Inv, [Next]_vars PROVE Inv'
  OBVIOUS
<1>0. TypeOK /\ AnswerHasOwner /\ OwnersAgree /\ WalkIsAwaited /\ BufferHoldsTheRest
  BY DEF Inv
<1>1. ASSUME NEW m \in Port, Cycle(m) PROVE Inv'
  <2>1. TypeOK'
    BY <1>1, TypeKept
  <2>2. AnswerHasOwner' /\ OwnersAgree'
    BY <1>0, <1>1, OwnersKept
  <2>3. WalkIsAwaited'
    BY <1>0, <1>1, AwaitedKept
  <2>4. BufferHoldsTheRest'
    BY <1>0, <1>1, CycleCases, RestKept
  <2>5. ReadsAreCurrent'
    BY <1>0, <1>1, ReadsKept
  <2>6. QED
    BY <2>1, <2>2, <2>3, <2>4, <2>5 DEF Inv
<1>2. CASE UNCHANGED vars
  BY <1>2 DEF vars, bufvars, cpuvars, Inv, TypeOK, BufTypeOK, AnswerHasOwner, OwnersAgree,
     WalkIsAwaited, BufferHoldsTheRest, ByteHeld, Writers, ReadsAreCurrent, head, empty, we, MP!we
<1>3. QED
  BY <1>1, <1>2 DEF Next

\* The inductive invariant holds in every reachable state of the bus.
THEOREM Invariance == Spec => []Inv
  BY InitInv, NextInv, PTL DEF Spec

\* Whatever the depth of the buffer and the latency of the cache, a load of
\* the core and a PTE read of the walker return what the program had written.
THEOREM ReadsCurrent == Spec => []ReadsAreCurrent
<1>1. Inv => ReadsAreCurrent
  BY DEF Inv
<1>2. QED
  BY <1>1, Invariance, PTL

\* Memory plus buffer are the program's memory, and the accepted request
\* belongs to the master the owner registers name.
THEOREM BusInvariants == Spec => [](TypeOK /\ BusAccounts)
<1>1. Inv => TypeOK /\ BusAccounts
  BY DEF Inv, BusAccounts
<1>2. QED
  BY <1>1, Invariance, PTL

-----------------------------------------------------------------------------
(* The bus as a FIFO of writes.                                            *)

\* Every clock edge of the bus is a step of the FIFO of writes.
LEMMA BusStepRefines == Inv /\ [Next]_vars => [WQ!Next]_(WQ!vars)
<1> SUFFICES ASSUME Inv, [Next]_vars PROVE [WQ!Next]_(WQ!vars)
  OBVIOUS
<1>0. TypeOK /\ AnswerHasOwner /\ OwnersAgree
  BY DEF Inv
<1>1. RegsOK /\ count \in 0 .. Depth /\ Depth \in Nat /\ Len(Queue) = count
  BY <1>0, TypeFacts, QueueIsSeq DEF QueueOK
<1>2. CASE QuietStep
  BY <1>1, <1>2, QueueEffect DEF QuietStep, WQ!Next, WQ!Quiet
<1>3. CASE PushStep
  <2>1. acc \in Entry /\ count # Depth /\ Clock(TRUE, acc, FALSE) /\ in' = acc /\ out' = None
    BY <1>3 DEF PushStep
  <2>2. Queue' = Append(Queue, acc)
    BY <1>1, <2>1, QueueEffect
  <2>3. Len(Queue) < Depth
    BY <1>1, <1>3 DEF PushStep
  <2>4. WQ!Enqueue(acc)
    BY <2>1, <2>2, <2>3 DEF WQ!Enqueue
  <2>5. QED
    BY <2>1, <2>4 DEF WQ!Next
<1>4. CASE PopStep
  BY <1>1, <1>4, QueueEffect DEF PopStep, WQ!Next, WQ!Dequeue
<1>5. CASE PushPopStep
  <2>1. WQ!Exchange(acc) /\ acc \in Entry
    BY <1>1, <1>5, QueueEffect DEF PushPopStep, WQ!Exchange
  <2>2. QED
    BY <2>1 DEF WQ!Next
<1>6. CASE PassStep
  <2>1. WQ!PassThrough(acc) /\ acc \in Entry
    BY <1>1, <1>6, QueueEffect DEF PassStep, WQ!PassThrough
  <2>2. QED
    BY <2>1 DEF WQ!Next
<1>7. CASE UNCHANGED vars
  BY <1>7 DEF vars, bufvars, WQ!vars, Queue
<1>8. QED
  BY <1>0, <1>2, <1>3, <1>4, <1>5, <1>6, <1>7, CycleCases DEF Next

\* Every write the core hands over is performed exactly once and in program
\* order, whether it passes through an empty buffer in its own cycle or waits
\* behind others, and never more than Depth of them wait.
THEOREM BusIsFifo == Spec => RefinesQueue
<1>1. Init => WQ!Init
  BY InitRefines DEF Init
<1>2. QED
  BY <1>1, Invariance, BusStepRefines, PTL DEF Spec, RefinesQueue, WQ!Spec

-----------------------------------------------------------------------------
(* FENCE.                                                                  *)

\* With an empty buffer the memory is the program's memory.
Settled == count = 0 => mem = arch

\* With an empty buffer the memory is what the program wrote.
LEMMA InvSettled == Inv => Settled
<1> SUFFICES ASSUME Inv, count = 0 PROVE mem = arch
  BY DEF Settled
<1>1. TypeOK /\ BufferHoldsTheRest /\ empty
  BY DEF Inv, empty
<1>2. mem \in [Word -> Data] /\ arch \in [Word -> Data]
  BY <1>1 DEF TypeOK
<1>3. \A a \in Word : mem[a] = arch[a]
  BY <1>1, EmptyIsUnmatched, UnmatchedIsCurrent
<1>4. QED
  BY <1>2, <1>3

\* The cycle that lets the FENCE leave EX leaves nothing in the buffer.
LEMMA FenceStep == Inv /\ Inv' /\ Next => (FenceLeaves => count' = 0 /\ mem' = arch')
<1> SUFFICES ASSUME Inv, Inv', Next, FenceLeaves PROVE count' = 0 /\ mem' = arch'
  OBVIOUS
<1>1. PICK m \in Port : Cycle(m)
  BY DEF Next
<1>2. RegsOK /\ count \in 0 .. Depth
  BY TypeFacts DEF Inv
<1>3. ~fence_drain_stall(m)
  <2>1. ~mem_wait(m)
    BY <1>1 DEF Cycle, Pipeline, FenceLeaves
  <2>2. fence' = fence_drain_stall(m)
    BY <1>1, <2>1 DEF Cycle, Pipeline, FenceLeaves
  <2>3. QED
    BY <2>2 DEF FenceLeaves
<1>4. tail(store_buf_pop(m)) = 0 /\ ~store_buf_push(m)
  BY <1>3 DEF fence_drain_stall, FenceLeaves, drained
<1>5. Clock(store_buf_push(m), acc, store_buf_pop(m))
  BY <1>1 DEF Cycle, Buffer
<1>6. count' = (tail(store_buf_pop(m)) + 0) % CountModulus
  BY <1>4, <1>5 DEF Clock
<1>7. CountModulus \in {2, 4, 8, 16, 256}
  BY DEF CountModulus
<1>8. count' = 0
  BY <1>4, <1>6, <1>7
<1>9. Settled'
  BY InvSettled, PTL
<1>10. QED
  BY <1>8, <1>9 DEF Settled

\* A FENCE that leaves EX leaves an empty buffer and a memory that holds every
\* older write, although drained looks at the cycle's own push and pop.
THEOREM FencesDrain == Spec => FenceDrains
<1>1. Inv /\ Inv' /\ [Next]_vars => [FenceLeaves => count' = 0 /\ mem' = arch']_vars
  BY FenceStep
<1>2. QED
  BY <1>1, Invariance, PTL DEF Spec, FenceDrains
=============================================================================
