----------------------------- MODULE Uart_proofs ----------------------------
(***************************************************************************)
(* Theorems about the UART, for bytes of any width, FIFOs of any depth and *)
(* any divisor: what its status bits and its interrupt say is true, the    *)
(* line carries what software wrote, and software reads what arrived.      *)
(***************************************************************************)
EXTENDS Uart, SequenceTheorems, TLAPS

-----------------------------------------------------------------------------
(* The ring buffers.                                                       *)

\* The k-th slot from the head, and how it wraps.
At(head, k) == (head + k) % Depth

\* A slot further on, without the modulus.
LEMMA Wrap ==
  ASSUME NEW h \in Slot, NEW k \in 0 .. Depth
  PROVE  At(h, k) = (IF h + k < Depth THEN h + k ELSE h + k - Depth) /\ At(h, k) \in Slot
  <1>1. Depth \in Nat /\ Depth > 0 /\ h \in Nat /\ h < Depth /\ k \in Nat /\ k <= Depth
    BY UartAssumption DEF Slot
  <1>2. CASE h + k < Depth
    <2>1. (h + k) % Depth = h + k
      BY <1>1, <1>2
    <2> QED BY <1>1, <1>2, <2>1 DEF At, Slot
  <1>3. CASE ~(h + k < Depth)
    <2>1. (h + k) % Depth = h + k - Depth
      BY <1>1, <1>3
    <2> QED BY <1>1, <1>3, <2>1 DEF At, Slot
  <1> QED BY <1>2, <1>3

\* Slots from a head that moves by p, and a tail that moves by q.
LEMMA WrapAgain ==
  ASSUME NEW h \in Slot, NEW c \in 0 .. Depth, NEW p \in {0, 1}, NEW q \in {0, 1}, p <= c, c - p + q <= Depth
  PROVE  /\ At(At(h, p), c - p) = At(h, c)
         /\ At(At(h, p), c - p + q) = At(At(h, c), q)
         /\ At(h, 0) = h
  <1>1. Depth \in Nat /\ Depth > 0 /\ h \in Nat /\ h < Depth /\ c \in Nat /\ c <= Depth
    BY UartAssumption DEF Slot
  <1>2. p \in 0 .. Depth /\ q \in 0 .. Depth /\ c - p \in 0 .. Depth /\ c - p + q \in 0 .. Depth /\ 0 \in 0 .. Depth
    BY <1>1
  <1>3. PICK x, y : x = At(h, p) /\ y = At(h, c)
    OBVIOUS
  <1>4. x \in Slot /\ x = (IF h + p < Depth THEN h + p ELSE h + p - Depth)
    BY <1>2, <1>3, Wrap
  <1>5. y \in Slot /\ y = (IF h + c < Depth THEN h + c ELSE h + c - Depth)
    BY <1>3, Wrap
  <1>6. x \in Nat /\ y \in Nat /\ x < Depth /\ y < Depth
    BY <1>1, <1>4, <1>5 DEF Slot
  <1>7. At(x, c - p) = IF x + (c - p) < Depth THEN x + (c - p) ELSE x + (c - p) - Depth
    BY <1>2, <1>4, Wrap
  <1>8. At(x, c - p + q) = IF x + (c - p + q) < Depth THEN x + (c - p + q) ELSE x + (c - p + q) - Depth
    BY <1>2, <1>4, Wrap
  <1>9. At(y, q) = IF y + q < Depth THEN y + q ELSE y + q - Depth
    BY <1>2, <1>5, Wrap
  <1>10. At(x, c - p) = y
    BY <1>1, <1>4, <1>5, <1>6, <1>7
  <1>11. At(x, c - p + q) = At(y, q)
    BY <1>1, <1>4, <1>5, <1>6, <1>8, <1>9
  <1>12. At(h, 0) = h
    <2>1. h + 0 = h
      BY <1>1
    <2> QED BY <1>1, <1>2, <2>1, Wrap
  <1> QED BY <1>3, <1>10, <1>11, <1>12

Ring(f) == f \in FifoType /\ f.tail = At(f.head, f.count)

\* What a push, a pop and a clear do to a queue.
Queue(s, push, b, pop, clear) ==
  LET rest == IF pop THEN Tail(s) ELSE s
  IN  IF clear THEN << >> ELSE IF push THEN Append(rest, b) ELSE rest

\* What a FIFO holds, read from its head.
LEMMA RingContents ==
  ASSUME NEW f, Ring(f)
  PROVE  /\ Contents(f) \in Seq(Byte) /\ Len(Contents(f)) = f.count /\ f.count \in 0 .. Depth
         /\ \A i \in 1 .. f.count : Contents(f)[i] = f.mem[At(f.head, i - 1)]
         /\ f.count > 0 => Contents(f) # << >> /\ Head(Contents(f)) = f.mem[f.head] /\ f.mem[f.head] \in Byte
         /\ f.count = 0 => Contents(f) = << >>
  <1>1. /\ f.count \in 0 .. Depth /\ f.count \in Nat /\ f.head \in Slot /\ f.mem \in [Slot -> Byte]
        /\ Depth \in Nat
    BY UartAssumption DEF Ring, FifoType
  <1>2. \A i \in 1 .. f.count : (f.head + i - 1) % Depth = At(f.head, i - 1) /\ At(f.head, i - 1) \in Slot
    <2> SUFFICES ASSUME NEW i \in 1 .. f.count
                 PROVE  (f.head + i - 1) % Depth = At(f.head, i - 1) /\ At(f.head, i - 1) \in Slot
      OBVIOUS
    <2>1. i - 1 \in 0 .. Depth /\ f.head + i - 1 = f.head + (i - 1)
      BY <1>1 DEF Slot
    <2> QED BY <1>1, <2>1, Wrap DEF At
  <1>3. Contents(f) = [i \in 1 .. f.count |-> f.mem[At(f.head, i - 1)]]
    BY <1>2 DEF Contents
  <1>4. Contents(f) \in Seq(Byte) /\ Len(Contents(f)) = f.count
    <2>1. \A i \in 1 .. f.count : f.mem[At(f.head, i - 1)] \in Byte
      BY <1>1, <1>2
    <2>2. Contents(f) \in [1 .. f.count -> Byte]
      BY <1>3, <2>1
    <2> QED BY <1>1, <2>2, LenProperties
  <1>5. f.count > 0 => Contents(f)[1] = f.mem[f.head] /\ f.mem[f.head] \in Byte
    <2> SUFFICES ASSUME f.count > 0 PROVE Contents(f)[1] = f.mem[f.head] /\ f.mem[f.head] \in Byte
      OBVIOUS
    <2>1. 1 \in 1 .. f.count /\ 1 - 1 = 0 /\ 0 \in 0 .. Depth
      BY <1>1
    <2>2. At(f.head, 0) = f.head
      <3>1. f.head + 0 = f.head /\ f.head < Depth
        BY <1>1 DEF Slot
      <3> QED BY <1>1, <2>1, <3>1, Wrap
    <2> QED BY <1>1, <1>3, <2>1, <2>2
  <1>6. f.count > 0 => Contents(f) # << >> /\ Head(Contents(f)) = Contents(f)[1]
    BY <1>4, EmptySeq
  <1>7. f.count = 0 => Contents(f) = << >>
    BY <1>4, EmptySeq
  <1> QED BY <1>1, <1>3, <1>4, <1>5, <1>6, <1>7

\* g is fifo f after an edge, with the pointers written as slots from the head.
Moved(f, push, b, pop, clear, g) ==
  /\ Ring(g)
  /\ g.count = IF clear THEN 0 ELSE IF push /\ ~pop THEN f.count + 1 ELSE IF ~push /\ pop THEN f.count - 1 ELSE f.count
  /\ ~clear => g.head = IF pop THEN At(f.head, 1) ELSE f.head
  /\ g.mem = IF push THEN [f.mem EXCEPT ![At(f.head, f.count)] = b] ELSE f.mem

\* What push, pop and clear do to the contents.
LEMMA FifoMoves ==
  ASSUME NEW f, Ring(f), NEW push \in BOOLEAN, NEW pop \in BOOLEAN, NEW clear \in BOOLEAN, NEW b,
         push => b \in Byte /\ (f.count # Depth \/ pop), pop => f.count # 0
  PROVE  Moved(f, push, b, pop, clear, Fifo(f, push, b, pop, clear))
  <1>0. PICK g : g = Fifo(f, push, b, pop, clear)
    OBVIOUS
  <1>1. /\ f.count \in 0 .. Depth /\ f.count \in Nat /\ f.head \in Slot /\ f.mem \in [Slot -> Byte]
        /\ f.tail = At(f.head, f.count) /\ f.tail \in Slot /\ Depth \in Nat /\ Depth > 0
    BY UartAssumption DEF Ring, FifoType
  <1>2. 0 \in Slot /\ 1 \in 0 .. Depth /\ 0 \in 0 .. Depth /\ 0 \in {0, 1} /\ 0 <= 0 /\ 0 - 0 + 0 <= Depth /\ At(0, 0) = 0
    <2>1. 0 \in Slot /\ 1 \in 0 .. Depth /\ 0 \in 0 .. Depth /\ 0 + 0 = 0 /\ 0 < Depth
      BY <1>1 DEF Slot
    <2> QED BY <1>1, <2>1, Wrap
  <1>3. g.count = IF clear THEN 0 ELSE IF push /\ ~pop THEN f.count + 1 ELSE IF ~push /\ pop THEN f.count - 1 ELSE f.count
    BY <1>0 DEF Fifo
  <1>4. g.count \in 0 .. Depth
    BY <1>1, <1>3
  <1>5. g.mem = (IF push THEN [f.mem EXCEPT ![At(f.head, f.count)] = b] ELSE f.mem) /\ g.mem \in [Slot -> Byte]
    BY <1>0, <1>1 DEF Fifo
  <1>6. g.head = IF clear THEN 0 ELSE IF pop THEN At(f.head, 1) ELSE f.head
    BY <1>0 DEF Fifo, At
  <1>7. g.tail = IF clear THEN 0 ELSE IF push THEN (f.tail + 1) % Depth ELSE f.tail
    BY <1>0 DEF Fifo
  <1>8. g.head \in Slot
    BY <1>1, <1>2, <1>6, Wrap
  <1>9. g.tail = At(g.head, g.count) /\ g.tail \in Slot
    <2>1. CASE clear
      BY <1>2, <1>3, <1>6, <1>7, <2>1
    <2>2. CASE ~clear
      <3>1. PICK p, q : p = (IF pop THEN 1 ELSE 0) /\ q = (IF push THEN 1 ELSE 0)
        OBVIOUS
      <3>2. p \in {0, 1} /\ q \in {0, 1} /\ p <= f.count
        BY <1>1, <3>1
      <3>3. g.count = f.count - p + q
        BY <1>1, <1>3, <2>2, <3>1
      <3>4. g.head = At(f.head, p)
        <4>1. At(f.head, 0) = f.head
          BY <1>1, <1>2, WrapAgain
        <4> QED BY <1>6, <2>2, <3>1, <4>1
      <3>5. g.tail = At(f.tail, q)
        <4>1. At(f.tail, 0) = f.tail
          BY <1>1, <1>2, WrapAgain
        <4> QED BY <1>7, <2>2, <3>1, <4>1 DEF At
      <3>6. f.count - p + q <= Depth
        BY <1>4, <3>3
      <3>7. At(At(f.head, p), f.count - p + q) = At(At(f.head, f.count), q)
        BY <1>1, <3>2, <3>6, WrapAgain
      <3>8. q \in 0 .. Depth
        BY <1>1, <3>2
      <3> QED BY <1>1, <3>3, <3>4, <3>5, <3>7, <3>8, Wrap
    <2> QED BY <2>1, <2>2
  <1>10. g = [mem |-> g.mem, head |-> g.head, tail |-> g.tail, count |-> g.count]
    BY <1>0 DEF Fifo
  <1>11. Ring(g)
    BY <1>4, <1>5, <1>8, <1>9, <1>10 DEF Ring, FifoType
  <1> QED BY <1>0, <1>3, <1>5, <1>6, <1>11 DEF Moved

\* A ring buffer is a queue.
LEMMA RingIsQueue ==
  ASSUME NEW f, Ring(f), NEW push \in BOOLEAN, NEW pop \in BOOLEAN, NEW clear \in BOOLEAN, NEW b,
         push => b \in Byte /\ (f.count # Depth \/ pop), pop => f.count # 0
  PROVE  /\ Ring(Fifo(f, push, b, pop, clear))
         /\ Contents(Fifo(f, push, b, pop, clear)) = Queue(Contents(f), push, b, pop, clear)
  <1>1. PICK g : g = Fifo(f, push, b, pop, clear)
    OBVIOUS
  <1>2. /\ Ring(g)
        /\ g.count = IF clear THEN 0 ELSE IF push /\ ~pop THEN f.count + 1 ELSE IF ~push /\ pop THEN f.count - 1 ELSE f.count
        /\ ~clear => g.head = IF pop THEN At(f.head, 1) ELSE f.head
        /\ g.mem = IF push THEN [f.mem EXCEPT ![At(f.head, f.count)] = b] ELSE f.mem
    <2>1. Moved(f, push, b, pop, clear, g)
      BY <1>1, FifoMoves
    <2> QED BY <2>1 DEF Moved
  <1>3. PICK c, d : c = Contents(f) /\ d = Contents(g)
    OBVIOUS
  <1>4. /\ c \in Seq(Byte) /\ Len(c) = f.count /\ f.count \in 0 .. Depth
        /\ \A i \in 1 .. f.count : c[i] = f.mem[At(f.head, i - 1)]
    BY <1>3, RingContents
  <1>5. /\ d \in Seq(Byte) /\ Len(d) = g.count /\ g.count \in 0 .. Depth
        /\ \A i \in 1 .. g.count : d[i] = g.mem[At(g.head, i - 1)]
    BY <1>2, <1>3, RingContents
  <1> SUFFICES Ring(g) /\ d = Queue(c, push, b, pop, clear)
    BY <1>1, <1>3
  <1>6. CASE clear
    BY <1>2, <1>5, <1>6, EmptySeq DEF Queue
  <1>7. CASE ~clear
    <2>1. PICK rest : rest = IF pop THEN Tail(c) ELSE c
      OBVIOUS
    <2>2. PICK p : p = IF pop THEN 1 ELSE 0
      OBVIOUS
    <2>3. p \in {0, 1} /\ p <= f.count /\ f.count \in Nat /\ Depth \in Nat
      BY <2>2, <1>4, UartAssumption
    <2>4. rest \in Seq(Byte) /\ Len(rest) = f.count - p /\ \A i \in 1 .. f.count - p : rest[i] = c[i + p]
      <3>1. CASE pop
        <4>1. c # << >>
          BY <1>4, <3>1, EmptySeq
        <4> QED BY <1>4, <2>1, <2>2, <3>1, <4>1, HeadTailProperties
      <3>2. CASE ~pop
        BY <1>4, <2>1, <2>2, <2>3, <3>2
      <3> QED BY <3>1, <3>2
    <2>5. ASSUME NEW i \in 1 .. f.count - p PROVE d[i] = rest[i]
      <3>1. i \in 1 .. g.count /\ i + p \in 1 .. f.count /\ i - 1 \in 0 .. Depth /\ i + p - 1 \in 0 .. Depth
        BY <1>2, <1>4, <1>7, <2>2, <2>3
      <3>2. f.head \in Slot /\ f.head \in Nat /\ f.head < Depth /\ f.mem \in [Slot -> Byte]
        BY UartAssumption DEF Ring, FifoType, Slot
      <3>3. At(g.head, i - 1) = At(f.head, i + p - 1)
        <4>1. g.head \in Slot
          BY <1>2 DEF Ring, FifoType
        <4>2. At(g.head, i - 1) = IF g.head + (i - 1) < Depth THEN g.head + (i - 1) ELSE g.head + (i - 1) - Depth
          BY <3>1, <4>1, Wrap
        <4>3. At(f.head, i + p - 1) = IF f.head + (i + p - 1) < Depth THEN f.head + (i + p - 1) ELSE f.head + (i + p - 1) - Depth
          BY <3>1, <3>2, Wrap
        <4>4. g.head = IF pop THEN IF f.head + 1 < Depth THEN f.head + 1 ELSE f.head + 1 - Depth ELSE f.head
          <5>1. 1 \in 0 .. Depth
            BY UartAssumption
          <5> QED BY <1>2, <1>7, <3>2, <5>1, Wrap
        <4> QED BY <2>2, <2>3, <3>1, <3>2, <4>2, <4>3, <4>4
      <3>4. g.mem[At(f.head, i + p - 1)] = f.mem[At(f.head, i + p - 1)]
        <4>1. CASE push
          <5>1. At(f.head, i + p - 1) \in Slot /\ At(f.head, f.count) \in Slot
            BY <1>4, <3>1, <3>2, Wrap
          <5>2. At(f.head, i + p - 1) # At(f.head, f.count)
            <6>1. At(f.head, i + p - 1) = IF f.head + (i + p - 1) < Depth THEN f.head + (i + p - 1) ELSE f.head + (i + p - 1) - Depth
              BY <3>1, <3>2, Wrap
            <6>2. At(f.head, f.count) = IF f.head + f.count < Depth THEN f.head + f.count ELSE f.head + f.count - Depth
              BY <1>4, <3>2, Wrap
            <6>3. f.count < Depth \/ p = 1
              BY <1>4, <2>2, <4>1, UartAssumption
            <6> QED BY <1>4, <2>3, <3>1, <3>2, <6>1, <6>2, <6>3
          <5> QED BY <1>2, <3>2, <4>1, <5>1, <5>2
        <4>2. CASE ~push
          BY <1>2, <4>2
        <4> QED BY <4>1, <4>2
      <3>5. d[i] = g.mem[At(g.head, i - 1)] /\ rest[i] = c[i + p] /\ c[i + p] = f.mem[At(f.head, i + p - 1)]
        <4>1. d[i] = g.mem[At(g.head, i - 1)]
          BY <1>5, <3>1
        <4>2. rest[i] = c[i + p]
          BY <2>4
        <4>3. c[i + p] = f.mem[At(f.head, (i + p) - 1)]
          BY <1>4, <3>1
        <4>4. (i + p) - 1 = i + p - 1
          BY <3>1, <2>3
        <4> QED BY <4>1, <4>2, <4>3, <4>4, Zenon
      <3> QED BY <3>3, <3>4, <3>5, Zenon
    <2>6. CASE push
      <3>1. g.count = f.count - p + 1 /\ g.count \in 1 .. g.count
        BY <1>2, <1>5, <1>7, <2>2, <2>3, <2>6
      <3>2. d[g.count] = b
        <4>1. d[g.count] = g.mem[At(g.head, g.count - 1)]
          BY <1>5, <3>1
        <4>2. f.head \in Slot /\ f.head \in Nat /\ f.head < Depth /\ f.mem \in [Slot -> Byte] /\ At(f.head, f.count) \in Slot
          <5>1. f.head \in Slot /\ f.mem \in [Slot -> Byte]
            BY DEF Ring, FifoType
          <5>2. f.head \in Nat /\ f.head < Depth
            BY <5>1, UartAssumption DEF Slot
          <5>3. At(f.head, f.count) \in Slot
            BY <1>4, <5>1, Wrap
          <5> QED BY <5>1, <5>2, <5>3
        <4>3. At(g.head, g.count - 1) = At(f.head, f.count)
          <5>1. g.head \in Slot /\ g.count - 1 \in 0 .. Depth /\ 1 \in 0 .. Depth
            BY <1>2, <1>5, <3>1, UartAssumption DEF Ring, FifoType
          <5>2. CASE pop
            <6>1. g.count - 1 = f.count - 1 /\ g.head = At(f.head, 1) /\ 1 <= f.count
              BY <1>2, <1>4, <1>7, <2>2, <2>3, <2>6, <5>2
            <6>2. f.count - 1 + 0 <= Depth /\ 1 \in {0, 1} /\ 0 \in {0, 1}
              BY <1>4, <2>3
            <6>3. At(At(f.head, 1), f.count - 1) = At(f.head, f.count)
              BY <1>4, <4>2, <6>1, <6>2, WrapAgain
            <6> QED BY <6>1, <6>3
          <5>3. CASE ~pop
            <6>1. g.count - 1 = f.count /\ g.head = f.head
              BY <1>2, <1>4, <1>7, <2>6, <5>3
            <6> QED BY <6>1
          <5> QED BY <5>2, <5>3
        <4> QED BY <1>2, <2>6, <4>1, <4>2, <4>3
      <3>3. Append(rest, b) \in Seq(Byte) /\ Len(Append(rest, b)) = g.count
            /\ (\A i \in 1 .. f.count - p : Append(rest, b)[i] = rest[i]) /\ Append(rest, b)[g.count] = b
        BY <2>3, <2>4, <2>6, <3>1, AppendProperties
      <3>4. \A i \in 1 .. g.count : d[i] = Append(rest, b)[i]
        <4> SUFFICES ASSUME NEW i \in 1 .. g.count PROVE d[i] = Append(rest, b)[i]
          OBVIOUS
        <4>1. i \in 1 .. f.count - p \/ i = g.count
          BY <2>3, <3>1
        <4> QED BY <2>5, <3>2, <3>3, <4>1
      <3>5. d = Append(rest, b)
        BY <1>5, <3>3, <3>4, SeqEqual
      <3> QED BY <1>2, <1>7, <2>1, <2>6, <3>5 DEF Queue
    <2>7. CASE ~push
      <3>1. g.count = f.count - p
        BY <1>2, <1>4, <1>7, <2>2, <2>3, <2>7
      <3>2. d = rest
        BY <1>5, <2>4, <2>5, <3>1, SeqEqual
      <3> QED BY <1>2, <1>7, <2>1, <2>7, <3>2 DEF Queue
    <2> QED BY <2>6, <2>7
  <1> QED BY <1>6, <1>7

-----------------------------------------------------------------------------
(* A byte in front of a queue.                                             *)
First(x, s) == <<x>> \o s

\* A byte in front of others.
LEMMA FirstProperties ==
  ASSUME NEW K, NEW x \in K, NEW s \in Seq(K)
  PROVE  /\ First(x, s) \in Seq(K) /\ First(x, s) # << >> /\ Head(First(x, s)) = x /\ Tail(First(x, s)) = s
         /\ \A b \in K : Append(First(x, s), b) = First(x, Append(s, b))
         /\ <<Head(First(x, s))>> = First(x, << >>)
  <1>1. PICK n \in Nat : n = Len(s)
    BY LenProperties
  <1>2. PICK one : one = <<x>>
    OBVIOUS
  <1>3. one \in Seq(K) /\ Len(one) = 1 /\ one[1] = x
    BY <1>2
  <1>4. PICK f : f = First(x, s)
    OBVIOUS
  <1>5. f \in Seq(K) /\ Len(f) = n + 1 /\ f[1] = x /\ \A i \in 1 .. n : f[i + 1] = s[i]
    <2>1. f = one \o s
      BY <1>2, <1>4 DEF First
    <2>2. f \in Seq(K) /\ Len(f) = 1 + n
          /\ \A i \in 1 .. 1 + n : f[i] = IF i <= 1 THEN one[i] ELSE s[i - 1]
      BY <1>1, <1>3, <2>1, ConcatProperties
    <2>3. ASSUME NEW i \in 1 .. n PROVE f[i + 1] = s[i]
      <3>1. i + 1 \in 1 .. 1 + n /\ ~(i + 1 <= 1) /\ (i + 1) - 1 = i
        OBVIOUS
      <3>2. f[i + 1] = s[(i + 1) - 1]
        BY <2>2, <3>1
      <3> QED BY <3>1, <3>2
    <2>4. 1 \in 1 .. 1 + n
      OBVIOUS
    <2> QED BY <1>3, <2>2, <2>3, <2>4
  <1>6. f # << >> /\ Head(f) = x
    BY <1>5, EmptySeq
  <1>7. Tail(f) = s
    <2>1. Tail(f) \in Seq(K) /\ Len(Tail(f)) = n /\ \A i \in 1 .. n : Tail(f)[i] = f[i + 1]
      BY <1>5, <1>6, HeadTailProperties
    <2> QED BY <1>1, <1>5, <2>1, SeqEqual
  <1>8. ASSUME NEW b \in K PROVE Append(f, b) = First(x, Append(s, b))
    <2>1. one \o Append(s, b) = Append(one \o s, b)
      BY <1>3, AppendProperties, ConcatProperties, AppendIsConcat, ConcatAssociative
    <2> QED BY <1>2, <1>4, <2>1 DEF First
  <1>9. one = First(x, << >>)
    BY <1>2, <1>3, ConcatEmptySeq DEF First
  <1> QED BY <1>2, <1>4, <1>5, <1>6, <1>7, <1>8, <1>9

\* A sequence is its head in front of its tail.
LEMMA HeadAndTail ==
  ASSUME NEW K, NEW s \in Seq(K), s # << >>
  PROVE  Head(s) \in K /\ Tail(s) \in Seq(K) /\ s = First(Head(s), Tail(s))
  <1>1. /\ Head(s) \in K /\ Tail(s) \in Seq(K) /\ Len(Tail(s)) = Len(s) - 1
        /\ \A i \in 1 .. Len(Tail(s)) : Tail(s)[i] = s[i + 1]
    BY HeadTailProperties
  <1>2. PICK n \in Nat : n = Len(s) - 1
    BY EmptySeq, LenProperties
  <1>3. PICK one : one = <<Head(s)>>
    OBVIOUS
  <1>4. one \in Seq(K) /\ Len(one) = 1 /\ one[1] = s[1]
    BY <1>1, <1>3
  <1>5. PICK f, t : f = First(Head(s), Tail(s)) /\ t = Tail(s)
    OBVIOUS
  <1>6. /\ f \in Seq(K) /\ Len(f) = 1 + n
        /\ \A i \in 1 .. 1 + n : f[i] = IF i <= 1 THEN one[i] ELSE t[i - 1]
    <2>1. f = one \o t
      BY <1>3, <1>5 DEF First
    <2>2. t \in Seq(K) /\ Len(t) = n
      BY <1>1, <1>2, <1>5
    <2>3. /\ one \o t \in Seq(K) /\ Len(one \o t) = Len(one) + Len(t)
          /\ \A i \in 1 .. Len(one) + Len(t) : (one \o t)[i] = IF i <= Len(one) THEN one[i] ELSE t[i - Len(one)]
      BY <1>4, <2>2, ConcatProperties
    <2> QED BY <1>4, <2>1, <2>2, <2>3
  <1>7. ASSUME NEW i \in 1 .. 1 + n PROVE f[i] = s[i]
    <2>1. CASE i = 1
      BY <1>4, <1>6, <2>1
    <2>2. CASE i # 1
      <3>1. i - 1 \in 1 .. n /\ (i - 1) + 1 = i /\ ~(i <= 1)
        BY <2>2
      <3>2. t[i - 1] = s[(i - 1) + 1]
        BY <1>1, <1>2, <1>5, <3>1
      <3> QED BY <1>6, <3>1, <3>2
    <2> QED BY <2>1, <2>2
  <1>8. Len(s) = 1 + n
    BY <1>2, LenProperties
  <1>9. s = f
    BY <1>6, <1>7, <1>8, SeqEqual
  <1> QED BY <1>1, <1>5, <1>9

-----------------------------------------------------------------------------
(* The receiver.                                                           *)
RxInv == Ring(rxf) /\ rbr \in Byte /\ rx_oe \in BOOLEAN /\ arrived = Contents(rxf) /\ overrun = rx_oe

\* The receiver.
LEMMA RxStep ==
  ASSUME RxInv, NEW tick, NEW byte \in RxByte \cup {None}, NEW a \in Access, Clock(tick, byte, a)
  PROVE  RxInv' /\ RxKeepsOrder' /\ ReadsOldest
  <1>1. a.clear_rx \in BOOLEAN /\ a.read_rbr \in BOOLEAN
    BY DEF Access
  <1>2. PICK push \in BOOLEAN, pop \in BOOLEAN : push = rx_fifo_pushed(byte, a) /\ pop = Pop(a)
    BY <1>1 DEF rx_fifo_pushed, Pop, rx_dr
  <1>3. PICK c : c = Contents(rxf)
    OBVIOUS
  <1>4. /\ c \in Seq(Byte) /\ Len(c) = rxf.count /\ rxf.count \in 0 .. Depth /\ Depth \in Nat /\ Depth > 0
        /\ rxf.count > 0 => c # << >> /\ Head(c) = rxf.mem[rxf.head]
        /\ rxf.count = 0 => c = << >>
    BY <1>3, RingContents, UartAssumption DEF RxInv
  <1>5. /\ rxf' = Fifo(rxf, push, byte, pop, a.clear_rx)
        /\ push = (byte # None /\ ~a.clear_rx /\ (rxf.count # Depth \/ pop))
        /\ pop = (a.read_rbr /\ rxf.count # 0)
    BY <1>2 DEF Clock, Receiver, rx_fifo_pushed, Pop, rx_dr
  <1>6. push => byte \in Byte
    BY <1>5, UartAssumption DEF Byte
  <1>7. Ring(rxf') /\ Contents(rxf') = Queue(c, push, byte, pop, a.clear_rx)
    <2>1. Ring(rxf) /\ (pop => rxf.count # 0) /\ (push => byte \in Byte /\ (rxf.count # Depth \/ pop))
      BY <1>5, <1>6 DEF RxInv
    <2>2. PICK clear \in BOOLEAN : clear = a.clear_rx
      BY <1>1
    <2>3. /\ Ring(Fifo(rxf, push, byte, pop, clear))
          /\ Contents(Fifo(rxf, push, byte, pop, clear)) = Queue(Contents(rxf), push, byte, pop, clear)
      BY <2>1, RingIsQueue
    <2>4. rxf' = Fifo(rxf, push, byte, pop, clear)
      BY <1>5, <2>2
    <2> QED BY <1>3, <2>2, <2>3, <2>4, Zenon
  <1>8. rbr' \in Byte
    BY <1>2, <1>6 DEF Clock, Receiver, RxInv
  <1>9. PICK left : left = IF pop THEN Tail(c) ELSE c
    OBVIOUS
  <1>10. left = (IF a.read_rbr /\ arrived # << >> THEN Tail(arrived) ELSE arrived)
    BY <1>3, <1>4, <1>5, <1>9 DEF RxInv
  <1>11. Len(left) = (IF pop THEN rxf.count - 1 ELSE rxf.count)
    <2>1. CASE pop
      <3>1. c # << >>
        BY <1>4, <1>5, <2>1
      <3> QED BY <1>4, <1>9, <2>1, <3>1, HeadTailProperties
    <2>2. CASE ~pop
      BY <1>4, <1>9, <2>2
    <2> QED BY <2>1, <2>2
  <1>12. (Len(left) < Depth <=> rxf.count # Depth \/ pop) /\ (Len(left) = Depth <=> rxf.count = Depth /\ ~pop)
    BY <1>4, <1>5, <1>11
  <1>13. /\ arrived' = IF a.clear_rx THEN << >> ELSE IF byte # None /\ Len(left) < Depth THEN Append(left, byte) ELSE left
         /\ overrun' = (~a.clear_rx /\ (overrun \/ (byte # None /\ Len(left) = Depth)))
    BY <1>10 DEF Clock, Arrivals
  <1>14. arrived' = Contents(rxf')
    <2>1. CASE a.clear_rx
      BY <1>7, <1>13, <2>1 DEF Queue
    <2>2. CASE ~a.clear_rx /\ push
      BY <1>5, <1>7, <1>9, <1>12, <1>13, <2>2 DEF Queue
    <2>3. CASE ~a.clear_rx /\ ~push
      BY <1>5, <1>7, <1>9, <1>12, <1>13, <2>3 DEF Queue
    <2> QED BY <2>1, <2>2, <2>3
  <1>15. overrun' = rx_oe' /\ rx_oe' \in BOOLEAN
    <2>1. rx_oe' = (~a.clear_rx /\ (rx_oe \/ (byte # None /\ ~a.clear_rx /\ rxf.count = Depth /\ ~pop)))
      BY <1>2 DEF Clock, Receiver, Overruns
    <2> QED BY <1>12, <1>13, <2>1 DEF RxInv
  <1>16. ReadsOldest
    <2>1. io'.read = IF pop THEN read_data ELSE None
      BY <1>2 DEF Clock
    <2>2. pop => c # << >> /\ read_data = Head(c)
      <3>0. pop => rxf.count # 0
        BY <1>2 DEF Pop, rx_dr
      <3>1. rxf.count # 0 => rxf.count > 0
        BY <1>4
      <3> QED BY <1>4, <3>0, <3>1 DEF read_data, rx_dr
    <2> QED BY <1>3, <2>1, <2>2 DEF ReadsOldest, RxInv
  <1> QED BY <1>7, <1>8, <1>14, <1>15, <1>16 DEF RxInv, RxKeepsOrder

-----------------------------------------------------------------------------
(* The transmitter.                                                        *)
Shifter == [state : {"IDLE", "START", "DATA", "STOP"}, bit_count : 0 .. Bits, data : Byte,
            busy : BOOLEAN, start_pending : BOOLEAN, out : {0, 1}]

\* Shifter t is at rest or holds a byte.
Holds(t) ==
  /\ t \in Shifter
  /\ t.busy <=> t.state # "IDLE" \/ t.start_pending
  /\ t.start_pending => t.state = "IDLE" /\ ~fifo_enabled

\* The receiver at the other end has seen, by u, what shifter t has sent of its frame.
Line(t, u) ==
  /\ t.state = "IDLE" => u = None /\ t.out = 1
  /\ t.state = "START" => u = None /\ t.out = 0
  /\ t.state = "DATA" =>
       /\ t.bit_count \in 1 .. Bits /\ t.out = t.data[t.bit_count]
       /\ u \in Seq({0, 1}) /\ Len(u) = t.bit_count - 1
       /\ \A i \in 1 .. t.bit_count - 1 : u[i] = t.data[i]
  /\ t.state = "STOP" => u = t.data /\ t.out = 1

\* What is owed when shifter t holds its byte and bytes s wait behind it.
Owing(t, s) == IF t.busy THEN First(t.data, s) ELSE s

TxInv ==
  /\ Ring(txf) /\ fifo_enabled \in BOOLEAN /\ (~fifo_enabled => txf.count = 0)
  /\ Holds(tx) /\ Line(tx, wire)
  /\ expected = Owing(tx, Contents(txf))

\* Bytes are their bits, and None is not one.
LEMMA Bytes == None \notin Byte /\ Byte \subseteq Seq({0, 1}) /\ \A b \in Byte : Len(b) = Bits
  <1>1. ASSUME NEW b \in Byte PROVE b \in Seq({0, 1}) /\ Len(b) = Bits
    BY UartAssumption, LenProperties DEF Byte
  <1> QED BY <1>1, UartAssumption

\* What is left to owe after a frame has been received.
Rest(tick) == IF sent(tick) = None \/ expected = << >> THEN expected ELSE Tail(expected)

\* The state machine and the wire at an edge, before the register writes: the byte in the shifter and the
\* bytes behind it are still what is owed, and a frame that ends is the oldest byte with its stop bit.
Ticked(tick, t, u) ==
  LET c == Contents(txf)
      behind == IF tx_fifo_popped(tick) THEN Tail(c) ELSE c
  IN  /\ Holds(t) /\ Line(t, u)
      /\ Rest(tick) = Owing(t, behind)
      /\ ~tx.busy /\ ~tx_fifo_popped(tick) => t.state = "IDLE" /\ ~t.busy /\ ~t.start_pending
      /\ t.state = "IDLE" /\ t.start_pending => tx.start_pending
      /\ sent(tick) # None => expected # << >> /\ sent(tick) = Append(Head(expected), 1)

\* A tick that does not end a frame.
LEMMA NotSent ==
  ASSUME TxInv, NEW tick \in BOOLEAN, tick => tx.state # "STOP"
  PROVE  sent(tick) = None
  <1>1. CASE ~tick
    BY <1>1 DEF sent
  <1>2. CASE tick /\ tx.state \in {"IDLE", "START"}
    BY <1>2 DEF sent, TxInv, Line
  <1>3. CASE tick /\ tx.state = "DATA"
    <2>1. Len(wire) < Bits
      BY <1>3, UartAssumption DEF TxInv, Line
    <2> QED BY <2>1 DEF sent
  <1> QED BY <1>1, <1>2, <1>3 DEF TxInv, Holds, Shifter

\* A bit tick moves the shifter and the line together.
LEMMA TickStep ==
  ASSUME TxInv, NEW tick \in BOOLEAN, Wire(tick)
  PROVE  Ticked(tick, IF tick THEN BitTick ELSE tx, wire')
  <1>1. PICK t, u : t = (IF tick THEN BitTick ELSE tx) /\ u = wire'
    OBVIOUS
  <1>2. PICK c : c = Contents(txf)
    OBVIOUS
  <1>3. /\ c \in Seq(Byte) /\ (txf.count # 0 => c # << >> /\ Head(c) = txf.mem[txf.head] /\ Head(c) \in Byte)
        /\ Depth \in Nat /\ (txf.count = 0 => c = << >>)
    <2>1. Ring(txf)
      BY DEF TxInv
    <2>2. txf.count \in Nat
      BY <2>1, UartAssumption DEF Ring, FifoType
    <2> QED BY <1>2, <2>1, <2>2, RingContents, UartAssumption
  <1>4. /\ Holds(tx) /\ Line(tx, wire) /\ expected = Owing(tx, c) /\ tx \in Shifter
        /\ tx.busy \in BOOLEAN /\ tx.start_pending \in BOOLEAN /\ tx.data \in Byte
        /\ tx.state \in {"IDLE", "START", "DATA", "STOP"}
    BY <1>2 DEF TxInv, Holds, Shifter
  <1>5. \A x \in Byte, s \in Seq(Byte) : First(x, s) # << >> /\ Head(First(x, s)) = x /\ Tail(First(x, s)) = s
    BY FirstProperties
  <1>6. None \notin Byte /\ Byte \subseteq Seq({0, 1}) /\ (\A b \in Byte : Len(b) = Bits) /\ Bits \in Nat /\ Bits > 0
    BY Bytes, UartAssumption
  <1> SUFFICES Ticked(tick, t, u)
    BY <1>1
  <1>7. CASE ~tick
    <2>1. t = tx /\ u = wire /\ ~tx_fifo_popped(tick) /\ sent(tick) = None
      BY <1>1, <1>7 DEF Wire, tx_fifo_popped, sent
    <2> QED BY <1>2, <1>4, <2>1 DEF Ticked, Rest, Holds
  <1>8. CASE tick /\ tx_fifo_popped(tick)
    <2>1. /\ txf.count # 0 /\ ~tx.start_pending /\ tx.state \in {"IDLE", "STOP"}
          /\ tx_fifo_popped(TRUE)
      BY <1>4, <1>8 DEF tx_fifo_popped, Holds
    <2>2. /\ t \in Shifter /\ t.state = "START" /\ t.data = Head(c) /\ t.busy /\ ~t.start_pending /\ t.out = 0
      <3>1. t = StartBit([tx EXCEPT !.data = Head(c), !.busy = @ \/ tx.state = "IDLE"])
        BY <1>1, <1>3, <1>8, <2>1 DEF BitTick
      <3>2. tx.busy \/ tx.state = "IDLE"
        BY <1>4, <2>1 DEF Holds
      <3>3. /\ t.state = "START" /\ t.data = Head(c) /\ t.busy = (tx.busy \/ tx.state = "IDLE")
            /\ t.start_pending = tx.start_pending /\ t.out = 0 /\ t.bit_count = 0
            /\ t = [state |-> t.state, bit_count |-> t.bit_count, data |-> t.data, busy |-> t.busy,
                    start_pending |-> t.start_pending, out |-> t.out]
        BY <1>4, <3>1 DEF StartBit, Shifter
      <3>4. t.busy \in BOOLEAN /\ t.start_pending \in BOOLEAN /\ 0 \in 0 .. Bits
        BY <1>4, <1>6, <3>3
      <3>5. t \in Shifter
        BY <1>3, <2>1, <3>3, <3>4 DEF Shifter
      <3> QED BY <2>1, <3>2, <3>3, <3>5
    <2>3. Holds(t)
      BY <2>2 DEF Holds
    <2>4. u = None
      <3>1. CASE tx.state = "IDLE"
        BY <1>1, <1>4, <1>8, <3>1 DEF Line, Wire
      <3>2. CASE tx.state = "STOP"
        BY <1>1, <1>4, <1>6, <1>8, <3>2 DEF Line, Wire
      <3> QED BY <2>1, <3>1, <3>2
    <2>5. c # << >> /\ Owing(t, Tail(c)) = c
      BY <1>3, <2>1, <2>2, HeadAndTail DEF Owing
    <2>6. Rest(tick) = c /\ (sent(tick) # None => expected # << >> /\ sent(tick) = Append(Head(expected), 1))
      <3>1. CASE tx.state = "IDLE"
        <4>1. sent(tick) = None
          BY <3>1, NotSent
        <4>2. expected = c
          BY <1>4, <2>1, <3>1 DEF Owing, Holds
        <4> QED BY <4>1, <4>2 DEF Rest
      <3>2. CASE tx.state = "STOP"
        <4>1. expected = First(tx.data, c) /\ wire = tx.data /\ tx.out = 1
          BY <1>4, <3>2 DEF Owing, Holds, Line
        <4>2. sent(tick) = Append(tx.data, 1)
          BY <1>4, <1>6, <1>8, <4>1 DEF sent
        <4>3. Append(tx.data, 1) \in Seq({0, 1})
          BY <1>4, <1>6, AppendProperties
        <4>4. sent(tick) # None
          BY <4>2, <4>3, UartAssumption
        <4> QED BY <1>3, <1>4, <1>5, <4>1, <4>2, <4>4 DEF Rest
      <3> QED BY <2>1, <3>1, <3>2
    <2>7. Line(t, u)
      BY <2>2, <2>4 DEF Line
    <2> QED BY <1>2, <1>8, <2>1, <2>2, <2>3, <2>5, <2>6, <2>7 DEF Ticked
  <1>9. CASE tick /\ ~tx_fifo_popped(tick) /\ tx.state = "IDLE" /\ tx.start_pending
    <2>1. t = StartBit([tx EXCEPT !.start_pending = FALSE])
      BY <1>1, <1>9 DEF BitTick
    <2>2. /\ t.state = "START" /\ t.data = tx.data /\ t.busy = tx.busy /\ ~t.start_pending /\ t.out = 0 /\ t \in Shifter
      <3>1. /\ t.state = "START" /\ t.data = tx.data /\ t.busy = tx.busy
            /\ t.start_pending = FALSE /\ t.out = 0 /\ t.bit_count = 0
            /\ t = [state |-> t.state, bit_count |-> t.bit_count, data |-> t.data, busy |-> t.busy,
                    start_pending |-> t.start_pending, out |-> t.out]
        BY <1>4, <2>1 DEF StartBit, Shifter
      <3>2. 0 \in 0 .. Bits
        BY <1>6
      <3> QED BY <1>4, <3>1, <3>2 DEF Shifter
    <2>3. u = None
      BY <1>1, <1>4, <1>9 DEF Line, Wire
    <2>4. tx.busy /\ sent(tick) = None
      BY <1>4, <1>9, NotSent DEF Holds
    <2>5. Holds(t) /\ Line(t, u)
      BY <2>2, <2>3, <2>4 DEF Holds, Line
    <2>6. Rest(tick) = Owing(t, c)
      BY <1>4, <2>2, <2>4 DEF Rest, Owing
    <2> QED BY <1>2, <1>9, <2>2, <2>4, <2>5, <2>6 DEF Ticked
  <1>10. CASE tick /\ ~tx_fifo_popped(tick) /\ tx.state = "IDLE" /\ ~tx.start_pending
    <2>1. t = [tx EXCEPT !.out = 1]
      BY <1>1, <1>10 DEF BitTick
    <2>2. t.state = "IDLE" /\ t.data = tx.data /\ t.busy = tx.busy /\ ~t.start_pending /\ t.out = 1 /\ t \in Shifter
      BY <1>4, <1>10, <2>1 DEF Shifter
    <2>3. u = None
      BY <1>1, <1>4, <1>10 DEF Line, Wire
    <2>4. ~tx.busy /\ sent(tick) = None
      BY <1>4, <1>10, NotSent DEF Holds
    <2>5. Holds(t) /\ Line(t, u)
      BY <2>2, <2>3, <2>4 DEF Holds, Line
    <2>6. Rest(tick) = Owing(t, c)
      BY <1>4, <2>2, <2>4 DEF Rest, Owing
    <2> QED BY <1>2, <1>10, <2>2, <2>4, <2>5, <2>6 DEF Ticked
  <1>11. CASE tick /\ ~tx_fifo_popped(tick) /\ tx.state = "START"
    <2>1. t = [tx EXCEPT !.state = "DATA", !.out = tx.data[1], !.bit_count = 1]
      BY <1>1, <1>11 DEF BitTick, tx_fifo_popped
    <2>2. 1 \in 1 .. Bits /\ 1 \in 0 .. Bits /\ tx.data[1] \in {0, 1}
      BY <1>4, <1>6 DEF Byte
    <2>3. /\ t.state = "DATA" /\ t.data = tx.data /\ t.busy = tx.busy /\ t.start_pending = tx.start_pending
          /\ t.bit_count = 1 /\ t.out = t.data[1] /\ t \in Shifter
      BY <1>4, <2>1, <2>2 DEF Shifter
    <2>4. u = << >>
      BY <1>1, <1>4, <1>11 DEF Line, Wire
    <2>5. Line(t, u)
      <3>1. u \in Seq({0, 1}) /\ Len(u) = 1 - 1 /\ \A i \in 1 .. 1 - 1 : u[i] = t.data[i]
        BY <2>4
      <3> QED BY <2>2, <2>3, <3>1 DEF Line
    <2>6. tx.busy /\ ~tx.start_pending /\ sent(tick) = None
      BY <1>4, <1>11, NotSent DEF Holds
    <2>7. Holds(t)
      BY <2>3, <2>6 DEF Holds
    <2>8. Rest(tick) = Owing(t, c)
      BY <1>4, <2>3, <2>6 DEF Rest, Owing
    <2> QED BY <1>2, <1>11, <2>3, <2>5, <2>6, <2>7, <2>8 DEF Ticked
  <1>12. CASE tick /\ ~tx_fifo_popped(tick) /\ tx.state = "DATA"
    <2>1. t = DataBit
      BY <1>1, <1>12 DEF BitTick, tx_fifo_popped
    <2>2. PICK k \in 1 .. Bits : k = tx.bit_count
      BY <1>4, <1>12 DEF Line
    <2>3. /\ tx.out = tx.data[k] /\ wire \in Seq({0, 1}) /\ Len(wire) = k - 1 /\ (\A i \in 1 .. k - 1 : wire[i] = tx.data[i])
          /\ wire # None
      BY <1>4, <1>12, <2>2, UartAssumption DEF Line
    <2>4. u = Append(wire, tx.out)
      BY <1>1, <1>6, <1>12, <2>2, <2>3 DEF Wire
    <2>5. u \in Seq({0, 1}) /\ Len(u) = k /\ \A i \in 1 .. k : u[i] = tx.data[i]
      <3>1. tx.out \in {0, 1}
        BY <1>4 DEF Shifter
      <3>2. u \in Seq({0, 1}) /\ Len(u) = k - 1 + 1 /\ (\A i \in 1 .. k - 1 : u[i] = wire[i]) /\ u[k - 1 + 1] = tx.out
        BY <2>3, <2>4, <3>1, AppendProperties
      <3>3. k - 1 + 1 = k /\ \A i \in 1 .. k : i \in 1 .. k - 1 \/ i = k
        BY <2>2
      <3> QED BY <2>3, <3>2, <3>3
    <2>6. tx.busy /\ ~tx.start_pending /\ sent(tick) = None
      BY <1>4, <1>12, NotSent DEF Holds
    <2>7. t.data = tx.data /\ t.busy = tx.busy /\ t.start_pending = tx.start_pending /\ t.state \in {"DATA", "STOP"}
      BY <1>4, <1>12, <2>1 DEF DataBit, Shifter
    <2>8. t \in Shifter /\ Line(t, u)
      <3>1. CASE k < Bits
        <4>1. k + 1 \in 1 .. Bits /\ k + 1 \in 0 .. Bits /\ (k + 1) - 1 = k /\ tx.data[k + 1] \in {0, 1}
          BY <1>4, <1>6, <2>2, <3>1 DEF Byte
        <4>2. t = [tx EXCEPT !.out = tx.data[k + 1], !.bit_count = k + 1]
          BY <2>1, <2>2, <3>1 DEF DataBit
        <4>3. /\ t.state = "DATA" /\ t.out = t.data[k + 1] /\ t.bit_count = k + 1 /\ t \in Shifter
          BY <1>4, <1>12, <4>1, <4>2 DEF Shifter
        <4> QED BY <2>5, <2>7, <4>1, <4>3 DEF Line
      <3>2. CASE ~(k < Bits)
        <4>1. t = [tx EXCEPT !.state = "STOP", !.out = 1]
          BY <2>1, <2>2, <3>2 DEF DataBit
        <4>2. t.state = "STOP" /\ t.out = 1 /\ t \in Shifter
          BY <1>4, <4>1 DEF Shifter
        <4>3. u = tx.data
          <5>1. k = Bits
            BY <1>6, <2>2, <3>2
          <5> QED BY <1>4, <1>6, <2>5, <5>1, SeqEqual
        <4> QED BY <2>7, <4>2, <4>3 DEF Line
      <3> QED BY <3>1, <3>2
    <2>9. Holds(t)
      BY <2>6, <2>7, <2>8 DEF Holds
    <2>10. Rest(tick) = Owing(t, c)
      BY <1>4, <2>6, <2>7 DEF Rest, Owing
    <2> QED BY <1>2, <1>12, <2>6, <2>7, <2>8, <2>9, <2>10 DEF Ticked
  <1>13. CASE tick /\ ~tx_fifo_popped(tick) /\ tx.state = "STOP"
    <2>1. t = [tx EXCEPT !.state = "IDLE", !.busy = FALSE]
      <3>1. ~tx_fifo_popped(TRUE)
        BY <1>13 DEF tx_fifo_popped
      <3> QED BY <1>1, <1>13, <3>1 DEF BitTick
    <2>2. /\ t.state = "IDLE" /\ ~t.busy /\ t.start_pending = tx.start_pending /\ t.out = tx.out /\ t \in Shifter
      BY <1>4, <2>1 DEF Shifter
    <2>3. expected = First(tx.data, c) /\ wire = tx.data /\ tx.out = 1 /\ tx.busy /\ ~tx.start_pending
      BY <1>4, <1>13 DEF Owing, Holds, Line
    <2>4. u = None
      BY <1>1, <1>4, <1>6, <1>13, <2>3 DEF Wire
    <2>5. sent(tick) = Append(tx.data, 1) /\ sent(tick) # None
      <3>1. sent(tick) = Append(tx.data, 1)
        BY <1>4, <1>6, <1>13, <2>3 DEF sent
      <3>2. Append(tx.data, 1) \in Seq({0, 1})
        BY <1>4, <1>6, AppendProperties
      <3> QED BY <3>1, <3>2, UartAssumption
    <2>6. Rest(tick) = c /\ expected # << >> /\ Head(expected) = tx.data
      BY <1>3, <1>4, <1>5, <2>3, <2>5 DEF Rest
    <2>7. Holds(t) /\ Line(t, u) /\ Owing(t, c) = c
      BY <2>2, <2>3, <2>4 DEF Holds, Line, Owing
    <2> QED BY <1>2, <1>13, <2>2, <2>3, <2>5, <2>6, <2>7 DEF Ticked
  <1> QED BY <1>4, <1>7, <1>8, <1>9, <1>10, <1>11, <1>12, <1>13

\* A clock edge with the register access a: drivers do not clear a waiting byte at the tick that starts it,
\* and they switch the FIFOs only while the transmitter is empty.
Edge(tick, byte, a) ==
  /\ tick \in BOOLEAN /\ byte \in RxByte \cup {None} /\ a \in Access
  /\ Clock(tick, byte, a)
  /\ a.clear_tx => a.thr = None /\ ~(tick /\ tx.start_pending)
  /\ fifo_enabled' \in BOOLEAN
  /\ fifo_enabled' # fifo_enabled => tx_temt /\ a.thr = None

\* What an access finds and leaves in the FIFO of the transmitter.
LEMMA TxFifo ==
  ASSUME TxInv, NEW tick, NEW byte, NEW a, Edge(tick, byte, a)
  PROVE  LET c == Contents(txf)
             behind == IF tx_fifo_popped(tick) THEN Tail(c) ELSE c
         IN  /\ Ring(txf')
             /\ Contents(txf') = IF a.clear_tx THEN << >> ELSE IF tx_fifo_pushed(a.thr) THEN Append(behind, a.thr) ELSE behind
             /\ behind \in Seq(Byte) /\ (txf.count = 0 => behind = << >>)
             /\ txf.count = 0 /\ ~tx_fifo_pushed(a.thr) => txf'.count = 0
             /\ tx_fifo_pushed(a.thr) => a.thr \in Byte
  <1>1. a.clear_tx \in BOOLEAN /\ a.thr \in Byte \cup {None} /\ tick \in BOOLEAN
    BY DEF Edge, Access
  <1>2. PICK push \in BOOLEAN, pop \in BOOLEAN, clear \in BOOLEAN :
           push = tx_fifo_pushed(a.thr) /\ pop = tx_fifo_popped(tick) /\ clear = a.clear_tx
    <2>1. tx_fifo_pushed(a.thr) \in BOOLEAN /\ tx_fifo_popped(tick) \in BOOLEAN
      BY <1>1 DEF tx_fifo_pushed, tx_fifo_popped, TxInv
    <2> QED BY <1>1, <2>1
  <1>3. Ring(txf) /\ (pop => txf.count # 0) /\ (push => a.thr \in Byte /\ (txf.count # Depth \/ pop))
    BY <1>1, <1>2 DEF tx_fifo_pushed, tx_fifo_popped, TxInv
  <1>4. txf' = Fifo(txf, push, a.thr, pop, clear)
    BY <1>2 DEF Edge, Clock, Transmitter
  <1>5. PICK c : c = Contents(txf)
    OBVIOUS
  <1>6. Ring(txf') /\ Contents(txf') = Queue(c, push, a.thr, pop, clear)
    <2>1. /\ Ring(Fifo(txf, push, a.thr, pop, clear))
          /\ Contents(Fifo(txf, push, a.thr, pop, clear)) = Queue(Contents(txf), push, a.thr, pop, clear)
      BY <1>3, RingIsQueue
    <2> QED BY <1>4, <1>5, <2>1, Zenon
  <1>7. c \in Seq(Byte) /\ txf.count \in Nat /\ (txf.count > 0 => c # << >>) /\ (txf.count = 0 => c = << >>)
    <2>1. txf.count \in Nat
      BY <1>3, UartAssumption DEF Ring, FifoType
    <2> QED BY <1>3, <1>5, <2>1, RingContents
  <1>8. PICK behind : behind = IF pop THEN Tail(c) ELSE c
    OBVIOUS
  <1>9. behind \in Seq(Byte) /\ (txf.count = 0 => behind = << >>)
    <2>1. CASE pop
      <3>1. c # << >>
        BY <1>3, <1>7, <2>1
      <3> QED BY <1>3, <1>7, <1>8, <2>1, <3>1, HeadTailProperties
    <2>2. CASE ~pop
      BY <1>7, <1>8, <2>2
    <2> QED BY <2>1, <2>2
  <1>10. txf.count = 0 /\ ~push => txf'.count = 0
    BY <1>3, <1>4 DEF Fifo
  <1>11. Contents(txf') = IF clear THEN << >> ELSE IF push THEN Append(behind, a.thr) ELSE behind
    BY <1>6, <1>8 DEF Queue
  <1> QED BY <1>2, <1>3, <1>5, <1>6, <1>8, <1>9, <1>10, <1>11, Zenon

\* When the transmitter is empty, nothing is owed.
LEMMA NothingOwed ==
  ASSUME TxInv, tx_temt
  PROVE  expected = << >>
  <1>1. txf.count = 0 /\ ~tx.busy
    BY DEF tx_temt
  <1>2. Contents(txf) = << >>
    BY <1>1, RingContents DEF TxInv
  <1> QED BY <1>1, <1>2 DEF TxInv, Owing

\* The transmitter: one byte leaves at its last tick, the oldest that is owed.
LEMMA TxStep ==
  ASSUME TxInv, NEW tick, NEW byte, NEW a, Edge(tick, byte, a)
  PROVE  /\ TxInv'
         /\ io'.sent # None => expected # << >> /\ io'.sent = Append(Head(expected), 1)
  <1>1. /\ a.clear_tx \in BOOLEAN /\ a.thr \in Byte \cup {None} /\ tick \in BOOLEAN
        /\ Transmitter(tick, a) /\ Wire(tick) /\ Owed(tick, a)
    BY DEF Edge, Access, Clock
  <1>2. PICK t, u : t = (IF tick THEN BitTick ELSE tx) /\ u = wire'
    OBVIOUS
  <1>3. PICK c, pop, behind :
           c = Contents(txf) /\ pop = tx_fifo_popped(tick) /\ behind = IF pop THEN Tail(c) ELSE c
    OBVIOUS
  <1>4. /\ Holds(t) /\ Line(t, u)
        /\ Rest(tick) = Owing(t, behind)
        /\ ~tx.busy /\ ~pop => t.state = "IDLE" /\ ~t.busy /\ ~t.start_pending
        /\ t.state = "IDLE" /\ t.start_pending => tx.start_pending
        /\ sent(tick) # None => expected # << >> /\ sent(tick) = Append(Head(expected), 1)
    <2>1. Ticked(tick, t, u)
      BY <1>1, <1>2, TickStep
    <2> QED BY <1>3, <2>1 DEF Ticked
  <1>5. /\ Ring(txf')
        /\ Contents(txf') = IF a.clear_tx THEN << >> ELSE IF tx_fifo_pushed(a.thr) THEN Append(behind, a.thr) ELSE behind
        /\ behind \in Seq(Byte) /\ (txf.count = 0 => behind = << >>)
        /\ txf.count = 0 /\ ~tx_fifo_pushed(a.thr) => txf'.count = 0
        /\ tx_fifo_pushed(a.thr) => a.thr \in Byte
    BY <1>3, TxFifo, Zenon
  <1>6. /\ fifo_enabled \in BOOLEAN /\ fifo_enabled' \in BOOLEAN
        /\ fifo_enabled' # fifo_enabled => tx_temt /\ a.thr = None
        /\ ~fifo_enabled => txf.count = 0
        /\ t \in Shifter /\ t.busy \in BOOLEAN /\ t.data \in Byte
        /\ tx \in Shifter /\ tx.busy \in BOOLEAN /\ tx.start_pending \in BOOLEAN
        /\ (tx.busy <=> tx.state # "IDLE" \/ tx.start_pending)
    BY <1>4 DEF Edge, TxInv, Holds, Shifter
  <1>7. /\ tx_fifo_pushed(a.thr) <=> a.thr # None /\ fifo_enabled /\ txf.count # Depth
        /\ holding_written(a.thr) <=> a.thr # None /\ ~fifo_enabled /\ ~tx.busy
    BY <1>6 DEF tx_fifo_pushed, holding_written
  <1>8. pop => txf.count # 0
    BY <1>3 DEF tx_fifo_popped
  <1>9. PICK rest, all :
           /\ rest = Owing(t, behind)
           /\ all = IF tx_fifo_pushed(a.thr) \/ holding_written(a.thr) THEN Append(rest, a.thr) ELSE rest
           /\ expected' = IF ~a.clear_tx THEN all
                          ELSE IF tx'.state = "IDLE" \/ all = << >> THEN << >> ELSE <<Head(all)>>
    <2>1. (a.thr # None /\ (IF fifo_enabled THEN txf.count < Depth ELSE tx_thre))
            <=> tx_fifo_pushed(a.thr) \/ holding_written(a.thr)
      <3>1. txf.count < Depth <=> txf.count # Depth
        BY UartAssumption DEF TxInv, Ring, FifoType
      <3> QED BY <1>6, <1>7, <3>1 DEF tx_thre
    <2> QED BY <1>1, <1>4, <2>1 DEF Owed, Rest
  <1>10. \A x \in Byte, s \in Seq(Byte) :
           /\ First(x, s) # << >> /\ <<Head(First(x, s))>> = First(x, << >>)
           /\ \A b \in Byte : Append(First(x, s), b) = First(x, Append(s, b))
    <2>1. ASSUME NEW x \in Byte, NEW s \in Seq(Byte)
          PROVE  First(x, s) # << >> /\ <<Head(First(x, s))>> = First(x, << >>)
      <3>1. First(x, s) # << >>
        BY FirstProperties
      <3>2. <<Head(First(x, s))>> = First(x, << >>)
        BY FirstProperties
      <3> QED BY <3>1, <3>2
    <2>2. ASSUME NEW x \in Byte, NEW s \in Seq(Byte), NEW b \in Byte
          PROVE  Append(First(x, s), b) = First(x, Append(s, b))
      BY FirstProperties
    <2> QED BY <2>1, <2>2
  <1>11. io'.sent # None => expected # << >> /\ io'.sent = Append(Head(expected), 1)
    BY <1>4 DEF Edge, Clock
  <1>12. ~fifo_enabled' => txf'.count = 0
    <2>1. fifo_enabled' # fifo_enabled => txf.count = 0 /\ ~tx_fifo_pushed(a.thr)
      BY <1>6, <1>7 DEF tx_temt
    <2> QED BY <1>5, <1>6, <1>7, <2>1
  <1>13. CASE holding_written(a.thr)
    <2>1. a.thr \in Byte /\ ~fifo_enabled /\ ~tx.busy /\ txf.count = 0 /\ ~pop /\ ~a.clear_tx /\ ~fifo_enabled'
      BY <1>1, <1>6, <1>7, <1>8, <1>13 DEF Edge
    <2>2. t.state = "IDLE" /\ ~t.busy /\ ~t.start_pending
      BY <1>4, <2>1
    <2>3. tx' = [t EXCEPT !.data = a.thr, !.start_pending = TRUE, !.busy = TRUE]
      BY <1>1, <1>2, <1>13 DEF Transmitter
    <2>4. /\ tx'.state = "IDLE" /\ tx'.busy /\ tx'.start_pending /\ tx'.out = t.out /\ tx'.data = a.thr
          /\ tx' \in Shifter
      BY <1>6, <2>1, <2>2, <2>3 DEF Shifter
    <2>5. Holds(tx)' /\ Line(tx, wire)'
      BY <1>2, <1>4, <2>1, <2>2, <2>4 DEF Holds, Line
    <2>6. Contents(txf') = << >> /\ behind = << >>
      BY <1>5, <1>7, <2>1
    <2>7. expected' = Append(<< >>, a.thr)
      BY <1>9, <1>13, <2>1, <2>2, <2>6 DEF Owing
    <2>8. Append(<< >>, a.thr) = First(a.thr, << >>)
      <3>1. PICK one : one = <<a.thr>>
        OBVIOUS
      <3>2. one \in Seq(Byte) /\ Append(<< >>, a.thr) = one
        BY <2>1, <3>1
      <3> QED BY <3>1, <3>2, ConcatEmptySeq DEF First
    <2>9. expected' = Owing(tx', Contents(txf'))
      BY <2>4, <2>6, <2>7, <2>8 DEF Owing
    <2> QED BY <1>5, <1>6, <1>11, <1>12, <2>5, <2>9 DEF TxInv
  <1>14. CASE ~holding_written(a.thr) /\ ~(a.clear_tx /\ tx.start_pending /\ tx.state = "IDLE")
    <2>1. tx' = t
      BY <1>1, <1>2, <1>14, Zenon DEF Transmitter
    <2>2. Holds(tx)' /\ Line(tx, wire)'
      <3>1. t.start_pending => ~fifo_enabled'
        <4>1. t.start_pending => tx.start_pending /\ ~fifo_enabled
          BY <1>4 DEF Holds
        <4> QED BY <1>6, <4>1 DEF tx_temt
      <3> QED BY <1>2, <1>4, <2>1, <3>1 DEF Holds, Line
    <2>3. expected' = Owing(tx', Contents(txf'))
      <3>1. CASE ~a.clear_tx /\ tx_fifo_pushed(a.thr)
        <4>1. expected' = Append(Owing(t, behind), a.thr) /\ Contents(txf') = Append(behind, a.thr)
          BY <1>5, <1>9, <3>1
        <4>2. a.thr \in Byte /\ behind \in Seq(Byte)
          BY <1>1, <1>5, <1>7, <3>1 DEF Edge
        <4>3. CASE t.busy
          <5>1. Owing(t, behind) = First(t.data, behind) /\ Owing(tx', Contents(txf')) = First(t.data, Contents(txf'))
            BY <2>1, <4>3 DEF Owing
          <5>2. Append(First(t.data, behind), a.thr) = First(t.data, Append(behind, a.thr))
            BY <1>6, <1>10, <4>2
          <5> QED BY <4>1, <5>1, <5>2
        <4>4. CASE ~t.busy
          BY <2>1, <4>1, <4>4 DEF Owing
        <4> QED BY <4>3, <4>4
      <3>2. CASE ~a.clear_tx /\ ~tx_fifo_pushed(a.thr)
        BY <1>5, <1>9, <1>14, <2>1, <3>2
      <3>3. CASE a.clear_tx
        <4>1. Contents(txf') = << >> /\ all = Owing(t, behind) /\ ~tx.start_pending
          BY <1>5, <1>7, <1>9, <1>14, <3>3 DEF Edge, TxInv, Holds
        <4>2. t.busy <=> t.state # "IDLE"
          BY <1>4, <4>1 DEF Holds
        <4>3. CASE t.busy
          <5>1. all = First(t.data, behind) /\ all # << >> /\ <<Head(all)>> = First(t.data, << >>)
            BY <1>5, <1>6, <1>10, <4>1, <4>3 DEF Owing
          <5>2. expected' = <<Head(all)>>
            BY <1>9, <2>1, <3>3, <4>2, <4>3, <5>1
          <5>3. Owing(tx', Contents(txf')) = First(t.data, << >>)
            BY <2>1, <4>1, <4>3 DEF Owing
          <5> QED BY <5>1, <5>2, <5>3, Zenon
        <4>4. CASE ~t.busy
          BY <1>9, <2>1, <3>3, <4>1, <4>2, <4>4 DEF Owing
        <4> QED BY <4>3, <4>4
      <3> QED BY <1>1, <3>1, <3>2, <3>3
    <2> QED BY <1>5, <1>6, <1>11, <1>12, <2>2, <2>3 DEF TxInv
  <1>15. CASE ~holding_written(a.thr) /\ a.clear_tx /\ tx.start_pending /\ tx.state = "IDLE"
    <2>1. ~tick /\ t = tx
      BY <1>1, <1>2, <1>15 DEF Edge
    <2>2. tx' = [tx EXCEPT !.start_pending = FALSE, !.busy = FALSE] /\ wire' = wire
      BY <1>1, <1>2, <1>15, <2>1 DEF Transmitter, Wire
    <2>3. tx' \in Shifter /\ tx'.state = "IDLE" /\ ~tx'.busy /\ ~tx'.start_pending /\ tx'.out = tx.out
      BY <1>6, <1>15, <2>2 DEF Shifter
    <2>4. Holds(tx)' /\ Line(tx, wire)'
      BY <1>15, <2>2, <2>3 DEF Holds, Line, TxInv
    <2>5. expected' = << >> /\ Contents(txf') = << >>
      BY <1>5, <1>9, <1>15, <2>3
    <2>6. expected' = Owing(tx', Contents(txf'))
      BY <2>3, <2>5 DEF Owing
    <2> QED BY <1>5, <1>6, <1>11, <1>12, <2>4, <2>6 DEF TxInv
  <1> QED BY <1>13, <1>14, <1>15

-----------------------------------------------------------------------------
(* The theorems.  Those of the transmitter are for software that does not  *)
(* clear the FIFO in the cycle the bit tick starts a byte that waits in    *)
(* the holding register.                                                   *)

\* Every step is a clock edge with one access.
LEMMA Accesses ==
  ASSUME Next
  PROVE  \E tick \in BOOLEAN, byte \in RxByte \cup {None}, a \in Access : Clock(tick, byte, a)
  <1>1. PICK tick \in BOOLEAN, byte \in RxByte \cup {None} : Step(tick, byte)
    BY DEF Next
  <1>2. NoAccess \in Access /\ TxByte \subseteq Byte
    BY UartAssumption DEF NoAccess, Access, Byte
  <1>3. CASE Quiet(tick, byte)
    BY <1>2, <1>3 DEF Quiet
  <1>4. ASSUME NEW b \in TxByte, WriteTHR(tick, byte, b) PROVE \E a \in Access : Clock(tick, byte, a)
    <2> DEFINE a == [NoAccess EXCEPT !.thr = b]
    <2>1. a \in Access
      BY <1>2 DEF Access, NoAccess
    <2> QED BY <1>4, <2>1 DEF WriteTHR
  <1>5. ASSUME NEW rx \in BOOLEAN, NEW thre \in BOOLEAN, WriteIER(tick, byte, rx, thre)
        PROVE  \E a \in Access : Clock(tick, byte, a)
    BY <1>2, <1>5 DEF WriteIER
  <1>6. ASSUME NEW enable \in BOOLEAN, NEW clear_rx \in BOOLEAN, NEW clear_tx \in BOOLEAN,
               WriteFCR(tick, byte, enable, clear_rx, clear_tx)
        PROVE  \E a \in Access : Clock(tick, byte, a)
    <2> DEFINE a == [NoAccess EXCEPT !.clear_rx = clear_rx, !.clear_tx = clear_tx]
    <2>1. a \in Access
      BY <1>2 DEF Access, NoAccess
    <2> QED BY <1>6, <2>1 DEF WriteFCR
  <1>7. CASE ReadRBR(tick, byte)
    <2> DEFINE a == [NoAccess EXCEPT !.read_rbr = TRUE]
    <2>1. a \in Access
      BY <1>2 DEF Access, NoAccess
    <2> QED BY <1>7, <2>1 DEF ReadRBR
  <1>8. CASE ReadIIR(tick, byte)
    <2> DEFINE a == [NoAccess EXCEPT !.read_iir = TRUE]
    <2>1. a \in Access
      BY <1>2 DEF Access, NoAccess
    <2> QED BY <1>8, <2>1 DEF ReadIIR
  <1> QED BY <1>1, <1>3, <1>4, <1>5, <1>6, <1>7, <1>8 DEF Step

\* What an edge is, for those drivers.
LEMMA Edges ==
  ASSUME ~ClearsStarting, TxInv, Next
  PROVE  \E tick, byte, a : Edge(tick, byte, a)
  <1>1. PICK tick \in BOOLEAN, byte \in RxByte \cup {None} : Step(tick, byte)
    BY DEF Next
  <1>2. NoAccess \in Access /\ fifo_enabled \in BOOLEAN /\ TxByte \subseteq Byte
    BY UartAssumption DEF NoAccess, Access, TxInv, Byte
  <1>3. CASE Quiet(tick, byte)
    <2>1. Edge(tick, byte, NoAccess)
      BY <1>2, <1>3 DEF Quiet, Edge, NoAccess
    <2> QED BY <2>1
  <1>4. ASSUME NEW b \in TxByte, WriteTHR(tick, byte, b) PROVE \E a : Edge(tick, byte, a)
    <2> DEFINE a == [NoAccess EXCEPT !.thr = b]
    <2>1. a \in Access /\ a.clear_tx = FALSE
      BY <1>2 DEF Access, NoAccess
    <2>2. Clock(tick, byte, a) /\ fifo_enabled' = fifo_enabled
      BY <1>4 DEF WriteTHR
    <2> HIDE DEF a
    <2>3. Edge(tick, byte, a)
      BY <1>2, <2>1, <2>2 DEF Edge
    <2> QED BY <2>3
  <1>5. ASSUME NEW rx \in BOOLEAN, NEW thre \in BOOLEAN, WriteIER(tick, byte, rx, thre) PROVE \E a : Edge(tick, byte, a)
    <2>1. Edge(tick, byte, NoAccess)
      BY <1>2, <1>5 DEF WriteIER, Edge, NoAccess
    <2> QED BY <2>1
  <1>6. ASSUME NEW enable \in BOOLEAN, NEW clear_rx \in BOOLEAN, NEW clear_tx \in BOOLEAN,
               WriteFCR(tick, byte, enable, clear_rx, clear_tx)
        PROVE  \E a : Edge(tick, byte, a)
    <2> DEFINE a == [NoAccess EXCEPT !.clear_rx = clear_rx, !.clear_tx = clear_tx]
    <2>1. a \in Access /\ a.clear_tx = clear_tx /\ a.thr = None
      BY <1>2 DEF Access, NoAccess
    <2>2. /\ Clock(tick, byte, a) /\ fifo_enabled' = enable /\ (enable # fifo_enabled => tx_temt)
          /\ clear_tx => ~(tick /\ tx.start_pending)
      BY <1>6 DEF WriteFCR
    <2> HIDE DEF a
    <2>3. Edge(tick, byte, a)
      BY <1>2, <2>1, <2>2 DEF Edge
    <2> QED BY <2>3
  <1>7. CASE ReadRBR(tick, byte)
    <2> DEFINE a == [NoAccess EXCEPT !.read_rbr = TRUE]
    <2>1. a \in Access /\ a.clear_tx = FALSE
      BY <1>2 DEF Access, NoAccess
    <2>2. Clock(tick, byte, a) /\ fifo_enabled' = fifo_enabled
      BY <1>7 DEF ReadRBR
    <2> HIDE DEF a
    <2>3. Edge(tick, byte, a)
      BY <1>2, <2>1, <2>2 DEF Edge
    <2> QED BY <2>3
  <1>8. CASE ReadIIR(tick, byte)
    <2> DEFINE a == [NoAccess EXCEPT !.read_iir = TRUE]
    <2>1. a \in Access /\ a.clear_tx = FALSE
      BY <1>2 DEF Access, NoAccess
    <2>2. Clock(tick, byte, a) /\ fifo_enabled' = fifo_enabled
      BY <1>8 DEF ReadIIR
    <2> HIDE DEF a
    <2>3. Edge(tick, byte, a)
      BY <1>2, <2>1, <2>2 DEF Edge
    <2> QED BY <2>3
  <1> QED BY <1>1, <1>3, <1>4, <1>5, <1>6, <1>7, <1>8 DEF Step

UartInv == TxInv /\ RxInv /\ thre_irq \in BOOLEAN /\ ThreMeansReady

\* The THRE latch falls with the byte that fills the transmitter.
LEMMA ThreStep ==
  ASSUME UartInv, NEW tick, NEW byte, NEW a, Edge(tick, byte, a)
  PROVE  thre_irq' \in BOOLEAN /\ ThreMeansReady'
  <1>1. thre_irq' = (~thre_irq_clear(a) /\ (thre_irq \/ thre_irq_set)) /\ thre_irq' \in BOOLEAN
    BY DEF Edge, Clock, Latch
  <1> SUFFICES ASSUME thre_irq' PROVE tx_thre'
    BY <1>1 DEF ThreMeansReady
  <1>2. a.thr = None /\ tx_thre
    BY <1>1 DEF UartInv, ThreMeansReady, thre_irq_set, thre_irq_clear
  <1>3. ~tx_fifo_pushed(a.thr) /\ ~holding_written(a.thr)
    BY <1>2 DEF tx_fifo_pushed, holding_written
  <1>4. TxInv' /\ TxInv
    BY TxStep DEF UartInv
  <1>5. fifo_enabled \in BOOLEAN /\ fifo_enabled' \in BOOLEAN /\ (~fifo_enabled => txf.count = 0)
    BY <1>4 DEF TxInv
  <1>6. txf.count = 0 => txf'.count = 0
    BY <1>3, <1>4, TxFifo
  <1>7. ~tx.busy /\ ~tx.start_pending /\ txf.count = 0 => ~tx'.busy /\ ~tx'.start_pending
    <2> SUFFICES ASSUME ~tx.busy, ~tx.start_pending, txf.count = 0 PROVE ~tx'.busy /\ ~tx'.start_pending
      OBVIOUS
    <2>1. PICK t : t = IF tick THEN BitTick ELSE tx
      OBVIOUS
    <2>2. ~tx_fifo_popped(tick)
      BY DEF tx_fifo_popped
    <2>3. Ticked(tick, t, wire')
      BY <1>4, <2>1, TickStep DEF Edge, Clock
    <2>4. ~t.busy /\ ~t.start_pending
      BY <2>2, <2>3 DEF Ticked
    <2>5. tx' = t
      BY <1>3, <2>1 DEF Edge, Clock, Transmitter
    <2> QED BY <2>4, <2>5
  <1>8. CASE fifo_enabled' = fifo_enabled
    BY <1>2, <1>5, <1>6, <1>7, <1>8 DEF tx_thre
  <1>9. CASE fifo_enabled' # fifo_enabled
    <2>1. tx_temt
      BY <1>9 DEF Edge
    <2> QED BY <1>6, <1>7, <2>1 DEF tx_temt, tx_thre
  <1> QED BY <1>8, <1>9

\* Reset.
LEMMA UartInitially == Init => UartInv
  <1> SUFFICES ASSUME Init PROVE UartInv
    OBVIOUS
  <1>1. Bits \in Nat /\ Depth \in Nat /\ Depth > 0 /\ 0 \in Slot /\ 0 \in 0 .. Depth /\ 0 \in 0 .. Bits /\ ZeroByte \in Byte
    BY UartAssumption DEF Slot, ZeroByte, Byte
  <1>2. Ring(EmptyFifo) /\ EmptyFifo.count = 0
    <2>1. At(0, 0) = 0
      <3>1. 0 + 0 = 0 /\ 0 < Depth
        BY <1>1
      <3> QED BY <1>1, <3>1, Wrap
    <2> QED BY <1>1, <2>1 DEF EmptyFifo, Ring, FifoType
  <1>3. Contents(EmptyFifo) = << >>
    BY <1>2, RingContents
  <1>4. tx \in Shifter /\ tx.state = "IDLE" /\ ~tx.busy /\ ~tx.start_pending /\ tx.out = 1
    BY <1>1 DEF Init, Shifter
  <1>5. Holds(tx) /\ Line(tx, wire) /\ expected = Owing(tx, Contents(txf))
    BY <1>3, <1>4 DEF Init, Holds, Line, Owing
  <1>6. TxInv
    BY <1>2, <1>5 DEF Init, TxInv
  <1>7. RxInv
    BY <1>1, <1>2, <1>3 DEF Init, RxInv
  <1>8. thre_irq \in BOOLEAN /\ ThreMeansReady
    BY DEF Init, ThreMeansReady
  <1> QED BY <1>6, <1>7, <1>8 DEF UartInv

\* Every step keeps the invariant, sends the oldest byte that is owed and reads the oldest that arrived.
LEMMA UartStep ==
  ASSUME ~ClearsStarting, UartInv, [Next]_vars
  PROVE  /\ UartInv'
         /\ UNCHANGED vars \/ (io'.sent # None => expected # << >> /\ io'.sent = Append(Head(expected), 1))
         /\ UNCHANGED vars \/ (RxKeepsOrder' /\ ReadsOldest)
  <1>1. CASE Next
    <2>1. PICK tick, byte, a : Edge(tick, byte, a)
      BY <1>1, Edges DEF UartInv
    <2>2. TxInv' /\ (io'.sent # None => expected # << >> /\ io'.sent = Append(Head(expected), 1))
      BY <2>1, TxStep DEF UartInv
    <2>3. RxInv' /\ RxKeepsOrder' /\ ReadsOldest
      BY <2>1, RxStep DEF Edge, UartInv
    <2>4. thre_irq' \in BOOLEAN /\ ThreMeansReady'
      BY <2>1, ThreStep
    <2> QED BY <2>2, <2>3, <2>4 DEF UartInv
  <1>2. CASE UNCHANGED vars
    BY <1>2 DEF vars, txvars, rxvars, UartInv, TxInv, RxInv, Holds, Line, ThreMeansReady, tx_thre, Ring
  <1> QED BY <1>1, <1>2

\* TEMT is set only when every byte that software wrote has left with its stop bit or was taken back, and
\* the interrupt for an empty transmitter is pending only while the transmitter takes a byte (uart.v, tx_temt
\* and thre_irq), with the same exception.
THEOREM StatusIsTrue == ASSUME ~ClearsStarting PROVE Spec => []TxStatusTrue
  <1>1. UartInv => TxStatusTrue
    BY NothingOwed DEF UartInv, TxStatusTrue, TemtMeansSent
  <1> QED BY <1>1, UartInitially, UartStep, PTL DEF Spec

\* The line carries the bytes that software wrote and no clear took back, in their order and framed, through
\* any mix of holding register and FIFO, and of clears at any time but one: the very cycle in which the bit
\* tick starts a byte that waits in the holding register.  There uart.v:305-308 drops tx_busy with the frame
\* out, and the next write of THR overwrites tx_data (uart.v, the TX state machine, its FIFO and FCR).
THEOREM SentInOrder == ASSUME ~ClearsStarting PROVE Spec => TxInOrder
  <1>1. UartInv /\ [Next]_vars => [io'.sent # None => expected # << >> /\ io'.sent = Append(Head(expected), 1)]_vars
    BY UartStep
  <1> QED BY <1>1, UartInitially, UartStep, PTL DEF Spec, TxInOrder

\* Software reads the bytes that arrived in their order, each once; LSR reports an overrun when and only
\* when a byte was lost because the FIFO was full (uart.v, the RX FIFO).
THEOREM ReceivedInOrder == Spec => RxInOrder
  <1>1. Init => RxInv
    BY UartInitially DEF UartInv
  <1>2. RxInv /\ Next => RxInv' /\ RxKeepsOrder' /\ ReadsOldest
    BY Accesses, RxStep
  <1>3. RxInv /\ UNCHANGED vars => RxInv'
    BY DEF vars, rxvars, RxInv, Ring
  <1> QED BY <1>1, <1>2, <1>3, PTL DEF Spec, RxInOrder

=============================================================================
