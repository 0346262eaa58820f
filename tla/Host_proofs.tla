----------------------------- MODULE Host_proofs ----------------------------
(***************************************************************************)
(* Theorems about the Python tools around the simulator.                   *)
(***************************************************************************)
EXTENDS Bridge, CBuild, BootTest, TraceCompare, SpikeCompare, PtyOutput, UartMonitor, SequenceTheorems, TLAPS, WellFoundedInduction

-----------------------------------------------------------------------------
(* Sequences: the first element and the rest, prefixes, and a map.         *)
LEMMA HeadAndTail ==
  ASSUME NEW K, NEW s \in Seq(K), s # <<>>
  PROVE  Head(s) \in K /\ Tail(s) \in Seq(K) /\ s = <<Head(s)>> \o Tail(s)
  <1>1. /\ Head(s) \in K /\ Tail(s) \in Seq(K) /\ Len(Tail(s)) = Len(s) - 1
        /\ \A i \in 1 .. Len(Tail(s)) : Tail(s)[i] = s[i + 1]
    BY HeadTailProperties
  <1>2. Len(s) \in Nat \ {0}
    BY EmptySeq
  <1>3. <<Head(s)>> \in Seq(K) /\ Len(<<Head(s)>>) = 1 /\ <<Head(s)>>[1] = s[1]
    BY <1>1
  <1> DEFINE h == <<Head(s)>>  t == Tail(s)
  <1> HIDE DEF h, t
  <1>4. /\ h \o t \in Seq(K) /\ Len(h \o t) = Len(h) + Len(t)
        /\ \A i \in 1 .. Len(h) + Len(t) : (h \o t)[i] = IF i <= Len(h) THEN h[i] ELSE t[i - Len(h)]
    BY <1>1, <1>3, ConcatProperties DEF h, t
  <1>5. Len(h) = 1 /\ h[1] = s[1] /\ Len(t) = Len(s) - 1 /\ \A i \in 1 .. Len(t) : t[i] = s[i + 1]
    BY <1>1, <1>3 DEF h, t
  <1>6. \A i \in 1 .. Len(s) : (h \o t)[i] = s[i]
    BY <1>2, <1>4, <1>5
  <1>7. s = h \o t
    <2> DEFINE w == h \o t
    <2>1. w \in Seq(K) /\ Len(s) = Len(w) /\ \A i \in 1 .. Len(s) : s[i] = w[i]
      BY <1>2, <1>4, <1>5, <1>6
    <2> HIDE DEF w
    <2>2. s = w
      BY <2>1, SeqEqual
    <2> QED BY <2>2 DEF w
  <1> QED BY <1>1, <1>7 DEF h, t

\* Concatenation, with the equations of the algebra below; its proofs need not know more.
Cat(s, t) == s \o t

\* Concatenation, kept folded so that the provers see sequences as values.
LEMMA CatFacts ==
  /\ <<>> \in Seq(Key)
  /\ \A s \in Seq(Key) : Cat(s, <<>>) = s /\ Cat(<<>>, s) = s
  /\ \A s, t \in Seq(Key) : Cat(s, t) \in Seq(Key)
  BY EmptySeq, ConcatEmptySeq, ConcatProperties DEF Cat

\* It is associative.
LEMMA CatAssoc == \A s, t, u \in Seq(Key) : Cat(Cat(s, t), u) = Cat(s, Cat(t, u))
  BY ConcatAssociative DEF Cat

\* A byte appended.
LEMMA CatAppend ==
  \A s \in Seq(Key), b \in Key :
    <<b>> \in Seq(Key) /\ Append(s, b) = Cat(s, <<b>>) /\ Append(s, b) \in Seq(Key) /\ Append(s, b) # <<>>
  <1>1. \A b \in Key : <<b>> \in Seq(Key)
    OBVIOUS
  <1> QED BY <1>1, AppendIsConcat, AppendProperties DEF Cat

\* A byte taken.
LEMMA CatHead ==
  \A s \in Seq(Key) : s # <<>> => Head(s) \in Key /\ Tail(s) \in Seq(Key) /\ s = Cat(<<Head(s)>>, Tail(s))
  BY HeadAndTail DEF Cat

\* What was there is a prefix of what is.
LEMMA ConcatPrefix ==
  ASSUME NEW K, NEW s \in Seq(K), NEW t \in Seq(K)
  PROVE  IsPrefix(s, s \o t)
  <1>1. /\ s \o t \in Seq(K) /\ Len(s \o t) = Len(s) + Len(t)
        /\ \A i \in 1 .. Len(s) + Len(t) : (s \o t)[i] = IF i <= Len(s) THEN s[i] ELSE t[i - Len(s)]
    BY ConcatProperties
  <1>2. Len(s) \in Nat /\ Len(t) \in Nat
    BY LenProperties
  <1> DEFINE u == s \o t  n == Len(s)
  <1> HIDE DEF u
  <1>3. \A i \in 1 .. n : s[i] \in K /\ u[i] = s[i]
    BY <1>1, <1>2, ElementOfSeq DEF u
  <1>4. /\ SubSeq(s, 1, n) \in Seq(K) /\ Len(SubSeq(s, 1, n)) = n
        /\ \A i \in 1 .. n : SubSeq(s, 1, n)[i] = s[i]
    <2>1. /\ SubSeq(s, 1, n) \in Seq(K) /\ Len(SubSeq(s, 1, n)) = IF 1 <= n THEN n - 1 + 1 ELSE 0
          /\ \A i \in 1 .. n - 1 + 1 : SubSeq(s, 1, n)[i] = s[1 + i - 1]
      BY <1>2, <1>3, SubSeqProperties, 1 \in Int, n \in Int
    <2> QED BY <2>1, <1>2
  <1>5. /\ SubSeq(u, 1, n) \in Seq(K) /\ Len(SubSeq(u, 1, n)) = n
        /\ \A i \in 1 .. n : SubSeq(u, 1, n)[i] = u[i]
    <2>1. /\ SubSeq(u, 1, n) \in Seq(K) /\ Len(SubSeq(u, 1, n)) = IF 1 <= n THEN n - 1 + 1 ELSE 0
          /\ \A i \in 1 .. n - 1 + 1 : SubSeq(u, 1, n)[i] = u[1 + i - 1]
      BY <1>2, <1>3, SubSeqProperties, 1 \in Int, n \in Int
    <2> QED BY <2>1, <1>2
  <1>6. SubSeq(s, 1, n) = SubSeq(u, 1, n)
    BY <1>3, <1>4, <1>5, SeqEqual
  <1> QED BY <1>1, <1>2, <1>6 DEF IsPrefix, u

\* What the driver puts on the line, byte by byte.
LEMMA OnLineKey == \A b \in Key : OnLine(b) \in Key /\ (b # Exit => OnLine(b) # Exit)
  BY BridgeAssumption DEF OnLine

\* Typed bytes as the line carries them.
LEMMA LineFacts ==
  ASSUME NEW s \in Seq(Key)
  PROVE  /\ OnLineAll(s) \in Seq(Key) /\ Len(OnLineAll(s)) = Len(s)
         /\ \A i \in 1 .. Len(s) : OnLineAll(s)[i] = OnLine(s[i])
  <1>1. Len(s) \in Nat /\ DOMAIN s = 1 .. Len(s) /\ \A i \in 1 .. Len(s) : s[i] \in Key
    BY LenProperties, ElementOfSeq
  <1> DEFINE m == [i \in 1 .. Len(s) |-> OnLine(s[i])]
  <1>2. m \in [1 .. Len(s) -> Key]
    BY <1>1, OnLineKey
  <1>3. m \in Seq(Key) /\ Len(m) = Len(s)
    <2>1. m \in Seq(Key)
      BY <1>1, <1>2, SeqDef
    <2> QED BY <1>1, <2>1, LenProperties
  <1>4. OnLineAll(s) = m
    BY <1>1 DEF OnLineAll
  <1> QED BY <1>3, <1>4

\* They are carried one by one.
LEMMA LineConcat ==
  ASSUME NEW s \in Seq(Key), NEW t \in Seq(Key)
  PROVE  OnLineAll(s \o t) = OnLineAll(s) \o OnLineAll(t)
  <1> DEFINE u == s \o t  a == OnLineAll(s)  b == OnLineAll(t)  c == OnLineAll(s \o t)
  <1>1. /\ u \in Seq(Key) /\ Len(u) = Len(s) + Len(t) /\ Len(s) \in Nat /\ Len(t) \in Nat
        /\ \A i \in 1 .. Len(s) + Len(t) : u[i] = IF i <= Len(s) THEN s[i] ELSE t[i - Len(s)]
    BY ConcatProperties, LenProperties
  <1>2. /\ a \in Seq(Key) /\ Len(a) = Len(s) /\ \A i \in 1 .. Len(s) : a[i] = OnLine(s[i])
        /\ b \in Seq(Key) /\ Len(b) = Len(t) /\ \A i \in 1 .. Len(t) : b[i] = OnLine(t[i])
    BY LineFacts
  <1>3. c \in Seq(Key) /\ Len(c) = Len(u) /\ \A i \in 1 .. Len(u) : c[i] = OnLine(u[i])
    BY <1>1, LineFacts
  <1> HIDE DEF a, b, c, u
  <1>4. /\ a \o b \in Seq(Key) /\ Len(a \o b) = Len(a) + Len(b)
        /\ \A i \in 1 .. Len(a) + Len(b) : (a \o b)[i] = IF i <= Len(a) THEN a[i] ELSE b[i - Len(a)]
    <2>1. a \in Seq(Key) /\ b \in Seq(Key)
      BY <1>2
    <2> QED BY <2>1, ConcatProperties
  <1>5. \A i \in 1 .. Len(c) : c[i] = (a \o b)[i]
    <2> SUFFICES ASSUME NEW i \in 1 .. Len(c) PROVE c[i] = (a \o b)[i]
      OBVIOUS
    <2>1. i \in 1 .. Len(s) + Len(t) /\ c[i] = OnLine(u[i])
      BY <1>1, <1>3
    <2>2. CASE i <= Len(s)
      BY <2>1, <2>2, <1>1, <1>2, <1>4
    <2>3. CASE ~(i <= Len(s))
      <3>1. i - Len(s) \in 1 .. Len(t)
        BY <2>1, <2>3, <1>1
      <3> QED BY <2>1, <2>3, <3>1, <1>1, <1>2, <1>4
    <2> QED BY <2>2, <2>3
  <1>6. c = a \o b
    BY <1>1, <1>2, <1>3, <1>4, <1>5, SeqEqual
  <1> QED BY <1>6 DEF a, b, c, u

\* The same of the folded concatenation.
LEMMA LineCat == \A s, t \in Seq(Key) : OnLineAll(Cat(s, t)) = Cat(OnLineAll(s), OnLineAll(t))
  BY LineConcat DEF Cat

\* One byte of them.
LEMMA LineOne ==
  /\ OnLineAll(<<>>) = <<>>
  /\ \A b \in Key : OnLineAll(<<b>>) = <<OnLine(b)>>
  <1>1. OnLineAll(<<>>) = <<>>
    <2>1. <<>> \in Seq(Key) /\ Len(<<>>) = 0
      BY EmptySeq
    <2>2. OnLineAll(<<>>) \in Seq(Key) /\ Len(OnLineAll(<<>>)) = 0
      BY <2>1, LineFacts
    <2> QED BY <2>2, EmptySeq
  <1>2. ASSUME NEW b \in Key PROVE OnLineAll(<<b>>) = <<OnLine(b)>>
    BY DEF OnLineAll
  <1> QED BY <1>1, <1>2

\* The byte taken leaves the rest.
LEMMA TailOfOne ==
  ASSUME NEW h \in Key, NEW w \in Seq(Key)
  PROVE  <<h>> \o w # <<>> /\ Tail(<<h>> \o w) = w
  <1> DEFINE o == <<h>>
  <1>1. o \in Seq(Key) /\ Len(o) = 1
    OBVIOUS
  <1> HIDE DEF o
  <1>2. /\ o \o w \in Seq(Key) /\ Len(o \o w) = 1 + Len(w) /\ Len(w) \in Nat
        /\ \A i \in 1 .. 1 + Len(w) : (o \o w)[i] = IF i <= 1 THEN o[i] ELSE w[i - 1]
    <2>1. /\ o \o w \in Seq(Key) /\ Len(o \o w) = Len(o) + Len(w)
          /\ \A i \in 1 .. Len(o) + Len(w) : (o \o w)[i] = IF i <= Len(o) THEN o[i] ELSE w[i - Len(o)]
      BY <1>1, ConcatProperties
    <2>2. Len(w) \in Nat
      BY LenProperties
    <2> QED BY <1>1, <2>1, <2>2
  <1> DEFINE x == o \o w
  <1>3. x \in Seq(Key) /\ Len(x) = 1 + Len(w) /\ \A i \in 1 .. Len(w) : x[i + 1] = w[i]
    BY <1>2
  <1> HIDE DEF x
  <1>4. x # <<>>
    BY <1>2, <1>3, EmptySeq
  <1>5. Tail(x) \in Seq(Key) /\ Len(Tail(x)) = Len(x) - 1 /\ \A i \in 1 .. Len(Tail(x)) : Tail(x)[i] = x[i + 1]
    BY <1>3, <1>4, HeadTailProperties
  <1>6. Len(Tail(x)) = Len(w) /\ \A i \in 1 .. Len(Tail(x)) : Tail(x)[i] = w[i]
    <2>1. PICK n \in Nat : n = Len(w)
      BY <1>2
    <2>2. PICK y : y = Tail(x)
      OBVIOUS
    <2>3. Len(y) = (1 + n) - 1 /\ \A i \in 1 .. Len(y) : y[i] = x[i + 1]
      BY <1>3, <1>5, <2>1, <2>2
    <2>4. Len(y) = n
      BY <2>3
    <2>5. \A i \in 1 .. n : x[i + 1] = w[i]
      BY <1>3, <2>1
    <2>6. \A i \in 1 .. n : y[i] = w[i]
      BY <2>3, <2>4, <2>5
    <2> QED BY <2>1, <2>2, <2>4, <2>6
  <1>7. Tail(x) = w
    BY <1>5, <1>6, SeqEqual
  <1> QED BY <1>4, <1>7 DEF x, o

\* The members of a list with one more.
LEMMA ToSetAppend ==
  ASSUME NEW s \in Seq(Key), NEW b \in Key
  PROVE  ToSet(s \o <<b>>) = ToSet(s) \cup {b}
  <1> DEFINE o == <<b>>
  <1>0. o \in Seq(Key)
    BY CatAppend
  <1>1. Range(s \o o) = Range(s) \cup Range(o)
    BY <1>0, RangeConcatenation
  <1>2. Range(o) = {b}
    BY DEF Range
  <1> QED BY <1>1, <1>2 DEF ToSet, Range

-----------------------------------------------------------------------------
(* FlattenSeq: what it returns, by induction on the numbers of sequences.  *)

\* Every nonempty set of natural numbers has a least element.
LEMMA LeastNumber ==
  ASSUME NEW T, T \subseteq Nat, T # {}
  PROVE  \E n \in T : \A m \in T : n <= m
  <1> DEFINE R == {ss \in Nat \X Nat : ss[1] < ss[2]}
  <1>1. PICK n \in T : \A m \in T : ~(<<m, n>> \in R)
    <2>1. IsWellFoundedOn(R, Nat)
      BY NatLessThanWellFounded, Zenon DEF OpToRel
    <2> HIDE DEF R
    <2> QED BY <2>1, WFMin
  <1>2. \A m \in T : ~(m < n)
    BY <1>1
  <1> QED BY <1>2

\* A set that holds 0 and the successor of each of its numbers holds all.
LEMMA Induction ==
  ASSUME NEW T, 0 \in T, \A n \in Nat : n \in T => n + 1 \in T
  PROVE  Nat \subseteq T
  <1> SUFFICES ASSUME Nat \ T # {} PROVE FALSE
    OBVIOUS
  <1>1. PICK n \in Nat \ T : \A m \in Nat \ T : n <= m
    <2> DEFINE others == Nat \ T
    <2>1. others \subseteq Nat /\ others # {}
      OBVIOUS
    <2> HIDE DEF others
    <2>2. \E n \in others : \A m \in others : n <= m
      BY <2>1, LeastNumber
    <2> QED BY <2>2 DEF others
  <1>2. n - 1 \in Nat /\ n - 1 \in T
    BY <1>1
  <1> QED BY <1>2

\* f joins the sequences ss, one more at each index: the function FlattenSeq computes with.
Joins(f, ss) == f = [i \in 1 .. Len(ss) |-> IF i = 1 THEN ss[i] ELSE f[i - 1] \o ss[i]]

\* Its values.
LEMMA JoinsAt ==
  ASSUME NEW f, NEW ss, Joins(f, ss), NEW i \in 1 .. Len(ss)
  PROVE  f[i] = IF i = 1 THEN ss[i] ELSE f[i - 1] \o ss[i]
  BY Zenon DEF Joins

\* There is such a function.
LEMMA JoinsExists ==
  ASSUME NEW K, NEW ss \in Seq(K)
  PROVE  \E f : Joins(f, ss)
  <1> DEFINE Round(i, b) == IF i = 1 THEN ss[i] ELSE b \o ss[i]
             JoinsTo(f, n) == f = [i \in 1 .. n |-> Round(i, f[i - 1])]
             T == {n \in Nat : \E f : JoinsTo(f, n)}
  <1> HIDE DEF Round
  <1>1. 0 \in T
    <2>1. JoinsTo([i \in 1 .. 0 |-> 0], 0)
      OBVIOUS
    <2> QED BY <2>1, Zenon
  <1>2. ASSUME NEW n \in Nat, n \in T PROVE n + 1 \in T
    <2>1. PICK f : JoinsTo(f, n)
      BY <1>2, Zenon
    <2> DEFINE h == [i \in 1 .. n + 1 |-> IF i = n + 1 THEN Round(n + 1, f[n]) ELSE f[i]]
    <2>2. JoinsTo(h, n + 1)
      <3> SUFFICES ASSUME NEW i \in 1 .. n + 1 PROVE h[i] = Round(i, h[i - 1])
        BY Zenon
      <3>1. CASE i = n + 1
        <4>1. CASE n = 0
          <5>1. i = 1
            BY <3>1, <4>1
          <5> QED BY <3>1, <4>1, <5>1 DEF Round
        <4>2. CASE n # 0
          <5>1. n \in 1 .. n + 1 /\ n # n + 1 /\ i - 1 = n
            BY <3>1, <4>2
          <5> QED BY <3>1, <5>1
        <4> QED BY <4>1, <4>2
      <3>2. CASE i # n + 1
        <4>1. i \in 1 .. n /\ f[i] = Round(i, f[i - 1])
          BY <2>1, <3>2
        <4>2. CASE i = 1
          BY <3>2, <4>1, <4>2 DEF Round
        <4>3. CASE i # 1
          <5>1. i - 1 \in 1 .. n + 1 /\ i - 1 # n + 1
            BY <4>1, <4>3
          <5> QED BY <3>2, <4>1, <5>1
        <4> QED BY <4>2, <4>3
      <3> QED BY <3>1, <3>2
    <2>3. n + 1 \in Nat
      OBVIOUS
    <2> HIDE DEF JoinsTo
    <2> QED BY <2>2, <2>3
  <1>3. \E f : JoinsTo(f, Len(ss))
    <2> HIDE DEF T
    <2>1. Len(ss) \in T
      BY <1>1, <1>2, Induction, LenProperties
    <2> QED BY <2>1, Zenon DEF T
  <1> QED BY <1>3, Zenon DEF Joins, Round

\* It is determined by the sequences it has joined.
LEMMA JoinsUnique ==
  ASSUME NEW f, NEW g, NEW ss, NEW tt, Joins(f, ss), Joins(g, tt),
         NEW n \in Nat, n # 0, Len(ss) \in Nat, Len(tt) \in Nat, n <= Len(ss), n <= Len(tt),
         \A i \in 1 .. n : ss[i] = tt[i]
  PROVE  f[n] = g[n]
  <1> DEFINE T == {m \in Nat : m \in 1 .. n => f[m] = g[m]}
  <1>1. 0 \in T
    OBVIOUS
  <1>2. ASSUME NEW m \in Nat, m \in T PROVE m + 1 \in T
    <2> SUFFICES ASSUME m + 1 \in 1 .. n PROVE f[m + 1] = g[m + 1]
      OBVIOUS
    <2>1. m + 1 \in 1 .. Len(ss) /\ m + 1 \in 1 .. Len(tt) /\ (m + 1) - 1 = m /\ (m # 0 => m \in 1 .. n) /\ (m + 1 = 1 <=> m = 0)
      OBVIOUS
    <2>2. f[m + 1] = IF m + 1 = 1 THEN ss[m + 1] ELSE f[m] \o ss[m + 1]
      BY <2>1 DEF Joins
    <2>3. g[m + 1] = IF m + 1 = 1 THEN tt[m + 1] ELSE g[m] \o tt[m + 1]
      BY <2>1 DEF Joins
    <2> QED BY <1>2, <2>1, <2>2, <2>3
  <1> HIDE DEF T
  <1>3. n \in T
    BY <1>1, <1>2, Induction
  <1> QED BY <1>3 DEF T

\* FlattenSeq takes the last value of it.
LEMMA FlattenJoins ==
  ASSUME NEW K, NEW ss \in Seq(K), ss # <<>>
  PROVE  \E f : Joins(f, ss) /\ FlattenSeq(ss) = f[Len(ss)]
  <1> DEFINE c == CHOOSE f : Joins(f, ss)
  <1>1. Len(ss) # 0
    BY EmptySeq
  <1>2. FlattenSeq(ss) = c[Len(ss)]
    BY <1>1, Zenon DEF FlattenSeq, Joins
  <1>3. Joins(c, ss)
    BY JoinsExists, Zenon
  <1> QED BY <1>2, <1>3, Zenon

\* Nothing to join.
LEMMA FlattenEmpty == FlattenSeq(<<>>) = <<>>
  BY DEF FlattenSeq

\* One sequence more.
LEMMA FlattenAppend ==
  ASSUME NEW K, NEW ss \in Seq(Seq(K)), NEW s \in Seq(K)
  PROVE  FlattenSeq(Append(ss, s)) = FlattenSeq(ss) \o s
  <1> DEFINE tt == Append(ss, s)
  <1>1. /\ tt \in Seq(Seq(K)) /\ tt # <<>> /\ Len(tt) = Len(ss) + 1 /\ Len(ss) \in Nat /\ tt[Len(ss) + 1] = s
        /\ \A i \in 1 .. Len(ss) : tt[i] = ss[i]
    BY AppendProperties, LenProperties
  <1> HIDE DEF tt
  <1>2. PICK f : Joins(f, tt) /\ FlattenSeq(tt) = f[Len(tt)]
    BY <1>1, FlattenJoins
  <1>3. f[Len(tt)] = IF Len(tt) = 1 THEN s ELSE f[Len(tt) - 1] \o s
    <2>1. Len(tt) \in 1 .. Len(tt)
      BY <1>1
    <2>2. f[Len(tt)] = IF Len(tt) = 1 THEN tt[Len(tt)] ELSE f[Len(tt) - 1] \o tt[Len(tt)]
      BY <1>2, <2>1, JoinsAt
    <2> QED BY <1>1, <2>2
  <1>4. CASE ss = <<>>
    <2>1. FlattenSeq(ss) = <<>> /\ Len(tt) = 1
      BY <1>1, <1>4, FlattenEmpty
    <2> QED BY <2>1, <1>2, <1>3, ConcatEmptySeq DEF tt
  <1>5. CASE ss # <<>>
    <2>1. Len(ss) # 0
      BY <1>5, EmptySeq
    <2>2. PICK g : Joins(g, ss) /\ FlattenSeq(ss) = g[Len(ss)]
      BY <1>5, FlattenJoins
    <2>3. f[Len(ss)] = g[Len(ss)]
      <3>1. Len(ss) <= Len(tt) /\ Len(ss) <= Len(ss) /\ Len(tt) \in Nat
        BY <1>1
      <3> QED BY <1>1, <1>2, <2>1, <2>2, <3>1, JoinsUnique
    <2>4. Len(tt) # 1 /\ Len(tt) - 1 = Len(ss)
      BY <1>1, <2>1
    <2> QED BY <1>2, <1>3, <2>2, <2>3, <2>4 DEF tt
  <1> QED BY <1>4, <1>5

\* The last of several sequences.
LEMMA FlattenLast ==
  ASSUME NEW K, NEW c \in Seq(Seq(K)), c # <<>>
  PROVE  LET n == Len(c) - 1
             front == [i \in 1 .. n |-> c[i]]
         IN /\ n \in Nat /\ c[n + 1] \in Seq(K) /\ front \in Seq(Seq(K))
            /\ FlattenSeq(c) = FlattenSeq(front) \o c[n + 1]
  <1> DEFINE n == Len(c) - 1  front == [i \in 1 .. n |-> c[i]]
  <1>1. n \in Nat /\ Len(c) = n + 1 /\ \A i \in 1 .. n + 1 : c[i] \in Seq(K)
    BY EmptySeq, LenProperties, ElementOfSeq
  <1>2. front \in Seq(Seq(K)) /\ Len(front) = n /\ \A i \in 1 .. n : front[i] = c[i]
    BY <1>1, IsASeq
  <1> HIDE DEF n, front
  <1> DEFINE v == Append(front, c[n + 1])
  <1>3. /\ v \in Seq(Seq(K)) /\ Len(v) = n + 1 /\ v[n + 1] = c[n + 1]
        /\ \A i \in 1 .. n : v[i] = c[i]
    <2>1. c[n + 1] \in Seq(K)
      BY <1>1
    <2>2. v \in Seq(Seq(K)) /\ Len(v) = Len(front) + 1 /\ v[Len(front) + 1] = c[n + 1]
          /\ \A i \in 1 .. Len(front) : v[i] = front[i]
      BY <1>2, <2>1, AppendProperties
    <2> QED BY <1>2, <2>2
  <1> HIDE DEF v
  <1>4. Len(c) = Len(v) /\ \A i \in 1 .. Len(c) : c[i] = v[i]
    BY <1>1, <1>3
  <1>5. c = v
    BY <1>3, <1>4, SeqEqual
  <1>6. FlattenSeq(v) = FlattenSeq(front) \o c[n + 1]
    BY <1>1, <1>2, FlattenAppend DEF v
  <1> QED BY <1>1, <1>2, <1>5, <1>6 DEF n, front

\* What is joined is a sequence of the same elements.
LEMMA FlattenType ==
  ASSUME NEW K, NEW ss \in Seq(Seq(K))
  PROVE  FlattenSeq(ss) \in Seq(K)
  <1>1. CASE ss = <<>>
    <2>1. FlattenSeq(ss) = <<>>
      BY <1>1, FlattenEmpty, Zenon
    <2> QED BY <2>1, EmptySeq
  <1>2. CASE ss # <<>>
    <2>1. PICK f : Joins(f, ss) /\ FlattenSeq(ss) = f[Len(ss)]
      BY <1>2, FlattenJoins
    <2>2. Len(ss) \in Nat /\ Len(ss) # 0 /\ \A i \in 1 .. Len(ss) : ss[i] \in Seq(K)
      BY <1>2, EmptySeq, LenProperties
    <2> DEFINE T == {m \in Nat : m \in 1 .. Len(ss) => f[m] \in Seq(K)}
    <2>3. 0 \in T
      OBVIOUS
    <2>4. ASSUME NEW m \in Nat, m \in T PROVE m + 1 \in T
      <3> SUFFICES ASSUME m + 1 \in 1 .. Len(ss) PROVE f[m + 1] \in Seq(K)
        OBVIOUS
      <3>1. f[m + 1] = IF m + 1 = 1 THEN ss[m + 1] ELSE f[m] \o ss[m + 1]
        <4>1. m + 1 \in 1 .. Len(ss) /\ (m + 1) - 1 = m
          OBVIOUS
        <4> QED BY <2>1, <4>1, JoinsAt
      <3>2. m = 0 \/ f[m] \in Seq(K)
        BY <2>2, <2>4
      <3> QED BY <2>2, <3>1, <3>2, ConcatProperties
    <2> HIDE DEF T
    <2>5. Len(ss) \in T
      BY <2>2, <2>3, <2>4, Induction
    <2>6. Len(ss) \in 1 .. Len(ss)
      BY <2>2
    <2>7. f[Len(ss)] \in Seq(K)
      BY <2>5, <2>6 DEF T
    <2> QED BY <2>1, <2>7
  <1> QED BY <1>1, <1>2

-----------------------------------------------------------------------------
(* The interactive console: where the typed bytes are.                     *)

\* Of the first n bytes of s, those whose numbers are not in D.
IntactOf(s, D, n) == FlattenSeq([i \in 1 .. n |-> IF i \in D THEN <<>> ELSE <<s[i]>>])

\* One byte more.
LEMMA IntactNext ==
  ASSUME NEW K, NEW s \in Seq(K), NEW D, NEW n \in Nat, n < Len(s)
  PROVE  /\ IntactOf(s, D, n) \in Seq(K)
         /\ IntactOf(s, D, n + 1) = IF n + 1 \in D THEN IntactOf(s, D, n) ELSE Append(IntactOf(s, D, n), s[n + 1])
  <1> DEFINE c == [i \in 1 .. n + 1 |-> IF i \in D THEN <<>> ELSE <<s[i]>>]
             front == [i \in 1 .. n |-> c[i]]
  <1>1. \A i \in 1 .. n + 1 : s[i] \in K
    BY ElementOfSeq, LenProperties
  <1>2. \A i \in 1 .. n + 1 : c[i] \in Seq(K)
    BY <1>1
  <1>3. c \in Seq(Seq(K)) /\ Len(c) = n + 1 /\ c # <<>> /\ Len(c) - 1 = n
    BY <1>2, IsASeq, EmptySeq
  <1>4. IntactOf(s, D, n + 1) = FlattenSeq(c) /\ IntactOf(s, D, n) = FlattenSeq(front)
    <2>1. front = [i \in 1 .. n |-> IF i \in D THEN <<>> ELSE <<s[i]>>]
      OBVIOUS
    <2> HIDE DEF front
    <2> QED BY <2>1 DEF IntactOf
  <1>5. c[n + 1] = IF n + 1 \in D THEN <<>> ELSE <<s[n + 1]>>
    OBVIOUS
  <1> HIDE DEF c
  <1>6. FlattenSeq(c) = FlattenSeq(front) \o c[n + 1] /\ front \in Seq(Seq(K))
    BY <1>3, FlattenLast
  <1>7. FlattenSeq(front) \in Seq(K)
    BY <1>6, FlattenType
  <1> HIDE DEF front
  <1> DEFINE f == FlattenSeq(front)
  <1> HIDE DEF f
  <1>8. f \in Seq(K)
    BY <1>7 DEF f
  <1>9. Append(f, s[n + 1]) = f \o <<s[n + 1]>> /\ f \o <<>> = f
    BY <1>1, <1>8, AppendIsConcat, ConcatEmptySeq
  <1> QED BY <1>4, <1>5, <1>6, <1>8, <1>9 DEF f

\* Only the first n bytes and numbers count.
LEMMA IntactSame ==
  ASSUME NEW s, NEW t, NEW D, NEW E, NEW n,
         \A i \in 1 .. n : s[i] = t[i] /\ (i \in D <=> i \in E)
  PROVE  IntactOf(s, D, n) = IntactOf(t, E, n)
  <1>1. [i \in 1 .. n |-> IF i \in D THEN <<>> ELSE <<s[i]>>] = [i \in 1 .. n |-> IF i \in E THEN <<>> ELSE <<t[i]>>]
    OBVIOUS
  <1> QED BY <1>1 DEF IntactOf

Attached == ~waits \/ phase \in {"reset", "loop", "close", "ended"}

BridgeTypeOK ==
  /\ typed \in Seq(Key) /\ tty \in Seq(Key) /\ chunk \in Seq(Key) /\ queue \in Seq(Key)
  /\ byte \in Seq(Key) /\ framed \in Seq(Key)

\* Before the reader runs everything typed is in the terminal, before the driver runs nothing has
\* reached the UART.
Opening ==
  /\ mode = "stdin" => ~waits
  /\ phase \in {"start", "log", "rxlog", "link"} => reader = "none"
  /\ reader = "none" => queue = <<>> /\ chunk = <<>> /\ tty = typed /\ framed = <<>> /\ byte = <<>>
  /\ driver = "none" \/ phase = "reset" => framed = <<>>
  /\ driver # "none" => phase \in {"reset", "loop", "close", "ended"}

\* What reader and driver hold at each of their steps.
Holding ==
  /\ reader \in {"log", "put"} => chunk # <<>>
  /\ reader \notin {"log", "put"} => chunk = <<>>
  /\ reader = "read" /\ mode = "pty" => tty # <<>>
  /\ driver \in {"wait", "send"} => \E b \in Key \ {Exit} : byte = <<b>>
  /\ driver \notin {"wait", "send"} => byte = <<>>

\* Before a stop request nothing is lost but what a dying reader had in hand: u is what has not
\* reached the queue.
Flow ==
  ~stop /\ reader # "none" =>
    \E u \in Seq(Key) :
      /\ reader # "crashed" => u = Cat(chunk, tty)
      /\ IF Attached THEN Cat(framed, OnLineAll(Cat(byte, Cat(queue, u)))) = OnLineAll(Owed) ELSE Cat(queue, u) = typed

\* The byte that started the boot is never owed.
Begun == ~stop /\ waits /\ Attached /\ reader # "none" => typed # <<>>

\* What has been sent to the UART or is on the line to it is owed, and does not hold Ctrl-].
Sound ==
  /\ \E u \in Seq(Key) : OnLineAll(Owed) = Cat(Cat(framed, OnLineAll(byte)), u)
  /\ Exit \notin ToSet(framed)

\* The inductive invariant of the bytes up to the line.
BridgeInv == BridgeTypeOK /\ Opening /\ Holding /\ Flow /\ Begun /\ Sound

\* Behind the line: what was read right is in the FIFO or has left it; a frame the receiver is in step with
\* finds room; without a change of the divisor a receiver once in step stays so.
Received ==
  /\ got \in Seq(Key) /\ fifo \in Seq(Key) /\ {noise, changes} \subseteq Nat /\ damaged \subseteq 1 .. Len(framed)
  /\ driver = "send" /\ aligned => Pending < MaxPending
  /\ Cat(got, fifo) = Intact
  /\ changes = 0 => (\A i \in damaged : 1 .. i \subseteq damaged) /\ (aligned \/ 1 .. Len(framed) \subseteq damaged)

\* What is owed is a sequence of bytes.
LEMMA OwedFacts ==
  ASSUME BridgeTypeOK
  PROVE  Owed \in Seq(Key) /\ OnLineAll(Owed) \in Seq(Key) /\ framed \in Seq(Key)
  <1>1. Owed \in Seq(Key)
    BY CatHead DEF BridgeTypeOK, Owed
  <1>2. framed \in Seq(Key)
    BY CatFacts DEF BridgeTypeOK
  <1> QED BY <1>1, <1>2, LineFacts

\* The invariant says what a run checks.
LEMMA BridgeMeans == BridgeInv /\ Received => InputInOrder
  <1> SUFFICES ASSUME BridgeInv, Received PROVE InputInOrder
    OBVIOUS
  <1> USE DEF BridgeInv
  <1>1. Owed \in Seq(Key) /\ OnLineAll(Owed) \in Seq(Key) /\ framed \in Seq(Key)
    BY OwedFacts
  <1>2. OnLineAll(byte) \in Seq(Key)
    BY LineFacts DEF BridgeTypeOK
  <1>3. IsPrefix(framed, OnLineAll(Owed))
    <2>1. PICK u \in Seq(Key) : OnLineAll(Owed) = Cat(Cat(framed, OnLineAll(byte)), u)
      BY DEF Sound
    <2>2. OnLineAll(Owed) = Cat(framed, Cat(OnLineAll(byte), u)) /\ Cat(OnLineAll(byte), u) \in Seq(Key)
      BY <2>1, <1>1, <1>2, CatFacts, CatAssoc
    <2> QED BY <2>2, <1>1, ConcatPrefix DEF Cat
  <1>4. ASSUME ~stop, reader \notin {"none", "crashed"}
        PROVE  IF Attached THEN Cat(framed, OnLineAll(Cat(Cat(Cat(byte, queue), chunk), tty))) = OnLineAll(Owed)
               ELSE Cat(Cat(Cat(byte, queue), chunk), tty) = typed
    <2>1. IF Attached THEN Cat(framed, OnLineAll(Cat(byte, Cat(queue, Cat(chunk, tty))))) = OnLineAll(Owed)
          ELSE Cat(queue, Cat(chunk, tty)) = typed
      BY <1>4 DEF Flow
    <2>2. Cat(Cat(Cat(byte, queue), chunk), tty) = Cat(byte, Cat(queue, Cat(chunk, tty)))
      <3>1. /\ byte \in Seq(Key) /\ queue \in Seq(Key) /\ chunk \in Seq(Key) /\ tty \in Seq(Key)
            /\ Cat(byte, queue) \in Seq(Key) /\ Cat(chunk, tty) \in Seq(Key)
        BY CatFacts DEF BridgeTypeOK
      <3>2. Cat(Cat(Cat(byte, queue), chunk), tty) = Cat(Cat(byte, queue), Cat(chunk, tty))
        BY <3>1, CatAssoc
      <3>3. Cat(Cat(byte, queue), Cat(chunk, tty)) = Cat(byte, Cat(queue, Cat(chunk, tty)))
        BY <3>1, CatAssoc
      <3> QED BY <3>2, <3>3
    <2>3. ~Attached => byte = <<>>
      BY DEF Attached, Opening, Holding
    <2>4. Cat(<<>>, Cat(queue, Cat(chunk, tty))) = Cat(queue, Cat(chunk, tty))
      BY CatFacts DEF BridgeTypeOK
    <2> QED BY <2>1, <2>2, <2>3, <2>4
  <1>5. Exit \notin ToSet(framed)
    BY DEF Sound
  <1> QED BY <1>3, <1>4, <1>5 DEF InputInOrder, Attached, Cat, Received

\* A user types.
LEMMA TypeStep ==
  ASSUME BridgeInv, NEW b \in Key, Type(b)
  PROVE  BridgeInv'
  <1> USE DEF BridgeInv
  <1> DEFINE one == <<b>>
  <1>1. /\ typed' = Append(typed, b) /\ tty' = Append(tty, b)
        /\ UNCHANGED <<mode, waits, phase, owned, stop, reader, chunk, queue, driver, byte, framed>>
    BY DEF Type, serial
  <1>2. typed' \in Seq(Key) /\ tty' \in Seq(Key) /\ typed' # <<>> /\ tty' # <<>>
        /\ typed' = Cat(typed, one) /\ tty' = Cat(tty, one) /\ one \in Seq(Key)
    BY <1>1, CatAppend DEF BridgeTypeOK
  <1> HIDE DEF one
  <1>3. BridgeTypeOK'
    BY <1>1, <1>2 DEF BridgeTypeOK
  <1>4. Opening' /\ Holding' /\ Begun'
    BY <1>1, <1>2 DEF Opening, Holding, Begun
  <1>5. framed' = framed /\ Attached' = Attached
    BY <1>1 DEF Attached
  <1>6. IF waits /\ typed = <<>> THEN Owed' = <<>> /\ Owed = <<>> ELSE Owed' = Cat(Owed, one)
    <2>1. CASE waits /\ typed = <<>>
      BY <2>1, <1>1, <1>2, HeadTailAppend DEF Owed, BridgeTypeOK
    <2>2. CASE waits /\ typed # <<>>
      <3>1. Tail(typed') = Append(Tail(typed), b) /\ Tail(typed) \in Seq(Key)
        BY <2>2, <1>1, HeadTailAppend, CatHead DEF BridgeTypeOK
      <3>2. Tail(typed') = Cat(Tail(typed), one)
        BY <3>1, CatAppend DEF one
      <3> QED BY <3>2, <2>2, <1>1, <1>2 DEF Owed
    <2>3. CASE ~waits
      BY <2>3, <1>1, <1>2 DEF Owed
    <2> QED BY <2>1, <2>2, <2>3
  <1>7. Owed \in Seq(Key) /\ OnLineAll(Owed) \in Seq(Key) /\ framed \in Seq(Key)
    BY OwedFacts
  <1>8. /\ OnLineAll(one) \in Seq(Key)
        /\ OnLineAll(Owed') = OnLineAll(Owed) \/ OnLineAll(Owed') = Cat(OnLineAll(Owed), OnLineAll(one))
    BY <1>2, <1>6, <1>7, LineCat, LineFacts
  <1>9. Sound'
    <2>1. PICK u \in Seq(Key) : OnLineAll(Owed) = Cat(Cat(framed, OnLineAll(byte)), u)
      BY DEF Sound
    <2>2. Cat(framed, OnLineAll(byte)) \in Seq(Key)
      BY <1>7, LineFacts, CatFacts DEF BridgeTypeOK
    <2>3. /\ Cat(u, OnLineAll(one)) \in Seq(Key)
          /\ Cat(OnLineAll(Owed), OnLineAll(one)) = Cat(Cat(framed, OnLineAll(byte)), Cat(u, OnLineAll(one)))
      BY <2>1, <2>2, <1>8, CatFacts, CatAssoc
    <2>4. \E v \in Seq(Key) : OnLineAll(Owed') = Cat(Cat(framed, OnLineAll(byte)), v)
      BY <2>1, <2>3, <1>8
    <2> QED BY <2>4, <1>1, <1>5 DEF Sound
  <1>10. Flow'
    <2> SUFFICES ASSUME ~stop, reader # "none"
                 PROVE  \E v \in Seq(Key) :
                          /\ reader # "crashed" => v = Cat(chunk, tty')
                          /\ IF Attached THEN Cat(framed, OnLineAll(Cat(byte, Cat(queue, v)))) = OnLineAll(Owed')
                             ELSE Cat(queue, v) = typed'
      BY <1>1, <1>5 DEF Flow
    <2>1. PICK u \in Seq(Key) :
            /\ reader # "crashed" => u = Cat(chunk, tty)
            /\ IF Attached THEN Cat(framed, OnLineAll(Cat(byte, Cat(queue, u)))) = OnLineAll(Owed) ELSE Cat(queue, u) = typed
      BY DEF Flow
    <2> DEFINE v == Cat(u, one)
    <2>2. v \in Seq(Key)
      BY <1>2, CatFacts
    <2>3. reader # "crashed" => v = Cat(chunk, tty')
      BY <2>1, <1>2, CatAssoc DEF BridgeTypeOK
    <2>4. Cat(queue, v) = Cat(Cat(queue, u), one) /\ Cat(queue, u) \in Seq(Key)
      BY <1>2, CatFacts, CatAssoc DEF BridgeTypeOK
    <2>5. ASSUME Attached PROVE Cat(framed, OnLineAll(Cat(byte, Cat(queue, v)))) = OnLineAll(Owed')
      <3>1. Owed' = Cat(Owed, one)
        BY <2>5, <1>6 DEF Begun
      <3>2. Cat(byte, Cat(queue, v)) = Cat(Cat(byte, Cat(queue, u)), one) /\ Cat(byte, Cat(queue, u)) \in Seq(Key)
        BY <2>4, <1>2, CatFacts, CatAssoc DEF BridgeTypeOK
      <3>3. OnLineAll(Cat(byte, Cat(queue, v))) = Cat(OnLineAll(Cat(byte, Cat(queue, u))), OnLineAll(one))
        BY <3>2, <1>2, LineCat
      <3>4. OnLineAll(Cat(byte, Cat(queue, u))) \in Seq(Key)
        BY <3>2, LineFacts
      <3>5. Cat(framed, OnLineAll(Cat(byte, Cat(queue, v)))) = Cat(Cat(framed, OnLineAll(Cat(byte, Cat(queue, u)))), OnLineAll(one))
        BY <3>3, <3>4, <1>7, <1>8, CatAssoc
      <3>6. OnLineAll(Owed') = Cat(OnLineAll(Owed), OnLineAll(one))
        BY <3>1, <1>2, <1>7, LineCat
      <3> QED BY <3>5, <3>6, <2>1, <2>5
    <2>6. ~Attached => Cat(queue, v) = typed'
      BY <2>1, <2>4, <1>2
    <2> HIDE DEF v
    <2> QED BY <2>2, <2>3, <2>5, <2>6
  <1> QED BY <1>3, <1>4, <1>9, <1>10

\* Steps of boot_linux leave the bytes alone, except that Attach takes the first.
LEMMA MainKeeps ==
  ASSUME BridgeInv, UNCHANGED <<mode, waits, typed, tty, chunk, framed, byte, queue>>,
         stop' = stop \/ stop' = TRUE,
         (reader' = reader /\ Attached' = Attached) \/ (stop' = TRUE /\ reader' = reader),
         driver' = driver
  PROVE  Flow' /\ Begun' /\ Sound' /\ BridgeTypeOK' /\ Holding'
  <1> USE DEF BridgeInv
  <1>1. BridgeTypeOK' /\ Holding'
    BY DEF BridgeTypeOK, Holding
  <1>2. framed' = framed /\ Owed' = Owed
    BY DEF Owed
  <1>3. Sound'
    BY <1>2 DEF Sound
  <1>4. CASE stop' = TRUE
    BY <1>1, <1>3, <1>4 DEF Flow, Begun
  <1>5. CASE stop' # TRUE
    BY <1>1, <1>2, <1>3, <1>5 DEF Flow, Begun
  <1> QED BY <1>4, <1>5

\* A reader that starts finds everything typed in the terminal.
LEMMA ReaderStarts ==
  ASSUME BridgeInv, reader = "none", driver = "none", UNCHANGED <<mode, waits, typed, tty, chunk, framed, byte, queue, stop>>,
         reader' = "check", driver' \in {"none", "poll"}, Attached' => ~waits
  PROVE  Flow' /\ Begun' /\ Sound' /\ BridgeTypeOK' /\ Holding'
  <1> USE DEF BridgeInv
  <1>1. BridgeTypeOK' /\ Holding'
    BY DEF BridgeTypeOK, Holding
  <1>2. framed' = framed /\ Owed' = Owed
    BY DEF Owed
  <1>3. Sound' /\ Begun'
    BY <1>2 DEF Sound, Begun
  <1>4. queue = <<>> /\ chunk = <<>> /\ byte = <<>> /\ framed = <<>> /\ tty = typed
    BY DEF Opening
  <1>5. framed = <<>> /\ typed \in Seq(Key) /\ OnLineAll(typed) \in Seq(Key)
    BY <1>4, CatFacts, LineFacts DEF BridgeTypeOK
  <1>6. Cat(chunk, tty) = typed /\ Cat(queue, typed) = typed /\ Cat(byte, typed) = typed /\ Cat(framed, OnLineAll(typed)) = OnLineAll(typed)
    BY <1>4, <1>5, CatFacts
  <1>7. Attached' => Owed = typed
    BY DEF Owed
  <1>8. Flow'
    <2>1. /\ typed \in Seq(Key)
          /\ reader' # "crashed" => typed = Cat(chunk', tty')
          /\ IF Attached' THEN Cat(framed', OnLineAll(Cat(byte', Cat(queue', typed)))) = OnLineAll(Owed')
             ELSE Cat(queue', typed) = typed'
      BY <1>2, <1>5, <1>6, <1>7
    <2> QED BY <2>1 DEF Flow
  <1> QED BY <1>1, <1>3, <1>8

\* StdinBridge.start.
LEMMA StdinStep ==
  ASSUME BridgeInv, StdinStart
  PROVE  BridgeInv'
  <1> USE DEF BridgeInv
  <1>1. /\ mode = "stdin" /\ phase = "start" /\ UNCHANGED <<mode, waits, typed, tty, chunk, framed, stop, queue, byte>>
        /\ phase' \in {"reset", "close"}
        /\ \/ reader' = reader /\ driver' = driver
           \/ reader' = "check" /\ driver' = "poll" /\ phase' = "reset"
    BY DEF StdinStart, sim, serial
  <1>2. ~waits /\ reader = "none" /\ driver = "none"
    BY <1>1 DEF Opening
  <1>3. Attached /\ Attached'
    BY <1>1, <1>2 DEF Attached
  <1>4. Opening'
    BY <1>1, <1>2 DEF Opening
  <1>5. CASE reader' = reader
    BY <1>1, <1>2, <1>3, <1>4, <1>5, MainKeeps
  <1>6. CASE reader' = "check"
    BY <1>1, <1>2, <1>3, <1>4, <1>6, ReaderStarts
  <1> QED BY <1>1, <1>5, <1>6

\* A step of PtyBridge.start.
LEMMA PtyStep ==
  ASSUME BridgeInv, NEW i \in 1 .. 4, PtyStart(PtySteps[i])
  PROVE  BridgeInv'
  <1> USE DEF BridgeInv
  <1>1. /\ PtySteps[i].at \in {"start", "log", "rxlog", "link"}
        /\ PtySteps[i].next \in {"log", "rxlog", "link", "attach"}
    <2>1. i = 1 \/ i = 2 \/ i = 3 \/ i = 4
      OBVIOUS
    <2> QED BY <2>1 DEF PtySteps
  <1>2. /\ mode = "pty" /\ phase \in {"start", "log", "rxlog", "link"}
        /\ phase' \in {"log", "rxlog", "link", "attach", "close"}
        /\ reader' = IF phase' = "attach" THEN "check" ELSE reader
        /\ UNCHANGED <<mode, waits, typed, tty, chunk, framed, stop, queue, driver, byte>>
    BY <1>1 DEF PtyStart, sim, serial
  <1>3. reader = "none" /\ driver = "none"
    BY <1>2 DEF Opening
  <1>4. Opening'
    BY <1>2, <1>3 DEF Opening
  <1>5. CASE phase' = "attach"
    <2>1. Attached' => ~waits
      BY <1>2, <1>5 DEF Attached
    <2> QED BY <1>2, <1>3, <1>4, <1>5, <2>1, ReaderStarts
  <1>6. CASE phase' # "attach"
    <2>1. reader' = "none"
      BY <1>2, <1>3, <1>6
    <2>2. BridgeTypeOK' /\ Holding'
      BY <1>2, <1>3, <2>1 DEF BridgeTypeOK, Holding
    <2>3. framed' = framed /\ Owed' = Owed
      BY <1>2 DEF Owed
    <2>4. Sound' /\ Flow' /\ Begun'
      BY <1>2, <2>1, <2>3 DEF Sound, Flow, Begun
    <2> QED BY <1>4, <2>2, <2>4
  <1> QED BY <1>5, <1>6

\* The client attaches.
LEMMA AttachStep ==
  ASSUME BridgeInv, Attach
  PROVE  BridgeInv'
  <1> USE DEF BridgeInv
  <1>1. /\ phase = "attach" /\ UNCHANGED <<mode, waits, typed, tty, chunk, framed, stop, reader, byte>>
        /\ phase' \in {"reset", "close"}
    BY DEF Attach, sim, serial
  <1>2. driver = "none" /\ byte = <<>> /\ framed = <<>>
    BY <1>1 DEF Opening, Holding
  <1>3. framed = <<>> /\ framed' = framed /\ Owed' = Owed
    BY <1>1, <1>2, CatFacts DEF Owed
  <1>4. Sound'
    BY <1>1, <1>3 DEF Sound
  <1>5. CASE ~waits
    <2>1. queue' = queue /\ driver' = "poll" /\ phase' = "reset"
      BY <1>5 DEF Attach
    <2>2. Attached /\ Attached'
      BY <1>1, <1>5 DEF Attached
    <2>3. BridgeTypeOK' /\ Holding' /\ Opening'
      BY <1>1, <1>2, <2>1 DEF BridgeTypeOK, Holding, Opening
    <2>4. Flow' /\ Begun'
      BY <1>1, <1>3, <1>5, <2>1, <2>2 DEF Flow, Begun
    <2> QED BY <1>4, <2>3, <2>4
  <1>6. CASE waits /\ stop
    <2>1. queue' = queue /\ driver' = driver /\ phase' = "close"
      BY <1>6 DEF Attach
    <2>2. BridgeTypeOK' /\ Holding' /\ Opening'
      BY <1>1, <1>2, <2>1 DEF BridgeTypeOK, Holding, Opening
    <2> QED BY <1>1, <1>4, <1>6, <2>2 DEF Flow, Begun
  <1>7. CASE waits /\ ~stop
    <2>1. queue # <<>> /\ queue' = Tail(queue) /\ driver' = "poll" /\ phase' = "reset"
      BY <1>7 DEF Attach
    <2>2. reader # "none" /\ ~Attached /\ Attached'
      BY <1>1, <1>7, <2>1 DEF Opening, Attached
    <2>3. Head(queue) \in Key /\ queue' \in Seq(Key) /\ queue = Cat(<<Head(queue)>>, queue')
      BY <2>1, CatHead DEF BridgeTypeOK
    <2>4. PICK u \in Seq(Key) : (reader # "crashed" => u = Cat(chunk, tty)) /\ Cat(queue, u) = typed
      BY <1>7, <2>2 DEF Flow
    <2> DEFINE h == Head(queue)  w == Cat(queue', u)
    <2>5. w \in Seq(Key) /\ <<h>> \in Seq(Key)
      BY <2>3, CatFacts, CatAppend
    <2>6. typed = Cat(<<h>>, w)
      <3> DEFINE one == <<h>>
      <3>1. one \in Seq(Key) /\ queue = Cat(one, queue') /\ queue' \in Seq(Key)
        BY <2>3, <2>5
      <3> HIDE DEF one
      <3>2. typed = Cat(one, w)
        BY <2>4, <3>1, CatAssoc
      <3> QED BY <3>2 DEF one
    <2>7. typed # <<>> /\ Tail(typed) = w
      <3> HIDE DEF w, h
      <3>1. typed = <<h>> \o w /\ h \in Key
        BY <2>3, <2>6 DEF Cat, h
      <3> QED BY <3>1, <2>5, TailOfOne
    <2>8. Owed' = w
      BY <1>1, <1>7, <2>7 DEF Owed
    <2>9. BridgeTypeOK' /\ Holding' /\ Opening'
      BY <1>1, <1>2, <2>1, <2>2, <2>3 DEF BridgeTypeOK, Holding, Opening
    <2>10. Cat(framed', OnLineAll(Cat(byte', w))) = OnLineAll(Owed')
      <3>1. Cat(byte', w) = w /\ OnLineAll(w) \in Seq(Key)
        BY <1>1, <1>2, <2>5, CatFacts, LineFacts
      <3> QED BY <3>1, <2>8, <1>3, CatFacts
    <2>11. Flow' /\ Begun'
      BY <1>1, <2>2, <2>4, <2>7, <2>10 DEF Flow, Begun
    <2> QED BY <1>4, <2>9, <2>11
  <1> QED BY <1>5, <1>6, <1>7

\* The steps of boot_linux that only move on.
LEMMA OtherMainStep ==
  ASSUME BridgeInv, StartDut \/ LoopEnds \/ LoopRaises \/ Close
  PROVE  BridgeInv'
  <1> USE DEF BridgeInv
  <1>1. /\ UNCHANGED <<mode, waits, typed, tty, chunk, framed, byte, queue, reader, driver>>
        /\ phase \in {"reset", "loop", "close"} /\ phase' \in {"loop", "close", "ended"}
        /\ stop' = stop \/ stop' = TRUE
    BY DEF StartDut, LoopEnds, LoopRaises, Close, sim, serial
  <1>2. Attached /\ Attached'
    BY <1>1 DEF Attached
  <1>3. Opening'
    BY <1>1 DEF Opening
  <1> QED BY <1>1, <1>2, <1>3, MainKeeps

\* A step of the reader that puts nothing into the queue.
LEMMA ReaderMoves ==
  ASSUME BridgeInv, UNCHANGED <<mode, waits, phase, owned, typed, driver, byte, framed, queue>>,
         reader # "none", reader' # "none", stop' = stop \/ stop' = TRUE,
         tty' \in Seq(Key), chunk' \in Seq(Key),
         reader' # "crashed" => reader # "crashed" /\ Cat(chunk', tty') = Cat(chunk, tty),
         reader' \in {"log", "put"} => chunk' # <<>>, reader' \notin {"log", "put"} => chunk' = <<>>,
         reader' = "read" /\ mode = "pty" => tty' # <<>>
  PROVE  BridgeInv'
  <1> USE DEF BridgeInv
  <1>1. BridgeTypeOK'
    BY DEF BridgeTypeOK
  <1>2. Opening' /\ Holding'
    BY DEF Opening, Holding
  <1>3. framed' = framed /\ Owed' = Owed /\ Attached' = Attached
    BY DEF Owed, Attached
  <1>4. Sound' /\ Begun'
    BY <1>3 DEF Sound, Begun
  <1>5. Flow'
    BY <1>3 DEF Flow
  <1> QED BY <1>1, <1>2, <1>4, <1>5

\* The reader thread.
LEMMA ReaderBridgeStep ==
  ASSUME BridgeInv, ReaderStep
  PROVE  BridgeInv'
  <1> USE DEF BridgeInv
  <1>1. tty \in Seq(Key) /\ chunk \in Seq(Key) /\ <<>> \in Seq(Key)
    BY CatFacts DEF BridgeTypeOK
  <1>2. CASE ReaderCheck
    <2>1. /\ UNCHANGED <<mode, waits, phase, owned, typed, driver, byte, framed, queue, stop, tty, chunk>>
          /\ reader = "check" /\ reader' \in {"done", "select", "read"} /\ (mode = "pty" => reader' # "read")
      BY <1>2 DEF ReaderCheck, rest, serial
    <2>2. chunk = <<>>
      BY <2>1 DEF Holding
    <2> QED BY <1>1, <2>1, <2>2, ReaderMoves
  <1>3. CASE ReaderSelect
    <2>1. /\ UNCHANGED <<mode, waits, phase, owned, typed, driver, byte, framed, queue, stop, tty, chunk>>
          /\ reader = "select" /\ reader' \in {"done", "crashed", "check", "read"} /\ (reader' = "read" => tty # <<>>)
      BY <1>3 DEF ReaderSelect, rest, serial
    <2>2. chunk = <<>>
      BY <2>1 DEF Holding
    <2> QED BY <1>1, <2>1, <2>2, ReaderMoves
  <1>4. CASE ReaderRead
    <2>1. UNCHANGED <<mode, waits, phase, owned, typed, driver, byte, framed, queue, stop>> /\ reader = "read"
      BY <1>4 DEF ReaderRead, rest, serial
    <2>2. chunk = <<>>
      BY <2>1 DEF Holding
    <2>3. CASE mode = "stdin" /\ tty # <<>> /\ chunk' = <<Head(tty)>> /\ tty' = Tail(tty) /\ reader' = "put"
      <3>1. Head(tty) \in Key /\ tty' \in Seq(Key) /\ tty = Cat(<<Head(tty)>>, tty')
        BY <1>1, <2>3, CatHead
      <3>2. chunk' \in Seq(Key) /\ chunk' # <<>>
        BY <2>3, <3>1
      <3>3. Cat(chunk', tty') = Cat(chunk, tty)
        BY <1>1, <2>2, <2>3, <3>1, CatFacts
      <3> QED BY <2>1, <2>3, <3>1, <3>2, <3>3, ReaderMoves
    <2>4. CASE mode = "pty" /\ chunk' = tty /\ tty' = <<>> /\ reader' = "log"
      <3>1. chunk' # <<>>
        BY <2>1, <2>4 DEF Holding
      <3>2. Cat(chunk', tty') = Cat(chunk, tty)
        BY <1>1, <2>2, <2>4, CatFacts
      <3> QED BY <1>1, <2>1, <2>4, <3>1, <3>2, ReaderMoves
    <2>5. CASE reader' \in {"check", "crashed"} /\ UNCHANGED <<chunk, tty>>
      BY <1>1, <2>1, <2>2, <2>5, ReaderMoves
    <2> QED BY <1>4, <2>3, <2>4, <2>5 DEF ReaderRead
  <1>5. CASE ReaderGivesUp
    <2>1. /\ UNCHANGED <<mode, waits, phase, owned, typed, driver, byte, framed, queue, tty, chunk>>
          /\ reader \in {"read", "select"} /\ reader' = "done" /\ stop' = TRUE
      BY <1>5 DEF ReaderGivesUp, rest, serial
    <2>2. chunk = <<>>
      BY <2>1 DEF Holding
    <2> QED BY <1>1, <2>1, <2>2, ReaderMoves
  <1>6. CASE ReaderLog
    <2>1. /\ UNCHANGED <<mode, waits, phase, owned, typed, driver, byte, framed, queue, stop, tty>>
          /\ reader = "log"
          /\ \/ reader' = "put" /\ chunk' = chunk
             \/ reader' = "crashed" /\ chunk' = <<>>
      BY <1>6 DEF ReaderLog, rest, serial
    <2>2. chunk # <<>>
      BY <2>1 DEF Holding
    <2> QED BY <1>1, <2>1, <2>2, ReaderMoves
  <1>7. CASE ReaderPut
    <2>1. /\ UNCHANGED <<mode, waits, phase, owned, typed, driver, byte, framed, stop, tty>>
          /\ reader = "put" /\ queue' = Append(queue, Head(chunk)) /\ chunk' = Tail(chunk)
          /\ reader' = IF Len(chunk) = 1 THEN "check" ELSE "put"
      BY <1>7 DEF ReaderPut, rest, serial
    <2> DEFINE one == <<Head(chunk)>>
    <2>2. Head(chunk) \in Key /\ chunk' \in Seq(Key) /\ chunk = Cat(one, chunk') /\ chunk # <<>>
      BY <1>1, <2>1, CatHead DEF Holding
    <2>3. queue \in Seq(Key) /\ queue' \in Seq(Key) /\ queue' = Cat(queue, one) /\ one \in Seq(Key)
      BY <2>1, <2>2, CatAppend DEF BridgeTypeOK
    <2> HIDE DEF one
    <2>4. \A u \in Seq(Key) : Cat(queue', Cat(chunk', u)) = Cat(queue, Cat(chunk, u))
      <3> SUFFICES ASSUME NEW u \in Seq(Key) PROVE Cat(queue', Cat(chunk', u)) = Cat(queue, Cat(chunk, u))
        OBVIOUS
      <3> DEFINE w == Cat(chunk', u)
      <3>1. w \in Seq(Key) /\ Cat(chunk, u) = Cat(one, w)
        BY <2>2, <2>3, CatFacts, CatAssoc
      <3> HIDE DEF w
      <3>2. Cat(queue', w) = Cat(queue, Cat(one, w))
        BY <2>3, <3>1, CatAssoc
      <3> QED BY <3>1, <3>2 DEF w
    <2>5. reader' = "check" => chunk' = <<>>
      <3>1. Len(chunk') = Len(chunk) - 1 /\ Len(chunk') \in Nat
        BY <1>1, <2>1, <2>2, HeadTailProperties, LenProperties
      <3> QED BY <2>1, <2>2, <3>1, EmptySeq
    <2>6. reader' = "put" => chunk' # <<>>
      <3>1. Len(chunk') = Len(chunk) - 1
        BY <1>1, <2>1, <2>2, HeadTailProperties
      <3>2. Len(chunk) \in Nat \ {0} /\ Len(<<>>) = 0
        BY <1>1, <2>2, EmptySeq
      <3>3. reader' = "put" => Len(chunk) # 1
        BY <2>1
      <3>4. Len(chunk) # 1 => Len(chunk') # 0
        BY <3>1, <3>2
      <3> QED BY <3>2, <3>3, <3>4
    <2>7. BridgeTypeOK'
      BY <2>1, <2>2, <2>3 DEF BridgeTypeOK
    <2>8. Opening' /\ Holding'
      BY <2>1, <2>5, <2>6 DEF Opening, Holding
    <2>9. framed' = framed /\ Owed' = Owed /\ Attached' = Attached
      BY <2>1 DEF Owed, Attached
    <2>10. Sound' /\ Begun'
      BY <2>1, <2>9 DEF Sound, Begun
    <2>11. Flow'
      <3> SUFFICES ASSUME ~stop PROVE Flow'
        BY <2>1 DEF Flow
      <3>1. IF Attached THEN Cat(framed, OnLineAll(Cat(byte, Cat(queue, Cat(chunk, tty))))) = OnLineAll(Owed)
            ELSE Cat(queue, Cat(chunk, tty)) = typed
        BY <2>1 DEF Flow
      <3> DEFINE u == Cat(chunk', tty')
      <3>2. u \in Seq(Key) /\ Cat(queue', u) = Cat(queue, Cat(chunk, tty))
        BY <1>1, <2>1, <2>2, <2>4, CatFacts
      <3> QED BY <2>1, <2>9, <3>1, <3>2 DEF Flow
    <2> QED BY <2>7, <2>8, <2>10, <2>11
  <1> QED BY <1>2, <1>3, <1>4, <1>5, <1>6, <1>7 DEF ReaderStep, ReaderRuns

\* The driver coroutine and the guest.
LEMMA DriverBridgeStep ==
  ASSUME BridgeInv, DriverStep \/ GuestReads \/ GuestClears \/ GuestSetsDivisor
  PROVE  BridgeInv'
  <1> USE DEF BridgeInv
  <1>1. UNCHANGED <<mode, waits, phase, owned, typed, tty, reader, chunk>>
    BY DEF DriverStep, DriverPoll, DriverWait, FrameLands, DriverSent, GuestReads, GuestClears, GuestSetsDivisor, guest, alone
  <1>2. Owed' = Owed /\ Attached' = Attached
    BY <1>1 DEF Owed, Attached
  <1>3. Begun'
    <2>1. stop => stop'
      BY DEF DriverStep, DriverPoll, DriverWait, FrameLands, DriverSent, GuestReads, GuestClears, GuestSetsDivisor, guest
    <2> QED BY <1>1, <1>2, <2>1 DEF Begun
  <1>4. Owed \in Seq(Key) /\ OnLineAll(Owed) \in Seq(Key) /\ framed \in Seq(Key)
    BY OwedFacts
  <1>5. CASE DriverPoll
    <2>1. /\ driver = "poll" /\ phase \in {"reset", "loop"} /\ framed' = framed /\ byte = <<>>
      BY <1>5 DEF DriverPoll, Holding, serial
    <2>2. framed' = framed /\ Attached
      BY <2>1 DEF Attached
    <2>3. CASE stop /\ driver' = "done" /\ UNCHANGED <<stop, queue, byte>>
      <3>1. BridgeTypeOK' /\ Opening' /\ Holding'
        BY <1>1, <2>1, <2>3 DEF BridgeTypeOK, Opening, Holding
      <3>2. Sound' /\ Flow'
        BY <1>1, <1>2, <2>2, <2>3 DEF Sound, Flow
      <3> QED BY <1>3, <3>1, <3>2
    <2>4. CASE ~stop /\ queue # <<>> /\ queue' = Tail(queue)
      <3>1. Head(queue) \in Key /\ queue' \in Seq(Key) /\ queue = Cat(<<Head(queue)>>, queue')
        BY <2>4, CatHead DEF BridgeTypeOK
      <3>2. reader # "none"
        BY <2>4 DEF Opening
      <3>3. CASE Head(queue) = Exit /\ stop' = TRUE /\ driver' = "done" /\ byte' = byte
        <4>1. BridgeTypeOK' /\ Opening' /\ Holding'
          BY <1>1, <2>1, <3>1, <3>2, <3>3 DEF BridgeTypeOK, Opening, Holding
        <4>2. Sound' /\ Flow'
          BY <1>1, <1>2, <2>2, <3>3 DEF Sound, Flow
        <4> QED BY <1>3, <4>1, <4>2
      <3>4. CASE Head(queue) # Exit /\ byte' = <<Head(queue)>> /\ driver' = "wait" /\ stop' = stop
        <4>1. byte' \in Seq(Key) /\ queue = Cat(byte', queue')
          BY <3>1, <3>4
        <4>2. BridgeTypeOK'
          BY <1>1, <2>1, <3>1, <4>1 DEF BridgeTypeOK
        <4>3. Opening' /\ Holding'
          BY <1>1, <2>1, <3>1, <3>2, <3>4 DEF Opening, Holding
        <4>4. PICK u \in Seq(Key) :
                /\ reader # "crashed" => u = Cat(chunk, tty)
                /\ Cat(framed, OnLineAll(Cat(byte, Cat(queue, u)))) = OnLineAll(Owed)
          BY <2>2, <2>4, <3>2 DEF Flow
        <4>5. queue \in Seq(Key) /\ Cat(queue, u) \in Seq(Key) /\ Cat(queue', u) \in Seq(Key)
          BY <3>1, CatFacts DEF BridgeTypeOK
        <4>6. Cat(byte, Cat(queue, u)) = Cat(byte', Cat(queue', u))
          <5>1. Cat(byte, Cat(queue, u)) = Cat(queue, u)
            BY <2>1, <4>5, CatFacts
          <5>2. Cat(queue, u) = Cat(byte', Cat(queue', u))
            BY <3>1, <4>1, CatAssoc
          <5> QED BY <5>1, <5>2
        <4>7. Flow'
          BY <1>1, <1>2, <2>2, <4>4, <4>6 DEF Flow
        <4>8. OnLineAll(Owed) = Cat(Cat(framed, OnLineAll(byte')), OnLineAll(Cat(queue', u)))
          <5>1. OnLineAll(Cat(byte', Cat(queue', u))) = Cat(OnLineAll(byte'), OnLineAll(Cat(queue', u)))
            BY <4>1, <4>5, LineCat
          <5>2. OnLineAll(byte') \in Seq(Key) /\ OnLineAll(Cat(queue', u)) \in Seq(Key)
            BY <4>1, <4>5, LineFacts
          <5> QED BY <1>4, <4>4, <4>6, <5>1, <5>2, CatAssoc
        <4>9. OnLineAll(Cat(queue', u)) \in Seq(Key)
          BY <4>5, LineFacts
        <4>10. Sound'
          BY <1>2, <2>2, <4>8, <4>9 DEF Sound
        <4> QED BY <1>3, <4>2, <4>3, <4>7, <4>10
      <3> QED BY <1>5, <2>4, <3>3, <3>4 DEF DriverPoll
    <2> QED BY <1>5, <2>3, <2>4 DEF DriverPoll
  <1>6. CASE DriverWait
    <2>1. driver = "wait" /\ phase \in {"reset", "loop"} /\ UNCHANGED <<stop, queue, framed>>
      BY <1>6 DEF DriverWait
    <2>2. framed' = framed /\ byte \in Seq(Key) /\ <<>> \in Seq(Key)
      BY <2>1, CatFacts DEF BridgeTypeOK
    <2>3. CASE stop /\ driver' = "done" /\ byte' = <<>>
      <3>1. BridgeTypeOK' /\ Opening' /\ Holding'
        BY <1>1, <2>1, <2>2, <2>3 DEF BridgeTypeOK, Opening, Holding
      <3>2. Flow'
        BY <2>1, <2>3 DEF Flow
      <3>3. PICK u \in Seq(Key) : OnLineAll(Owed) = Cat(Cat(framed, OnLineAll(byte)), u)
        BY DEF Sound
      <3>4. OnLineAll(byte) \in Seq(Key) /\ OnLineAll(byte') = <<>>
        BY <2>2, <2>3, LineFacts, LineOne
      <3>5. /\ Cat(OnLineAll(byte), u) \in Seq(Key)
            /\ OnLineAll(Owed) = Cat(Cat(framed, OnLineAll(byte')), Cat(OnLineAll(byte), u))
        BY <1>4, <3>3, <3>4, CatFacts, CatAssoc
      <3>6. Sound'
        BY <1>2, <2>2, <3>5 DEF Sound
      <3> QED BY <1>3, <3>1, <3>2, <3>6
    <2>4. CASE ~stop /\ driver' = "send" /\ byte' = byte
      <3>1. BridgeTypeOK' /\ Opening' /\ Holding'
        BY <1>1, <2>1, <2>4 DEF BridgeTypeOK, Opening, Holding
      <3>2. Flow' /\ Sound'
        BY <1>1, <1>2, <2>1, <2>2, <2>4 DEF Flow, Sound
      <3> QED BY <1>3, <3>1, <3>2
    <2> QED BY <1>6, <2>3, <2>4 DEF DriverWait, FrameBegins
  <1>7. CASE FrameLands
    <2>1. PICK b \in Key \ {Exit} : byte = <<b>>
      BY <1>7 DEF FrameLands, Holding
    <2>2. /\ driver = "send" /\ phase = "loop" /\ byte' = <<>> /\ driver' = "stopbit"
          /\ UNCHANGED <<stop, queue>> /\ framed' = Append(framed, OnLine(b))
      <3>1. byte[1] = b
        BY <2>1
      <3> QED BY <1>7, <3>1 DEF FrameLands
    <2> DEFINE one == <<OnLine(b)>>
    <2>3. OnLine(b) \in Key /\ OnLine(b) # Exit /\ one \in Seq(Key) /\ framed' \in Seq(Key) /\ framed' = Cat(framed, one)
      BY <2>2, OnLineKey, CatAppend DEF BridgeTypeOK
    <2>4. OnLineAll(byte) = one /\ OnLineAll(byte') = <<>> /\ byte \in Seq(Key)
      BY <2>1, <2>2, LineOne DEF BridgeTypeOK
    <2>5. Exit \notin ToSet(Cat(framed, one))
      <3>1. Exit \notin ToSet(framed) /\ framed \in Seq(Key)
        BY <1>4 DEF Sound
      <3>2. ToSet(Cat(framed, one)) = ToSet(framed) \cup {OnLine(b)}
        BY <2>3, <3>1, ToSetAppend DEF Cat
      <3> QED BY <2>3, <3>1, <3>2
    <2> HIDE DEF one
    <2>6. framed' = Cat(framed, one) /\ framed' \in Seq(Key)
      BY <2>3
    <2>7. BridgeTypeOK'
      BY <1>1, <2>2, <2>3, CatFacts DEF BridgeTypeOK
    <2>8. reader # "none"
      BY <2>1 DEF Opening
    <2>9. Opening' /\ Holding'
      BY <1>1, <2>2, <2>8 DEF Opening, Holding
    <2>10. Cat(framed', OnLineAll(byte')) = Cat(framed, OnLineAll(byte))
      BY <2>4, <2>6, CatFacts
    <2>11. Sound'
      BY <1>2, <2>5, <2>6, <2>10 DEF Sound
    <2>12. Flow'
      <3> SUFFICES ASSUME ~stop PROVE Flow'
        BY <2>2 DEF Flow
      <3>1. Attached
        BY <2>2 DEF Attached
      <3>2. PICK u \in Seq(Key) :
              /\ reader # "crashed" => u = Cat(chunk, tty)
              /\ Cat(framed, OnLineAll(Cat(byte, Cat(queue, u)))) = OnLineAll(Owed)
        BY <2>8, <3>1 DEF Flow
      <3> DEFINE w == Cat(queue, u)
      <3>3. w \in Seq(Key) /\ OnLineAll(w) \in Seq(Key)
        BY CatFacts, LineFacts DEF BridgeTypeOK
      <3> HIDE DEF w
      <3>4. OnLineAll(Cat(byte, w)) = Cat(one, OnLineAll(w))
        BY <2>4, <3>3, LineCat
      <3>5. Cat(framed, Cat(one, OnLineAll(w))) = Cat(framed', OnLineAll(w))
        BY <1>4, <2>3, <2>6, <3>3, CatAssoc
      <3>6. Cat(byte', w) = w
        BY <2>2, <3>3, CatFacts
      <3>7. Cat(framed', OnLineAll(Cat(byte', w))) = OnLineAll(Owed)
        BY <3>2, <3>4, <3>5, <3>6 DEF w
      <3> QED BY <1>1, <1>2, <2>2, <3>1, <3>2, <3>7 DEF Flow, w
    <2> QED BY <1>3, <2>7, <2>9, <2>11, <2>12
  <1>8. CASE DriverSent
    <2>1. driver = "stopbit" /\ driver' = "poll" /\ UNCHANGED <<stop, queue, byte, framed>>
      BY <1>8 DEF DriverSent, serial
    <2>2. BridgeTypeOK' /\ Opening' /\ Holding'
      BY <1>1, <2>1 DEF BridgeTypeOK, Opening, Holding
    <2>3. framed' = framed
      BY <2>1
    <2>4. Flow' /\ Sound'
      BY <1>1, <1>2, <2>1, <2>3 DEF Flow, Sound
    <2> QED BY <1>3, <2>2, <2>4
  <1>9. CASE GuestReads \/ GuestClears \/ GuestSetsDivisor
    <2>1. UNCHANGED <<stop, queue, driver, byte, framed>>
      BY <1>9 DEF GuestReads, GuestClears, GuestSetsDivisor, guest
    <2>2. BridgeTypeOK' /\ Opening' /\ Holding'
      BY <1>1, <2>1 DEF BridgeTypeOK, Opening, Holding
    <2>3. Flow' /\ Sound'
      BY <1>1, <1>2, <2>1 DEF Flow, Sound
    <2> QED BY <1>3, <2>2, <2>3
  <1> QED BY <1>5, <1>6, <1>7, <1>8, <1>9 DEF DriverStep

\* The number of bytes nobody sent.
LEMMA GarbageCounts ==
  ASSUME fifo \in Seq(Key), noise \in Nat, Garbage
  PROVE  noise' \in Nat
  <1>1. Len(fifo) \in Nat /\ FifoDepth \in Nat
    BY LenProperties, BridgeAssumption
  <1>2. noise' \in noise .. (FifoDepth - Len(fifo))
    BY DEF Garbage
  <1> QED BY <1>1, <1>2

\* A frame ends.
LEMMA LandsReceived ==
  ASSUME BridgeInv, BridgeInv', Received, FrameLands
  PROVE  Received'
  <1> DEFINE n == Len(framed)  x == OnLine(byte[1])
  <1>1. /\ framed \in Seq(Key) /\ framed' = Append(framed, x) /\ driver = "send" /\ driver' = "stopbit"
        /\ UNCHANGED <<changes, got>>
    BY DEF FrameLands, BridgeInv, BridgeTypeOK
  <1>2. x \in Key
    <2>1. PICK b \in Key : byte = <<b>>
      BY <1>1 DEF BridgeInv, Holding
    <2>2. byte[1] = b
      BY <2>1
    <2> QED BY <2>2, OnLineKey
  <1> HIDE DEF x
  <1>3. /\ n \in Nat /\ framed' \in Seq(Key) /\ Len(framed') = n + 1 /\ framed'[n + 1] = x
        /\ \A i \in 1 .. n : framed'[i] = framed[i]
    BY <1>1, <1>2, AppendProperties, LenProperties
  <1> HIDE DEF n
  <1>4. /\ got \in Seq(Key) /\ fifo \in Seq(Key) /\ noise \in Nat /\ changes \in Nat /\ damaged \subseteq 1 .. n
        /\ Cat(got, fifo) = IntactOf(framed, damaged, n) /\ n + 1 \notin damaged
    BY <1>3 DEF Received, Intact, IntactOf, n
  <1>5. Intact' = IntactOf(framed', damaged', n + 1)
    BY <1>3 DEF Intact, IntactOf
  <1>6. CASE /\ aligned \/ Pending < FifoDepth
             /\ aligned' = TRUE /\ UNCHANGED <<noise, damaged>>
             /\ fifo' = IF Pending < FifoDepth THEN Append(fifo, x) ELSE fifo
    <2>1. Pending < FifoDepth
      <3>1. Len(fifo) \in Nat
        BY <1>4, LenProperties
      <3>2. aligned => Pending < MaxPending
        BY <1>1 DEF Received
      <3> QED BY <1>4, <1>6, <3>1, <3>2, BridgeAssumption DEF Pending
    <2>2. fifo' = Cat(fifo, <<x>>) /\ fifo' \in Seq(Key) /\ <<x>> \in Seq(Key)
      BY <1>2, <1>4, <1>6, <2>1, CatAppend
    <2> DEFINE one == <<x>>
    <2>3. Cat(got, fifo') = Cat(Cat(got, fifo), one) /\ Cat(got, fifo) \in Seq(Key)
      <3> HIDE DEF one
      <3>1. fifo' = Cat(fifo, one) /\ one \in Seq(Key)
        BY <2>2 DEF one
      <3> QED BY <1>4, <3>1, CatFacts, CatAssoc
    <2>4. IntactOf(framed', damaged, n) = IntactOf(framed, damaged, n)
      BY <1>3, IntactSame
    <2>5. IntactOf(framed', damaged, n + 1) = Append(IntactOf(framed', damaged, n), x)
      <3>1. n \in Nat /\ n < Len(framed')
        BY <1>3
      <3>2. IntactOf(framed', damaged, n + 1)
              = IF n + 1 \in damaged THEN IntactOf(framed', damaged, n) ELSE Append(IntactOf(framed', damaged, n), framed'[n + 1])
        BY <1>3, <3>1, IntactNext
      <3> QED BY <1>3, <1>4, <3>2
    <2>6. Cat(got', fifo') = Intact'
      BY <1>1, <1>2, <1>4, <1>5, <1>6, <2>3, <2>4, <2>5, CatAppend
    <2>7. damaged' \subseteq 1 .. Len(framed') /\ damaged' = damaged
      BY <1>3, <1>4, <1>6
    <2> QED BY <1>1, <1>4, <1>6, <2>2, <2>6, <2>7 DEF Received
  <1>7. CASE ~aligned /\ damaged' = damaged \cup {Len(framed')} /\ Garbage /\ UNCHANGED <<aligned, fifo>>
    <2>1. damaged' = damaged \cup {n + 1} /\ damaged' \subseteq 1 .. n + 1
      <3>1. damaged' = damaged \cup {n + 1}
        BY <1>3, <1>7, Zenon
      <3>2. n \in Nat /\ damaged \subseteq 1 .. n
        BY <1>3, <1>4
      <3> QED BY <3>1, <3>2
    <2>2. noise' \in Nat
      BY <1>4, <1>7, GarbageCounts
    <2>3. IntactOf(framed', damaged', n) = IntactOf(framed, damaged, n)
      <3>1. \A i \in 1 .. n : framed'[i] = framed[i] /\ (i \in damaged' <=> i \in damaged)
        BY <1>3, <2>1
      <3> QED BY <3>1, IntactSame
    <2>4. IntactOf(framed', damaged', n + 1) = IntactOf(framed', damaged', n)
      <3>1. n \in Nat /\ n < Len(framed') /\ n + 1 \in damaged'
        BY <1>3, <2>1
      <3> QED BY <1>3, <3>1, IntactNext
    <2>5. Cat(got', fifo') = Intact'
      BY <1>1, <1>4, <1>5, <1>7, <2>3, <2>4
    <2>6. changes = 0 => 1 .. n + 1 \subseteq damaged'
      <3>1. changes = 0 => 1 .. n \subseteq damaged
        BY <1>7 DEF Received, n
      <3> QED BY <1>3, <2>1, <3>1
    <2>7. changes = 0 => \A i \in damaged' : 1 .. i \subseteq damaged'
      BY <1>3, <2>1, <2>6
    <2> QED BY <1>1, <1>3, <1>4, <1>7, <2>1, <2>2, <2>5, <2>6, <2>7 DEF Received
  <1> QED BY <1>6, <1>7 DEF FrameLands, x

\* A frame begins: one that begins in reset is the first.
LEMMA BeginsReceived ==
  ASSUME BridgeInv, Received, DriverWait
  PROVE  Received'
  <1>1. UNCHANGED <<fifo, framed, damaged, changes, got>>
    BY DEF DriverWait
  <1>2. Intact' = Intact /\ Cat(got', fifo') = Cat(got, fifo)
    BY <1>1 DEF Intact
  <1>3. CASE driver' = "done" /\ UNCHANGED <<aligned, noise>>
    BY <1>1, <1>2, <1>3 DEF Received
  <1>4. CASE Pending < MaxPending /\ FrameBegins
    <2>1. fifo \in Seq(Key) /\ Len(fifo) \in Nat /\ noise \in Nat
      BY LenProperties DEF Received
    <2>2. noise' = noise \/ Garbage
      BY <1>4, Zenon DEF FrameBegins
    <2>5. aligned' => aligned /\ noise' = noise
      BY <1>4, Zenon DEF FrameBegins
    <2>6. noise' \in Nat
      BY <2>1, <2>2, GarbageCounts
    <2>3. aligned' => Pending' < MaxPending
      BY <1>1, <1>4, <2>5 DEF Pending
    <2>4. changes = 0 => aligned' \/ 1 .. Len(framed) \subseteq damaged
      <3>1. CASE phase = "loop"
        BY <1>4, <3>1 DEF FrameBegins, Received
      <3>2. CASE phase = "reset"
        <4>1. framed = <<>> /\ Len(<<>>) = 0
          BY <3>2, EmptySeq DEF BridgeInv, Opening
        <4> QED BY <4>1
      <3> QED BY <3>1, <3>2 DEF DriverWait
    <2> QED BY <1>1, <1>2, <2>3, <2>4, <2>6 DEF Received
  <1> QED BY <1>3, <1>4 DEF DriverWait

\* The guest takes a byte, clears the FIFO or sets the divisor.
LEMMA GuestReceived ==
  ASSUME BridgeInv, Received, GuestReads \/ GuestClears \/ GuestSetsDivisor
  PROVE  Received'
  <1>1. UNCHANGED <<driver, framed, damaged>>
    BY DEF GuestReads, GuestClears, GuestSetsDivisor, guest
  <1>2. Intact' = Intact
    BY <1>1 DEF Intact
  <1>3. got \in Seq(Key) /\ fifo \in Seq(Key) /\ noise \in Nat /\ changes \in Nat /\ Len(fifo) \in Nat
    BY LenProperties DEF Received
  <1>4. CASE GuestReads
    <2>1. UNCHANGED <<aligned, changes>>
      BY <1>4 DEF GuestReads
    <2>2. CASE fifo # <<>> /\ got' = Append(got, Head(fifo)) /\ fifo' = Tail(fifo) /\ UNCHANGED noise
      <3> DEFINE one == <<Head(fifo)>>
      <3>1. Head(fifo) \in Key /\ fifo' \in Seq(Key) /\ fifo = Cat(one, fifo') /\ Len(fifo') = Len(fifo) - 1
        BY <1>3, <2>2, CatHead, HeadTailProperties
      <3>2. one \in Seq(Key) /\ got' \in Seq(Key) /\ got' = Cat(got, one)
        BY <1>3, <2>2, <3>1, CatAppend
      <3> HIDE DEF one
      <3>3. Cat(got', fifo') = Cat(got, fifo)
        BY <1>3, <3>1, <3>2, CatAssoc
      <3>4. Pending' < Pending /\ Pending' \in Int /\ Pending \in Int
        BY <1>3, <2>2, <3>1 DEF Pending
      <3>5. Pending < MaxPending => Pending' < MaxPending
        BY <3>4, BridgeAssumption
      <3> QED BY <1>1, <1>2, <1>3, <2>1, <2>2, <3>1, <3>2, <3>3, <3>5 DEF Received
    <2>3. CASE noise > 0 /\ noise' = noise - 1 /\ UNCHANGED <<fifo, got>>
      <3>1. noise' \in Nat /\ (Pending < MaxPending => Pending' < MaxPending)
        BY <1>3, <2>3, BridgeAssumption DEF Pending
      <3> QED BY <1>1, <1>2, <1>3, <2>1, <2>3, <3>1 DEF Received
    <2> QED BY <1>4, <2>2, <2>3 DEF GuestReads
  <1>5. CASE GuestClears
    <2>1. fifo' = <<>> /\ noise' = 0 /\ got' = Cat(got, fifo) /\ UNCHANGED <<aligned, changes>>
      BY <1>5 DEF GuestClears, Cat
    <2>2. got' \in Seq(Key) /\ fifo' \in Seq(Key) /\ Cat(got', fifo') = Cat(got, fifo)
      BY <1>3, <2>1, CatFacts
    <2>3. Pending' = 0
      BY <2>1, EmptySeq DEF Pending
    <2> QED BY <1>1, <1>2, <1>3, <2>1, <2>2, <2>3, BridgeAssumption DEF Received
  <1>6. CASE GuestSetsDivisor
    <2>1. aligned' = FALSE /\ changes' = changes + 1 /\ UNCHANGED <<fifo, noise, got>>
      BY <1>6 DEF GuestSetsDivisor
    <2> QED BY <1>1, <1>2, <1>3, <2>1 DEF Received
  <1> QED BY <1>4, <1>5, <1>6

\* No other step touches the receiver.
LEMMA OthersReceived ==
  ASSUME Received, UNCHANGED serial, driver' # "send" \/ driver' = driver
  PROVE  Received'
  <1>1. UNCHANGED <<aligned, fifo, noise, framed, damaged, changes, got>>
    BY DEF serial
  <1>2. Intact' = Intact /\ Pending' = Pending
    BY <1>1 DEF Intact, Pending
  <1> QED BY <1>1, <1>2 DEF Received

\* A step keeps what is behind the line.
LEMMA ReceivedStep ==
  ASSUME BridgeInv, BridgeInv', Received, [BridgeNext]_bvars
  PROVE  Received'
  <1>1. CASE UNCHANGED bvars
    BY <1>1, OthersReceived DEF bvars
  <1>2. CASE \E b \in Key : Type(b)
    BY <1>2, OthersReceived DEF Type
  <1>3. CASE MainStep \/ LoopRaises
    <2>1. UNCHANGED serial /\ (driver' # "send" \/ driver' = driver)
      BY <1>3 DEF MainStep, LoopRaises, StdinStart, PtyStart, Attach, StartDut, LoopEnds, Close, sim
    <2> QED BY <2>1, OthersReceived
  <1>4. CASE ReaderStep
    <2>1. UNCHANGED serial /\ driver' = driver
      BY <1>4 DEF ReaderStep, ReaderRuns, ReaderCheck, ReaderSelect, ReaderRead, ReaderLog, ReaderPut, ReaderGivesUp, rest
    <2> QED BY <2>1, OthersReceived
  <1>5. CASE DriverPoll \/ DriverSent
    <2>1. UNCHANGED serial /\ driver' # "send"
      BY <1>5 DEF DriverPoll, DriverSent
    <2> QED BY <2>1, OthersReceived
  <1> QED BY <1>1, <1>2, <1>3, <1>4, <1>5, LandsReceived, BeginsReceived, GuestReceived DEF BridgeNext, DriverStep

\* For any keys, any number of typed bytes, any FIFO at least as deep as the driver's limit and any number of
\* changes of the divisor: until a stop is asked for no byte is lost, doubled or reordered between the terminal
\* and the line, which never carries one that is not owed (linux_tty.py, the reader thread, the queue and
\* drive_bridge_to_uart); the guest is given the bytes of the frames read right, in order and once each, for
\* the FIFO never overruns; and while the divisor stays the frames read wrong, or not at all, come before all
\* others: those of a burst that began in the reset.
THEOREM InputStaysInOrder == BridgeSpec => []InputInOrder
  <1>1. BridgeInit => BridgeInv
    <2> SUFFICES ASSUME BridgeInit PROVE BridgeInv
      OBVIOUS
    <2>1. /\ typed = <<>> /\ tty = <<>> /\ chunk = <<>> /\ queue = <<>> /\ byte = <<>> /\ framed = <<>>
          /\ reader = "none" /\ driver = "none" /\ phase = "start" /\ (mode = "stdin" => ~waits)
      BY DEF BridgeInit
    <2>2. framed = <<>> /\ Owed = <<>> /\ OnLineAll(<<>>) = <<>> /\ Cat(<<>>, <<>>) = <<>> /\ <<>> \in Seq(Key)
      BY <2>1, CatFacts, LineOne DEF Owed
    <2>3. ToSet(<<>>) = {}
      BY DEF ToSet
    <2>4. BridgeTypeOK /\ Opening /\ Holding /\ Flow /\ Begun
      BY <2>1, <2>2 DEF BridgeTypeOK, Opening, Holding, Flow, Begun
    <2>5. Sound
      BY <2>1, <2>2, <2>3 DEF Sound
    <2> QED BY <2>4, <2>5 DEF BridgeInv
  <1>2. BridgeInv /\ [BridgeNext]_bvars => BridgeInv'
    <2> SUFFICES ASSUME BridgeInv, [BridgeNext]_bvars PROVE BridgeInv'
      OBVIOUS
    <2>1. CASE UNCHANGED bvars
      <3>1. framed' = framed /\ Attached' = Attached /\ Owed' = Owed
        BY <2>1 DEF bvars, serial, Attached, Owed
      <3>2. BridgeTypeOK' /\ Opening' /\ Holding' /\ Begun'
        BY <2>1, <3>1 DEF bvars, BridgeInv, BridgeTypeOK, Opening, Holding, Begun
      <3>3. Flow' /\ Sound'
        BY <2>1, <3>1 DEF bvars, BridgeInv, Flow, Sound
      <3> QED BY <3>2, <3>3 DEF BridgeInv
    <2>2. CASE \E b \in Key : Type(b)
      BY <2>2, TypeStep
    <2>3. CASE MainStep \/ LoopRaises
      BY <2>3, StdinStep, PtyStep, AttachStep, OtherMainStep DEF MainStep
    <2> QED BY <2>1, <2>2, <2>3, ReaderBridgeStep, DriverBridgeStep DEF BridgeNext
  <1>3. BridgeInit => Received
    <2> SUFFICES ASSUME BridgeInit PROVE Received
      OBVIOUS
    <2>1. /\ got = <<>> /\ fifo = <<>> /\ noise = 0 /\ changes = 0 /\ damaged = {} /\ framed = <<>> /\ driver = "none" /\ aligned
          /\ <<>> \in Seq(Key) /\ Len(<<>>) = 0 /\ Cat(<<>>, <<>>) = <<>>
      BY EmptySeq, CatFacts DEF BridgeInit
    <2>2. Intact = <<>>
      <3>1. [i \in 1 .. 0 |-> IF i \in {} THEN <<>> ELSE <<framed[i]>>] = <<>>
        OBVIOUS
      <3>2. Intact = FlattenSeq([i \in 1 .. 0 |-> IF i \in {} THEN <<>> ELSE <<framed[i]>>])
        BY <2>1 DEF Intact
      <3> QED BY <3>1, <3>2, FlattenEmpty
    <2> QED BY <2>1, <2>2 DEF Received
  <1>4. BridgeInv /\ Received /\ [BridgeNext]_bvars => BridgeInv' /\ Received'
    BY <1>2, ReceivedStep
  <1> QED BY <1>1, <1>3, <1>4, BridgeMeans, PTL DEF BridgeSpec
-----------------------------------------------------------------------------
(* The C program runner.                                                   *)
Program == ToSet(c_files) \cup {Start}
Linked == [parts |-> Program, bytes |-> ImageBytes(Program)]
Image == [parts |-> Program, bytes |-> IF Linked.bytes > Limit THEN Limit ELSE Linked.bytes]

\* The i-th object file holds the source unless a later source of the same stem has replaced it.
Holds(made, objs, i, source) ==
  made[objs[i]] = source \/ \E j \in DOMAIN objs : j > i /\ objs[j] = objs[i]

Compiled ==
  /\ \A i \in DOMAIN object_files : i <= Len(c_files) => Holds(objects, object_files, i, c_files[i])
  /\ \A i \in DOMAIN object_files : i = Len(c_files) + 1 => Holds(objects, object_files, i, Start)

\* How far the build is at each command.
CBuildInv ==
  /\ c_files \in Seq(Sources) /\ object_files \in Seq(Stems) /\ DOMAIN objects = Stems
  /\ step \in {"arguments", "compile", "link", "binary", "truncate", "hex", "listing", "clean", "make", "done"}
  /\ step \in {"arguments", "compile"} => Len(object_files) <= Len(c_files)
  /\ step \in {"arguments", "compile", "link"} => Compiled
  /\ step = "link" => Len(object_files) = Len(c_files) + 1
  /\ step = "binary" => elf = Program
  /\ step = "truncate" => bin = Linked
  /\ step = "hex" => bin = Image
  /\ step \in {"listing", "clean", "make", "done"} => hex = Image
  /\ step = "make" => sim_build_dir = "none"
  /\ step = "done" => sim_build_dir = "new" /\ ran = <<Image>>
  /\ step # "done" => ran = <<>> /\ exit # <<0>>

\* Compiling one more source writes its object and keeps what the earlier ones hold.
OneMore(made, objs, source, made2, files2) ==
  LET n == Len(objs)
  IN /\ files2 \in Seq(Stems) /\ Len(files2) = n + 1 /\ DOMAIN files2 = 1 .. n + 1 /\ DOMAIN made2 = Stems
     /\ Holds(made2, files2, n + 1, source)
     /\ \A i \in 1 .. n : \A t : Holds(made, objs, i, t) => Holds(made2, files2, i, t)

\* One file compiled.
LEMMA CompileOne ==
  ASSUME NEW objs \in Seq(Stems), NEW made, DOMAIN made = Stems, NEW stem \in Stems, NEW source
  PROVE  OneMore(made, objs, source, [made EXCEPT ![stem] = source], Append(objs, stem))
  <1>0. PICK n, files2, made2 :
           n \in Nat /\ n = Len(objs) /\ files2 = Append(objs, stem) /\ made2 = [made EXCEPT ![stem] = source]
    BY LenProperties
  <1>1. /\ files2 \in Seq(Stems) /\ Len(files2) = n + 1
        /\ \A i \in 1 .. n : files2[i] = objs[i]
        /\ files2[n + 1] = stem
    BY <1>0, AppendProperties
  <1>2. DOMAIN files2 = 1 .. n + 1 /\ DOMAIN objs = 1 .. n
    BY <1>0, <1>1, LenProperties
  <1>3. DOMAIN made2 = Stems /\ made2[stem] = source /\ \A m \in Stems : m # stem => made2[m] = made[m]
    BY <1>0
  <1>4. \A i \in 1 .. n : objs[i] \in Stems
    BY <1>0, ElementOfSeq
  <1>5. ASSUME NEW i \in 1 .. n, NEW t, Holds(made, objs, i, t) PROVE Holds(made2, files2, i, t)
    <2>0. i \in 1 .. n + 1 /\ n + 1 \in 1 .. n + 1 /\ n + 1 > i
      BY <1>0
    <2>1. CASE objs[i] = stem
      BY <2>0, <2>1, <1>1, <1>2 DEF Holds
    <2>2. CASE objs[i] # stem /\ made[objs[i]] = t
      BY <2>2, <1>1, <1>3, <1>4 DEF Holds
    <2>3. CASE \E j \in DOMAIN objs : j > i /\ objs[j] = objs[i]
      <3>1. PICK j \in 1 .. n : j > i /\ objs[j] = objs[i]
        BY <2>3, <1>2
      <3>2. j \in DOMAIN files2 /\ files2[j] = files2[i]
        <4>1. j \in 1 .. n + 1
          BY <1>0
        <4> QED BY <3>1, <4>1, <1>1, <1>2
      <3> QED BY <3>1, <3>2 DEF Holds
    <2> QED BY <1>5, <2>1, <2>2, <2>3 DEF Holds
  <1>6. Holds(made2, files2, n + 1, source)
    BY <1>1, <1>3 DEF Holds
  <1>7. OneMore(made, objs, source, made2, files2)
    BY <1>0, <1>1, <1>2, <1>3, <1>5, <1>6 DEF OneMore
  <1> QED BY <1>0, <1>7

\* A file of the command line.
LEMMA CompileNextStep ==
  ASSUME CBuildInv, CompileNext
  PROVE  CBuildInv'
  <1> USE DEF CBuildInv
  <1>1. PICK n \in Nat : n = Len(object_files)
    BY LenProperties
  <1>2. PICK source : source = c_files[n + 1]
    OBVIOUS
  <1>3. /\ n < Len(c_files) /\ step = "compile" /\ step' = "compile"
        /\ objects' = [objects EXCEPT ![Stem[source]] = source]
        /\ object_files' = Append(object_files, Stem[source])
        /\ UNCHANGED <<c_files, elf, bin, hex, sim_build_dir, ran, exit>>
    BY <1>1, <1>2 DEF CompileNext, Runs
  <1>4. Len(c_files) \in Nat /\ DOMAIN object_files = 1 .. n /\ n + 1 \in 1 .. Len(c_files)
    BY <1>1, <1>3, LenProperties
  <1>5. source \in Sources /\ Stem[source] \in Stems
    <2>1. source \in Sources
      BY <1>2, <1>4, ElementOfSeq
    <2> QED BY <2>1 DEF Stems
  <1>6. /\ object_files' \in Seq(Stems) /\ Len(object_files') = n + 1 /\ DOMAIN object_files' = 1 .. n + 1
        /\ DOMAIN objects' = Stems
        /\ Holds(objects', object_files', n + 1, source)
        /\ \A i \in 1 .. n : \A t : Holds(objects, object_files, i, t) => Holds(objects', object_files', i, t)
    <2> HIDE DEF CBuildInv
    <2>1. object_files \in Seq(Stems) /\ DOMAIN objects = Stems
      BY DEF CBuildInv
    <2>2. objects' = [objects EXCEPT ![Stem[source]] = source] /\ object_files' = Append(object_files, Stem[source])
      BY <1>3
    <2>3. OneMore(objects, object_files, source, objects', object_files')
      BY <1>5, <2>1, <2>2, CompileOne
    <2> QED BY <1>1, <2>3 DEF OneMore
  <1>7. Compiled'
    <2>1. ASSUME NEW i \in 1 .. n + 1 PROVE Holds(objects', object_files', i, c_files'[i])
      <3>1. CASE i = n + 1
        BY <3>1, <1>2, <1>3, <1>6
      <3>2. CASE i \in 1 .. n
        <4>1. Holds(objects, object_files, i, c_files[i])
          <5>1. i \in DOMAIN object_files /\ i <= Len(c_files) /\ Compiled
            BY <3>2, <1>3, <1>4
          <5> QED BY <5>1 DEF Compiled
        <4> QED BY <3>2, <4>1, <1>3, <1>6
      <3> QED BY <3>1, <3>2
    <2>2. \A i \in 1 .. n + 1 : i # Len(c_files) + 1
      BY <1>3, <1>4
    <2> QED BY <2>1, <2>2, <1>3, <1>6 DEF Compiled
  <1> QED BY <1>3, <1>4, <1>6, <1>7

\* start.S, the last to be compiled.
LEMMA CompileStartStep ==
  ASSUME CBuildInv, CompileStart
  PROVE  CBuildInv'
  <1> USE DEF CBuildInv
  <1>1. PICK n \in Nat : n = Len(object_files)
    BY LenProperties
  <1>3. /\ n = Len(c_files) /\ step = "compile" /\ step' = "link"
        /\ objects' = [objects EXCEPT ![StartStem] = Start]
        /\ object_files' = Append(object_files, StartStem)
        /\ UNCHANGED <<c_files, elf, bin, hex, sim_build_dir, ran, exit>>
    BY <1>1 DEF CompileStart, Runs
  <1>4. DOMAIN object_files = 1 .. n
    BY <1>1, LenProperties
  <1>6. /\ object_files' \in Seq(Stems) /\ Len(object_files') = n + 1 /\ DOMAIN object_files' = 1 .. n + 1
        /\ DOMAIN objects' = Stems
        /\ Holds(objects', object_files', n + 1, Start)
        /\ \A i \in 1 .. n : \A t : Holds(objects, object_files, i, t) => Holds(objects', object_files', i, t)
    <2> HIDE DEF CBuildInv
    <2>1. object_files \in Seq(Stems) /\ DOMAIN objects = Stems
      BY DEF CBuildInv
    <2>2. StartStem \in Stems
      BY DEF Stems
    <2>3. objects' = [objects EXCEPT ![StartStem] = Start] /\ object_files' = Append(object_files, StartStem)
      BY <1>3
    <2>4. OneMore(objects, object_files, Start, objects', object_files')
      BY <2>1, <2>2, <2>3, CompileOne
    <2> QED BY <1>1, <2>4 DEF OneMore
  <1>7. Compiled'
    <2>1. \A i \in 1 .. n : Holds(objects', object_files', i, c_files'[i])
      <3> SUFFICES ASSUME NEW i \in 1 .. n PROVE Holds(objects', object_files', i, c_files'[i])
        OBVIOUS
      <3>1. i \in DOMAIN object_files /\ i <= Len(c_files) /\ Compiled
        BY <1>3, <1>4
      <3>2. Holds(objects, object_files, i, c_files[i])
        BY <3>1 DEF Compiled
      <3> QED BY <3>2, <1>3, <1>6
    <2>2. \A i \in 1 .. n + 1 : i <= Len(c_files') => i \in 1 .. n
      BY <1>3
    <2>3. Len(c_files') + 1 = n + 1
      BY <1>3
    <2> QED BY <2>1, <2>2, <2>3, <1>6 DEF Compiled
  <1> QED BY <1>3, <1>6, <1>7

\* The link takes the objects by name.
LEMMA LinkStep ==
  ASSUME CBuildInv, Link
  PROVE  CBuildInv'
  <1> USE DEF CBuildInv
  <1> DEFINE n == Len(c_files)
  <1>1. /\ step = "link" /\ step' = "binary" /\ IsInjective(object_files)
        /\ elf' = {objects[m] : m \in ToSet(object_files)}
        /\ UNCHANGED <<c_files, objects, object_files, bin, hex, sim_build_dir, ran, exit>>
    BY DEF Link, Runs
  <1>2. n \in Nat /\ DOMAIN c_files = 1 .. n /\ DOMAIN object_files = 1 .. n + 1
    BY <1>1, LenProperties
  <1>3. \A i, j \in 1 .. n + 1 : object_files[i] = object_files[j] => i = j
    BY <1>1, <1>2 DEF IsInjective
  <1>4. \A i \in 1 .. n : objects[object_files[i]] = c_files[i]
    <2> SUFFICES ASSUME NEW i \in 1 .. n PROVE objects[object_files[i]] = c_files[i]
      OBVIOUS
    <2>1. Holds(objects, object_files, i, c_files[i])
      BY <1>1, <1>2 DEF Compiled
    <2> QED BY <2>1, <1>2, <1>3 DEF Holds
  <1>5. objects[object_files[n + 1]] = Start
    <2>1. Holds(objects, object_files, n + 1, Start)
      BY <1>1, <1>2 DEF Compiled
    <2> QED BY <2>1, <1>2, <1>3 DEF Holds
  <1>6. elf' = Program
    <2>1. \A x \in elf' : x \in Program
      <3> SUFFICES ASSUME NEW i \in 1 .. n + 1 PROVE objects[object_files[i]] \in Program
        BY <1>1, <1>2 DEF ToSet
      <3>1. CASE i \in 1 .. n
        BY <3>1, <1>2, <1>4 DEF Program, ToSet
      <3>2. CASE i = n + 1
        BY <3>2, <1>5 DEF Program
      <3> QED BY <3>1, <3>2, <1>2
    <2>2. \A i \in 1 .. n + 1 : objects[object_files[i]] \in elf'
      BY <1>1, <1>2 DEF ToSet
    <2>3. \A x \in Program : x \in elf'
      <3> SUFFICES ASSUME NEW x \in Program PROVE x \in elf'
        OBVIOUS
      <3>1. CASE x = Start
        BY <3>1, <1>2, <1>5, <2>2
      <3>2. CASE x # Start
        <4>1. PICK i \in 1 .. n : x = c_files[i]
          BY <3>2, <1>2 DEF Program, ToSet
        <4> QED BY <4>1, <1>2, <1>4, <2>2
      <3> QED BY <3>1, <3>2
    <2> QED BY <2>1, <2>3
  <1> QED BY <1>1, <1>6 DEF Program

\* CBuildInv is inductive.
LEMMA CBuildStep ==
  ASSUME CBuildInv, [CBuildNext]_cvars
  PROVE  CBuildInv'
  <1> USE DEF CBuildInv
  <1>1. ASSUME UNCHANGED <<c_files, object_files, objects>>
        PROVE  Program' = Program /\ Linked' = Linked /\ Image' = Image /\ Compiled' = Compiled
    BY <1>1 DEF Program, Linked, Image, Compiled, Holds
  <1>2. CASE Fails
    BY <1>1, <1>2 DEF Fails
  <1>3. CASE Arguments
    BY <1>1, <1>3 DEF Arguments, Runs
  <1>4. CASE ObjcopyBinary
    BY <1>1, <1>4 DEF ObjcopyBinary, Runs, Linked
  <1>5. CASE Truncate
    <2>1. bin' = Image
      BY <1>5 DEF Truncate, Runs, Linked, Image
    <2> QED BY <1>1, <1>5, <2>1 DEF Truncate, Runs
  <1>6. CASE ObjcopyHex
    BY <1>1, <1>6 DEF ObjcopyHex, Runs
  <1>7. CASE Listing
    BY <1>1, <1>7 DEF Listing, Runs
  <1>8. CASE Clean
    BY <1>1, <1>8 DEF Clean, Runs
  <1>9. CASE Make
    BY <1>1, <1>9 DEF Make, Runs
  <1>10. CASE UNCHANGED cvars
    BY <1>1, <1>10 DEF cvars
  <1> QED BY <1>2, <1>3, <1>4, <1>5, <1>6, <1>7, <1>8, <1>9, <1>10, CompileNextStep, CompileStartStep, LinkStep
          DEF CBuildNext

\* For any command line, sizes and limit, and whatever an earlier run left: the simulation runs on all
\* of its objs and nothing else, on a simulator of this run, or the script does not exit with 0
\* (run_c_code.py, compile_c_files and runMakefile).
THEOREM ProgramIsRun == CBuildSpec => []RunsItsProgram
  <1>1. CBuildInit => CBuildInv
    <2> SUFFICES ASSUME CBuildInit PROVE CBuildInv
      OBVIOUS
    <2>1. c_files \in Seq(Sources) /\ <<>> \in Seq(Stems) /\ Len(<<>>) = 0
      BY CBuildAssumption, EmptySeq DEF CBuildInit
    <2>2. Len(c_files) \in Nat
      BY <2>1, LenProperties
    <2>3. Compiled
      BY DEF CBuildInit, Compiled
    <2> QED BY <2>1, <2>2, <2>3 DEF CBuildInit, CBuildInv
  <1>2. CBuildInv => RunsItsProgram
    BY DEF CBuildInv, RunsItsProgram, Image, Linked, Program
  <1> QED BY <1>1, <1>2, CBuildStep, PTL DEF CBuildSpec

-----------------------------------------------------------------------------
(* Prefixes and pieces of sequences.                                       *)

\* The first n of a sequence.
First(c, n) == [i \in 1 .. n |-> c[i]]

\* Its elements and length.
LEMMA FirstFacts ==
  ASSUME NEW K, NEW c \in Seq(K), NEW n \in Nat, n <= Len(c)
  PROVE  /\ First(c, n) \in Seq(K) /\ Len(First(c, n)) = n /\ DOMAIN First(c, n) = 1 .. n
         /\ \A i \in 1 .. n : First(c, n)[i] = c[i]
  <1>1. \A i \in 1 .. n : c[i] \in K
    BY ElementOfSeq, LenProperties
  <1>2. Len(First(c, n)) = n /\ DOMAIN First(c, n) = 1 .. n /\ \A i \in 1 .. n : First(c, n)[i] = c[i]
    BY DEF First
  <1>3. First(c, n) \in Seq(K)
    BY <1>1, IsASeq DEF First
  <1> QED BY <1>2, <1>3

\* All of it.
LEMMA FirstAll ==
  ASSUME NEW K, NEW c \in Seq(K)
  PROVE  First(c, Len(c)) = c
  <1> DEFINE d == First(c, Len(c))
  <1>1. Len(c) \in Nat /\ Len(c) <= Len(c)
    BY LenProperties
  <1>2. d \in Seq(K) /\ Len(d) = Len(c) /\ \A i \in 1 .. Len(d) : d[i] = c[i]
    BY <1>1, FirstFacts
  <1> HIDE DEF d
  <1>3. d = c
    BY <1>2, SeqEqual
  <1> QED BY <1>3 DEF d

\* None of it.
LEMMA FirstNone == ASSUME NEW c PROVE First(c, 0) = <<>>
  BY DEF First

\* The first n + 1, flattened.
LEMMA FlattenFirst ==
  ASSUME NEW K, NEW c \in Seq(Seq(K)), NEW n \in Nat, n < Len(c)
  PROVE  /\ c[n + 1] \in Seq(K)
         /\ FlattenSeq(First(c, n)) \in Seq(K)
         /\ FlattenSeq(First(c, n + 1)) = FlattenSeq(First(c, n)) \o c[n + 1]
  <1>1. Len(c) \in Nat /\ n + 1 \in Nat /\ n + 1 <= Len(c) /\ n <= Len(c)
    BY LenProperties
  <1> DEFINE d == First(c, n + 1)
  <1>2. d \in Seq(Seq(K)) /\ Len(d) = n + 1 /\ d[n + 1] = c[n + 1] /\ \A i \in 1 .. n : d[i] = c[i]
    <2>1. /\ d \in Seq(Seq(K)) /\ Len(d) = n + 1 /\ \A i \in 1 .. n + 1 : d[i] = c[i]
      BY <1>1, FirstFacts
    <2> HIDE DEF d
    <2> QED BY <2>1
  <1> HIDE DEF d
  <1>3. d # <<>> /\ Len(d) - 1 = n
    BY <1>2, EmptySeq
  <1>4. /\ d[(Len(d) - 1) + 1] \in Seq(K)
        /\ FlattenSeq(d) = FlattenSeq([i \in 1 .. Len(d) - 1 |-> d[i]]) \o d[(Len(d) - 1) + 1]
    BY <1>2, <1>3, FlattenLast, Zenon
  <1>5. [i \in 1 .. n |-> d[i]] = First(c, n)
    BY <1>2 DEF First
  <1>6. FlattenSeq(First(c, n)) \in Seq(K)
    <2>1. First(c, n) \in Seq(Seq(K))
      BY <1>1, FirstFacts
    <2> QED BY <2>1, FlattenType
  <1> QED BY <1>2, <1>3, <1>4, <1>5, <1>6 DEF d

\* What is joined first stays in front.
LEMMA FlattenPrefix ==
  ASSUME NEW K, NEW c \in Seq(Seq(K)), NEW m \in Nat, m <= Len(c)
  PROVE  /\ FlattenSeq(First(c, m)) \in Seq(K)
         /\ Len(FlattenSeq(First(c, m))) <= Len(FlattenSeq(c))
         /\ \A k \in 1 .. Len(FlattenSeq(First(c, m))) : FlattenSeq(c)[k] = FlattenSeq(First(c, m))[k]
  <1> DEFINE f(n) == FlattenSeq(First(c, n))
             T == {n \in Nat : m + n <= Len(c) => /\ Len(f(m)) <= Len(f(m + n))
                                                 /\ \A k \in 1 .. Len(f(m)) : f(m + n)[k] = f(m)[k]}
  <1>1. \A n \in 0 .. Len(c) : f(n) \in Seq(K) /\ Len(f(n)) \in Nat
    <2> SUFFICES ASSUME NEW n \in 0 .. Len(c) PROVE f(n) \in Seq(K)
      BY LenProperties
    <2>1. n \in Nat /\ n <= Len(c)
      BY LenProperties
    <2>2. First(c, n) \in Seq(Seq(K))
      BY <2>1, FirstFacts
    <2> QED BY <2>2, FlattenType
  <1>2. Len(c) \in Nat
    BY LenProperties
  <1>3. \A n \in Nat : n < Len(c) => c[n + 1] \in Seq(K) /\ f(n + 1) = f(n) \o c[n + 1]
    BY FlattenFirst
  <1>4. f(Len(c)) = FlattenSeq(c)
    BY FirstAll
  <1> HIDE DEF f
  <1>5. 0 \in T
    BY <1>1
  <1>6. ASSUME NEW n \in Nat, n \in T PROVE n + 1 \in T
    <2> SUFFICES ASSUME m + (n + 1) <= Len(c)
                 PROVE  /\ Len(f(m)) <= Len(f(m + (n + 1)))
                        /\ \A k \in 1 .. Len(f(m)) : f(m + (n + 1))[k] = f(m)[k]
      OBVIOUS
    <2>1. m + n \in Nat /\ m + n < Len(c) /\ m + (n + 1) = (m + n) + 1 /\ m + n \in 0 .. Len(c) /\ m \in 0 .. Len(c)
      BY <1>2
    <2>2. Len(f(m)) <= Len(f(m + n)) /\ \A k \in 1 .. Len(f(m)) : f(m + n)[k] = f(m)[k]
      BY <1>6, <2>1
    <2>3. /\ f(m + n) \in Seq(K) /\ Len(f(m + n)) \in Nat /\ c[(m + n) + 1] \in Seq(K) /\ Len(f(m)) \in Nat
          /\ f((m + n) + 1) = f(m + n) \o c[(m + n) + 1]
      BY <1>1, <1>3, <2>1
    <2> DEFINE g == f(m + n)  s == c[(m + n) + 1]
    <2>4. /\ Len(f((m + n) + 1)) = Len(g) + Len(s) /\ Len(s) \in Nat
          /\ \A k \in 1 .. Len(g) : f((m + n) + 1)[k] = g[k]
      <3>1. g \in Seq(K) /\ s \in Seq(K) /\ f((m + n) + 1) = g \o s
        BY <2>3
      <3> HIDE DEF g, s
      <3>2. Len(g) \in Nat /\ Len(s) \in Nat
        BY <3>1, LenProperties
      <3>3. Len(g \o s) = Len(g) + Len(s) /\ \A k \in 1 .. Len(g) + Len(s) : (g \o s)[k] = IF k <= Len(g) THEN g[k] ELSE s[k - Len(g)]
        BY <3>1, ConcatProperties
      <3> QED BY <3>1, <3>2, <3>3
    <2> HIDE DEF s
    <2> QED BY <2>1, <2>2, <2>3, <2>4
  <1> HIDE DEF T
  <1>7. Len(c) - m \in Nat /\ m + (Len(c) - m) = Len(c) /\ m \in 0 .. Len(c)
    BY <1>2
  <1>8. Len(c) - m \in T
    BY <1>5, <1>6, <1>7, Induction
  <1>9. Len(f(m)) <= Len(f(Len(c))) /\ \A k \in 1 .. Len(f(m)) : f(Len(c))[k] = f(m)[k]
    BY <1>2, <1>7, <1>8 DEF T
  <1> QED BY <1>1, <1>4, <1>7, <1>9 DEF f

\* Lists of sequences of the same lengths; their flattenings hold corresponding elements at each place.
SameShape(c, d) == Len(c) = Len(d) /\ \A i \in 1 .. Len(c) : Len(c[i]) = Len(d[i])
InStep(c, d) ==
  /\ Len(FlattenSeq(c)) = Len(FlattenSeq(d))
  /\ \A k \in 1 .. Len(FlattenSeq(c)) :
       \E i \in 1 .. Len(c) : \E j \in 1 .. Len(c[i]) : FlattenSeq(c)[k] = c[i][j] /\ FlattenSeq(d)[k] = d[i][j]

\* Flattening keeps lists of the same shape in step.
LEMMA FlattenAligned ==
  ASSUME NEW K, NEW L, NEW c \in Seq(Seq(K)), NEW d \in Seq(Seq(L)), SameShape(c, d)
  PROVE  InStep(c, d)
  <1> DEFINE f(n) == FlattenSeq(First(c, n))
             g(n) == FlattenSeq(First(d, n))
             From(k, n) == \E i \in 1 .. n : \E j \in 1 .. Len(c[i]) : f(n)[k] = c[i][j] /\ g(n)[k] = d[i][j]
             T == {n \in Nat : n <= Len(c) => Len(f(n)) = Len(g(n)) /\ \A k \in 1 .. Len(f(n)) : From(k, n)}
  <1>1. Len(c) \in Nat /\ Len(c) = Len(d) /\ \A i \in 1 .. Len(c) : Len(c[i]) = Len(d[i])
    BY LenProperties DEF SameShape
  <1>2. /\ \A n \in Nat : n < Len(c) => c[n + 1] \in Seq(K) /\ f(n) \in Seq(K) /\ f(n + 1) = f(n) \o c[n + 1]
        /\ \A n \in Nat : n < Len(c) => d[n + 1] \in Seq(L) /\ g(n) \in Seq(L) /\ g(n + 1) = g(n) \o d[n + 1]
    BY <1>1, FlattenFirst
  <1>3. f(Len(c)) = FlattenSeq(c) /\ g(Len(c)) = FlattenSeq(d)
    BY <1>1, FirstAll
  <1>4. f(0) = <<>> /\ g(0) = <<>>
    BY FirstNone, FlattenEmpty
  <1> HIDE DEF f, g
  <1>5. 0 \in T
    <2>1. Len(f(0)) = 0 /\ Len(g(0)) = 0
      BY <1>4
    <2> HIDE DEF From
    <2> QED BY <2>1
  <1>6. ASSUME NEW n \in Nat, n \in T PROVE n + 1 \in T
    <2> SUFFICES ASSUME n + 1 <= Len(c)
                 PROVE  Len(f(n + 1)) = Len(g(n + 1)) /\ \A k \in 1 .. Len(f(n + 1)) : From(k, n + 1)
      <3> HIDE DEF From
      <3> QED OBVIOUS
    <2>1. n < Len(c) /\ n + 1 \in 1 .. Len(c)
      BY <1>1
    <2>2. Len(f(n)) = Len(g(n)) /\ \A k \in 1 .. Len(f(n)) : From(k, n)
      BY <1>6, <2>1
    <2> DEFINE s == c[n + 1]  t == d[n + 1]
    <2>3. /\ s \in Seq(K) /\ f(n) \in Seq(K) /\ f(n + 1) = f(n) \o s
          /\ t \in Seq(L) /\ g(n) \in Seq(L) /\ g(n + 1) = g(n) \o t /\ Len(s) = Len(t)
      BY <1>1, <1>2, <2>1
    <2> HIDE DEF s, t
    <2>4. /\ Len(f(n)) \in Nat /\ Len(s) \in Nat /\ Len(f(n + 1)) = Len(f(n)) + Len(s)
          /\ \A k \in 1 .. Len(f(n)) + Len(s) : f(n + 1)[k] = IF k <= Len(f(n)) THEN f(n)[k] ELSE s[k - Len(f(n))]
      BY <2>3, ConcatProperties, LenProperties
    <2>5. /\ Len(g(n + 1)) = Len(f(n)) + Len(s)
          /\ \A k \in 1 .. Len(f(n)) + Len(s) : g(n + 1)[k] = IF k <= Len(f(n)) THEN g(n)[k] ELSE t[k - Len(f(n))]
      BY <2>2, <2>3, ConcatProperties, LenProperties
    <2>6. ASSUME NEW k \in 1 .. Len(f(n)) + Len(s) PROVE From(k, n + 1)
      <3>1. CASE k <= Len(f(n))
        <4>1. From(k, n) /\ f(n + 1)[k] = f(n)[k] /\ g(n + 1)[k] = g(n)[k]
          <5> HIDE DEF From
          <5>1. k \in 1 .. Len(f(n))
            BY <2>4, <3>1
          <5> QED BY <2>2, <2>4, <2>5, <3>1, <5>1
        <4>2. PICK i \in 1 .. n : \E j \in 1 .. Len(c[i]) : f(n)[k] = c[i][j] /\ g(n)[k] = d[i][j]
          BY <4>1
        <4>3. i \in 1 .. n + 1
          OBVIOUS
        <4> QED BY <4>1, <4>2, <4>3
      <3>2. CASE ~(k <= Len(f(n)))
        <4>1. k - Len(f(n)) \in 1 .. Len(s)
          BY <2>4, <3>2
        <4>2. f(n + 1)[k] = s[k - Len(f(n))] /\ g(n + 1)[k] = t[k - Len(f(n))]
          BY <2>4, <2>5, <3>2
        <4>3. n + 1 \in 1 .. n + 1
          OBVIOUS
        <4> QED BY <4>1, <4>2, <4>3 DEF s, t
      <3> QED BY <3>1, <3>2
    <2> HIDE DEF From
    <2> QED BY <2>4, <2>5, <2>6
  <1>7. Len(c) \in T
    <2> HIDE DEF T
    <2> QED BY <1>1, <1>5, <1>6, Induction
  <1>8. Len(f(Len(c))) = Len(g(Len(c))) /\ \A k \in 1 .. Len(f(Len(c))) : From(k, Len(c))
    <2> HIDE DEF From
    <2> QED BY <1>1, <1>7
  <1> QED BY <1>3, <1>8 DEF InStep

\* One more.
LEMMA FirstNext ==
  ASSUME NEW K, NEW c \in Seq(K), NEW n \in Nat, n < Len(c)
  PROVE  First(c, n + 1) = Append(First(c, n), c[n + 1]) /\ First(c, n) \in Seq(K) /\ c[n + 1] \in K
  <1> DEFINE u == First(c, n + 1)  v == Append(First(c, n), c[n + 1])
  <1>1. Len(c) \in Nat /\ n + 1 \in Nat /\ n + 1 <= Len(c) /\ n <= Len(c)
    BY LenProperties
  <1>2. c[n + 1] \in K
    BY <1>1, ElementOfSeq
  <1>3. First(c, n) \in Seq(K) /\ Len(First(c, n)) = n /\ \A i \in 1 .. n : First(c, n)[i] = c[i]
    BY <1>1, FirstFacts
  <1>4. u \in Seq(K) /\ Len(u) = n + 1 /\ \A i \in 1 .. n + 1 : u[i] = c[i]
    BY <1>1, FirstFacts
  <1>5. v \in Seq(K) /\ Len(v) = n + 1 /\ v[n + 1] = c[n + 1] /\ \A i \in 1 .. n : v[i] = c[i]
    BY <1>2, <1>3, AppendProperties
  <1> HIDE DEF u, v
  <1>6. \A i \in 1 .. Len(u) : u[i] = v[i]
    BY <1>4, <1>5
  <1>7. u = v
    BY <1>4, <1>5, <1>6, SeqEqual
  <1> QED BY <1>2, <1>3, <1>7 DEF u, v

\* Concatenation is associative.
LEMMA ConcatAssoc ==
  ASSUME NEW K, NEW a, NEW b, NEW d, a \in Seq(K), b \in Seq(K), d \in Seq(K)
  PROVE  (a \o b) \o d = a \o (b \o d)
  BY ConcatAssociative

\* Lists of sequences one after the other, the second one sequence longer.
LEMMA ConcatStep ==
  ASSUME NEW K, NEW z \in Seq(Seq(K)), NEW p \in Seq(Seq(K)), NEW x \in Seq(K),
         FlattenSeq(z \o p) = FlattenSeq(z) \o FlattenSeq(p)
  PROVE  FlattenSeq(z \o Append(p, x)) = FlattenSeq(z) \o FlattenSeq(Append(p, x))
  <1>1. z \o Append(p, x) = Append(z \o p, x) /\ z \o p \in Seq(Seq(K))
    <2>1. z \o p \in Seq(Seq(K)) /\ <<x>> \in Seq(Seq(K))
      BY ConcatProperties
    <2>2. Append(p, x) = p \o <<x>> /\ Append(z \o p, x) = (z \o p) \o <<x>>
      BY <2>1, AppendIsConcat
    <2>3. (z \o p) \o <<x>> = z \o (p \o <<x>>)
      BY <2>1, ConcatAssoc
    <2> QED BY <2>1, <2>2, <2>3
  <1>2. FlattenSeq(Append(z \o p, x)) = FlattenSeq(z \o p) \o x /\ FlattenSeq(Append(p, x)) = FlattenSeq(p) \o x
    BY <1>1, FlattenAppend
  <1>3. FlattenSeq(z) \in Seq(K) /\ FlattenSeq(p) \in Seq(K)
    BY FlattenType
  <1>4. (FlattenSeq(z) \o FlattenSeq(p)) \o x = FlattenSeq(z) \o (FlattenSeq(p) \o x)
    BY <1>3, ConcatAssoc
  <1> QED BY <1>1, <1>2, <1>4

\* Lists of sequences one after the other.
LEMMA FlattenConcat ==
  ASSUME NEW K, NEW z \in Seq(Seq(K)), NEW t \in Seq(Seq(K))
  PROVE  FlattenSeq(z \o t) = FlattenSeq(z) \o FlattenSeq(t)
  <1> DEFINE T == {n \in Nat : n <= Len(t) => FlattenSeq(z \o First(t, n)) = FlattenSeq(z) \o FlattenSeq(First(t, n))}
  <1>1. Len(t) \in Nat /\ FlattenSeq(z) \in Seq(K)
    BY LenProperties, FlattenType
  <1>2. 0 \in T
    <2>1. First(t, 0) = <<>> /\ FlattenSeq(First(t, 0)) = <<>>
      BY FirstNone, FlattenEmpty
    <2>2. z \o <<>> = z /\ FlattenSeq(z) \o <<>> = FlattenSeq(z)
      BY <1>1, ConcatEmptySeq
    <2> QED BY <2>1, <2>2
  <1>3. ASSUME NEW n \in Nat, n \in T PROVE n + 1 \in T
    <2> SUFFICES ASSUME n + 1 <= Len(t)
                 PROVE  FlattenSeq(z \o First(t, n + 1)) = FlattenSeq(z) \o FlattenSeq(First(t, n + 1))
      OBVIOUS
    <2>1. n < Len(t)
      BY <1>1
    <2>2. First(t, n + 1) = Append(First(t, n), t[n + 1]) /\ First(t, n) \in Seq(Seq(K)) /\ t[n + 1] \in Seq(K)
      BY <2>1, FirstNext
    <2>3. FlattenSeq(z \o First(t, n)) = FlattenSeq(z) \o FlattenSeq(First(t, n))
      BY <1>3, <2>1
    <2> QED BY <2>2, <2>3, ConcatStep
  <1> HIDE DEF T
  <1>4. Len(t) \in T
    BY <1>1, <1>2, <1>3, Induction
  <1>5. FlattenSeq(z \o First(t, Len(t))) = FlattenSeq(z) \o FlattenSeq(First(t, Len(t)))
    BY <1>1, <1>4 DEF T
  <1>6. First(t, Len(t)) = t
    BY FirstAll
  <1> QED BY <1>5, <1>6

\* Empty sequences, flattened.
LEMMA FlattenNone ==
  ASSUME NEW c, NEW n \in Nat, c = [i \in 1 .. n |-> <<>>]
  PROVE  FlattenSeq(c) = <<>>
  <1>1. \A i \in 1 .. n : <<>> \in Seq({})
    BY EmptySeq
  <1>2. c \in Seq(Seq({})) /\ Len(c) = n
    BY <1>1, IsASeq
  <1>3. FlattenSeq(c) \in Seq({})
    BY <1>2, FlattenType
  <1>4. FlattenSeq(c) = <<>>
    <2> DEFINE f == FlattenSeq(c)
    <2> HIDE DEF f
    <2>1. f \in Seq({}) /\ Len(f) \in Nat /\ \A i \in 1 .. Len(f) : f[i] \in {}
      BY <1>3, LenProperties, ElementOfSeq DEF f
    <2>2. Len(f) = 0
      BY <2>1
    <2> QED BY <2>1, <2>2, EmptySeq DEF f
  <1> QED BY <1>4

\* Sequences of one element, flattened.
LEMMA FlattenSingles ==
  ASSUME NEW K, NEW s \in Seq(K), NEW c, c = [i \in 1 .. Len(s) |-> <<s[i]>>]
  PROVE  FlattenSeq(c) = s
  <1>1. Len(s) \in Nat /\ \A i \in 1 .. Len(s) : s[i] \in K
    BY LenProperties, ElementOfSeq
  <1>2. c \in Seq(Seq(K)) /\ Len(c) = Len(s) /\ \A i \in 1 .. Len(s) : c[i] = <<s[i]>>
    <2>1. \A i \in 1 .. Len(s) : <<s[i]>> \in Seq(K)
      BY <1>1
    <2> QED BY <1>1, <2>1, IsASeq
  <1> DEFINE T == {n \in Nat : n <= Len(s) => FlattenSeq(First(c, n)) = First(s, n)}
  <1>3. 0 \in T
    BY FirstNone, FlattenEmpty
  <1>4. ASSUME NEW n \in Nat, n \in T PROVE n + 1 \in T
    <2> SUFFICES ASSUME n + 1 <= Len(s) PROVE FlattenSeq(First(c, n + 1)) = First(s, n + 1)
      OBVIOUS
    <2>1. n < Len(s) /\ n < Len(c) /\ n + 1 \in 1 .. Len(s)
      BY <1>1, <1>2
    <2>2. FlattenSeq(First(c, n + 1)) = FlattenSeq(First(c, n)) \o <<s[n + 1]>>
      BY <1>2, <2>1, FlattenFirst
    <2>3. First(s, n + 1) = Append(First(s, n), s[n + 1]) /\ First(s, n) \in Seq(K) /\ s[n + 1] \in K
      BY <2>1, FirstNext
    <2>4. FlattenSeq(First(c, n)) = First(s, n)
      BY <1>4, <2>1
    <2>5. Append(First(s, n), s[n + 1]) = First(s, n) \o <<s[n + 1]>>
      BY <2>3, AppendIsConcat
    <2> QED BY <2>2, <2>3, <2>4, <2>5
  <1> HIDE DEF T
  <1>5. Len(s) \in T
    BY <1>1, <1>3, <1>4, Induction
  <1>6. FlattenSeq(First(c, Len(c))) = First(s, Len(s))
    BY <1>1, <1>2, <1>5 DEF T
  <1>7. First(c, Len(c)) = c /\ First(s, Len(s)) = s
    BY <1>2, FirstAll
  <1> QED BY <1>6, <1>7

-----------------------------------------------------------------------------
(* The boot tests.                                                         *)

\* What the i-th byte of a text becomes in Normalised.
Cell(s, i) == IF s[i] = LF THEN <<CR, LF>>
              ELSE IF s[i] = CR /\ i < Len(s) /\ s[i + 1] = LF THEN <<>> ELSE <<s[i]>>
Cells(s, n) == [i \in 1 .. n |-> Cell(s, i)]

\* A text that ends in a carriage return, and what is printed of a text: all but that.
Withheld(s) == Len(s) # 0 /\ s[Len(s)] = CR
Printed(s) == FlattenSeq(Cells(s, IF Withheld(s) THEN Len(s) - 1 ELSE Len(s)))

\* Cells are texts.
LEMMA CellsType ==
  ASSUME NEW s \in Seq(Text), NEW n \in Nat, n <= Len(s)
  PROVE  Cells(s, n) \in Seq(Seq(Text)) /\ FlattenSeq(Cells(s, n)) \in Seq(Text)
  <1>1. CR \in Text /\ LF \in Text
    BY BootAssumption
  <1>2. \A i \in 1 .. n : s[i] \in Text
    BY LenProperties, ElementOfSeq
  <1>3. \A i \in 1 .. n : Cell(s, i) \in Seq(Text)
    BY <1>1, <1>2 DEF Cell
  <1>4. Cells(s, n) \in Seq(Seq(Text))
    BY <1>3, IsASeq DEF Cells
  <1> QED BY <1>4, FlattenType

\* One cell more.
LEMMA CellsNext ==
  ASSUME NEW s \in Seq(Text), NEW n \in Nat, n < Len(s)
  PROVE  /\ Cell(s, n + 1) \in Seq(Text)
         /\ FlattenSeq(Cells(s, n + 1)) = FlattenSeq(Cells(s, n)) \o Cell(s, n + 1)
  <1>1. Len(s) \in Nat
    BY LenProperties
  <1>2. Cells(s, n) \in Seq(Seq(Text)) /\ Cells(s, n + 1) \in Seq(Seq(Text))
    BY <1>1, CellsType
  <1>3. Cell(s, n + 1) \in Seq(Text)
    <2>1. Cells(s, n + 1)[n + 1] = Cell(s, n + 1) /\ Len(Cells(s, n + 1)) = n + 1
      BY DEF Cells
    <2> QED BY <1>2, <2>1, ElementOfSeq
  <1> DEFINE c == Cells(s, n + 1)
  <1>4. Len(c) = n + 1 /\ c[n + 1] = Cell(s, n + 1) /\ Cells(s, n) = [i \in 1 .. n |-> c[i]]
    BY DEF Cells
  <1>5. c \in Seq(Seq(Text)) /\ c # <<>>
    BY <1>2, <1>4, EmptySeq
  <1> HIDE DEF c
  <1>6. Len(c) - 1 = n
    BY <1>4
  <1>7. FlattenSeq(c) = FlattenSeq([i \in 1 .. Len(c) - 1 |-> c[i]]) \o c[(Len(c) - 1) + 1]
    BY <1>5, FlattenLast, Zenon
  <1> QED BY <1>3, <1>4, <1>6, <1>7 DEF c

\* A byte more leaves the cells before the last alone.
LEMMA CellsKept ==
  ASSUME NEW s \in Seq(Text), NEW b \in Text, NEW n \in Nat, n < Len(s) \/ (n = Len(s) /\ ~Withheld(s))
  PROVE  Cells(Append(s, b), n) = Cells(s, n)
  <1>1. /\ Len(s) \in Nat /\ Len(Append(s, b)) = Len(s) + 1
        /\ \A i \in 1 .. Len(s) : Append(s, b)[i] = s[i]
    BY AppendProperties, LenProperties
  <1>2. \A i \in 1 .. n : Cell(Append(s, b), i) = Cell(s, i)
    <2> SUFFICES ASSUME NEW i \in 1 .. n PROVE Cell(Append(s, b), i) = Cell(s, i)
      OBVIOUS
    <2>1. Append(s, b)[i] = s[i] /\ i < Len(Append(s, b))
      BY <1>1
    <2>2. CASE i < Len(s)
      <3>1. Append(s, b)[i + 1] = s[i + 1]
        BY <1>1, <2>2
      <3> QED BY <2>1, <2>2, <3>1 DEF Cell
    <2>3. CASE i = Len(s)
      <3>1. s[i] # CR
        BY <2>3, <1>1 DEF Withheld
      <3> QED BY <2>1, <3>1 DEF Cell
    <2> QED BY <1>1, <2>2, <2>3
  <1> QED BY <1>2 DEF Cells

\* The console prints the text with its line ends normalised, but for a carriage return at its end.
LEMMA PrintedIs ==
  ASSUME NEW s \in Seq(Text)
  PROVE  /\ Printed(s) \in Seq(Text)
         /\ Printed(s) \o (IF Withheld(s) THEN <<CR>> ELSE <<>>) = Normalised(s)
  <1>1. Len(s) \in Nat /\ DOMAIN s = 1 .. Len(s)
    BY LenProperties
  <1>2. Normalised(s) = FlattenSeq(Cells(s, Len(s)))
    BY <1>1 DEF Normalised, Cells, Cell
  <1>3. CASE ~Withheld(s)
    <2>1. Printed(s) = FlattenSeq(Cells(s, Len(s))) /\ FlattenSeq(Cells(s, Len(s))) \in Seq(Text)
      BY <1>1, <1>3, CellsType DEF Printed
    <2> QED BY <1>2, <1>3, <2>1, ConcatEmptySeq
  <1>4. CASE Withheld(s)
    <2>1. Len(s) - 1 \in Nat /\ Len(s) - 1 < Len(s) /\ (Len(s) - 1) + 1 = Len(s)
      BY <1>1, <1>4 DEF Withheld
    <2>2. Printed(s) = FlattenSeq(Cells(s, Len(s) - 1)) /\ FlattenSeq(Cells(s, Len(s) - 1)) \in Seq(Text)
      BY <1>4, <2>1, CellsType DEF Printed
    <2>3. Cell(s, Len(s)) = <<CR>>
      BY <1>1, <1>4, BootAssumption DEF Withheld, Cell
    <2>4. FlattenSeq(Cells(s, Len(s))) = FlattenSeq(Cells(s, Len(s) - 1)) \o Cell(s, Len(s))
      BY <2>1, CellsNext
    <2> QED BY <1>2, <1>4, <2>2, <2>3, <2>4
  <1> QED BY <1>3, <1>4

\* _format_byte prints a byte more.
LEMMA FormatIs ==
  ASSUME NEW s \in Seq(Text), NEW b \in Text
  PROVE  LET f == FormatByte(Withheld(s), b)
         IN f.pending = Withheld(Append(s, b)) /\ Printed(s) \o f.out = Printed(Append(s, b))
  <1> DEFINE t == Append(s, b)  n == Len(s)  f == FormatByte(Withheld(s), b)
             plain == IF b = CR THEN <<>> ELSE IF b = LF THEN <<CR, LF>> ELSE <<b>>
  <1>1. /\ t \in Seq(Text) /\ n \in Nat /\ Len(t) = n + 1 /\ t[n + 1] = b
        /\ \A i \in 1 .. n : t[i] = s[i]
    BY AppendProperties, LenProperties DEF t, n
  <1> HIDE DEF t, n, f, plain
  <1> SUFFICES f.pending = Withheld(t) /\ Printed(s) \o f.out = Printed(t)
    BY DEF t, f
  <1>2. Withheld(t) = (b = CR)
    BY <1>1 DEF Withheld
  <1>3. CR # LF /\ CR \in Text /\ LF \in Text
    BY BootAssumption
  <1>4. Cell(t, n + 1) = IF b = LF THEN <<CR, LF>> ELSE <<b>>
    BY <1>1 DEF Cell
  <1>5. /\ Cells(t, n) \in Seq(Seq(Text)) /\ FlattenSeq(Cells(t, n)) \in Seq(Text)
        /\ FlattenSeq(Cells(t, n + 1)) = FlattenSeq(Cells(t, n)) \o Cell(t, n + 1)
    <2>1. n + 1 \in Nat /\ n <= Len(t) /\ n < Len(t)
      BY <1>1
    <2> QED BY <1>1, <2>1, CellsType, CellsNext
  <1>6. Printed(t) = FlattenSeq(Cells(t, n)) \o plain
    <2>1. CASE b = CR
      <3>1. Printed(t) = FlattenSeq(Cells(t, n))
        <4>1. Withheld(t) /\ Len(t) - 1 = n
          BY <1>1, <2>1 DEF Withheld
        <4> QED BY <4>1 DEF Printed
      <3> QED BY <1>5, <2>1, <3>1, ConcatEmptySeq DEF plain
    <2>2. CASE b # CR
      <3>1. Printed(t) = FlattenSeq(Cells(t, n + 1))
        BY <1>1, <1>2, <2>2 DEF Printed
      <3> QED BY <1>4, <1>5, <2>2, <3>1 DEF plain
    <2> QED BY <2>1, <2>2
  <1>7. CASE ~Withheld(s)
    <2>1. Cells(t, n) = Cells(s, n) /\ Printed(s) = FlattenSeq(Cells(s, n))
      BY <1>1, <1>7, CellsKept DEF Printed, t, n
    <2>2. f = [pending |-> b = CR, out |-> plain]
      BY <1>7 DEF FormatByte, f, plain
    <2>3. f.pending = (b = CR) /\ f.out = plain
      BY <2>2
    <2> QED BY <1>2, <1>6, <2>1, <2>3
  <1>8. CASE Withheld(s)
    <2>1. n - 1 \in Nat /\ n - 1 < n /\ (n - 1) + 1 = n /\ s[n] = CR
      BY <1>1, <1>8 DEF Withheld, n
    <2>2. Cells(t, n - 1) = Cells(s, n - 1) /\ Printed(s) = FlattenSeq(Cells(s, n - 1)) /\ Printed(s) \in Seq(Text)
      BY <1>8, <2>1, CellsKept, PrintedIs DEF Printed, t, n
    <2>3. FlattenSeq(Cells(t, n)) = Printed(s) \o Cell(t, n)
      <3>1. n - 1 < Len(t)
        BY <1>1, <2>1
      <3>2. FlattenSeq(Cells(t, (n - 1) + 1)) = FlattenSeq(Cells(t, n - 1)) \o Cell(t, (n - 1) + 1)
        BY <1>1, <2>1, <3>1, CellsNext
      <3> QED BY <2>1, <2>2, <3>2
    <2>4. Cell(t, n) = IF b = LF THEN <<>> ELSE <<CR>>
      BY <1>1, <1>3, <2>1 DEF Cell
    <2>5. plain \in Seq(Text) /\ Cell(t, n) \in Seq(Text)
      BY <1>3, <2>4 DEF plain
    <2>6. Printed(t) = Printed(s) \o (Cell(t, n) \o plain)
      <3>1. (Printed(s) \o Cell(t, n)) \o plain = Printed(s) \o (Cell(t, n) \o plain)
        <4>1. \A x, y, z \in Seq(Text) : (x \o y) \o z = x \o (y \o z)
          BY ConcatAssociative
        <4> QED BY <2>2, <2>5, <4>1, Zenon
      <3> QED BY <1>6, <2>3, <3>1
    <2>7. CASE b = LF
      <3>1. f = [pending |-> FALSE, out |-> <<CR, LF>>]
        BY <1>8, <2>7 DEF FormatByte, f
      <3>2. Cell(t, n) \o plain = <<CR, LF>>
        <4>1. Cell(t, n) = <<>> /\ plain = <<CR, LF>>
          BY <1>3, <2>4, <2>7 DEF plain
        <4> QED BY <4>1, <2>5, ConcatEmptySeq
      <3>3. f.pending = FALSE /\ f.out = <<CR, LF>>
        BY <3>1
      <3> QED BY <1>2, <1>3, <2>6, <2>7, <3>2, <3>3
    <2>8. CASE b # LF
      <3>1. f = [pending |-> b = CR, out |-> <<CR>> \o plain]
        BY <1>8, <2>8 DEF FormatByte, f, plain
      <3>2. f.pending = (b = CR) /\ f.out = <<CR>> \o plain
        BY <3>1
      <3> QED BY <1>2, <2>4, <2>6, <2>8, <3>2
    <2> QED BY <2>7, <2>8
  <1> QED BY <1>7, <1>8

\* Every variable of the boot tests holds a value of its type.
BootTypeOK ==
  /\ kind \in {"boot_opensbi", "boot_linux"} /\ tx_state \in 0 .. 3 /\ tx_data \in Text /\ pc \in {0, 1}
  /\ sent \in Seq(Text) /\ cycle \in 0 .. BootTimeout /\ (verdict = "running" => cycle < BootTimeout)

\* UartConsole has seen every edge.
Captured ==
  /\ received = sent /\ prev_tx_state = tx_state
  /\ pending_cr = Withheld(sent) /\ shown = Printed(sent)

\* The loop's times measure the silence of the line and of the PC.
Measured ==
  /\ \/ last_uart_cycle = <<>> /\ sent = <<>> /\ quiet = Forever
     \/ sent # <<>> /\ \E n \in Nat : n < cycle /\ last_uart_cycle = <<n>> /\ quiet = cycle - 1 - n
  /\ kind = "boot_linux" =>
       \/ cycle = 0 /\ last_pc = <<>> /\ last_pc_change_cycle = 0 /\ still = 0
       \/ /\ last_pc = <<pc>> /\ last_pc_change_cycle \in Nat /\ last_pc_change_cycle < cycle
          /\ still = cycle - 1 - last_pc_change_cycle

\* The inductive invariant.
BootInv == BootTypeOK /\ Captured /\ Measured /\ VerdictTrue

\* The inductive invariant gives the property.
LEMMA BootMeans == BootInv => BootReported
  <1> SUFFICES ASSUME BootInv PROVE ConsoleComplete
    BY DEF BootInv, BootReported
  <1>1. sent \in Seq(Text) /\ received = sent /\ pending_cr = Withheld(sent) /\ shown = Printed(sent)
    BY DEF BootInv, BootTypeOK, Captured
  <1>2. Printed(sent) \o (IF Withheld(sent) THEN <<CR>> ELSE <<>>) = Normalised(sent)
    BY <1>1, PrintedIs
  <1> QED BY <1>1, <1>2, Zenon DEF ConsoleComplete

\* It holds initially.
LEMMA BootInitHolds == BootInit => BootInv
  <1> SUFFICES ASSUME BootInit PROVE BootInv
    OBVIOUS
  <1> USE DEF BootInit
  <1>1. sent = <<>> /\ <<>> \in Seq(Text) /\ Len(<<>>) = 0
    BY EmptySeq
  <1>2. BootTypeOK
    BY <1>1, BootAssumption DEF BootTypeOK
  <1>3. Captured
    <2>1. ~Withheld(<<>>)
      BY DEF Withheld
    <2>2. Cells(<<>>, 0) = <<>>
      BY DEF Cells
    <2>3. Printed(<<>>) = <<>>
      BY <1>1, <2>1, <2>2, FlattenEmpty DEF Printed
    <2>4. pending_cr = Withheld(sent)
      <3>1. Withheld(<<>>) = FALSE
        BY DEF Withheld
      <3> QED BY <1>1, <3>1, Zenon
    <2> QED BY <1>1, <2>3, <2>4, Zenon DEF Captured
  <1>4. Measured
    BY DEF Measured, Forever
  <1>5. VerdictTrue
    <2>1. ToSet(sent) = {}
      BY <1>1 DEF ToSet
    <2>2. quiet = Forever /\ cycle # BootTimeout
      BY BootAssumption
    <2>3. ~((IF kind = "boot_opensbi" THEN {Banner} ELSE {Banner, Uname}) \subseteq ToSet(sent))
      BY <2>1
    <2> HIDE DEF BootInit
    <2>4. verdict = "running"
      BY DEF BootInit
    <2>5. ~(quiet < Forever)
      BY <2>2, BootAssumption DEF Forever
    <2> DEFINE booted == (IF kind = "boot_opensbi" THEN {Banner} ELSE {Banner, Uname}) \subseteq ToSet(sent)
               silent == quiet >= UartIdle /\ quiet < Forever
    <2>6. ~booted /\ ~silent
      BY <2>3, <2>5
    <2> HIDE DEF booted, silent
    <2>7. VerdictTrue <=> ~(silent /\ (kind = "boot_opensbi" \/ still >= UartIdle)) /\ ~(cycle = BootTimeout)
                           /\ (kind = "boot_opensbi" \/ ~booted)
      BY <2>4 DEF VerdictTrue, booted, silent
    <2> QED BY <2>2, <2>6, <2>7
  <1> QED BY <1>2, <1>3, <1>4, <1>5 DEF BootInv

\* What a cycle does to the line and to the console.
LEMMA Polled ==
  ASSUME BootInv, MachineRuns, Poll
  PROVE  /\ tx_state' \in 0 .. 3 /\ tx_data' \in Text /\ pc' \in {0, 1} /\ sent' \in Seq(Text) /\ Captured'
         /\ Entered => sent' # <<>> /\ quiet' = 0
         /\ ~Entered => sent' = sent /\ quiet' = IF quiet = Forever THEN Forever ELSE quiet + 1
  <1> USE DEF BootInv, BootTypeOK, Captured
  <1>1. tx_state' \in 0 .. 3
    BY DEF MachineRuns, TxAfter
  <1>2. Entered <=> (tx_state' = 1 /\ tx_state # 1)
    BY DEF Entered
  <1>3. prev_tx_state' = tx_state'
    BY DEF Poll
  <1>4. CASE Entered
    <2>1. tx_data' \in Text /\ sent' = Append(sent, tx_data') /\ quiet' = 0 /\ pc' \in {0, 1}
      BY <1>2, <1>4 DEF MachineRuns
    <2>2. sent' \in Seq(Text) /\ sent' # <<>>
      BY <2>1, AppendProperties
    <2> DEFINE f == FormatByte(Withheld(sent), tx_data')
    <2>3. received' = Append(received, tx_data') /\ pending_cr' = f.pending /\ shown' = shown \o f.out
      BY <1>4, Zenon DEF Poll
    <2>4. f.pending = Withheld(Append(sent, tx_data')) /\ Printed(sent) \o f.out = Printed(Append(sent, tx_data'))
      BY <2>1, FormatIs
    <2> HIDE DEF f
    <2>5. received' = sent' /\ pending_cr' = Withheld(sent') /\ shown' = Printed(sent')
      BY <2>1, <2>3, <2>4, Zenon
    <2> QED BY <1>1, <1>3, <1>4, <2>1, <2>2, <2>5
  <1>5. CASE ~Entered
    <2>1. UNCHANGED <<tx_data, sent>> /\ pc' \in {0, 1} /\ quiet' = IF quiet = Forever THEN Forever ELSE quiet + 1
      BY <1>2, <1>5 DEF MachineRuns
    <2>2. UNCHANGED <<received, pending_cr, shown>>
      BY <1>5 DEF Poll
    <2>3. received' = sent' /\ pending_cr' = Withheld(sent') /\ shown' = Printed(sent')
      BY <2>1, <2>2, Zenon
    <2> QED BY <1>1, <1>3, <1>5, <2>1, <2>3
  <1> QED BY <1>4, <1>5

\* The loop's local last_uart_cycle keeps measuring the silence.
LEMMA Timed ==
  ASSUME BootInv, MachineRuns, Poll, cycle < BootTimeout, cycle' = cycle + 1,
         last_uart_cycle' = IF Entered THEN <<cycle>> ELSE last_uart_cycle
  PROVE  /\ \/ last_uart_cycle' = <<>> /\ sent' = <<>> /\ quiet' = Forever
            \/ sent' # <<>> /\ \E n \in Nat : n < cycle' /\ last_uart_cycle' = <<n>> /\ quiet' = cycle' - 1 - n
         /\ Since(cycle, last_uart_cycle') <=> quiet' >= UartIdle /\ quiet' < Forever
         /\ last_uart_cycle' = <<>> <=> sent' = <<>>
  <1>1. cycle \in Nat /\ BootTimeout \in Nat /\ UartIdle \in Nat
    BY BootAssumption DEF BootInv, BootTypeOK
  <1>2. \/ last_uart_cycle' = <<>> /\ sent' = <<>> /\ quiet' = Forever
        \/ sent' # <<>> /\ \E n \in Nat : n < cycle' /\ last_uart_cycle' = <<n>> /\ quiet' = cycle' - 1 - n
    <2>1. CASE Entered
      <3>1. sent' # <<>> /\ quiet' = 0 /\ last_uart_cycle' = <<cycle>>
        BY <2>1, Polled
      <3> QED BY <1>1, <3>1
    <2>2. CASE ~Entered
      <3>1. sent' = sent /\ last_uart_cycle' = last_uart_cycle
        BY <2>2, Polled
      <3>2. quiet' = IF quiet = Forever THEN Forever ELSE quiet + 1
        BY <2>2, Polled
      <3>3. CASE last_uart_cycle = <<>> /\ sent = <<>> /\ quiet = Forever
        BY <3>1, <3>2, <3>3
      <3>4. CASE sent # <<>> /\ \E n \in Nat : n < cycle /\ last_uart_cycle = <<n>> /\ quiet = cycle - 1 - n
        <4>1. PICK n \in Nat : n < cycle /\ last_uart_cycle = <<n>> /\ quiet = cycle - 1 - n
          BY <3>4
        <4>2. quiet # Forever
          BY <1>1, <4>1 DEF Forever
        <4> QED BY <1>1, <3>1, <3>2, <3>4, <4>1, <4>2
      <3> QED BY <3>3, <3>4 DEF BootInv, Measured
    <2> QED BY <2>1, <2>2
  <1>3. CASE last_uart_cycle' = <<>> /\ sent' = <<>> /\ quiet' = Forever
    BY <1>1, <1>3 DEF Since, Forever
  <1>4. CASE sent' # <<>> /\ \E n \in Nat : n < cycle' /\ last_uart_cycle' = <<n>> /\ quiet' = cycle' - 1 - n
    <2>1. PICK n \in Nat : n < cycle' /\ last_uart_cycle' = <<n>> /\ quiet' = cycle' - 1 - n
      BY <1>4
    <2>2. last_uart_cycle' # <<>> /\ last_uart_cycle'[1] = n
      BY <2>1
    <2>3. Since(cycle, last_uart_cycle') <=> cycle - n >= UartIdle
      BY <2>2 DEF Since
    <2>4. quiet' = cycle - n /\ quiet' < Forever
      BY <1>1, <2>1 DEF Forever
    <2> QED BY <1>2, <1>4, <2>2, <2>3, <2>4
  <1> QED BY <1>2, <1>3, <1>4

\* A cycle of boot_opensbi.
LEMMA OpensbiStep == BootInv /\ OpensbiCycle => BootInv'
  <1> SUFFICES ASSUME BootInv, OpensbiCycle PROVE BootInv'
    OBVIOUS
  <1>1. /\ MachineRuns /\ Poll /\ kind' = "boot_opensbi" /\ kind = "boot_opensbi" /\ cycle' = cycle + 1 /\ verdict = "running"
        /\ last_uart_cycle' = IF Entered THEN <<cycle>> ELSE last_uart_cycle
        /\ verdict' = IF Since(cycle, last_uart_cycle')
                      THEN IF Banner \in ToSet(received') THEN "pass" ELSE "no_banner"
                      ELSE IF cycle' = BootTimeout THEN Deadline ELSE "running"
    BY DEF OpensbiCycle
  <1>2. cycle \in Nat /\ cycle < BootTimeout /\ BootTimeout \in Nat /\ UartIdle \in Nat
    BY <1>1, BootAssumption DEF BootInv, BootTypeOK
  <1>3. /\ \/ last_uart_cycle' = <<>> /\ sent' = <<>> /\ quiet' = Forever
           \/ sent' # <<>> /\ \E n \in Nat : n < cycle' /\ last_uart_cycle' = <<n>> /\ quiet' = cycle' - 1 - n
        /\ Since(cycle, last_uart_cycle') <=> quiet' >= UartIdle /\ quiet' < Forever
        /\ last_uart_cycle' = <<>> <=> sent' = <<>>
    BY <1>1, <1>2, Timed
  <1>4. tx_state' \in 0 .. 3 /\ tx_data' \in Text /\ pc' \in {0, 1} /\ sent' \in Seq(Text) /\ Captured'
    BY <1>1, Polled
  <1>5. received' = sent'
    BY <1>4 DEF Captured
  <1>6. Deadline = IF last_uart_cycle' = <<>> THEN "no_output" ELSE "still_emitting"
    BY <1>1 DEF Deadline
  <1>7. Measured'
    BY <1>1, <1>3 DEF Measured, Forever
  <1>8. BootTypeOK'
    <2>1. verdict' = "running" => cycle' # BootTimeout
      BY <1>1, <1>6
    <2> QED BY <1>1, <1>2, <1>4, <2>1 DEF BootTypeOK
  <1>9. VerdictTrue'
    <2> DEFINE silent == quiet' >= UartIdle /\ quiet' < Forever
               booted == {Banner} \subseteq ToSet(sent')
               late == cycle' = BootTimeout
    <2> SUFFICES CASE verdict' = "running" -> ~silent /\ ~late
                   [] verdict' = "pass" -> booted /\ silent
                   [] verdict' = "bad_divisor" -> FALSE
                   [] verdict' = "no_banner" -> ~booted /\ silent
                   [] verdict' = "idle" -> FALSE
                   [] verdict' = "no_output" -> late /\ sent' = <<>>
                   [] verdict' = "timed_out" -> late /\ sent' # <<>> /\ ~booted /\ ~silent
                   [] verdict' = "still_emitting" -> late /\ sent' # <<>> /\ quiet' < UartIdle
      BY <1>1 DEF VerdictTrue, Forever
    <2>1. Since(cycle, last_uart_cycle') <=> silent
      BY <1>3
    <2>2. Banner \in ToSet(received') <=> booted
      BY <1>5
    <2>3. sent' # <<>> => quiet' < Forever /\ quiet' \in Int
      BY <1>1, <1>2, <1>3 DEF Forever
    <2> HIDE DEF booted
    <2>4. \/ silent /\ booted /\ verdict' = "pass"
          \/ silent /\ ~booted /\ verdict' = "no_banner"
          \/ ~silent /\ late /\ verdict' = Deadline
          \/ ~silent /\ ~late /\ verdict' = "running"
      BY <1>1, <2>1, <2>2
    <2>5. ~silent /\ sent' # <<>> => quiet' < UartIdle
      BY <1>2, <2>3
    <2> QED BY <1>3, <1>6, <2>4, <2>5
  <1> QED BY <1>4, <1>7, <1>8, <1>9 DEF BootInv

\* A cycle of boot_linux.
LEMMA LinuxStep == BootInv /\ LinuxCycle => BootInv'
  <1> SUFFICES ASSUME BootInv, LinuxCycle PROVE BootInv'
    OBVIOUS
  <1> DEFINE booted == {Banner, Uname} \subseteq ToSet(received')
             idle == Since(cycle, last_uart_cycle') /\ Since(cycle, <<last_pc_change_cycle'>>)
             fits == (16 * baud_div') * Speed = Clock
  <1>1. /\ MachineRuns /\ Poll /\ kind' = "boot_linux" /\ kind = "boot_linux" /\ cycle' = cycle + 1 /\ verdict = "running"
        /\ last_pc' = <<pc'>> /\ last_pc_change_cycle' = IF last_pc = <<pc'>> THEN last_pc_change_cycle ELSE cycle
        /\ last_uart_cycle' = IF Entered THEN <<cycle>> ELSE last_uart_cycle
        /\ verdict' = IF booted THEN IF fits THEN "pass" ELSE "bad_divisor"
                      ELSE IF idle THEN "idle"
                      ELSE IF cycle' >= BootTimeout THEN Deadline ELSE "running"
    BY DEF LinuxCycle, DivisorFits
  <1> HIDE DEF fits
  <1>2. cycle \in Nat /\ cycle < BootTimeout /\ BootTimeout \in Nat /\ UartIdle \in Nat
    BY <1>1, BootAssumption DEF BootInv, BootTypeOK
  <1>3. /\ \/ last_uart_cycle' = <<>> /\ sent' = <<>> /\ quiet' = Forever
           \/ sent' # <<>> /\ \E n \in Nat : n < cycle' /\ last_uart_cycle' = <<n>> /\ quiet' = cycle' - 1 - n
        /\ Since(cycle, last_uart_cycle') <=> quiet' >= UartIdle /\ quiet' < Forever
        /\ last_uart_cycle' = <<>> <=> sent' = <<>>
    BY <1>1, <1>2, Timed
  <1>4. tx_state' \in 0 .. 3 /\ tx_data' \in Text /\ pc' \in {0, 1} /\ sent' \in Seq(Text) /\ Captured'
    BY <1>1, Polled
  <1>5. received' = sent'
    BY <1>4 DEF Captured
  <1>6. Deadline = IF last_uart_cycle' = <<>> THEN "no_output" ELSE "timed_out"
    BY <1>1 DEF Deadline
  <1>7. /\ last_pc_change_cycle' \in Nat /\ last_pc_change_cycle' < cycle'
        /\ still' = cycle' - 1 - last_pc_change_cycle'
    <2>1. still' = IF pc' # pc \/ cycle = 0 THEN 0 ELSE still + 1
      BY <1>1 DEF MachineRuns
    <2>2. CASE cycle = 0 /\ last_pc = <<>> /\ last_pc_change_cycle = 0 /\ still = 0
      <3>1. last_pc # <<pc'>>
        BY <2>2
      <3> QED BY <1>1, <2>1, <2>2, <3>1
    <2>3. CASE /\ last_pc = <<pc>> /\ last_pc_change_cycle \in Nat /\ last_pc_change_cycle < cycle
               /\ still = cycle - 1 - last_pc_change_cycle
      <3>1. (last_pc = <<pc'>>) <=> (pc' = pc)
        BY <2>3
      <3>2. cycle # 0
        BY <1>2, <2>3
      <3> QED BY <1>1, <1>2, <2>1, <2>3, <3>1, <3>2
    <2> QED BY <1>1, <2>2, <2>3 DEF BootInv, Measured
  <1>8. Measured'
    BY <1>1, <1>3, <1>7 DEF Measured, Forever
  <1> DEFINE silent == quiet' >= UartIdle /\ quiet' < Forever
             late == cycle' = BootTimeout
  <1>9. idle <=> silent /\ still' >= UartIdle
    <2>1. Since(cycle, <<last_pc_change_cycle'>>) <=> cycle - last_pc_change_cycle' >= UartIdle
      BY DEF Since
    <2>2. still' = cycle - last_pc_change_cycle'
      BY <1>1, <1>2, <1>7
    <2> QED BY <1>3, <2>1, <2>2
  <1>10. booted = ({Banner, Uname} \subseteq ToSet(sent'))
    BY <1>5
  <1>11. cycle' >= BootTimeout <=> late
    BY <1>1, <1>2
  <1>12. verdict' = "running" => ~booted /\ ~idle /\ ~late
    <2>1. CASE booted
      BY <1>1, <2>1
    <2>2. CASE ~booted
      BY <1>1, <1>6, <1>11, <2>2
    <2> QED BY <2>1, <2>2
  <1>13. BootTypeOK'
    BY <1>1, <1>2, <1>4, <1>12 DEF BootTypeOK
  <1>14. VerdictTrue'
    <2> HIDE DEF booted, idle
    <2>1. \/ booted /\ fits /\ verdict' = "pass"
          \/ booted /\ ~fits /\ verdict' = "bad_divisor"
          \/ ~booted /\ idle /\ verdict' = "idle"
          \/ ~booted /\ ~idle /\ late /\ verdict' = Deadline
          \/ ~booted /\ ~idle /\ ~late /\ verdict' = "running"
      BY <1>1, <1>11
    <2> SUFFICES CASE verdict' = "running" -> ~idle /\ ~late /\ ~booted
                   [] verdict' = "pass" -> booted /\ fits
                   [] verdict' = "bad_divisor" -> booted /\ ~fits
                   [] verdict' = "no_banner" -> FALSE
                   [] verdict' = "idle" -> ~booted /\ idle
                   [] verdict' = "no_output" -> late /\ sent' = <<>>
                   [] verdict' = "timed_out" -> late /\ sent' # <<>> /\ ~booted /\ ~idle
                   [] verdict' = "still_emitting" -> late /\ sent' # <<>> /\ quiet' < UartIdle
      BY <1>1, <1>9, <1>10 DEF VerdictTrue, Forever, fits
    <2> QED BY <1>3, <1>6, <2>1
  <1> QED BY <1>4, <1>8, <1>13, <1>14 DEF BootInv

\* The report of a boot test, its transcript and its verdict, is what happened, for any deadline, idle time,
\* divisors and texts: boot_opensbi passes on its banner and the silence after it, boot_linux on both its texts
\* and a divisor that gives the device tree's speed, each in the first cycle it can.
THEOREM BootVerdictTrue == BootSpec => []BootReported
  <1>1. BootInit => BootInv
    BY BootInitHolds
  <1>2. BootInv /\ [BootNext]_tvars => BootInv'
    <2>1. BootInv /\ UNCHANGED tvars => BootInv'
      <3> SUFFICES ASSUME BootInv, UNCHANGED tvars PROVE BootInv'
        OBVIOUS
      <3> USE DEF tvars, console
      <3>1. BootTypeOK'
        BY DEF BootInv, BootTypeOK
      <3>2. Captured'
        BY Zenon DEF BootInv, Captured
      <3>3. Measured'
        BY DEF BootInv, Measured
      <3>4. VerdictTrue'
        BY DEF BootInv, VerdictTrue
      <3> QED BY <3>1, <3>2, <3>3, <3>4 DEF BootInv
    <2> QED BY <2>1, OpensbiStep, LinuxStep DEF BootNext
  <1>3. BootInv => BootReported
    BY BootMeans
  <1> QED BY <1>1, <1>2, <1>3, PTL DEF BootSpec

-----------------------------------------------------------------------------
(* The trace comparison.                                                   *)

\* The commits there are, what a commit writes, by part, and whether its value may differ.
AnyCommit == Commits \cup {Rom}
Part(part, c) == IF part = "m" THEN StoreBytes(c) ELSE RegWrites(c)
Lenient(part, c) == part = "x" /\ c.csr
Kinds == {"m", "x"}
ItemsOf(c) == {StoreBytes(c)[k] : k \in DOMAIN StoreBytes(c)} \cup {RegWrites(c)[k] : k \in DOMAIN RegWrites(c)}
Item == UNION {ItemsOf(c) : c \in AnyCommit}

\* The bytes and the register a commit writes.
LEMMA BytesOf ==
  ASSUME NEW c \in AnyCommit
  PROVE  /\ StoreBytes(c) \in Seq(Item)
         /\ c.mem = <<>> => Len(StoreBytes(c)) = 0
         /\ c.mem # <<>> => /\ c.mem[1] \in Nat /\ c.mem[2] \in Nat /\ c.mem[2] # 0 /\ Len(StoreBytes(c)) = c.mem[2]
                            /\ \A k \in 1 .. c.mem[2] : StoreBytes(c)[k].where = c.mem[1] + k - 1
         /\ \A k \in 1 .. Len(StoreBytes(c)) : \E v : StoreBytes(c)[k] = [pc |-> c.pc, where |-> c.mem[1] + k - 1, value |-> v]
  <1>1. c.mem \in {<<>>} \cup (Nat \X (Nat \ {0}) \X Nat)
    BY TraceAssumption DEF AnyCommit
  <1>2. CASE c.mem = <<>>
    <2>1. StoreBytes(c) = <<>>
      BY <1>2 DEF StoreBytes
    <2> QED BY <1>2, <2>1
  <1>3. CASE c.mem # <<>>
    <2>1. c.mem[1] \in Nat /\ c.mem[2] \in Nat /\ c.mem[2] # 0
      BY <1>1, <1>3
    <2>2. StoreBytes(c) = [i \in 1..c.mem[2] |-> [pc |-> c.pc, where |-> c.mem[1] + i - 1, value |-> ByteOf(c.mem[3], i)]]
      BY <1>3 DEF StoreBytes
    <2>3. DOMAIN StoreBytes(c) = 1 .. c.mem[2] /\ \A i \in 1 .. c.mem[2] : StoreBytes(c)[i] \in Item
      <3>1. DOMAIN StoreBytes(c) = 1 .. c.mem[2]
        BY <2>2
      <3>2. \A i \in DOMAIN StoreBytes(c) : StoreBytes(c)[i] \in Item
        <4>1. ItemsOf(c) \subseteq Item
          BY DEF Item
        <4>2. \A i \in DOMAIN StoreBytes(c) : StoreBytes(c)[i] \in ItemsOf(c)
          BY Zenon DEF ItemsOf
        <4> QED BY <4>1, <4>2
      <3> QED BY <3>1, <3>2
    <2>4. StoreBytes(c) \in Seq(Item) /\ Len(StoreBytes(c)) = c.mem[2]
      <3> DEFINE s == StoreBytes(c)
      <3>1. s = [i \in 1 .. c.mem[2] |-> s[i]]
        BY <2>2
      <3>2. [i \in 1 .. c.mem[2] |-> s[i]] \in Seq(Item)
        BY <2>1, <2>3, IsASeq
      <3>3. s \in Seq(Item)
        BY <3>1, <3>2
      <3>4. Len(s) = c.mem[2]
        BY <2>1, <2>3, <3>3, LenProperties
      <3> QED BY <3>3, <3>4
    <2>5. \A k \in 1 .. c.mem[2] : StoreBytes(c)[k] = [pc |-> c.pc, where |-> c.mem[1] + k - 1, value |-> ByteOf(c.mem[3], k)]
      BY <2>2
    <2>6. ASSUME NEW k \in 1 .. c.mem[2] PROVE StoreBytes(c)[k].where = c.mem[1] + k - 1
      <3> DEFINE a == c.mem[1] + k - 1  v == ByteOf(c.mem[3], k)  e == StoreBytes(c)[k]
      <3>1. e = [pc |-> c.pc, where |-> a, value |-> v]
        BY <2>5
      <3> HIDE DEF a, v, e
      <3>2. e.where = a
        BY <3>1
      <3> QED BY <3>2 DEF a, e
    <2>7. \A k \in 1 .. c.mem[2] : \E v : StoreBytes(c)[k] = [pc |-> c.pc, where |-> c.mem[1] + k - 1, value |-> v]
      BY <2>5, Zenon
    <2> QED BY <1>3, <2>1, <2>4, <2>6, <2>7
  <1> QED BY <1>2, <1>3

\* The register a commit writes.
LEMMA RegisterOf ==
  ASSUME NEW c \in AnyCommit
  PROVE  /\ RegWrites(c) \in Seq(Item)
         /\ Len(RegWrites(c)) = IF c.reg = <<>> THEN 0 ELSE 1
         /\ \A k \in 1 .. Len(RegWrites(c)) : k = 1 /\ RegWrites(c)[k] = [pc |-> c.pc, where |-> c.reg[1], value |-> c.reg[2]]
  <1>1. CASE c.reg = <<>>
    BY <1>1 DEF RegWrites
  <1>2. CASE c.reg # <<>>
    <2> DEFINE e == [pc |-> c.pc, where |-> c.reg[1], value |-> c.reg[2]]
    <2>1. RegWrites(c) = <<e>>
      BY <1>2 DEF RegWrites
    <2>2. e \in Item
      <3> HIDE DEF e
      <3>1. 1 \in DOMAIN RegWrites(c) /\ RegWrites(c)[1] = e
        BY <2>1
      <3>2. ItemsOf(c) \subseteq Item
        BY DEF Item
      <3>3. RegWrites(c)[1] \in ItemsOf(c)
        BY <3>1, Zenon DEF ItemsOf
      <3>4. RegWrites(c)[1] \in Item
        BY <3>2, <3>3
      <3> QED BY <3>1, <3>4
    <2> HIDE DEF e
    <2>3. RegWrites(c) \in Seq(Item) /\ Len(RegWrites(c)) = 1 /\ RegWrites(c)[1] = e
      BY <2>1, <2>2
    <2> QED BY <1>2, <2>3 DEF e
  <1> QED BY <1>1, <1>2

\* Both are sequences of items.
LEMMA PartType ==
  ASSUME NEW c \in AnyCommit, NEW part \in Kinds
  PROVE  Part(part, c) \in Seq(Item) /\ Len(Part(part, c)) \in Nat /\ DOMAIN Part(part, c) = 1 .. Len(Part(part, c))
  <1>1. Part(part, c) \in Seq(Item)
    BY BytesOf, RegisterOf DEF Part
  <1> QED BY <1>1, LenProperties

\* The commit that writes tohost: its first byte does.
LEMMA TohostFirst ==
  ASSUME NEW c \in AnyCommit
  PROVE  /\ WritesTohost(c) <=> Reported(c)
         /\ Reported(c) => 1 \in 1 .. Len(StoreBytes(c)) /\ StoreBytes(c)[1].where = Tohost
         /\ ~Reported(c) => \A k \in 1 .. Len(StoreBytes(c)) : StoreBytes(c)[k].where # Tohost
  <1> DEFINE s == StoreBytes(c)
  <1>1. s \in Seq(Item) /\ Len(s) \in Nat /\ DOMAIN s = 1 .. Len(s)
    BY BytesOf, LenProperties
  <1>2. WritesTohost(c) <=> \E k \in 1 .. Len(s) : s[k].where = Tohost
    BY <1>1 DEF WritesTohost, ToSet
  <1>3. CASE c.mem = <<>>
    BY <1>1, <1>2, <1>3, BytesOf DEF Reported
  <1>4. CASE c.mem # <<>>
    <2>1. /\ c.mem[1] \in Nat /\ c.mem[2] \in Nat /\ c.mem[2] # 0 /\ Len(s) = c.mem[2]
          /\ \A k \in 1 .. c.mem[2] : s[k].where = c.mem[1] + k - 1
      BY <1>4, BytesOf
    <2>2. Tohost \in Nat /\ (Reported(c) => c.mem[1] = Tohost)
      BY <1>4, TraceAssumption DEF AnyCommit, Reported
    <2> HIDE DEF s
    <2>3. Reported(c) <=> Tohost \in c.mem[1]..(c.mem[1] + c.mem[2] - 1)
      BY <1>4 DEF Reported
    <2>4. Reported(c) => 1 \in 1 .. Len(s) /\ s[1].where = Tohost
      BY <2>1, <2>2
    <2>5. ASSUME NEW k \in 1 .. Len(s), s[k].where = Tohost PROVE Reported(c)
      BY <2>1, <2>2, <2>3, <2>5
    <2> QED BY <1>2, <2>4, <2>5 DEF s
  <1> QED BY <1>3, <1>4

\* A line of the RTL's trace; no line of s writes tohost; the cells EntriesOf joins.
Line == Kinds \X Item
Quiet(s) == \A j \in 1 .. Len(s) : ~IsTohost(s[j])
LineCells(s, part) ==
  [k \in 1 .. Len(s) |-> IF s[k][1] = part /\ \A j \in 1..k : ~IsTohost(s[j]) THEN <<s[k][2]>> ELSE <<>>]

\* A sequence that is one sequence and then another.
LEMMA IsConcat ==
  ASSUME NEW K, NEW a, NEW b, NEW c, a \in Seq(K), b \in Seq(K), c \in Seq(K), Len(c) = Len(a) + Len(b),
         \A k \in 1 .. Len(a) : c[k] = a[k], \A k \in 1 .. Len(b) : c[Len(a) + k] = b[k]
  PROVE  c = a \o b
  <1> DEFINE y == a \o b
  <1>1. /\ y \in Seq(K) /\ Len(y) = Len(a) + Len(b) /\ Len(a) \in Nat /\ Len(b) \in Nat
        /\ \A k \in 1 .. Len(a) + Len(b) : y[k] = IF k <= Len(a) THEN a[k] ELSE b[k - Len(a)]
    BY ConcatProperties, LenProperties
  <1> HIDE DEF y
  <1>2. ASSUME NEW k \in 1 .. Len(a) + Len(b) PROVE y[k] = c[k]
    <2>1. CASE k <= Len(a)
      BY <1>1, <2>1
    <2>2. CASE ~(k <= Len(a))
      <3>1. k - Len(a) \in 1 .. Len(b) /\ Len(a) + (k - Len(a)) = k
        BY <1>1, <2>2
      <3> QED BY <1>1, <2>2, <3>1
    <2> QED BY <2>1, <2>2
  <1>3. y = c
    BY <1>1, <1>2, SeqEqual
  <1> QED BY <1>3 DEF y

\* What parse_rtl_trace joins: one cell a line.
LEMMA LineCellsFacts ==
  ASSUME NEW s \in Seq(Line), NEW part
  PROVE  /\ LineCells(s, part) \in Seq(Seq(Item)) /\ Len(LineCells(s, part)) = Len(s) /\ Len(s) \in Nat
         /\ EntriesOf(s, part) = FlattenSeq(LineCells(s, part)) /\ EntriesOf(s, part) \in Seq(Item)
  <1>1. Len(s) \in Nat /\ DOMAIN s = 1 .. Len(s) /\ \A k \in 1 .. Len(s) : s[k] \in Line
    BY LenProperties, ElementOfSeq
  <1> DEFINE e(k) == IF s[k][1] = part /\ \A j \in 1..k : ~IsTohost(s[j]) THEN <<s[k][2]>> ELSE <<>>
  <1>2. \A k \in 1 .. Len(s) : e(k) \in Seq(Item)
    <2> SUFFICES ASSUME NEW k \in 1 .. Len(s) PROVE e(k) \in Seq(Item)
      OBVIOUS
    <2>1. s[k][2] \in Item
      BY <1>1 DEF Line
    <2>2. <<s[k][2]>> \in Seq(Item) /\ <<>> \in Seq(Item)
      BY <2>1
    <2> QED BY <2>2
  <1>3. LineCells(s, part) = [k \in 1 .. Len(s) |-> e(k)]
    BY DEF LineCells
  <1> HIDE DEF e
  <1>4. LineCells(s, part) \in Seq(Seq(Item)) /\ Len(LineCells(s, part)) = Len(s)
    BY <1>1, <1>2, <1>3, IsASeq
  <1>5. EntriesOf(s, part) = FlattenSeq(LineCells(s, part))
    BY <1>1 DEF EntriesOf, LineCells
  <1> QED BY <1>1, <1>4, <1>5, FlattenType

\* parse_rtl_trace reads the second of two stretches of lines only if the first did not stop it.
LEMMA EntriesConcat ==
  ASSUME NEW s \in Seq(Line), NEW t \in Seq(Line), NEW part
  PROVE  /\ EntriesOf(s \o t, part) = EntriesOf(s, part) \o (IF Quiet(s) THEN EntriesOf(t, part) ELSE <<>>)
         /\ Quiet(s \o t) <=> Quiet(s) /\ Quiet(t)
         /\ s \o t \in Seq(Line)
  <1> DEFINE z == s \o t  m == Len(s)  n == Len(t)
             b == [k \in 1 .. n |-> LineCells(z, part)[m + k]]
  <1>1. /\ z \in Seq(Line) /\ m \in Nat /\ n \in Nat /\ Len(z) = m + n
        /\ \A k \in 1 .. m : z[k] = s[k]
        /\ \A k \in 1 .. n : z[m + k] = t[k]
    <2>1. z \in Seq(Line) /\ Len(z) = m + n /\ m \in Nat /\ n \in Nat
      BY ConcatProperties, LenProperties
    <2>2. \A k \in 1 .. m + n : z[k] = IF k <= m THEN s[k] ELSE t[k - m]
      BY ConcatProperties
    <2> HIDE DEF z, m, n
    <2>3. \A k \in 1 .. m : z[k] = s[k]
      BY <2>1, <2>2
    <2>4. ASSUME NEW k \in 1 .. n PROVE z[m + k] = t[k]
      <3>1. m + k \in 1 .. m + n /\ ~(m + k <= m) /\ (m + k) - m = k
        BY <2>1
      <3> QED BY <2>2, <3>1
    <2> QED BY <2>1, <2>3, <2>4
  <1>2. Quiet(z) <=> Quiet(s) /\ Quiet(t)
    <2> HIDE DEF z
    <2>1. ASSUME Quiet(z) PROVE Quiet(s) /\ Quiet(t)
      <3>1. \A k \in 1 .. m : k \in 1 .. m + n
        BY <1>1
      <3>2. \A k \in 1 .. n : m + k \in 1 .. m + n
        BY <1>1
      <3> HIDE DEF m, n
      <3> QED BY <1>1, <2>1, <3>1, <3>2 DEF Quiet, m, n
    <2>2. ASSUME Quiet(s), Quiet(t) PROVE Quiet(z)
      <3> SUFFICES ASSUME NEW j \in 1 .. m + n PROVE ~IsTohost(z[j])
        BY <1>1 DEF Quiet
      <3>1. CASE j <= m
        <4>1. j \in 1 .. m
          BY <1>1, <3>1
        <4> QED BY <1>1, <2>2, <4>1 DEF Quiet
      <3>2. CASE ~(j <= m)
        <4>1. j - m \in 1 .. n /\ m + (j - m) = j
          BY <1>1, <3>2
        <4> QED BY <1>1, <2>2, <4>1 DEF Quiet
      <3> QED BY <3>1, <3>2
    <2> QED BY <2>1, <2>2
  <1> DEFINE a == LineCells(s, part)  c == LineCells(z, part)
  <1>3. /\ a \in Seq(Seq(Item)) /\ Len(a) = m /\ c \in Seq(Seq(Item)) /\ Len(c) = m + n
        /\ EntriesOf(s, part) = FlattenSeq(a) /\ EntriesOf(z, part) = FlattenSeq(c)
    BY <1>1, LineCellsFacts
  <1>4. \A k \in 1 .. m : c[k] = a[k]
    <2> SUFFICES ASSUME NEW k \in 1 .. m PROVE c[k] = a[k]
      OBVIOUS
    <2>1. k \in 1 .. m + n /\ \A j \in 1 .. k : z[j] = s[j]
      BY <1>1
    <2> HIDE DEF z
    <2>2. c[k] = IF z[k][1] = part /\ \A j \in 1..k : ~IsTohost(z[j]) THEN <<z[k][2]>> ELSE <<>>
      BY <1>1, <2>1 DEF LineCells
    <2>3. a[k] = IF s[k][1] = part /\ \A j \in 1..k : ~IsTohost(s[j]) THEN <<s[k][2]>> ELSE <<>>
      BY DEF LineCells
    <2>4. z[k] = s[k]
      BY <1>1
    <2>5. (\A j \in 1..k : ~IsTohost(z[j])) <=> (\A j \in 1..k : ~IsTohost(s[j]))
      BY <2>1
    <2> QED BY <2>2, <2>3, <2>4, <2>5
  <1>5. b \in Seq(Seq(Item)) /\ Len(b) = n
    <2>1. \A k \in 1 .. n : m + k \in 1 .. Len(c)
      BY <1>1, <1>3
    <2> HIDE DEF c
    <2>2. \A k \in 1 .. n : c[m + k] \in Seq(Item)
      BY <1>3, <2>1, ElementOfSeq
    <2>3. b = [k \in 1 .. n |-> c[m + k]]
      BY DEF c
    <2> HIDE DEF b
    <2> QED BY <1>1, <2>2, <2>3, IsASeq
  <1>6. c = a \o b
    <2>1. \A k \in 1 .. n : c[m + k] = b[k]
      OBVIOUS
    <2> HIDE DEF a, b, c, z
    <2>2. a \in Seq(Seq(Item)) /\ b \in Seq(Seq(Item)) /\ c \in Seq(Seq(Item))
      BY <1>3, <1>5
    <2>3. Len(a) = m /\ Len(b) = n /\ Len(c) = m + n
      BY <1>3, <1>5
    <2> HIDE DEF m, n
    <2>4. Len(c) = Len(a) + Len(b) /\ \A k \in 1 .. Len(a) : c[k] = a[k]
      BY <1>4, <2>3
    <2>5. \A k \in 1 .. Len(b) : c[Len(a) + k] = b[k]
      BY <2>1, <2>3
    <2> QED BY <2>2, <2>4, <2>5, IsConcat
  <1>7. FlattenSeq(c) = FlattenSeq(a) \o FlattenSeq(b)
    <2> HIDE DEF a, b, c
    <2> QED BY <1>3, <1>5, <1>6, FlattenConcat
  <1>8. CASE Quiet(s)
    <2> DEFINE d == LineCells(t, part)
    <2>1. b = d
      <3>1. d \in Seq(Seq(Item)) /\ Len(d) = n
        BY LineCellsFacts
      <3>2. ASSUME NEW k \in 1 .. n PROVE b[k] = d[k]
        <4> HIDE DEF z
        <4>1. d[k] = IF t[k][1] = part /\ \A j \in 1..k : ~IsTohost(t[j]) THEN <<t[k][2]>> ELSE <<>>
          BY DEF LineCells
        <4>2. m + k \in 1 .. Len(z) /\ z[m + k] = t[k]
          BY <1>1
        <4>3. b[k] = IF z[m + k][1] = part /\ \A j \in 1..m + k : ~IsTohost(z[j]) THEN <<z[m + k][2]>> ELSE <<>>
          BY <4>2 DEF LineCells
        <4>4. (\A j \in 1..m + k : ~IsTohost(z[j])) <=> \A j \in 1..k : ~IsTohost(t[j])
          <5>1. ASSUME \A j \in 1..m + k : ~IsTohost(z[j]), NEW j \in 1 .. k PROVE ~IsTohost(t[j])
            <6>1. m + j \in 1 .. m + k /\ j \in 1 .. n
              BY <1>1
            <6> QED BY <1>1, <5>1, <6>1
          <5>2. ASSUME \A j \in 1..k : ~IsTohost(t[j]), NEW j \in 1 .. m + k PROVE ~IsTohost(z[j])
            <6>1. CASE j <= m
              <7>1. j \in 1 .. m
                BY <1>1, <6>1
              <7> QED BY <1>1, <1>8, <7>1 DEF Quiet
            <6>2. CASE ~(j <= m)
              <7>1. j - m \in 1 .. k /\ j - m \in 1 .. n /\ m + (j - m) = j
                BY <1>1, <6>2
              <7> QED BY <1>1, <5>2, <7>1
            <6> QED BY <6>1, <6>2
          <5> QED BY <5>1, <5>2
        <4> HIDE DEF b, d
        <4> QED BY <4>1, <4>2, <4>3, <4>4
      <3> HIDE DEF b, d
      <3> QED BY <1>5, <3>1, <3>2, SeqEqual
    <2>2. EntriesOf(t, part) = FlattenSeq(d)
      BY LineCellsFacts
    <2> QED BY <1>1, <1>2, <1>3, <1>7, <1>8, <2>1, <2>2
  <1>9. CASE ~Quiet(s)
    <2>1. b = [k \in 1 .. n |-> <<>>]
      <3> SUFFICES ASSUME NEW k \in 1 .. n PROVE c[m + k] = <<>>
        OBVIOUS
      <3>1. PICK j \in 1 .. m : IsTohost(s[j])
        BY <1>9 DEF Quiet
      <3>2. j \in 1 .. m + k /\ IsTohost(z[j]) /\ m + k \in 1 .. Len(z)
        BY <1>1, <3>1
      <3> HIDE DEF z
      <3> QED BY <3>2 DEF LineCells
    <2>2. FlattenSeq(b) = <<>>
      <3> HIDE DEF b
      <3> QED BY <1>1, <2>1, FlattenNone
    <2>3. FlattenSeq(a) \o <<>> = FlattenSeq(a)
      <3> HIDE DEF a
      <3>1. FlattenSeq(a) \in Seq(Item)
        BY <1>3, FlattenType
      <3> QED BY <3>1, ConcatEmptySeq
    <2> QED BY <1>1, <1>2, <1>3, <1>7, <1>9, <2>2, <2>3
  <1> QED BY <1>8, <1>9

\* Lines of one part.
Tagged(tag, s) == [k \in DOMAIN s |-> <<tag, s[k]>>]

\* As many, each behind its tag.
LEMMA TaggedFacts ==
  ASSUME NEW tag \in Kinds, NEW s \in Seq(Item)
  PROVE  /\ Tagged(tag, s) \in Seq(Line) /\ Len(Tagged(tag, s)) = Len(s) /\ Len(s) \in Nat
         /\ \A k \in 1 .. Len(s) : Tagged(tag, s)[k] = <<tag, s[k]>>
  <1>1. Len(s) \in Nat /\ DOMAIN s = 1 .. Len(s) /\ \A k \in 1 .. Len(s) : s[k] \in Item
    BY LenProperties, ElementOfSeq
  <1>2. \A k \in 1 .. Len(s) : <<tag, s[k]>> \in Line
    BY <1>1 DEF Line
  <1>3. Tagged(tag, s) = [k \in 1 .. Len(s) |-> <<tag, s[k]>>]
    BY <1>1 DEF Tagged
  <1> QED BY <1>1, <1>2, <1>3, IsASeq

\* parse_rtl_trace reads all of them or, of the other part or behind tohost, none.
LEMMA EntriesTagged ==
  ASSUME NEW tag \in Kinds, NEW s \in Seq(Item), NEW part \in Kinds
  PROVE  /\ part = tag /\ Quiet(Tagged(tag, s)) => EntriesOf(Tagged(tag, s), part) = s
         /\ part # tag => EntriesOf(Tagged(tag, s), part) = <<>>
         /\ Len(s) # 0 /\ IsTohost(Tagged(tag, s)[1]) => EntriesOf(Tagged(tag, s), part) = <<>>
  <1> DEFINE t == Tagged(tag, s)  c == LineCells(t, part)
  <1>1. /\ t \in Seq(Line) /\ Len(t) = Len(s) /\ Len(s) \in Nat /\ \A k \in 1 .. Len(s) : t[k] = <<tag, s[k]>>
    BY TaggedFacts
  <1>2. EntriesOf(t, part) = FlattenSeq(c)
    BY <1>1, LineCellsFacts
  <1> HIDE DEF t
  <1>3. c = [k \in 1 .. Len(s) |-> IF t[k][1] = part /\ \A j \in 1..k : ~IsTohost(t[j]) THEN <<t[k][2]>> ELSE <<>>]
    BY <1>1 DEF LineCells
  <1> HIDE DEF c
  <1>4. \A k \in 1 .. Len(s) : t[k][1] = tag /\ t[k][2] = s[k]
    BY <1>1
  <1>5. ASSUME part = tag, Quiet(t) PROVE FlattenSeq(c) = s
    <2>1. \A k \in 1 .. Len(s) : t[k][1] = part /\ \A j \in 1..k : ~IsTohost(t[j])
      <3> SUFFICES ASSUME NEW k \in 1 .. Len(s), NEW j \in 1 .. k PROVE ~IsTohost(t[j])
        BY <1>4, <1>5
      <3>1. j \in 1 .. Len(t)
        BY <1>1
      <3> QED BY <1>5, <3>1 DEF Quiet
    <2>2. c = [k \in 1 .. Len(s) |-> <<s[k]>>]
      BY <1>3, <1>4, <2>1
    <2> QED BY <2>2, FlattenSingles
  <1>6. ASSUME \A k \in 1 .. Len(s) : c[k] = <<>> PROVE FlattenSeq(c) = <<>>
    <2>1. c = [k \in 1 .. Len(s) |-> <<>>]
      BY <1>3, <1>6
    <2> QED BY <1>1, <2>1, FlattenNone
  <1>7. ASSUME part # tag PROVE FlattenSeq(c) = <<>>
    BY <1>3, <1>4, <1>6, <1>7
  <1>8. ASSUME Len(s) # 0, IsTohost(t[1]) PROVE FlattenSeq(c) = <<>>
    <2>1. \A k \in 1 .. Len(s) : 1 \in 1 .. k
      BY <1>1
    <2> QED BY <1>3, <1>6, <1>8, <2>1
  <1> QED BY <1>2, <1>5, <1>7, <1>8 DEF t

\* What parse_rtl_trace reads of one instruction's lines.
LEMMA EntriesOfCommit ==
  ASSUME NEW c \in AnyCommit, NEW part \in Kinds
  PROVE  /\ LinesOf(c) \in Seq(Line)
         /\ Quiet(LinesOf(c)) <=> ~Reported(c)
         /\ EntriesOf(LinesOf(c), part) = IF Reported(c) THEN <<>> ELSE Part(part, c)
  <1> DEFINE m == StoreBytes(c)  x == RegWrites(c)  p == Tagged("m", m)  q == Tagged("x", x)
  <1>1. m \in Seq(Item) /\ x \in Seq(Item) /\ "m" \in Kinds /\ "x" \in Kinds
    BY BytesOf, RegisterOf DEF Kinds
  <1>2. /\ (Reported(c) => 1 \in 1 .. Len(m) /\ m[1].where = Tohost)
        /\ ~Reported(c) => \A k \in 1 .. Len(m) : m[k].where # Tohost
    BY TohostFirst
  <1>3. LinesOf(c) = p \o q
    BY DEF LinesOf, Tagged
  <1>4. Part(part, c) = IF part = "m" THEN m ELSE x
    BY DEF Part
  <1> HIDE DEF m, x
  <1>5. /\ p \in Seq(Line) /\ Len(p) = Len(m) /\ Len(m) \in Nat /\ \A k \in 1 .. Len(m) : p[k] = <<"m", m[k]>>
        /\ q \in Seq(Line) /\ Len(q) = Len(x) /\ Len(x) \in Nat /\ \A k \in 1 .. Len(x) : q[k] = <<"x", x[k]>>
    BY <1>1, TaggedFacts
  <1>6. /\ (part = "m" /\ Quiet(p) => EntriesOf(p, part) = m) /\ (part # "m" => EntriesOf(p, part) = <<>>)
        /\ (Len(m) # 0 /\ IsTohost(p[1]) => EntriesOf(p, part) = <<>>)
        /\ (part = "x" /\ Quiet(q) => EntriesOf(q, part) = x) /\ (part # "x" => EntriesOf(q, part) = <<>>)
    BY <1>1, EntriesTagged
  <1> HIDE DEF p, q
  <1>7. /\ EntriesOf(p \o q, part) = EntriesOf(p, part) \o (IF Quiet(p) THEN EntriesOf(q, part) ELSE <<>>)
        /\ Quiet(p \o q) <=> Quiet(p) /\ Quiet(q)
        /\ p \o q \in Seq(Line)
    BY <1>5, EntriesConcat
  <1>8. Quiet(q)
    <2> SUFFICES ASSUME NEW k \in 1 .. Len(x) PROVE ~IsTohost(q[k])
      BY <1>5 DEF Quiet
    <2> QED BY <1>5 DEF IsTohost
  <1>9. CASE Reported(c)
    <2>1. Len(m) # 0 /\ IsTohost(p[1]) /\ 1 \in 1 .. Len(p)
      BY <1>2, <1>5, <1>9 DEF IsTohost
    <2>2. ~Quiet(p)
      BY <2>1 DEF Quiet
    <2> QED BY <1>3, <1>6, <1>7, <1>9, <2>1, <2>2, ConcatEmptySeq, EmptySeq
  <1>10. CASE ~Reported(c)
    <2>1. Quiet(p)
      <3> SUFFICES ASSUME NEW k \in 1 .. Len(m) PROVE ~IsTohost(p[k])
        BY <1>5 DEF Quiet
      <3> QED BY <1>2, <1>5, <1>10 DEF IsTohost
    <2>2. CASE part = "m"
      <3>1. EntriesOf(p \o q, part) = m \o <<>>
        BY <1>6, <1>7, <2>1, <2>2
      <3> QED BY <1>1, <1>3, <1>4, <1>7, <1>8, <1>10, <2>1, <2>2, <3>1, ConcatEmptySeq
    <2>3. CASE part = "x"
      <3>1. EntriesOf(p \o q, part) = <<>> \o x
        BY <1>6, <1>7, <1>8, <2>1, <2>3
      <3> QED BY <1>1, <1>3, <1>4, <1>7, <1>8, <1>10, <2>1, <2>3, <3>1, ConcatEmptySeq
    <2> QED BY <2>2, <2>3 DEF Kinds
  <1> QED BY <1>9, <1>10

\* What a run of a machine wrote, instruction by instruction, until it reported.
CellsOf(part, run) == [i \in 1 .. Len(run) |-> IF BeforeTohost(run, i) THEN Part(part, run[i]) ELSE <<>>]

\* One cell an instruction.
LEMMA CellsOfFacts ==
  ASSUME NEW run \in Seq(AnyCommit), NEW part \in Kinds
  PROVE  /\ CellsOf(part, run) \in Seq(Seq(Item)) /\ Len(CellsOf(part, run)) = Len(run) /\ Len(run) \in Nat
         /\ \A i \in 1 .. Len(run) : /\ run[i] \in AnyCommit
                                     /\ CellsOf(part, run)[i] = IF BeforeTohost(run, i) THEN Part(part, run[i]) ELSE <<>>
  <1> DEFINE e(i) == IF BeforeTohost(run, i) THEN Part(part, run[i]) ELSE <<>>
  <1>1. Len(run) \in Nat /\ \A i \in 1 .. Len(run) : run[i] \in AnyCommit
    BY LenProperties, ElementOfSeq
  <1>2. \A i \in 1 .. Len(run) : e(i) \in Seq(Item)
    BY <1>1, PartType
  <1>3. CellsOf(part, run) = [i \in 1 .. Len(run) |-> e(i)]
    BY DEF CellsOf
  <1>4. \A i \in 1 .. Len(run) : CellsOf(part, run)[i] = e(i)
    BY <1>3
  <1>5. CellsOf(part, run) \in Seq(Seq(Item)) /\ Len(CellsOf(part, run)) = Len(run)
    <2> HIDE DEF e
    <2> QED BY <1>1, <1>2, <1>3, IsASeq
  <1> QED BY <1>1, <1>4, <1>5

\* The RTL's trace, parsed, is what the run wrote until it reported.
LEMMA RtlParsed ==
  ASSUME NEW run \in Seq(AnyCommit), NEW part \in Kinds
  PROVE  EntriesOf(RtlLines(run), part) = FlattenSeq(CellsOf(part, run))
  <1> DEFINE ls == [i \in 1 .. Len(run) |-> LinesOf(run[i])]  c == CellsOf(part, run)
             f(n) == FlattenSeq(First(ls, n))
             g(n) == FlattenSeq(First(c, n))
             Alike(n) == /\ EntriesOf(f(n), part) = g(n)
                         /\ Quiet(f(n)) <=> BeforeTohost(run, n)
             T == {n \in Nat : n <= Len(run) => Alike(n)}
  <1>1. /\ Len(run) \in Nat /\ c \in Seq(Seq(Item)) /\ Len(c) = Len(run) /\ DOMAIN run = 1 .. Len(run)
        /\ \A i \in 1 .. Len(run) : /\ run[i] \in AnyCommit
                                    /\ c[i] = IF BeforeTohost(run, i) THEN Part(part, run[i]) ELSE <<>>
    BY CellsOfFacts, LenProperties
  <1> HIDE DEF c
  <1>2. ls \in Seq(Seq(Line)) /\ Len(ls) = Len(run) /\ \A i \in 1 .. Len(run) : ls[i] = LinesOf(run[i])
    <2>1. \A i \in 1 .. Len(run) : LinesOf(run[i]) \in Seq(Line)
      BY <1>1, EntriesOfCommit
    <2> QED BY <1>1, <2>1, IsASeq
  <1>3. RtlLines(run) = FlattenSeq(ls)
    BY <1>1 DEF RtlLines
  <1> HIDE DEF ls
  <1>4. \A n \in Nat : n < Len(run) => f(n) \in Seq(Line) /\ ls[n + 1] \in Seq(Line) /\ f(n + 1) = f(n) \o ls[n + 1]
    BY <1>2, FlattenFirst
  <1>5. \A n \in Nat : n < Len(run) => g(n) \in Seq(Item) /\ c[n + 1] \in Seq(Item) /\ g(n + 1) = g(n) \o c[n + 1]
    BY <1>1, FlattenFirst
  <1>6. f(0) = <<>> /\ g(0) = <<>>
    BY FirstNone, FlattenEmpty
  <1>7. f(Len(run)) = FlattenSeq(ls) /\ g(Len(run)) = FlattenSeq(c)
    BY <1>1, <1>2, FirstAll
  <1> HIDE DEF f, g
  <1>8. 0 \in T
    <2>1. EntriesOf(<<>>, part) = <<>>
      BY FlattenEmpty DEF EntriesOf
    <2>2. Quiet(<<>>) /\ BeforeTohost(run, 0)
      BY DEF Quiet, BeforeTohost
    <2>3. Alike(0)
      BY <1>6, <2>1, <2>2
    <2> HIDE DEF Alike
    <2> QED BY <2>3
  <1>9. ASSUME NEW n \in Nat, n \in T PROVE n + 1 \in T
    <2> SUFFICES ASSUME n + 1 <= Len(run)
                 PROVE  Alike(n + 1)
      <3> HIDE DEF Alike
      <3> QED OBVIOUS
    <2> DEFINE x == run[n + 1]
    <2>1. n < Len(run) /\ n + 1 \in 1 .. Len(run) /\ n <= Len(run)
      BY <1>1
    <2>2. EntriesOf(f(n), part) = g(n) /\ (Quiet(f(n)) <=> BeforeTohost(run, n))
      <3>1. Alike(n)
        <4> HIDE DEF Alike
        <4> QED BY <1>9, <2>1
      <3> QED BY <3>1
    <2>3. /\ f(n) \in Seq(Line) /\ ls[n + 1] \in Seq(Line) /\ f(n + 1) = f(n) \o ls[n + 1]
          /\ g(n) \in Seq(Item) /\ g(n + 1) = g(n) \o c[n + 1] /\ ls[n + 1] = LinesOf(x) /\ x \in AnyCommit
          /\ c[n + 1] = IF BeforeTohost(run, n + 1) THEN Part(part, x) ELSE <<>>
      BY <1>1, <1>2, <1>4, <1>5, <2>1
    <2>4. BeforeTohost(run, n + 1) <=> BeforeTohost(run, n) /\ ~Reported(x)
      <3>1. \A j : j \in 1 .. n + 1 <=> j \in 1 .. n \/ j = n + 1
        OBVIOUS
      <3> QED BY <3>1, Zenon DEF BeforeTohost
    <2> HIDE DEF x
    <2>5. Quiet(LinesOf(x)) <=> ~Reported(x)
      BY <2>3, EntriesOfCommit
    <2>6. EntriesOf(LinesOf(x), part) = IF Reported(x) THEN <<>> ELSE Part(part, x)
      BY <2>3, EntriesOfCommit
    <2>7. /\ EntriesOf(f(n + 1), part) = EntriesOf(f(n), part) \o (IF Quiet(f(n)) THEN EntriesOf(LinesOf(x), part) ELSE <<>>)
          /\ Quiet(f(n + 1)) <=> Quiet(f(n)) /\ Quiet(LinesOf(x))
      <3> DEFINE l == LinesOf(x)  p == f(n)
      <3>1. p \in Seq(Line) /\ l \in Seq(Line) /\ f(n + 1) = p \o l
        BY <2>3
      <3> HIDE DEF l, p
      <3>2. /\ EntriesOf(p \o l, part) = EntriesOf(p, part) \o (IF Quiet(p) THEN EntriesOf(l, part) ELSE <<>>)
            /\ Quiet(p \o l) <=> Quiet(p) /\ Quiet(l)
        BY <3>1, EntriesConcat
      <3> QED BY <3>1, <3>2 DEF l, p
    <2>8. (IF Quiet(f(n)) THEN EntriesOf(LinesOf(x), part) ELSE <<>>) = c[n + 1]
      BY <2>2, <2>3, <2>4, <2>6
    <2> QED BY <2>2, <2>3, <2>4, <2>5, <2>7, <2>8
  <1> HIDE DEF T
  <1>10. Len(run) \in T
    BY <1>1, <1>8, <1>9, Induction
  <1>11. EntriesOf(f(Len(run)), part) = g(Len(run))
    <2>1. Alike(Len(run))
      <3> HIDE DEF Alike
      <3> QED BY <1>1, <1>10 DEF T
    <2> QED BY <2>1
  <1> QED BY <1>3, <1>7, <1>11 DEF c

\* An entry of parse_spike_commits, the cells it joins, and its result, by part.
Entry(i, e, d) == [pc |-> e.pc, where |-> e.where, value |-> e.value, may_differ |-> d, commit |-> i]
SpikeItem == {Entry(t[1], t[2], t[3]) : t \in Nat \X Item \X BOOLEAN}
SpikeCells(part, log) ==
  [i \in 1 .. Len(log) |-> IF IsRead(log, i) THEN Entries(i, Part(part, log[i]), Lenient(part, log[i])) ELSE <<>>]
SpikeTrace(part, log) == FlattenSeq(SpikeCells(part, log))

\* The entries of one instruction.
LEMMA EntriesFacts ==
  ASSUME NEW i \in Nat, NEW s \in Seq(Item), NEW d \in BOOLEAN
  PROVE  /\ Entries(i, s, d) \in Seq(SpikeItem) /\ Len(Entries(i, s, d)) = Len(s) /\ Len(s) \in Nat
         /\ \A k \in 1 .. Len(s) : s[k] \in Item /\ Entries(i, s, d)[k] = Entry(i, s[k], d)
  <1>1. Len(s) \in Nat /\ DOMAIN s = 1 .. Len(s) /\ \A k \in 1 .. Len(s) : s[k] \in Item
    BY LenProperties, ElementOfSeq
  <1>2. Entries(i, s, d) = [k \in 1 .. Len(s) |-> Entry(i, s[k], d)]
    BY <1>1 DEF Entries, Entry
  <1>3. \A k \in 1 .. Len(s) : Entry(i, s[k], d) \in SpikeItem
    <2> SUFFICES ASSUME NEW k \in 1 .. Len(s) PROVE Entry(i, s[k], d) \in SpikeItem
      OBVIOUS
    <2> DEFINE t == <<i, s[k], d>>
    <2>1. t \in Nat \X Item \X BOOLEAN /\ Entry(i, s[k], d) = Entry(t[1], t[2], t[3])
      BY <1>1
    <2> HIDE DEF t
    <2> QED BY <2>1 DEF SpikeItem
  <1> DEFINE e(k) == Entry(i, s[k], d)
  <1>4. Entries(i, s, d) = [k \in 1 .. Len(s) |-> e(k)] /\ \A k \in 1 .. Len(s) : e(k) \in SpikeItem
    BY <1>2, <1>3
  <1>5. Entries(i, s, d) \in Seq(SpikeItem) /\ Len(Entries(i, s, d)) = Len(s) /\ \A k \in 1 .. Len(s) : Entries(i, s, d)[k] = e(k)
    <2> HIDE DEF e
    <2> QED BY <1>1, <1>4, IsASeq
  <1> QED BY <1>1, <1>5

\* One cell a commit.
LEMMA SpikeCellsFacts ==
  ASSUME NEW log \in Seq(AnyCommit), NEW part \in Kinds
  PROVE  /\ SpikeCells(part, log) \in Seq(Seq(SpikeItem)) /\ Len(SpikeCells(part, log)) = Len(log) /\ Len(log) \in Nat
         /\ \A i \in 1 .. Len(log) :
              /\ log[i] \in AnyCommit /\ Part(part, log[i]) \in Seq(Item) /\ Lenient(part, log[i]) \in BOOLEAN
              /\ SpikeCells(part, log)[i] = IF IsRead(log, i) THEN Entries(i, Part(part, log[i]), Lenient(part, log[i])) ELSE <<>>
  <1> DEFINE e(i) == IF IsRead(log, i) THEN Entries(i, Part(part, log[i]), Lenient(part, log[i])) ELSE <<>>
  <1>1. Len(log) \in Nat /\ \A i \in 1 .. Len(log) : log[i] \in AnyCommit
    BY LenProperties, ElementOfSeq
  <1>2. \A i \in 1 .. Len(log) : Part(part, log[i]) \in Seq(Item) /\ Lenient(part, log[i]) \in BOOLEAN
    BY <1>1, PartType DEF Lenient
  <1>3. \A i \in 1 .. Len(log) : e(i) \in Seq(SpikeItem)
    <2> SUFFICES ASSUME NEW i \in 1 .. Len(log) PROVE e(i) \in Seq(SpikeItem)
      OBVIOUS
    <2>1. i \in Nat
      OBVIOUS
    <2>2. Entries(i, Part(part, log[i]), Lenient(part, log[i])) \in Seq(SpikeItem)
      BY <1>2, <2>1, EntriesFacts
    <2> QED BY <2>2
  <1>4. SpikeCells(part, log) = [i \in 1 .. Len(log) |-> e(i)]
    BY DEF SpikeCells
  <1>5. \A i \in 1 .. Len(log) : SpikeCells(part, log)[i] = e(i)
    BY <1>4
  <1>6. SpikeCells(part, log) \in Seq(Seq(SpikeItem)) /\ Len(SpikeCells(part, log)) = Len(log)
    <2> HIDE DEF e
    <2> QED BY <1>1, <1>3, <1>4, IsASeq
  <1> QED BY <1>1, <1>2, <1>5, <1>6

\* Spike's two traces, by part.
LEMMA SpikeParsed ==
  ASSUME NEW log \in Seq(AnyCommit)
  PROVE  ParseSpikeCommits(log).registers = SpikeTrace("x", log) /\ ParseSpikeCommits(log).memory = SpikeTrace("m", log)
  <1>1. DOMAIN log = 1 .. Len(log) /\ \A i \in 1 .. Len(log) : log[i] \in AnyCommit
    BY LenProperties, ElementOfSeq
  <1> DEFINE x == [i \in DOMAIN log |-> Entries(i, RegWrites(log[i]), log[i].csr)]
             m == [i \in DOMAIN log |-> Entries(i, StoreBytes(log[i]), FALSE)]
  <1>2. ParseSpikeCommits(log).registers = Joined(log, x) /\ ParseSpikeCommits(log).memory = Joined(log, m)
    BY DEF ParseSpikeCommits
  <1>3. Joined(log, x) = SpikeTrace("x", log)
    <2>1. \A i \in 1 .. Len(log) : x[i] = Entries(i, Part("x", log[i]), Lenient("x", log[i]))
      <3> SUFFICES ASSUME NEW i \in 1 .. Len(log)
                   PROVE  Entries(i, RegWrites(log[i]), log[i].csr) = Entries(i, Part("x", log[i]), Lenient("x", log[i]))
        BY <1>1
      <3>1. log[i].csr \in BOOLEAN
        BY <1>1, TraceAssumption DEF AnyCommit
      <3>2. Lenient("x", log[i]) = log[i].csr
        BY <3>1, Zenon DEF Lenient
      <3> QED BY <3>2 DEF Part
    <2> HIDE DEF x
    <2>2. [i \in DOMAIN log |-> IF IsRead(log, i) THEN x[i] ELSE <<>>] = SpikeCells("x", log)
      BY <1>1, <2>1 DEF SpikeCells
    <2> QED BY <2>2 DEF Joined, SpikeTrace
  <1>4. Joined(log, m) = SpikeTrace("m", log)
    <2>1. \A i \in 1 .. Len(log) : m[i] = Entries(i, Part("m", log[i]), Lenient("m", log[i]))
      <3> SUFFICES ASSUME NEW i \in 1 .. Len(log)
                   PROVE  Entries(i, StoreBytes(log[i]), FALSE) = Entries(i, Part("m", log[i]), Lenient("m", log[i]))
        BY <1>1
      <3>1. Lenient("m", log[i]) = FALSE
        BY DEF Lenient
      <3> QED BY <3>1 DEF Part
    <2> HIDE DEF m
    <2>2. [i \in DOMAIN log |-> IF IsRead(log, i) THEN m[i] ELSE <<>>] = SpikeCells("m", log)
      BY <1>1, <2>1 DEF SpikeCells
    <2> QED BY <2>2 DEF Joined, SpikeTrace
  <1> QED BY <1>2, <1>3, <1>4

\* A log of Spike: the boot ROM, then a program from the entry point.
SpikeLog(log, program) ==
  /\ program \in Seq(AnyCommit) /\ log = <<Rom>> \o program
  /\ program # <<>> => program[1].pc = EntryPc

\* Its first commit and the others.
LEMMA LogFacts ==
  ASSUME NEW log, NEW program, SpikeLog(log, program)
  PROVE  /\ log \in Seq(AnyCommit) /\ Len(log) = Len(program) + 1 /\ Len(program) \in Nat /\ log[1] = Rom
         /\ \A i \in 1 .. Len(program) : log[i + 1] = program[i] /\ program[i] \in AnyCommit
  <1>1. program \in Seq(AnyCommit) /\ log = <<Rom>> \o program /\ <<Rom>> \in Seq(AnyCommit) /\ Len(<<Rom>>) = 1
    BY DEF SpikeLog, AnyCommit
  <1>2. /\ log \in Seq(AnyCommit) /\ Len(log) = 1 + Len(program) /\ Len(program) \in Nat
        /\ \A k \in 1 .. 1 + Len(program) : log[k] = IF k <= 1 THEN <<Rom>>[k] ELSE program[k - 1]
    BY <1>1, ConcatProperties, LenProperties
  <1>3. ASSUME NEW i \in 1 .. Len(program) PROVE log[i + 1] = program[i]
    <2>1. i + 1 \in 1 .. 1 + Len(program) /\ ~(i + 1 <= 1) /\ (i + 1) - 1 = i
      BY <1>2
    <2> QED BY <1>2, <2>1
  <1>4. log[1] = Rom
    <2>1. 1 \in 1 .. 1 + Len(program)
      BY <1>2
    <2> QED BY <1>2, <2>1
  <1> QED BY <1>1, <1>2, <1>3, <1>4, ElementOfSeq

\* parse_spike_commits reads what the program did before it reported.
LEMMA ReadFacts ==
  ASSUME NEW log, NEW program, SpikeLog(log, program)
  PROVE  /\ ~IsRead(log, 1)
         /\ \A i \in 1 .. Len(program) : IsRead(log, i + 1) <=> BeforeTohost(program, i)
  <1>1. /\ Len(log) = Len(program) + 1 /\ Len(program) \in Nat /\ log[1] = Rom
        /\ \A i \in 1 .. Len(program) : log[i + 1] = program[i] /\ program[i] \in AnyCommit
    BY LogFacts
  <1>2. ~Started(log, 1)
    <2>1. \A j \in 1 .. 1 : log[j].pc # EntryPc
      BY <1>1, TraceAssumption
    <2> QED BY <2>1 DEF Started
  <1>3. \A i \in 1 .. Len(program) : Started(log, i + 1)
    <2> SUFFICES ASSUME NEW i \in 1 .. Len(program) PROVE Started(log, i + 1)
      OBVIOUS
    <2>1. 1 \in 1 .. Len(program) /\ program # <<>> /\ 1 + 1 \in 1 .. i + 1
      BY <1>1, EmptySeq
    <2>2. log[1 + 1] = program[1] /\ program[1].pc = EntryPc
      BY <1>1, <2>1 DEF SpikeLog
    <2> QED BY <2>1, <2>2 DEF Started
  <1>4. \A i \in 1 .. Len(program) : WritesTohost(log[i + 1]) <=> Reported(program[i])
    BY <1>1, TohostFirst
  <1>5. ASSUME NEW i \in 1 .. Len(program) PROVE IsRead(log, i + 1) <=> BeforeTohost(program, i)
    <2>1. ASSUME IsRead(log, i + 1), NEW j \in 1 .. i PROVE ~Reported(program[j])
      <3>1. j + 1 \in 1 .. i + 1 /\ j \in 1 .. Len(program)
        BY <1>1
      <3>2. ~(Started(log, j + 1) /\ WritesTohost(log[j + 1]))
        BY <2>1, <3>1 DEF IsRead
      <3> QED BY <1>3, <1>4, <3>1, <3>2
    <2>2. ASSUME BeforeTohost(program, i), NEW j \in 1 .. i + 1 PROVE ~(Started(log, j) /\ WritesTohost(log[j]))
      <3>1. CASE j = 1
        BY <1>2, <3>1
      <3>2. CASE j # 1
        <4>1. j - 1 \in 1 .. i /\ j - 1 \in 1 .. Len(program) /\ (j - 1) + 1 = j
          BY <1>1, <3>2
        <4>2. ~Reported(program[j - 1])
          BY <2>2, <4>1 DEF BeforeTohost
        <4>3. WritesTohost(log[(j - 1) + 1]) <=> Reported(program[j - 1])
          BY <1>4, <4>1
        <4> QED BY <4>1, <4>2, <4>3
      <3> QED BY <3>1, <3>2
    <2> QED BY <1>3, <2>1, <2>2 DEF IsRead, BeforeTohost
  <1>6. ~IsRead(log, 1)
    BY <1>2 DEF IsRead
  <1> QED BY <1>5, <1>6

\* A list of sequences as long as what each instruction of a run wrote until the run reported; a parsed
\* trace of Spike, and one of the RTL, in step with such a list.
AsLong(D, run, part) ==
  /\ Len(D) = Len(run)
  /\ \A i \in 1 .. Len(run) : Len(D[i]) = IF BeforeTohost(run, i) THEN Len(Part(part, run[i])) ELSE 0
SpikeBeside(s, D, run, part) ==
  /\ s \in Seq(SpikeItem) /\ Len(s) = Len(FlattenSeq(D))
  /\ \A k \in 1 .. Len(s) :
       \E i \in 1 .. Len(run) : \E j \in 1 .. Len(Part(part, run[i])) :
         /\ FlattenSeq(D)[k] = D[i][j] /\ BeforeTohost(run, i) /\ j \in 1 .. Len(D[i])
         /\ s[k] = Entry(i + 1, Part(part, run[i])[j], Lenient(part, run[i]))
RtlBeside(r, D, run, part) ==
  /\ r \in Seq(Item) /\ Len(r) = Len(FlattenSeq(D))
  /\ \A k \in 1 .. Len(r) :
       \E i \in 1 .. Len(run) : \E j \in 1 .. Len(Part(part, run[i])) :
         /\ FlattenSeq(D)[k] = D[i][j] /\ BeforeTohost(run, i) /\ j \in 1 .. Len(D[i])
         /\ r[k] = Part(part, run[i])[j]

\* Spike's parsed trace is.
LEMMA SpikeAligned ==
  ASSUME NEW log, NEW program, SpikeLog(log, program), NEW part \in Kinds,
         NEW L, NEW D \in Seq(Seq(L)), AsLong(D, program, part)
  PROVE  SpikeBeside(SpikeTrace(part, log), D, program, part)
  <1>0. /\ Len(D) = Len(program)
        /\ \A i \in 1 .. Len(program) : Len(D[i]) = IF BeforeTohost(program, i) THEN Len(Part(part, program[i])) ELSE 0
    BY DEF AsLong
  <1> DEFINE c == SpikeCells(part, log)  one == <<<<>>>>  E == one \o D
  <1>1. /\ log \in Seq(AnyCommit) /\ Len(log) = Len(program) + 1 /\ Len(program) \in Nat
        /\ \A i \in 1 .. Len(program) : log[i + 1] = program[i] /\ program[i] \in AnyCommit
    BY LogFacts
  <1>2. /\ ~IsRead(log, 1)
        /\ \A i \in 1 .. Len(program) : IsRead(log, i + 1) <=> BeforeTohost(program, i)
    BY ReadFacts
  <1>3. /\ c \in Seq(Seq(SpikeItem)) /\ Len(c) = Len(log)
        /\ \A i \in 1 .. Len(log) :
              /\ log[i] \in AnyCommit /\ Part(part, log[i]) \in Seq(Item) /\ Lenient(part, log[i]) \in BOOLEAN
              /\ c[i] = IF IsRead(log, i) THEN Entries(i, Part(part, log[i]), Lenient(part, log[i])) ELSE <<>>
    BY <1>1, SpikeCellsFacts
  <1>4. SpikeTrace(part, log) = FlattenSeq(c)
    BY DEF SpikeTrace
  <1> HIDE DEF c
  <1>5. c[1] = <<>>
    <2>1. 1 \in 1 .. Len(log)
      BY <1>1
    <2> QED BY <1>2, <1>3, <2>1
  <1>6. \A i \in 1 .. Len(program) :
          /\ Len(c[i + 1]) = IF BeforeTohost(program, i) THEN Len(Part(part, program[i])) ELSE 0
          /\ Len(Part(part, program[i])) \in Nat
          /\ \A j \in 1 .. Len(Part(part, program[i])) :
               BeforeTohost(program, i) => c[i + 1][j] = Entry(i + 1, Part(part, program[i])[j], Lenient(part, program[i]))
    <2> SUFFICES ASSUME NEW i \in 1 .. Len(program)
                 PROVE  /\ Len(c[i + 1]) = IF BeforeTohost(program, i) THEN Len(Part(part, program[i])) ELSE 0
                        /\ Len(Part(part, program[i])) \in Nat
                        /\ \A j \in 1 .. Len(Part(part, program[i])) :
                             BeforeTohost(program, i) => c[i + 1][j] = Entry(i + 1, Part(part, program[i])[j], Lenient(part, program[i]))
      OBVIOUS
    <2>1. i + 1 \in 1 .. Len(log) /\ i + 1 \in Nat /\ log[i + 1] = program[i]
      BY <1>1
    <2> DEFINE p == Part(part, program[i])  d == Lenient(part, program[i])
    <2>2. p \in Seq(Item) /\ d \in BOOLEAN /\ c[i + 1] = IF BeforeTohost(program, i) THEN Entries(i + 1, p, d) ELSE <<>>
      BY <1>2, <1>3, <2>1
    <2> HIDE DEF p, d
    <2>3. Len(p) \in Nat /\ Len(Entries(i + 1, p, d)) = Len(p) /\ \A j \in 1 .. Len(p) : Entries(i + 1, p, d)[j] = Entry(i + 1, p[j], d)
      BY <2>1, <2>2, EntriesFacts
    <2>4. /\ Len(c[i + 1]) = IF BeforeTohost(program, i) THEN Len(p) ELSE 0
          /\ \A j \in 1 .. Len(p) : BeforeTohost(program, i) => c[i + 1][j] = Entry(i + 1, p[j], d)
      BY <2>2, <2>3
    <2> QED BY <2>3, <2>4 DEF p, d
  <1>7. /\ E \in Seq(Seq(L)) /\ Len(E) = Len(log) /\ E[1] = <<>> /\ \A i \in 1 .. Len(program) : E[i + 1] = D[i]
        /\ one \in Seq(Seq(L)) /\ one = [i \in 1 .. 1 |-> <<>>]
    <2>1. one \in Seq(Seq(L)) /\ Len(one) = 1 /\ one[1] = <<>> /\ one = [i \in 1 .. 1 |-> <<>>]
      OBVIOUS
    <2> HIDE DEF one
    <2>2. /\ E \in Seq(Seq(L)) /\ Len(E) = Len(one) + Len(D)
          /\ \A k \in 1 .. Len(one) + Len(D) : E[k] = IF k <= Len(one) THEN one[k] ELSE D[k - Len(one)]
      BY <2>1, ConcatProperties
    <2> HIDE DEF E
    <2>3. 1 \in 1 .. Len(one) + Len(D) /\ E[1] = <<>>
      BY <1>1, <2>1, <2>2
    <2>4. ASSUME NEW i \in 1 .. Len(program) PROVE E[i + 1] = D[i]
      <3>1. i + 1 \in 1 .. Len(one) + Len(D) /\ ~(i + 1 <= Len(one)) /\ (i + 1) - Len(one) = i
        BY <1>0, <1>1, <2>1
      <3> QED BY <2>2, <3>1
    <2> QED BY <1>0, <1>1, <2>1, <2>2, <2>3, <2>4
  <1>8. FlattenSeq(E) = FlattenSeq(D)
    <2> HIDE DEF one
    <2>1. FlattenSeq(one \o D) = FlattenSeq(one) \o FlattenSeq(D)
      BY <1>7, FlattenConcat
    <2>2. FlattenSeq(one) = <<>>
      BY <1>7, FlattenNone
    <2>3. FlattenSeq(D) \in Seq(L)
      BY FlattenType
    <2> QED BY <2>1, <2>2, <2>3, ConcatEmptySeq
  <1> HIDE DEF E, one
  <1>9. \A i \in 1 .. Len(c) : Len(c[i]) = Len(E[i])
    <2> SUFFICES ASSUME NEW i \in 1 .. Len(c) PROVE Len(c[i]) = Len(E[i])
      OBVIOUS
    <2>1. CASE i = 1
      BY <1>5, <1>7, <2>1
    <2>2. CASE i # 1
      <3>1. i - 1 \in 1 .. Len(program) /\ (i - 1) + 1 = i
        BY <1>1, <1>3, <2>2
      <3>2. Len(c[(i - 1) + 1]) = Len(D[i - 1]) /\ E[(i - 1) + 1] = D[i - 1]
        BY <1>0, <1>6, <1>7, <3>1
      <3> QED BY <3>1, <3>2
    <2> QED BY <2>1, <2>2
  <1>10. /\ Len(FlattenSeq(c)) = Len(FlattenSeq(E))
         /\ \A k \in 1 .. Len(FlattenSeq(c)) :
              \E i \in 1 .. Len(c) : \E j \in 1 .. Len(c[i]) : FlattenSeq(c)[k] = c[i][j] /\ FlattenSeq(E)[k] = E[i][j]
    <2>1. SameShape(c, E)
      BY <1>3, <1>7, <1>9 DEF SameShape
    <2>2. c \in Seq(Seq(SpikeItem)) /\ E \in Seq(Seq(L))
      BY <1>3, <1>7
    <2>3. InStep(c, E)
      BY <2>1, <2>2, FlattenAligned
    <2> QED BY <2>3 DEF InStep
  <1>11. ASSUME NEW k \in 1 .. Len(FlattenSeq(c))
         PROVE  \E i \in 1 .. Len(program) : \E j \in 1 .. Len(Part(part, program[i])) :
                  /\ FlattenSeq(D)[k] = D[i][j] /\ BeforeTohost(program, i) /\ j \in 1 .. Len(D[i])
                  /\ FlattenSeq(c)[k] = Entry(i + 1, Part(part, program[i])[j], Lenient(part, program[i]))
    <2>1. PICK i \in 1 .. Len(c) : \E j \in 1 .. Len(c[i]) : FlattenSeq(c)[k] = c[i][j] /\ FlattenSeq(E)[k] = E[i][j]
      BY <1>10
    <2>2. PICK j \in 1 .. Len(c[i]) : FlattenSeq(c)[k] = c[i][j] /\ FlattenSeq(E)[k] = E[i][j]
      BY <2>1
    <2>3. i # 1
      <3>1. Len(<<>>) = 0
        OBVIOUS
      <3> QED BY <1>5, <2>2, <3>1
    <2> DEFINE n == i - 1
    <2>4. n \in 1 .. Len(program) /\ n + 1 = i
      BY <1>1, <1>3, <2>3
    <2> HIDE DEF n
    <2>5. j \in 1 .. Len(c[n + 1]) /\ FlattenSeq(c)[k] = c[n + 1][j] /\ FlattenSeq(E)[k] = D[n][j]
      BY <1>7, <2>2, <2>4
    <2>6. BeforeTohost(program, n) /\ j \in 1 .. Len(Part(part, program[n])) /\ j \in 1 .. Len(D[n])
      BY <1>0, <1>6, <2>4, <2>5
    <2>7. c[n + 1][j] = Entry(n + 1, Part(part, program[n])[j], Lenient(part, program[n]))
      BY <1>6, <2>4, <2>6
    <2> QED BY <1>8, <2>4, <2>5, <2>6, <2>7
  <1>12. FlattenSeq(c) \in Seq(SpikeItem)
    BY <1>3, FlattenType
  <1>13. Len(FlattenSeq(c)) = Len(FlattenSeq(D))
    BY <1>8, <1>10
  <1>14. SpikeBeside(FlattenSeq(c), D, program, part)
    BY <1>11, <1>12, <1>13, Zenon DEF SpikeBeside
  <1> QED BY <1>4, <1>14

\* So is the RTL's.
LEMMA RtlAligned ==
  ASSUME NEW run \in Seq(AnyCommit), NEW part \in Kinds, NEW L, NEW D \in Seq(Seq(L)), AsLong(D, run, part)
  PROVE  RtlBeside(EntriesOf(RtlLines(run), part), D, run, part)
  <1>0. /\ Len(D) = Len(run)
        /\ \A i \in 1 .. Len(run) : Len(D[i]) = IF BeforeTohost(run, i) THEN Len(Part(part, run[i])) ELSE 0
    BY DEF AsLong
  <1> DEFINE c == CellsOf(part, run)
  <1>1. /\ c \in Seq(Seq(Item)) /\ Len(c) = Len(run) /\ Len(run) \in Nat
        /\ \A i \in 1 .. Len(run) : /\ run[i] \in AnyCommit
                                    /\ c[i] = IF BeforeTohost(run, i) THEN Part(part, run[i]) ELSE <<>>
    BY CellsOfFacts
  <1>2. EntriesOf(RtlLines(run), part) = FlattenSeq(c)
    BY RtlParsed
  <1> HIDE DEF c
  <1>3. Len(<<>>) = 0
    OBVIOUS
  <1>4. \A i \in 1 .. Len(c) : Len(c[i]) = Len(D[i])
    BY <1>0, <1>1, <1>3
  <1>5. /\ Len(FlattenSeq(c)) = Len(FlattenSeq(D))
        /\ \A k \in 1 .. Len(FlattenSeq(c)) :
              \E i \in 1 .. Len(c) : \E j \in 1 .. Len(c[i]) : FlattenSeq(c)[k] = c[i][j] /\ FlattenSeq(D)[k] = D[i][j]
    <2>1. SameShape(c, D)
      BY <1>0, <1>1, <1>4 DEF SameShape
    <2>2. c \in Seq(Seq(Item))
      BY <1>1
    <2>3. InStep(c, D)
      BY <2>1, <2>2, FlattenAligned
    <2> QED BY <2>3 DEF InStep
  <1>6. FlattenSeq(c) \in Seq(Item)
    BY <1>1, FlattenType
  <1>7. ASSUME NEW k \in 1 .. Len(FlattenSeq(c))
        PROVE  \E i \in 1 .. Len(run) : \E j \in 1 .. Len(Part(part, run[i])) :
                 /\ FlattenSeq(D)[k] = D[i][j] /\ BeforeTohost(run, i) /\ j \in 1 .. Len(D[i])
                 /\ FlattenSeq(c)[k] = Part(part, run[i])[j]
    <2>1. PICK i \in 1 .. Len(c) : \E j \in 1 .. Len(c[i]) : FlattenSeq(c)[k] = c[i][j] /\ FlattenSeq(D)[k] = D[i][j]
      BY <1>5
    <2>2. PICK j \in 1 .. Len(c[i]) : FlattenSeq(c)[k] = c[i][j] /\ FlattenSeq(D)[k] = D[i][j]
      BY <2>1
    <2>3. i \in 1 .. Len(run)
      BY <1>1
    <2>4. BeforeTohost(run, i)
      <3> SUFFICES ASSUME ~BeforeTohost(run, i) PROVE FALSE
        OBVIOUS
      <3>1. c[i] = <<>>
        BY <1>1, <2>3
      <3> QED BY <1>3, <2>2, <3>1
    <2>5. c[i] = Part(part, run[i])
      BY <1>1, <2>3, <2>4
    <2> QED BY <1>4, <2>2, <2>3, <2>4, <2>5
  <1>8. RtlBeside(FlattenSeq(c), D, run, part)
    BY <1>5, <1>6, <1>7, Zenon DEF RtlBeside
  <1> QED BY <1>2, <1>8

\* An item is a program counter, a place and a value.
LEMMA ItemShape ==
  ASSUME NEW e \in Item
  PROVE  \E p, a, v : e = [pc |-> p, where |-> a, value |-> v]
  <1>1. PICK c \in AnyCommit : e \in ItemsOf(c)
    BY DEF Item
  <1>2. CASE e \in {StoreBytes(c)[k] : k \in DOMAIN StoreBytes(c)}
    <2>1. DOMAIN StoreBytes(c) = 1 .. Len(StoreBytes(c))
      BY BytesOf, LenProperties
    <2>2. PICK k \in 1 .. Len(StoreBytes(c)) : e = StoreBytes(c)[k]
      BY <1>2, <2>1
    <2>3. PICK v : StoreBytes(c)[k] = [pc |-> c.pc, where |-> c.mem[1] + k - 1, value |-> v]
      BY BytesOf
    <2> QED BY <2>2, <2>3, Zenon
  <1>3. CASE e \in {RegWrites(c)[k] : k \in DOMAIN RegWrites(c)}
    <2>1. DOMAIN RegWrites(c) = 1 .. Len(RegWrites(c))
      BY RegisterOf, LenProperties
    <2>2. PICK k \in 1 .. Len(RegWrites(c)) : e = RegWrites(c)[k]
      BY <1>3, <2>1
    <2>3. RegWrites(c)[k] = [pc |-> c.pc, where |-> c.reg[1], value |-> c.reg[2]]
      BY RegisterOf
    <2> QED BY <2>2, <2>3, Zenon
  <1> QED BY <1>1, <1>2, <1>3 DEF ItemsOf

\* The fields of an entry.
LEMMA EntryFields ==
  ASSUME NEW i, NEW e, NEW d
  PROVE  /\ Entry(i, e, d).pc = e.pc /\ Entry(i, e, d).where = e.where /\ Entry(i, e, d).value = e.value
         /\ Entry(i, e, d).may_differ = d /\ Entry(i, e, d).commit = i
  BY DEF Entry

\* What Writes joins.
WriteCells(run) == [i \in 1 .. Len(run) |-> IF BeforeTohost(run, i) /\ run[i].reg # <<>> THEN <<run[i]>> ELSE <<>>]

\* One cell an instruction, as long as what it writes to registers.
LEMMA WriteCellsFacts ==
  ASSUME NEW run \in Seq(AnyCommit)
  PROVE  /\ WriteCells(run) \in Seq(Seq(AnyCommit)) /\ Len(WriteCells(run)) = Len(run) /\ Len(run) \in Nat
         /\ Writes(run) = FlattenSeq(WriteCells(run))
         /\ \A i \in 1 .. Len(run) : /\ run[i] \in AnyCommit
                                     /\ Len(WriteCells(run)[i]) = IF BeforeTohost(run, i) THEN Len(Part("x", run[i])) ELSE 0
         /\ \A i \in 1 .. Len(run) : \A j \in 1 .. Len(WriteCells(run)[i]) : WriteCells(run)[i][j] = run[i]
  <1> DEFINE e(i) == IF BeforeTohost(run, i) /\ run[i].reg # <<>> THEN <<run[i]>> ELSE <<>>
  <1>1. Len(run) \in Nat /\ DOMAIN run = 1 .. Len(run) /\ \A i \in 1 .. Len(run) : run[i] \in AnyCommit
    BY LenProperties, ElementOfSeq
  <1>2. \A i \in 1 .. Len(run) : e(i) \in Seq(AnyCommit)
    BY <1>1
  <1>3. WriteCells(run) = [i \in 1 .. Len(run) |-> e(i)]
    BY DEF WriteCells
  <1>4. WriteCells(run) \in Seq(Seq(AnyCommit)) /\ Len(WriteCells(run)) = Len(run)
    <2> HIDE DEF e
    <2> QED BY <1>1, <1>2, <1>3, IsASeq
  <1>5. Writes(run) = FlattenSeq(WriteCells(run))
    BY <1>1 DEF Writes, WriteCells
  <1>6. ASSUME NEW i \in 1 .. Len(run) PROVE Len(e(i)) = IF BeforeTohost(run, i) THEN Len(Part("x", run[i])) ELSE 0
    <2>1. Len(Part("x", run[i])) = IF run[i].reg = <<>> THEN 0 ELSE 1
      BY <1>1, RegisterOf DEF Part
    <2>2. Len(<<run[i]>>) = 1 /\ Len(<<>>) = 0
      OBVIOUS
    <2> QED BY <2>1, <2>2
  <1>7. ASSUME NEW i \in 1 .. Len(run), NEW j \in 1 .. Len(e(i)) PROVE e(i)[j] = run[i]
    OBVIOUS
  <1>8. \A i \in 1 .. Len(run) : WriteCells(run)[i] = e(i)
    BY <1>3
  <1> HIDE DEF e
  <1> QED BY <1>1, <1>4, <1>5, <1>6, <1>7, <1>8

\* Spike's register writes, as parsed and as the programmer sees them.
SpikeWrote(s, w) ==
  /\ s \in Seq(SpikeItem) /\ Len(s) = Len(w)
  /\ \A k \in 1 .. Len(s) : /\ s[k].pc = w[k].pc /\ s[k].where = w[k].reg[1] /\ s[k].value = w[k].reg[2]
                            /\ s[k].may_differ = w[k].csr /\ w[k].csr \in BOOLEAN

\* The first is what parse_spike_commits finds.
LEMMA SpikeWrites ==
  ASSUME NEW log, NEW program, SpikeLog(log, program)
  PROVE  SpikeWrote(SpikeTrace("x", log), Writes(program))
  <1> DEFINE D == WriteCells(program)  s == SpikeTrace("x", log)
  <1>1. program \in Seq(AnyCommit) /\ "x" \in Kinds
    BY DEF SpikeLog, Kinds
  <1>2. /\ D \in Seq(Seq(AnyCommit)) /\ Len(D) = Len(program) /\ Writes(program) = FlattenSeq(D)
        /\ \A i \in 1 .. Len(program) : /\ program[i] \in AnyCommit
                                        /\ Len(D[i]) = IF BeforeTohost(program, i) THEN Len(Part("x", program[i])) ELSE 0
        /\ \A i \in 1 .. Len(program) : \A j \in 1 .. Len(D[i]) : D[i][j] = program[i]
    BY <1>1, WriteCellsFacts
  <1> HIDE DEF D
  <1>3. /\ s \in Seq(SpikeItem) /\ Len(s) = Len(FlattenSeq(D))
        /\ \A k \in 1 .. Len(s) :
             \E i \in 1 .. Len(program) : \E j \in 1 .. Len(Part("x", program[i])) :
               /\ FlattenSeq(D)[k] = D[i][j] /\ BeforeTohost(program, i) /\ j \in 1 .. Len(D[i])
               /\ s[k] = Entry(i + 1, Part("x", program[i])[j], Lenient("x", program[i]))
    <2>1. AsLong(D, program, "x")
      BY <1>2 DEF AsLong
    <2>2. SpikeBeside(SpikeTrace("x", log), D, program, "x")
      BY <1>1, <1>2, <2>1, SpikeAligned
    <2> QED BY <2>2, Zenon DEF SpikeBeside
  <1> HIDE DEF s
  <1>4. ASSUME NEW k \in 1 .. Len(s)
        PROVE  LET w == Writes(program)
               IN /\ s[k].pc = w[k].pc /\ s[k].where = w[k].reg[1] /\ s[k].value = w[k].reg[2]
                  /\ s[k].may_differ = w[k].csr /\ w[k].csr \in BOOLEAN
    <2>0. PICK i \in 1 .. Len(program) : \E j \in 1 .. Len(Part("x", program[i])) :
               /\ FlattenSeq(D)[k] = D[i][j] /\ BeforeTohost(program, i) /\ j \in 1 .. Len(D[i])
               /\ s[k] = Entry(i + 1, Part("x", program[i])[j], Lenient("x", program[i]))
      BY <1>3
    <2>1. PICK j \in 1 .. Len(Part("x", program[i])) :
               /\ FlattenSeq(D)[k] = D[i][j] /\ BeforeTohost(program, i) /\ j \in 1 .. Len(D[i])
               /\ s[k] = Entry(i + 1, Part("x", program[i])[j], Lenient("x", program[i]))
      BY <2>0
    <2> DEFINE x == program[i]  e == Part("x", x)[j]
    <2>2. x \in AnyCommit /\ Writes(program)[k] = x /\ s[k] = Entry(i + 1, e, Lenient("x", x)) /\ j \in 1 .. Len(Part("x", x))
      BY <1>2, <2>1
    <2> HIDE DEF x
    <2>3. e = [pc |-> x.pc, where |-> x.reg[1], value |-> x.reg[2]]
      BY <2>2, RegisterOf DEF Part
    <2> HIDE DEF e
    <2>4. e.pc = x.pc /\ e.where = x.reg[1] /\ e.value = x.reg[2]
      BY <2>3
    <2>5. x.csr \in BOOLEAN
      BY <2>2, TraceAssumption DEF AnyCommit
    <2>6. Lenient("x", x) = x.csr
      BY <2>5, Zenon DEF Lenient
    <2>7. s[k].pc = e.pc /\ s[k].where = e.where /\ s[k].value = e.value /\ s[k].may_differ = x.csr
      BY <2>2, <2>6, EntryFields
    <2> QED BY <2>2, <2>4, <2>5, <2>7, Zenon
  <1>5. Len(s) = Len(Writes(program))
    BY <1>2, <1>3
  <1>6. SpikeWrote(s, Writes(program))
    BY <1>3, <1>4, <1>5, Zenon DEF SpikeWrote
  <1> QED BY <1>6 DEF s

\* The RTL's.
RtlWrote(r, w) ==
  /\ Len(r) = Len(w) /\ Len(r) \in Nat /\ DOMAIN r = 1 .. Len(r) /\ DOMAIN w = 1 .. Len(r)
  /\ \A k \in 1 .. Len(r) : r[k].pc = w[k].pc /\ r[k].where = w[k].reg[1] /\ r[k].value = w[k].reg[2]

\* The first is what parse_rtl_trace finds.
LEMMA RtlWrites ==
  ASSUME NEW run \in Seq(AnyCommit)
  PROVE  RtlWrote(EntriesOf(RtlLines(run), "x"), Writes(run))
  <1> DEFINE D == WriteCells(run)  r == EntriesOf(RtlLines(run), "x")
  <1>1. "x" \in Kinds
    BY DEF Kinds
  <1>2. /\ D \in Seq(Seq(AnyCommit)) /\ Len(D) = Len(run) /\ Writes(run) = FlattenSeq(D)
        /\ \A i \in 1 .. Len(run) : /\ run[i] \in AnyCommit
                                    /\ Len(D[i]) = IF BeforeTohost(run, i) THEN Len(Part("x", run[i])) ELSE 0
        /\ \A i \in 1 .. Len(run) : \A j \in 1 .. Len(D[i]) : D[i][j] = run[i]
    BY WriteCellsFacts
  <1> HIDE DEF D
  <1>3. /\ r \in Seq(Item) /\ Len(r) = Len(FlattenSeq(D))
        /\ \A k \in 1 .. Len(r) :
             \E i \in 1 .. Len(run) : \E j \in 1 .. Len(Part("x", run[i])) :
               /\ FlattenSeq(D)[k] = D[i][j] /\ BeforeTohost(run, i) /\ j \in 1 .. Len(D[i])
               /\ r[k] = Part("x", run[i])[j]
    <2>1. AsLong(D, run, "x")
      BY <1>2 DEF AsLong
    <2>2. RtlBeside(EntriesOf(RtlLines(run), "x"), D, run, "x")
      BY <1>1, <1>2, <2>1, RtlAligned
    <2> QED BY <2>2, Zenon DEF RtlBeside
  <1> HIDE DEF r
  <1>4. ASSUME NEW k \in 1 .. Len(r)
        PROVE  LET w == Writes(run)
               IN r[k].pc = w[k].pc /\ r[k].where = w[k].reg[1] /\ r[k].value = w[k].reg[2]
    <2>0. PICK i \in 1 .. Len(run) : \E j \in 1 .. Len(Part("x", run[i])) :
               /\ FlattenSeq(D)[k] = D[i][j] /\ BeforeTohost(run, i) /\ j \in 1 .. Len(D[i])
               /\ r[k] = Part("x", run[i])[j]
      BY <1>3
    <2>1. PICK j \in 1 .. Len(Part("x", run[i])) :
               /\ FlattenSeq(D)[k] = D[i][j] /\ BeforeTohost(run, i) /\ j \in 1 .. Len(D[i])
               /\ r[k] = Part("x", run[i])[j]
      BY <2>0
    <2> DEFINE x == run[i]  e == Part("x", x)[j]
    <2>2. x \in AnyCommit /\ Writes(run)[k] = x /\ r[k] = e /\ j \in 1 .. Len(Part("x", x))
      BY <1>2, <2>1
    <2> HIDE DEF x
    <2>3. e = [pc |-> x.pc, where |-> x.reg[1], value |-> x.reg[2]]
      BY <2>2, RegisterOf DEF Part
    <2> HIDE DEF e
    <2>4. e.pc = x.pc /\ e.where = x.reg[1] /\ e.value = x.reg[2]
      BY <2>3
    <2> QED BY <2>2, <2>4, Zenon
  <1>5. Len(r) = Len(Writes(run)) /\ Writes(run) \in Seq(AnyCommit)
    BY <1>2, <1>3, FlattenType
  <1>6. Len(r) \in Nat /\ DOMAIN r = 1 .. Len(r) /\ DOMAIN Writes(run) = 1 .. Len(r)
    BY <1>3, <1>5, LenProperties
  <1>7. RtlWrote(r, Writes(run))
    BY <1>4, <1>5, <1>6, Zenon DEF RtlWrote
  <1> QED BY <1>7 DEF r

\* Spike's memory bytes.
SpikeStored(s, b) ==
  /\ s \in Seq(SpikeItem) /\ Len(s) = Len(b)
  /\ \A k \in 1 .. Len(s) : s[k].pc = b[k].pc /\ s[k].where = b[k].where /\ s[k].value = b[k].value /\ ~s[k].may_differ

\* What Stores joins.
LEMMA StoresAre ==
  ASSUME NEW run \in Seq(AnyCommit)
  PROVE  Stores(run) = FlattenSeq(CellsOf("m", run)) /\ Stores(run) \in Seq(Item)
  <1>1. DOMAIN run = 1 .. Len(run) /\ "m" \in Kinds
    BY LenProperties DEF Kinds
  <1>2. Stores(run) = FlattenSeq(CellsOf("m", run))
    BY <1>1 DEF Stores, CellsOf, Part
  <1>3. CellsOf("m", run) \in Seq(Seq(Item))
    BY <1>1, CellsOfFacts
  <1> QED BY <1>2, <1>3, FlattenType

\* The first is what parse_spike_commits finds.
LEMMA SpikeStores ==
  ASSUME NEW log, NEW program, SpikeLog(log, program)
  PROVE  SpikeStored(SpikeTrace("m", log), Stores(program))
  <1> DEFINE D == CellsOf("m", program)  s == SpikeTrace("m", log)
  <1>1. program \in Seq(AnyCommit) /\ "m" \in Kinds
    BY DEF SpikeLog, Kinds
  <1>2. /\ D \in Seq(Seq(Item)) /\ Len(D) = Len(program) /\ Stores(program) = FlattenSeq(D)
        /\ \A i \in 1 .. Len(program) : /\ program[i] \in AnyCommit
                                        /\ D[i] = IF BeforeTohost(program, i) THEN Part("m", program[i]) ELSE <<>>
    BY <1>1, CellsOfFacts, StoresAre
  <1> HIDE DEF D
  <1>3. \A i \in 1 .. Len(program) : Len(D[i]) = IF BeforeTohost(program, i) THEN Len(Part("m", program[i])) ELSE 0
    BY <1>2
  <1>4. /\ s \in Seq(SpikeItem) /\ Len(s) = Len(FlattenSeq(D))
        /\ \A k \in 1 .. Len(s) :
             \E i \in 1 .. Len(program) : \E j \in 1 .. Len(Part("m", program[i])) :
               /\ FlattenSeq(D)[k] = D[i][j] /\ BeforeTohost(program, i) /\ j \in 1 .. Len(D[i])
               /\ s[k] = Entry(i + 1, Part("m", program[i])[j], Lenient("m", program[i]))
    <2>1. AsLong(D, program, "m")
      BY <1>2, <1>3 DEF AsLong
    <2>2. SpikeBeside(SpikeTrace("m", log), D, program, "m")
      BY <1>1, <1>2, <2>1, SpikeAligned
    <2> QED BY <2>2, Zenon DEF SpikeBeside
  <1> HIDE DEF s
  <1>5. ASSUME NEW k \in 1 .. Len(s)
        PROVE  LET b == Stores(program)
               IN s[k].pc = b[k].pc /\ s[k].where = b[k].where /\ s[k].value = b[k].value /\ ~s[k].may_differ
    <2>0. PICK i \in 1 .. Len(program) : \E j \in 1 .. Len(Part("m", program[i])) :
               /\ FlattenSeq(D)[k] = D[i][j] /\ BeforeTohost(program, i) /\ j \in 1 .. Len(D[i])
               /\ s[k] = Entry(i + 1, Part("m", program[i])[j], Lenient("m", program[i]))
      BY <1>4
    <2>1. PICK j \in 1 .. Len(Part("m", program[i])) :
               /\ FlattenSeq(D)[k] = D[i][j] /\ BeforeTohost(program, i) /\ j \in 1 .. Len(D[i])
               /\ s[k] = Entry(i + 1, Part("m", program[i])[j], Lenient("m", program[i]))
      BY <2>0
    <2> DEFINE e == Part("m", program[i])[j]
    <2>2. Stores(program)[k] = e
      BY <1>2, <2>1
    <2>3. s[k].pc = e.pc /\ s[k].where = e.where /\ s[k].value = e.value /\ s[k].may_differ = Lenient("m", program[i])
      BY <2>1, EntryFields
    <2> HIDE DEF e
    <2>4. ~Lenient("m", program[i])
      BY DEF Lenient
    <2> QED BY <2>2, <2>3, <2>4, Zenon
  <1>6. Len(s) = Len(Stores(program))
    BY <1>2, <1>4
  <1>7. SpikeStored(s, Stores(program))
    BY <1>4, <1>5, <1>6, Zenon DEF SpikeStored
  <1> QED BY <1>7 DEF s

\* The two traces agree; the places where they do not.
Agree(s, r) == Len(s) = Len(r) /\ \A i \in 1 .. Len(s) : ~Differs(s[i], r[i])
Bad(s, r) == {i \in Places(s, r) : i > Len(s) \/ i > Len(r) \/ Differs(s[i], r[i])}

\* Min is the least element.
LEMMA MinLeast ==
  ASSUME NEW T, T \subseteq Nat, T # {}
  PROVE  Min(T) \in T /\ \A m \in T : Min(T) <= m
  <1>1. \E n \in T : \A m \in T : n <= m
    BY LeastNumber
  <1> QED BY <1>1, Zenon DEF Min

\* The traces agree where there are none.
LEMMA BadFacts ==
  ASSUME NEW K, NEW L, NEW s \in Seq(K), NEW r \in Seq(L)
  PROVE  /\ Bad(s, r) \subseteq Nat \ {0}
         /\ Bad(s, r) = {} <=> Agree(s, r)
         /\ \A i \in 1 .. Len(s) : i > Len(r) \/ Differs(s[i], r[i]) <=> i \in Bad(s, r)
  <1>1. DOMAIN s = 1 .. Len(s) /\ DOMAIN r = 1 .. Len(r) /\ Len(s) \in Nat /\ Len(r) \in Nat
    BY LenProperties
  <1>2. Places(s, r) = (1 .. Len(s)) \cup (1 .. Len(r))
    BY <1>1 DEF Places
  <1>3. Bad(s, r) \subseteq Nat \ {0}
    BY <1>1, <1>2 DEF Bad
  <1>4. ASSUME NEW i \in 1 .. Len(s) PROVE i > Len(r) \/ Differs(s[i], r[i]) <=> i \in Bad(s, r)
    BY <1>1, <1>2 DEF Bad
  <1>5. ASSUME Bad(s, r) = {} PROVE Agree(s, r)
    <2>1. \A i \in 1 .. Len(s) : ~(i > Len(r)) /\ ~Differs(s[i], r[i])
      BY <1>4, <1>5
    <2>2. \A i \in 1 .. Len(r) : ~(i > Len(s))
      BY <1>1, <1>2, <1>5 DEF Bad
    <2>3. Len(s) <= Len(r)
      <3> SUFFICES ASSUME Len(s) # 0 PROVE Len(s) <= Len(r)
        BY <1>1
      <3>1. Len(s) \in 1 .. Len(s)
        BY <1>1
      <3> QED BY <1>1, <2>1, <3>1
    <2>4. Len(r) <= Len(s)
      <3> SUFFICES ASSUME Len(r) # 0 PROVE Len(r) <= Len(s)
        BY <1>1
      <3>1. Len(r) \in 1 .. Len(r)
        BY <1>1
      <3> QED BY <1>1, <2>2, <3>1
    <2>5. Len(s) = Len(r)
      <3>1. Len(s) \in Nat /\ Len(r) \in Nat
        BY <1>1
      <3> QED BY <2>3, <2>4, <3>1
    <2> QED BY <2>1, <2>5, Zenon DEF Agree
  <1>6. ASSUME Agree(s, r) PROVE Bad(s, r) = {}
    <2> SUFFICES ASSUME NEW i \in Bad(s, r) PROVE FALSE
      OBVIOUS
    <2>1. i \in 1 .. Len(s) /\ ~(i > Len(s)) /\ ~(i > Len(r)) /\ Differs(s[i], r[i])
      BY <1>1, <1>2, <1>6 DEF Bad, Agree
    <2> QED BY <1>6, <2>1 DEF Agree
  <1> QED BY <1>3, <1>4, <1>5, <1>6

\* A commit of Spike's trace is a number.
LEMMA CommitNat ==
  ASSUME NEW s \in Seq(SpikeItem), NEW i \in 1 .. Len(s)
  PROVE  s[i].commit \in Nat
  <1>1. s[i] \in SpikeItem
    BY ElementOfSeq
  <1>2. PICK t \in Nat \X Item \X BOOLEAN : s[i] = Entry(t[1], t[2], t[3])
    BY <1>1 DEF SpikeItem
  <1>3. t[1] \in Nat
    BY <1>2
  <1> QED BY <1>2, <1>3, EntryFields

\* first_divergence's answer.
LEMMA DivergenceOf ==
  ASSUME NEW L, NEW s \in Seq(SpikeItem), NEW r \in Seq(L)
  PROVE  /\ FirstDivergence(s, r) = <<>> <=> Agree(s, r)
         /\ FirstDivergence(s, r) # <<>> => \E n \in Nat : FirstDivergence(s, r) = <<n>>
         /\ \A i \in Bad(s, r) : i <= Len(s) => \E j \in 1 .. i : FirstDivergence(s, r) = <<2 * s[j].commit>>
  <1> DEFINE bad == Bad(s, r)  m == Min(bad)
  <1>1. bad \subseteq Nat \ {0} /\ (bad = {} <=> Agree(s, r))
    BY BadFacts
  <1>2. FirstDivergence(s, r) = IF bad = {} THEN <<>>
                                ELSE IF m <= Len(s) THEN <<2 * s[m].commit>>
                                ELSE IF s = <<>> THEN <<0>> ELSE <<2 * Last(s).commit + 1>>
    BY Zenon DEF FirstDivergence, Bad
  <1>3. \A i \in 1 .. Len(s) : s[i].commit \in Nat
    BY CommitNat
  <1>4. s # <<>> => Last(s).commit \in Nat
    <2> SUFFICES ASSUME s # <<>> PROVE s[Len(s)].commit \in Nat
      BY DEF Last
    <2>1. Len(s) \in 1 .. Len(s)
      BY EmptySeq, LenProperties
    <2> QED BY <1>3, <2>1
  <1> HIDE DEF bad
  <1>5. bad # {} => m \in bad /\ \A n \in bad : m <= n
    <2>1. bad \subseteq Nat
      BY <1>1
    <2> QED BY <2>1, MinLeast
  <1> HIDE DEF m
  <1>6. Len(s) \in Nat
    BY LenProperties
  <1>7. bad # {} => m \in Nat /\ m # 0
    BY <1>1, <1>5
  <1>8. bad # {} => \E n \in Nat : FirstDivergence(s, r) = <<n>>
    <2> SUFFICES ASSUME bad # {} PROVE \E n \in Nat : FirstDivergence(s, r) = <<n>>
      OBVIOUS
    <2>1. CASE m <= Len(s)
      <3>1. m \in 1 .. Len(s)
        BY <1>6, <1>7, <2>1
      <3>2. 2 * s[m].commit \in Nat
        BY <1>3, <3>1
      <3> QED BY <1>2, <2>1, <3>2
    <2>2. CASE ~(m <= Len(s)) /\ s = <<>>
      BY <1>2, <2>2
    <2>3. CASE ~(m <= Len(s)) /\ s # <<>>
      <3>1. 2 * Last(s).commit + 1 \in Nat
        BY <1>4, <2>3
      <3> QED BY <1>2, <2>3, <3>1
    <2> QED BY <2>1, <2>2, <2>3
  <1>9. \A n : <<n>> # <<>>
    OBVIOUS
  <1>10. ASSUME NEW i \in bad, i <= Len(s) PROVE \E j \in 1 .. i : FirstDivergence(s, r) = <<2 * s[j].commit>>
    <2>1. m <= i /\ m <= Len(s) /\ m \in 1 .. i /\ bad # {}
      BY <1>1, <1>5, <1>6, <1>7, <1>10
    <2> QED BY <1>2, <2>1
  <1>11. FirstDivergence(s, r) = <<>> <=> bad = {}
    BY <1>2, <1>8, <1>9
  <1> QED BY <1>1, <1>8, <1>10, <1>11 DEF bad

\* It lies no later than half a place behind the last commit.
LEMMA DivergenceBound ==
  ASSUME NEW L, NEW s \in Seq(SpikeItem), NEW r \in Seq(L), NEW c \in Nat, \A i \in 1 .. Len(s) : s[i].commit <= c
  PROVE  \A n \in Nat : FirstDivergence(s, r) = <<n>> => n <= 2 * c + 1
  <1> DEFINE bad == Bad(s, r)  m == Min(bad)
  <1>1. bad \subseteq Nat \ {0}
    BY BadFacts
  <1>2. FirstDivergence(s, r) = IF bad = {} THEN <<>>
                                ELSE IF m <= Len(s) THEN <<2 * s[m].commit>>
                                ELSE IF s = <<>> THEN <<0>> ELSE <<2 * Last(s).commit + 1>>
    BY Zenon DEF FirstDivergence, Bad
  <1>3. Len(s) \in Nat /\ \A i \in 1 .. Len(s) : s[i].commit \in Nat /\ s[i].commit <= c
    BY CommitNat, LenProperties
  <1> HIDE DEF bad
  <1>4. bad # {} => m \in Nat /\ m # 0
    <2>1. bad \subseteq Nat
      BY <1>1
    <2> QED BY <1>1, <2>1, MinLeast
  <1> HIDE DEF m
  <1> SUFFICES ASSUME NEW n \in Nat, FirstDivergence(s, r) = <<n>> PROVE n <= 2 * c + 1
    OBVIOUS
  <1>5. bad # {}
    <2>1. <<n>> # <<>>
      OBVIOUS
    <2> QED BY <1>2, <2>1
  <1>6. CASE m <= Len(s)
    <2>1. m \in 1 .. Len(s)
      BY <1>3, <1>4, <1>5, <1>6
    <2> DEFINE x == s[m].commit
    <2>2. x \in Nat /\ x <= c
      BY <1>3, <2>1
    <2>3. <<n>> = <<2 * x>>
      BY <1>2, <1>5, <1>6
    <2> HIDE DEF x
    <2> QED BY <2>2, <2>3
  <1>7. CASE ~(m <= Len(s)) /\ s = <<>>
    <2>1. <<n>> = <<0>>
      BY <1>2, <1>5, <1>7
    <2> QED BY <2>1
  <1>8. CASE ~(m <= Len(s)) /\ s # <<>>
    <2> DEFINE x == Last(s).commit
    <2>1. Len(s) \in 1 .. Len(s)
      BY <1>3, <1>8, EmptySeq
    <2>2. x \in Nat /\ x <= c
      BY <1>3, <2>1 DEF Last
    <2>3. <<n>> = <<2 * x + 1>>
      BY <1>2, <1>5, <1>8
    <2> HIDE DEF x
    <2> QED BY <2>2, <2>3
  <1> QED BY <1>6, <1>7, <1>8

\* compare_traces' answer.
LEMMA Compared ==
  ASSUME NEW spike, NEW rtl, NEW p, NEW q,
         p = FirstDivergence(spike.registers, rtl.registers), q = FirstDivergence(spike.memory, rtl.memory),
         p = <<>> \/ \E n \in Nat : p = <<n>>, q = <<>> \/ \E n \in Nat : q = <<n>>
  PROVE  /\ CompareTraces(spike, rtl) = <<>> <=> p = <<>> /\ q = <<>>
         /\ CompareTraces(spike, rtl) # <<>> => \E d \in Nat : /\ CompareTraces(spike, rtl) = <<d>>
                                                              /\ \A n \in Nat : p = <<n>> \/ q = <<n>> => d <= n
  <1> DEFINE found == {p, q} \ {<<>>}  firsts == {d[1] : d \in found}  m == Min(firsts)
  <1>1. CompareTraces(spike, rtl) = IF found = {} THEN <<>> ELSE <<m>>
    BY Zenon DEF CompareTraces
  <1>2. \A n : <<n>> # <<>> /\ <<n>>[1] = n
    OBVIOUS
  <1>3. found = {} <=> p = <<>> /\ q = <<>>
    OBVIOUS
  <1>4. firsts \subseteq Nat
    <2> SUFFICES ASSUME NEW d \in found PROVE d[1] \in Nat
      OBVIOUS
    <2>1. PICK n \in Nat : d = <<n>>
      OBVIOUS
    <2> QED BY <2>1
  <1>5. found # {} => firsts # {}
    OBVIOUS
  <1>6. \A n \in Nat : p = <<n>> \/ q = <<n>> => n \in firsts /\ found # {}
    <2> SUFFICES ASSUME NEW n \in Nat, p = <<n>> \/ q = <<n>> PROVE n \in firsts
      OBVIOUS
    <2>1. <<n>> \in found /\ <<n>>[1] = n
      BY <1>2
    <2> HIDE DEF found
    <2> QED BY <2>1
  <1> HIDE DEF firsts
  <1>7. firsts # {} => m \in firsts /\ \A n \in firsts : m <= n
    BY <1>4, MinLeast
  <1> HIDE DEF found, m
  <1>8. CompareTraces(spike, rtl) = <<>> <=> found = {}
    BY <1>1, <1>2
  <1>9. ASSUME found # {}
        PROVE  \E d \in Nat : CompareTraces(spike, rtl) = <<d>> /\ \A n \in Nat : p = <<n>> \/ q = <<n>> => d <= n
    <2>1. m \in Nat /\ \A n \in firsts : m <= n
      BY <1>4, <1>5, <1>7, <1>9
    <2> QED BY <1>1, <1>6, <1>9, <2>1
  <1> QED BY <1>3, <1>8, <1>9

\* The traces of the registers agree when the machines wrote the same.
LEMMA SameWrites ==
  ASSUME NEW s, NEW w, NEW r, NEW v, SpikeWrote(s, w), RtlWrote(r, v), w \in Seq(AnyCommit)
  PROVE  Agree(s, r) <=> Len(w) = Len(v) /\ \A i \in DOMAIN w : SameWrite(w[i], v[i])
  <1>1. Len(s) = Len(w) /\ Len(r) = Len(v) /\ DOMAIN w = 1 .. Len(w)
    BY LenProperties DEF SpikeWrote, RtlWrote
  <1>2. ASSUME Len(s) = Len(r), NEW i \in 1 .. Len(s) PROVE Differs(s[i], r[i]) <=> ~SameWrite(w[i], v[i])
    <2>1. /\ s[i].pc = w[i].pc /\ s[i].where = w[i].reg[1] /\ s[i].value = w[i].reg[2]
          /\ s[i].may_differ = w[i].csr /\ w[i].csr \in BOOLEAN
      BY DEF SpikeWrote
    <2>2. r[i].pc = v[i].pc /\ r[i].where = v[i].reg[1] /\ r[i].value = v[i].reg[2]
      BY <1>2 DEF RtlWrote
    <2> DEFINE a == s[i]  b == r[i]  x == w[i]  y == v[i]
    <2>3. /\ a.pc = x.pc /\ a.where = x.reg[1] /\ a.value = x.reg[2] /\ a.may_differ = x.csr
          /\ b.pc = y.pc /\ b.where = y.reg[1] /\ b.value = y.reg[2]
      BY <2>1, <2>2, Zenon
    <2> HIDE DEF a, b, x, y
    <2>4. <<a.pc, a.where>> # <<b.pc, b.where>> <=> ~(a.pc = b.pc /\ a.where = b.where)
      OBVIOUS
    <2>5. Differs(a, b) <=> ~SameWrite(x, y)
      BY <2>3, <2>4, Zenon DEF Differs, SameWrite
    <2> QED BY <2>5 DEF a, b, x, y
  <1>3. Agree(s, r) <=> Len(s) = Len(r) /\ \A i \in 1 .. Len(s) : ~Differs(s[i], r[i])
    BY DEF Agree
  <1>4. Len(s) = Len(r) => ((\A i \in 1 .. Len(s) : ~Differs(s[i], r[i])) <=> \A i \in 1 .. Len(s) : SameWrite(w[i], v[i]))
    BY <1>2, Zenon
  <1> QED BY <1>1, <1>3, <1>4, Zenon

\* Two items are the same when their fields are.
LEMMA SameItem ==
  ASSUME NEW e \in Item, NEW f \in Item
  PROVE  e = f <=> e.pc = f.pc /\ e.where = f.where /\ e.value = f.value
  <1>1. PICK p, a, v : e = [pc |-> p, where |-> a, value |-> v]
    BY ItemShape
  <1>2. PICK p2, a2, v2 : f = [pc |-> p2, where |-> a2, value |-> v2]
    BY ItemShape
  <1> QED BY <1>1, <1>2

\* The traces of the memory agree when the machines stored the same.
LEMMA SameStores ==
  ASSUME NEW s, NEW b \in Seq(Item), NEW r \in Seq(Item), SpikeStored(s, b)
  PROVE  Agree(s, r) <=> b = r
  <1>1. Len(s) = Len(b)
    BY DEF SpikeStored
  <1>2. ASSUME Len(s) = Len(r), NEW i \in 1 .. Len(s) PROVE Differs(s[i], r[i]) <=> b[i] # r[i]
    <2> DEFINE x == s[i]  y == r[i]  z == b[i]
    <2>1. x.pc = z.pc /\ x.where = z.where /\ x.value = z.value /\ ~x.may_differ
      BY DEF SpikeStored
    <2>2. y \in Item /\ z \in Item
      BY <1>1, <1>2, ElementOfSeq
    <2> HIDE DEF x, y, z
    <2>3. <<x.pc, x.where>> # <<y.pc, y.where>> <=> ~(x.pc = y.pc /\ x.where = y.where)
      OBVIOUS
    <2>4. z = y <=> z.pc = y.pc /\ z.where = y.where /\ z.value = y.value
      BY <2>2, SameItem
    <2>5. Differs(x, y) <=> z # y
      BY <2>1, <2>3, <2>4, Zenon DEF Differs
    <2> QED BY <2>5 DEF x, y, z
  <1>3. Agree(s, r) <=> Len(s) = Len(r) /\ \A i \in 1 .. Len(s) : ~Differs(s[i], r[i])
    BY DEF Agree
  <1>4. b = r <=> Len(b) = Len(r) /\ \A i \in 1 .. Len(b) : b[i] = r[i]
    BY SeqEqual
  <1> QED BY <1>1, <1>2, <1>3, <1>4, Zenon

\* Spike's trace of the first k commits is the start of its trace, and of those commits.
LEMMA TraceCut ==
  ASSUME NEW log \in Seq(AnyCommit), NEW part \in Kinds, NEW k \in Int, k <= Len(log)
  PROVE  LET early == SubSeq(log, 1, k)  a == SpikeTrace(part, early)  s == SpikeTrace(part, log)
         IN /\ early \in Seq(AnyCommit)
            /\ a \in Seq(SpikeItem) /\ s \in Seq(SpikeItem) /\ Len(a) <= Len(s)
            /\ \A i \in 1 .. Len(a) : a[i] = s[i] /\ a[i].commit \in Nat /\ a[i].commit <= k
  <1> DEFINE c == SpikeCells(part, log)  early == SubSeq(log, 1, k)
             a == SpikeTrace(part, early)  s == SpikeTrace(part, log)
             Meant == /\ early \in Seq(AnyCommit)
                      /\ a \in Seq(SpikeItem) /\ s \in Seq(SpikeItem) /\ Len(a) <= Len(s)
                      /\ \A i \in 1 .. Len(a) : a[i] = s[i] /\ a[i].commit \in Nat /\ a[i].commit <= k
  <1>1. /\ c \in Seq(Seq(SpikeItem)) /\ Len(c) = Len(log) /\ Len(log) \in Nat
        /\ \A i \in 1 .. Len(log) :
              /\ log[i] \in AnyCommit /\ Part(part, log[i]) \in Seq(Item) /\ Lenient(part, log[i]) \in BOOLEAN
              /\ c[i] = IF IsRead(log, i) THEN Entries(i, Part(part, log[i]), Lenient(part, log[i])) ELSE <<>>
    BY SpikeCellsFacts
  <1>2. s = FlattenSeq(c) /\ s \in Seq(SpikeItem)
    <2>1. s = FlattenSeq(c)
      BY DEF SpikeTrace
    <2> HIDE DEF c, s
    <2> QED BY <1>1, <2>1, FlattenType
  <1>3. CASE k <= 0
    <2>1. early = <<>>
      BY <1>3
    <2> HIDE DEF early
    <2>2. SpikeCells(part, early) = <<>>
      BY <2>1 DEF SpikeCells
    <2>3. a = <<>>
      BY <2>2, FlattenEmpty DEF SpikeTrace
    <2> HIDE DEF a, s
    <2>4. Len(a) = 0 /\ Len(s) \in Nat /\ a \in Seq(SpikeItem) /\ early \in Seq(AnyCommit)
      BY <1>2, <2>1, <2>3, LenProperties
    <2>5. Meant
      BY <1>2, <2>4
    <2> HIDE DEF Meant
    <2> QED BY <2>5 DEF Meant, a, s, early
  <1>4. CASE k \in Nat
    <2>1. early = First(log, k)
      BY <1>4, SubSeqProperties DEF First
    <2>2. early \in Seq(AnyCommit) /\ Len(early) = k /\ \A i \in 1 .. k : early[i] = log[i]
      BY <1>4, <2>1, FirstFacts
    <2> HIDE DEF early
    <2> DEFINE d == First(c, k)
    <2>3. d \in Seq(Seq(SpikeItem)) /\ Len(d) = k /\ \A i \in 1 .. k : d[i] = c[i]
      <3> HIDE DEF c
      <3> QED BY <1>1, <1>4, FirstFacts
    <2>4. SpikeCells(part, early) = d
      <3>1. \A i \in 1 .. k : IsRead(early, i) <=> IsRead(log, i)
        <4> SUFFICES ASSUME NEW i \in 1 .. k PROVE IsRead(early, i) <=> IsRead(log, i)
          OBVIOUS
        <4>1. \A j \in 1 .. i : j \in 1 .. k /\ early[j] = log[j]
          BY <1>4, <2>2
        <4>2. \A j \in 1 .. i : Started(early, j) <=> Started(log, j)
          <5> SUFFICES ASSUME NEW j \in 1 .. i PROVE Started(early, j) <=> Started(log, j)
            OBVIOUS
          <5>1. \A n \in 1 .. j : early[n] = log[n]
            BY <4>1
          <5> QED BY <5>1 DEF Started
        <4>3. i \in 1 .. i
          OBVIOUS
        <4> QED BY <4>1, <4>2, <4>3, Zenon DEF IsRead
      <3>2. /\ SpikeCells(part, early) \in Seq(Seq(SpikeItem)) /\ Len(SpikeCells(part, early)) = k
            /\ \A i \in 1 .. k : SpikeCells(part, early)[i] =
                 IF IsRead(early, i) THEN Entries(i, Part(part, early[i]), Lenient(part, early[i])) ELSE <<>>
        BY <2>2, SpikeCellsFacts
      <3> DEFINE e == SpikeCells(part, early)
      <3>3. \A i \in 1 .. k : e[i] = c[i]
        <4> SUFFICES ASSUME NEW i \in 1 .. k PROVE e[i] = c[i]
          OBVIOUS
        <4>1. i \in 1 .. Len(log) /\ early[i] = log[i] /\ (IsRead(early, i) <=> IsRead(log, i))
          BY <1>1, <1>4, <2>2, <3>1
        <4>2. e[i] = IF IsRead(log, i) THEN Entries(i, Part(part, log[i]), Lenient(part, log[i])) ELSE <<>>
          BY <3>2, <4>1, Zenon
        <4> QED BY <1>1, <4>1, <4>2, Zenon
      <3> HIDE DEF d, e, c
      <3> QED BY <2>3, <3>2, <3>3, SeqEqual DEF e
    <2>5. a = FlattenSeq(d)
      BY <2>4 DEF SpikeTrace
    <2> HIDE DEF a, s
    <2>6. /\ FlattenSeq(d) \in Seq(SpikeItem) /\ Len(FlattenSeq(d)) <= Len(FlattenSeq(c))
          /\ \A i \in 1 .. Len(FlattenSeq(d)) : FlattenSeq(c)[i] = FlattenSeq(d)[i]
      <3> HIDE DEF c
      <3> QED BY <1>1, <1>4, FlattenPrefix DEF d
    <2> HIDE DEF d
    <2>7. InStep(d, d)
      <3>1. SameShape(d, d)
        BY DEF SameShape
      <3> QED BY <2>3, <3>1, FlattenAligned
    <2>8. ASSUME NEW i \in 1 .. Len(a) PROVE a[i].commit \in Nat /\ a[i].commit <= k
      <3>1. PICK n \in 1 .. Len(d) : \E j \in 1 .. Len(d[n]) : FlattenSeq(d)[i] = d[n][j] /\ FlattenSeq(d)[i] = d[n][j]
        BY <2>5, <2>7 DEF InStep
      <3>2. PICK j \in 1 .. Len(d[n]) : FlattenSeq(d)[i] = d[n][j]
        BY <3>1
      <3>3. n \in Nat /\ n <= k /\ n \in 1 .. k /\ n \in 1 .. Len(log)
        BY <1>1, <1>4, <2>3
      <3> DEFINE p == Part(part, log[n])  t == Lenient(part, log[n])
      <3>4. p \in Seq(Item) /\ t \in BOOLEAN /\ d[n] = IF IsRead(log, n) THEN Entries(n, p, t) ELSE <<>>
        BY <1>1, <2>3, <3>3
      <3> HIDE DEF p, t
      <3>5. Len(<<>>) = 0
        OBVIOUS
      <3>6. d[n] = Entries(n, p, t)
        BY <3>2, <3>4, <3>5
      <3>7. Len(Entries(n, p, t)) = Len(p) /\ \A m \in 1 .. Len(p) : Entries(n, p, t)[m] = Entry(n, p[m], t)
        BY <3>3, <3>4, EntriesFacts
      <3>8. a[i] = Entry(n, p[j], t)
        BY <2>5, <3>2, <3>6, <3>7
      <3>9. a[i].commit = n
        BY <3>8, EntryFields
      <3> QED BY <3>3, <3>9
    <2>9. a \in Seq(SpikeItem) /\ Len(a) <= Len(s) /\ \A i \in 1 .. Len(a) : a[i] = s[i]
      BY <1>2, <2>5, <2>6
    <2>10. Meant
      BY <1>2, <2>2, <2>8, <2>9
    <2> HIDE DEF Meant
    <2> QED BY <2>10 DEF Meant, a, s, early
  <1> QED BY <1>3, <1>4

\* The runs of the two machines: Spike's begins with the boot ROM and goes on at the entry point.
TraceInv ==
  /\ spikeRun \in Seq(AnyCommit) /\ rtlRun \in Seq(AnyCommit)
  /\ Len(spikeRun) # 0 /\ spikeRun[1] = Rom
  /\ Len(spikeRun) > 1 => spikeRun[2].pc = EntryPc

\* It holds at the start.
LEMMA TraceInitHolds == TraceInit => TraceInv
  <1> SUFFICES ASSUME TraceInit PROVE TraceInv
    OBVIOUS
  <1>1. spikeRun = <<Rom>> /\ rtlRun = <<>> /\ Rom \in AnyCommit
    BY DEF TraceInit, AnyCommit
  <1> QED BY <1>1 DEF TraceInv

\* A commit of either machine keeps it.
LEMMA TraceStep == TraceInv /\ [TraceNext]_rvars => TraceInv'
  <1> SUFFICES ASSUME TraceInv, [TraceNext]_rvars PROVE TraceInv'
    OBVIOUS
  <1>1. spikeRun \in Seq(AnyCommit) /\ Len(spikeRun) \in Nat /\ rtlRun \in Seq(AnyCommit)
    BY LenProperties DEF TraceInv
  <1>2. CASE UNCHANGED rvars
    BY <1>2 DEF TraceInv, rvars
  <1>3. ASSUME NEW c \in Commits, SpikeCommits(c) PROVE TraceInv'
    <2>1. c \in AnyCommit /\ spikeRun' = Append(spikeRun, c) /\ rtlRun' = rtlRun /\ (Len(spikeRun) = 1 => c.pc = EntryPc)
      BY <1>3 DEF SpikeCommits, AnyCommit
    <2>2. /\ spikeRun' \in Seq(AnyCommit) /\ Len(spikeRun') = Len(spikeRun) + 1 /\ spikeRun'[Len(spikeRun) + 1] = c
          /\ \A i \in 1 .. Len(spikeRun) : spikeRun'[i] = spikeRun[i]
      BY <1>1, <2>1, AppendProperties
    <2>3. Len(spikeRun) # 0 /\ spikeRun[1] = Rom /\ (Len(spikeRun) > 1 => spikeRun[2].pc = EntryPc)
      BY DEF TraceInv
    <2>4. spikeRun'[1] = Rom /\ Len(spikeRun') # 0
      BY <1>1, <2>2, <2>3
    <2>5. spikeRun'[2].pc = EntryPc
      <3>1. CASE Len(spikeRun) = 1
        BY <2>1, <2>2, <3>1
      <3>2. CASE Len(spikeRun) # 1
        <4>0. Len(spikeRun) \in Nat /\ Len(spikeRun) # 0
          BY <1>1, <2>3
        <4>1. \A n \in Nat : n # 0 /\ n # 1 => 2 \in 1 .. n /\ n > 1
          OBVIOUS
        <4>2. 2 \in 1 .. Len(spikeRun) /\ Len(spikeRun) > 1
          BY <3>2, <4>0, <4>1, Zenon
        <4> QED BY <2>2, <2>3, <4>2
      <3> QED BY <3>1, <3>2
    <2> QED BY <1>1, <2>1, <2>2, <2>4, <2>5 DEF TraceInv
  <1>4. ASSUME NEW c \in Commits, RtlCommits(c) PROVE TraceInv'
    <2>1. c \in AnyCommit /\ rtlRun' = Append(rtlRun, c) /\ spikeRun' = spikeRun
      BY <1>4 DEF RtlCommits, AnyCommit
    <2>2. rtlRun' \in Seq(AnyCommit)
      BY <1>1, <2>1, AppendProperties
    <2> QED BY <2>1, <2>2 DEF TraceInv
  <1> QED BY <1>2, <1>3, <1>4 DEF TraceNext

\* Spike's run is a log of its program.
LEMMA RunIsLog ==
  ASSUME TraceInv
  PROVE  SpikeLog(spikeRun, Tail(spikeRun))
  <1> DEFINE t == Tail(spikeRun)  y == <<Rom>> \o t
  <1>1. /\ spikeRun \in Seq(AnyCommit) /\ Len(spikeRun) \in Nat /\ Len(spikeRun) # 0 /\ spikeRun[1] = Rom
        /\ (Len(spikeRun) > 1 => spikeRun[2].pc = EntryPc) /\ Rom \in AnyCommit
    BY LenProperties DEF TraceInv, AnyCommit
  <1>2. t \in Seq(AnyCommit) /\ Len(t) = Len(spikeRun) - 1 /\ \A i \in 1 .. Len(t) : t[i] = spikeRun[i + 1]
    <2>1. spikeRun # <<>>
      BY <1>1, EmptySeq
    <2> QED BY <1>1, <2>1, HeadTailProperties
  <1> HIDE DEF t
  <1>3. Len(<<Rom>>) = 1 /\ <<Rom>> \in Seq(AnyCommit) /\ <<Rom>>[1] = Rom
    BY <1>1
  <1>4. spikeRun = <<Rom>> \o t
    <2>1. Len(spikeRun) = Len(<<Rom>>) + Len(t)
      BY <1>1, <1>2, <1>3
    <2>2. \A k \in 1 .. Len(<<Rom>>) : spikeRun[k] = <<Rom>>[k]
      BY <1>1, <1>3
    <2>3. \A k \in 1 .. Len(t) : spikeRun[Len(<<Rom>>) + k] = t[k]
      <3> SUFFICES ASSUME NEW k \in 1 .. Len(t) PROVE spikeRun[Len(<<Rom>>) + k] = t[k]
        OBVIOUS
      <3>1. Len(<<Rom>>) + k = k + 1
        BY <1>3
      <3> QED BY <1>2, <3>1
    <2> QED BY <1>1, <1>2, <1>3, <2>1, <2>2, <2>3, IsConcat
  <1>5. t # <<>> => t[1].pc = EntryPc
    <2> SUFFICES ASSUME t # <<>> PROVE t[1].pc = EntryPc
      OBVIOUS
    <2>1. 1 \in 1 .. Len(t) /\ Len(spikeRun) > 1
      BY <1>1, <1>2, EmptySeq
    <2>2. t[1] = spikeRun[1 + 1]
      BY <1>2, <2>1
    <2> QED BY <1>1, <2>1, <2>2
  <1>6. SpikeLog(spikeRun, t)
    BY <1>2, <1>4, <1>5 DEF SpikeLog
  <1> QED BY <1>6 DEF t

\* The verdict, of any two runs: whether there is a divergence, and where.
LEMMA Verdict ==
  ASSUME NEW log, NEW program, SpikeLog(log, program), NEW run \in Seq(AnyCommit),
         NEW d, d = CompareTraces(ParseSpikeCommits(log), ParseRtlTrace(RtlLines(run)))
  PROVE  /\ d = <<>> <=> /\ Agree(SpikeTrace("x", log), EntriesOf(RtlLines(run), "x"))
                         /\ Agree(SpikeTrace("m", log), EntriesOf(RtlLines(run), "m"))
         /\ d # <<>> => \E n \in Nat :
              /\ d = <<n>> /\ n <= 2 * Len(log) + 1
              /\ \A part \in Kinds : LET s == SpikeTrace(part, log)  r == EntriesOf(RtlLines(run), part)
                                     IN \A i \in Bad(s, r) : i <= Len(s) => \E j \in 1 .. i : n <= 2 * s[j].commit
  <1> DEFINE s(part) == SpikeTrace(part, log)  r(part) == EntriesOf(RtlLines(run), part)
             p(part) == FirstDivergence(s(part), r(part))
             spike == ParseSpikeCommits(log)  rtl == ParseRtlTrace(RtlLines(run))
  <1>1. spike.registers = s("x") /\ spike.memory = s("m") /\ rtl.registers = r("x") /\ rtl.memory = r("m")
    BY LogFacts, SpikeParsed DEF ParseRtlTrace
  <1>2. \A part \in Kinds : s(part) \in Seq(SpikeItem) /\ r(part) \in Seq(Item)
    <2> SUFFICES ASSUME NEW part \in Kinds PROVE s(part) \in Seq(SpikeItem) /\ r(part) \in Seq(Item)
      OBVIOUS
    <2>1. log \in Seq(AnyCommit)
      BY LogFacts
    <2>2. s(part) \in Seq(SpikeItem)
      <3> DEFINE c == SpikeCells(part, log)
      <3>1. c \in Seq(Seq(SpikeItem))
        BY <2>1, SpikeCellsFacts
      <3> HIDE DEF c
      <3>2. FlattenSeq(c) \in Seq(SpikeItem)
        BY <3>1, FlattenType
      <3> QED BY <3>2 DEF c, SpikeTrace
    <2>3. r(part) \in Seq(Item)
      <3> DEFINE c == CellsOf(part, run)
      <3>1. c \in Seq(Seq(Item))
        BY CellsOfFacts
      <3> HIDE DEF c
      <3>2. FlattenSeq(c) \in Seq(Item)
        BY <3>1, FlattenType
      <3> QED BY <3>2, RtlParsed DEF c
    <2> QED BY <2>2, <2>3
  <1> HIDE DEF s, r, spike, rtl
  <1>3. \A part \in Kinds :
          /\ p(part) = <<>> <=> Agree(s(part), r(part))
          /\ p(part) = <<>> \/ \E n \in Nat : p(part) = <<n>>
          /\ \A n \in Nat : p(part) = <<n>> => n <= 2 * Len(log) + 1
          /\ \A i \in Bad(s(part), r(part)) : i <= Len(s(part)) => \E j \in 1 .. i : p(part) = <<2 * s(part)[j].commit>>
    <2> SUFFICES ASSUME NEW part \in Kinds
                 PROVE  /\ p(part) = <<>> <=> Agree(s(part), r(part))
                        /\ p(part) = <<>> \/ \E n \in Nat : p(part) = <<n>>
                        /\ \A n \in Nat : p(part) = <<n>> => n <= 2 * Len(log) + 1
                        /\ \A i \in Bad(s(part), r(part)) : i <= Len(s(part)) => \E j \in 1 .. i : p(part) = <<2 * s(part)[j].commit>>
      BY Zenon
    <2> DEFINE a == s(part)  b == r(part)
    <2>1. a \in Seq(SpikeItem) /\ b \in Seq(Item)
      BY <1>2, Zenon
    <2> HIDE DEF a, b
    <2>2. /\ FirstDivergence(a, b) = <<>> <=> Agree(a, b)
          /\ FirstDivergence(a, b) # <<>> => \E n \in Nat : FirstDivergence(a, b) = <<n>>
          /\ \A i \in Bad(a, b) : i <= Len(a) => \E j \in 1 .. i : FirstDivergence(a, b) = <<2 * a[j].commit>>
      BY <2>1, DivergenceOf
    <2>3. \A n \in Nat : FirstDivergence(a, b) = <<n>> => n <= 2 * Len(log) + 1
      <3>1. Len(log) \in Nat /\ log \in Seq(AnyCommit) /\ Len(log) \in Int /\ Len(log) <= Len(log)
        BY LogFacts, LenProperties
      <3>2. SubSeq(log, 1, Len(log)) = log
        BY <3>1, SubSeqFull
      <3>3. LET x == SpikeTrace(part, SubSeq(log, 1, Len(log)))
            IN \A i \in 1 .. Len(x) : x[i].commit \in Nat /\ x[i].commit <= Len(log)
        BY <3>1, TraceCut
      <3>4. \A i \in 1 .. Len(a) : a[i].commit <= Len(log)
        BY <3>2, <3>3, Zenon DEF a, s
      <3> QED BY <2>1, <3>1, <3>4, DivergenceBound
    <2> QED BY <2>2, <2>3, Zenon DEF a, b
  <1> DEFINE px == p("x")  pm == p("m")
  <1>4. "x" \in Kinds /\ "m" \in Kinds /\ \A part \in Kinds : part = "x" \/ part = "m"
    BY DEF Kinds
  <1>5. px = FirstDivergence(spike.registers, rtl.registers) /\ pm = FirstDivergence(spike.memory, rtl.memory)
    BY <1>1, Zenon
  <1>6. (px = <<>> \/ \E n \in Nat : px = <<n>>) /\ (pm = <<>> \/ \E n \in Nat : pm = <<n>>)
    BY <1>3, <1>4, Zenon
  <1>7. d = CompareTraces(spike, rtl)
    BY DEF spike, rtl
  <1> HIDE DEF p
  <1>8. \A part \in Kinds : p(part) = px \/ p(part) = pm
    BY <1>4
  <1> HIDE DEF px, pm
  <1>9. /\ d = <<>> <=> px = <<>> /\ pm = <<>>
        /\ d # <<>> => \E n \in Nat : d = <<n>> /\ \A i \in Nat : px = <<i>> \/ pm = <<i>> => n <= i
    BY <1>5, <1>6, <1>7, Compared
  <1>10. d = <<>> <=> Agree(s("x"), r("x")) /\ Agree(s("m"), r("m"))
    BY <1>3, <1>4, <1>9, Zenon DEF px, pm
  <1>11. ASSUME d # <<>>
         PROVE  \E n \in Nat :
                  /\ d = <<n>> /\ n <= 2 * Len(log) + 1
                  /\ \A part \in Kinds : \A i \in Bad(s(part), r(part)) :
                       i <= Len(s(part)) => \E j \in 1 .. i : n <= 2 * s(part)[j].commit
    <2>1. PICK n \in Nat : d = <<n>> /\ \A i \in Nat : px = <<i>> \/ pm = <<i>> => n <= i
      BY <1>9, <1>11
    <2>2. ASSUME NEW part \in Kinds, NEW i \in Bad(s(part), r(part)), i <= Len(s(part))
          PROVE  \E j \in 1 .. i : n <= 2 * s(part)[j].commit
      <3>1. PICK j \in 1 .. i : p(part) = <<2 * s(part)[j].commit>>
        BY <1>3, <2>2, Zenon
      <3> DEFINE v == 2 * s(part)[j].commit
      <3>2. v \in Nat
        <4>1. p(part) # <<>> /\ \E x \in Nat : p(part) = <<x>>
          <5>1. p(part) # <<>>
            BY <3>1
          <5> QED BY <1>3, <5>1
        <4>2. PICK x \in Nat : p(part) = <<x>>
          BY <4>1
        <4> HIDE DEF v
        <4>3. <<v>> = <<x>>
          BY <3>1, <4>2 DEF v
        <4> QED BY <4>3
      <3>3. px = <<v>> \/ pm = <<v>>
        BY <1>8, <3>1
      <3> HIDE DEF v
      <3>4. n <= v
        BY <2>1, <3>2, <3>3
      <3> QED BY <3>4 DEF v
    <2>3. n <= 2 * Len(log) + 1
      <3>1. PICK part \in Kinds : p(part) # <<>>
        BY <1>4, <1>9, <1>11, Zenon DEF px, pm
      <3>2. PICK i \in Nat : p(part) = <<i>>
        BY <1>3, <3>1, Zenon
      <3>3. i <= 2 * Len(log) + 1 /\ n <= i
        BY <1>3, <1>8, <2>1, <3>2, Zenon
      <3>4. Len(log) \in Nat
        BY LogFacts, LenProperties
      <3> QED BY <3>3, <3>4
    <2> QED BY <2>1, <2>2, <2>3, Zenon
  <1> QED BY <1>10, <1>11, Zenon DEF s, r

\* No divergence is reported exactly when the machines did the same.
LEMMA ExactHolds == TraceInv => CompareExact
  <1> SUFFICES ASSUME TraceInv PROVE CompareExact
    OBVIOUS
  <1> DEFINE program == Tail(spikeRun)
             sx == SpikeTrace("x", spikeRun)  rx == EntriesOf(RtlLines(rtlRun), "x")
             sm == SpikeTrace("m", spikeRun)  rm == EntriesOf(RtlLines(rtlRun), "m")
             w == Writes(program)  v == Writes(rtlRun)
             Same == /\ Len(w) = Len(v) /\ \A i \in DOMAIN w : SameWrite(w[i], v[i])
                     /\ Stores(program) = Stores(rtlRun)
  <1>1. SpikeLog(spikeRun, program) /\ rtlRun \in Seq(AnyCommit) /\ program \in Seq(AnyCommit)
    BY RunIsLog DEF TraceInv, SpikeLog
  <1> HIDE DEF program
  <1>2. Divergence = <<>> <=> Agree(sx, rx) /\ Agree(sm, rm)
    <2> DEFINE d == Divergence
    <2>1. d = CompareTraces(ParseSpikeCommits(spikeRun), ParseRtlTrace(RtlLines(rtlRun)))
      BY DEF Divergence
    <2> HIDE DEF d
    <2>2. d = <<>> <=> /\ Agree(SpikeTrace("x", spikeRun), EntriesOf(RtlLines(rtlRun), "x"))
                       /\ Agree(SpikeTrace("m", spikeRun), EntriesOf(RtlLines(rtlRun), "m"))
      BY <1>1, <2>1, Verdict
    <2> QED BY <2>2 DEF d
  <1>3. SpikeWrote(sx, w) /\ RtlWrote(rx, v) /\ w \in Seq(AnyCommit)
    <2>1. SpikeWrote(sx, w)
      BY <1>1, SpikeWrites
    <2>2. RtlWrote(rx, v)
      BY <1>1, RtlWrites
    <2>3. w \in Seq(AnyCommit)
      <3> DEFINE c == WriteCells(program)
      <3>1. c \in Seq(Seq(AnyCommit)) /\ w = FlattenSeq(c)
        BY <1>1, WriteCellsFacts
      <3> HIDE DEF c, w
      <3> QED BY <3>1, FlattenType
    <2> QED BY <2>1, <2>2, <2>3
  <1>4. SpikeStored(sm, Stores(program)) /\ Stores(program) \in Seq(Item) /\ Stores(rtlRun) \in Seq(Item)
    BY <1>1, SpikeStores, StoresAre
  <1>5. rm = Stores(rtlRun)
    <2>1. "m" \in Kinds
      BY DEF Kinds
    <2> QED BY <1>1, <2>1, RtlParsed, StoresAre
  <1> HIDE DEF sx, rx, sm, rm, w, v
  <1>6. Agree(sx, rx) <=> Len(w) = Len(v) /\ \A i \in DOMAIN w : SameWrite(w[i], v[i])
    BY <1>3, SameWrites
  <1>7. Agree(sm, rm) <=> Stores(program) = rm
    BY <1>4, <1>5, SameStores
  <1>8. Divergence = <<>> <=> Same
    BY <1>2, <1>5, <1>6, <1>7, Zenon
  <1> QED BY <1>8, Zenon DEF CompareExact, Same, w, v, program

\* A reported divergence is the earliest.
LEMMA EarliestHolds == TraceInv => DivergenceEarliest
  <1> SUFFICES ASSUME TraceInv PROVE DivergenceEarliest
    OBVIOUS
  <1> DEFINE program == Tail(spikeRun)
  <1>1. SpikeLog(spikeRun, program) /\ rtlRun \in Seq(AnyCommit) /\ spikeRun \in Seq(AnyCommit)
    BY RunIsLog DEF TraceInv
  <1> HIDE DEF program
  <1> SUFFICES ASSUME Divergence # <<>>
               PROVE  LET before == SubSeq(spikeRun, 1, (Divergence[1] + 1) \div 2 - 1)
                          s == ParseSpikeCommits(before)   r == ParseRtlTrace(RtlLines(rtlRun))
                          agrees(a, b) == \A i \in DOMAIN a : i \in DOMAIN b /\ ~Differs(a[i], b[i])
                      IN agrees(s.registers, r.registers) /\ agrees(s.memory, r.memory)
    BY Zenon DEF DivergenceEarliest
  <1> DEFINE s(part) == SpikeTrace(part, spikeRun)  r(part) == EntriesOf(RtlLines(rtlRun), part)
             Later(n) == \A part \in Kinds : \A i \in Bad(s(part), r(part)) :
                           i <= Len(s(part)) => \E j \in 1 .. i : n <= 2 * s(part)[j].commit
  <1>2. \E n \in Nat : Divergence = <<n>> /\ n <= 2 * Len(spikeRun) + 1 /\ Later(n)
    <2> DEFINE d == Divergence
    <2>1. d = CompareTraces(ParseSpikeCommits(spikeRun), ParseRtlTrace(RtlLines(rtlRun))) /\ d # <<>>
      BY DEF Divergence
    <2> HIDE DEF d
    <2>2. \E n \in Nat :
            /\ d = <<n>> /\ n <= 2 * Len(spikeRun) + 1
            /\ \A part \in Kinds : LET a == SpikeTrace(part, spikeRun)  b == EntriesOf(RtlLines(rtlRun), part)
                                   IN \A i \in Bad(a, b) : i <= Len(a) => \E j \in 1 .. i : n <= 2 * a[j].commit
      BY <1>1, <2>1, Verdict
    <2> QED BY <2>2, Zenon DEF d
  <1>3. PICK n \in Nat : Divergence = <<n>> /\ n <= 2 * Len(spikeRun) + 1 /\ Later(n)
    BY <1>2, Zenon
  <1> DEFINE k == (n + 1) \div 2 - 1  before == SubSeq(spikeRun, 1, k)  a(part) == SpikeTrace(part, before)
  <1>4. k \in Int /\ 2 * k < n /\ k <= Len(spikeRun)
    <2>1. Len(spikeRun) \in Nat /\ n <= 2 * Len(spikeRun) + 1
      BY <1>1, <1>3, LenProperties
    <2> DEFINE l == Len(spikeRun)
    <2> HIDE DEF l, Later, s, r
    <2>2. l \in Nat /\ n <= 2 * l + 1
      BY <2>1 DEF l
    <2>3. k \in Int /\ 2 * k < n /\ k <= l
      BY <2>2
    <2> QED BY <2>3 DEF l
  <1>5. Divergence[1] = n
    BY <1>3
  <1> HIDE DEF k
  <1>6. /\ before \in Seq(AnyCommit)
        /\ \A part \in Kinds : /\ a(part) \in Seq(SpikeItem) /\ s(part) \in Seq(SpikeItem) /\ Len(a(part)) <= Len(s(part))
                               /\ \A i \in 1 .. Len(a(part)) : /\ a(part)[i] = s(part)[i] /\ a(part)[i].commit \in Nat
                                                               /\ a(part)[i].commit <= k
    <2>1. "x" \in Kinds
      BY DEF Kinds
    <2> QED BY <1>1, <1>4, <2>1, TraceCut
  <1>7. \A part \in Kinds : r(part) \in Seq(Item)
    <2> SUFFICES ASSUME NEW part \in Kinds PROVE r(part) \in Seq(Item)
      OBVIOUS
    <2> DEFINE c == CellsOf(part, rtlRun)
    <2>1. c \in Seq(Seq(Item))
      BY <1>1, CellsOfFacts
    <2> HIDE DEF c
    <2>2. FlattenSeq(c) \in Seq(Item)
      BY <2>1, FlattenType
    <2> QED BY <1>1, <2>2, RtlParsed DEF c
  <1> HIDE DEF s, r, a, before
  <1>8. ASSUME NEW part \in Kinds, NEW i \in DOMAIN a(part)
        PROVE  i \in DOMAIN r(part) /\ ~Differs(a(part)[i], r(part)[i])
    <2> DEFINE p == a(part)  t == s(part)  q == r(part)
    <2>1. /\ p \in Seq(SpikeItem) /\ t \in Seq(SpikeItem) /\ q \in Seq(Item) /\ Len(p) <= Len(t)
          /\ \A j \in 1 .. Len(p) : p[j] = t[j] /\ p[j].commit \in Nat /\ p[j].commit <= k
      BY <1>6, <1>7, Zenon
    <2>2. i \in DOMAIN p /\ \A j \in Bad(t, q) : j <= Len(t) => \E m \in 1 .. j : n <= 2 * t[m].commit
      BY <1>3, <1>8, Zenon
    <2> HIDE DEF p, t, q
    <2>3. Len(p) \in Nat /\ Len(t) \in Nat /\ i \in 1 .. Len(p) /\ i \in 1 .. Len(t) /\ i <= Len(t) /\ DOMAIN q = 1 .. Len(q) /\ Len(q) \in Nat
      <3>1. Len(p) \in Nat /\ Len(t) \in Nat /\ i \in 1 .. Len(p) /\ DOMAIN q = 1 .. Len(q) /\ Len(q) \in Nat
        BY <2>1, <2>2, LenProperties
      <3> QED BY <2>1, <3>1
    <2>4. i \notin Bad(t, q)
      <3> SUFFICES ASSUME i \in Bad(t, q) PROVE FALSE
        OBVIOUS
      <3>1. PICK m \in 1 .. i : n <= 2 * t[m].commit
        BY <2>2, <2>3
      <3>2. m \in 1 .. Len(p)
        BY <2>3
      <3> DEFINE x == t[m].commit
      <3>3. x \in Nat /\ x <= k /\ n <= 2 * x
        BY <2>1, <3>1, <3>2
      <3> HIDE DEF x
      <3> QED BY <1>4, <3>3
    <2>5. ~(i > Len(q)) /\ ~Differs(t[i], q[i])
      BY <2>1, <2>3, <2>4, BadFacts
    <2>6. i \in DOMAIN q /\ p[i] = t[i]
      BY <2>1, <2>3, <2>5
    <2> QED BY <2>5, <2>6 DEF p, t, q
  <1> DEFINE spike == ParseSpikeCommits(before)  rtl == ParseRtlTrace(RtlLines(rtlRun))
  <1>9. spike.registers = a("x") /\ spike.memory = a("m") /\ rtl.registers = r("x") /\ rtl.memory = r("m")
    BY <1>6, SpikeParsed DEF ParseRtlTrace, a, r
  <1> HIDE DEF spike, rtl
  <1>10. "x" \in Kinds /\ "m" \in Kinds
    BY DEF Kinds
  <1>11. /\ \A i \in DOMAIN spike.registers : i \in DOMAIN rtl.registers /\ ~Differs(spike.registers[i], rtl.registers[i])
         /\ \A i \in DOMAIN spike.memory : i \in DOMAIN rtl.memory /\ ~Differs(spike.memory[i], rtl.memory[i])
    BY <1>8, <1>9, <1>10, Zenon
  <1> QED BY <1>5, <1>11, Zenon DEF spike, rtl, before, k

\* The two verdicts of the comparison are true of every two runs: nothing is missed or invented, and what is
\* reported is the earliest (compare_with_spike.py:144, compare_traces).
THEOREM TraceVerdictTrue == TraceSpec => []TraceVerdict
  <1>1. TraceInit => TraceInv
    BY TraceInitHolds
  <1>2. TraceInv /\ [TraceNext]_rvars => TraceInv'
    BY TraceStep
  <1>3. TraceInv => TraceVerdict
    BY ExactHolds, EarliestHolds DEF TraceVerdict
  <1> QED BY <1>1, <1>2, <1>3, PTL DEF TraceSpec

-----------------------------------------------------------------------------
(* The comparison with Spike.                                              *)

\* The elements of S among the first n of s.
KeptOf(s, S, n) == FlattenSeq([i \in 1 .. n |-> IF s[i] \in S THEN <<s[i]>> ELSE <<>>])

\* One element more.
LEMMA KeptNext ==
  ASSUME NEW K, NEW s \in Seq(K), NEW S, NEW n \in Nat, n < Len(s)
  PROVE  /\ KeptOf(s, S, n) \in Seq(K)
         /\ KeptOf(s, S, n + 1) = IF s[n + 1] \in S THEN Append(KeptOf(s, S, n), s[n + 1]) ELSE KeptOf(s, S, n)
  <1> DEFINE c == [i \in 1 .. n + 1 |-> IF s[i] \in S THEN <<s[i]>> ELSE <<>>]
             front == [i \in 1 .. n |-> c[i]]
  <1>1. \A i \in 1 .. n + 1 : s[i] \in K
    BY ElementOfSeq, LenProperties
  <1>2. \A i \in 1 .. n + 1 : c[i] \in Seq(K)
    BY <1>1
  <1>3. c \in Seq(Seq(K)) /\ Len(c) = n + 1 /\ c # <<>> /\ Len(c) - 1 = n
    BY <1>2, IsASeq, EmptySeq
  <1>4. KeptOf(s, S, n + 1) = FlattenSeq(c) /\ KeptOf(s, S, n) = FlattenSeq(front)
    <2>1. front = [i \in 1 .. n |-> IF s[i] \in S THEN <<s[i]>> ELSE <<>>]
      OBVIOUS
    <2> HIDE DEF front
    <2> QED BY <2>1 DEF KeptOf
  <1>5. c[n + 1] = IF s[n + 1] \in S THEN <<s[n + 1]>> ELSE <<>>
    OBVIOUS
  <1> HIDE DEF c
  <1>6. FlattenSeq(c) = FlattenSeq(front) \o c[n + 1] /\ front \in Seq(Seq(K))
    BY <1>3, FlattenLast
  <1>7. FlattenSeq(front) \in Seq(K)
    BY <1>6, FlattenType
  <1> HIDE DEF front
  <1> DEFINE f == FlattenSeq(front)
  <1> HIDE DEF f
  <1>8. f \in Seq(K)
    BY <1>7 DEF f
  <1>9. Append(f, s[n + 1]) = f \o <<s[n + 1]>> /\ f \o <<>> = f
    BY <1>1, <1>8, AppendIsConcat, ConcatEmptySeq
  <1> QED BY <1>4, <1>5, <1>6, <1>8, <1>9 DEF f

\* Nothing of nothing.
LEMMA KeptNone == ASSUME NEW s, NEW S PROVE KeptOf(s, S, 0) = <<>>
  <1>1. [i \in 1 .. 0 |-> IF s[i] \in S THEN <<s[i]>> ELSE <<>>] = <<>>
    OBVIOUS
  <1> QED BY <1>1, FlattenEmpty DEF KeptOf

\* The tests selected are among those of isa_dir.
LEMMA DiscoveredTests ==
  ASSUME NEW suites
  PROVE  Discovered(suites) \in Seq(Names)
  <1> DEFINE K == ToSet(IsaFiles)  S == {f \in ToSet(IsaFiles) : f.suite \in suites}
             c == [i \in DOMAIN IsaFiles |-> IF IsaFiles[i] \in S THEN <<IsaFiles[i]>> ELSE <<>>]
             s == Kept(IsaFiles, S)
  <1>1. Len(IsaFiles) \in Nat /\ DOMAIN IsaFiles = 1 .. Len(IsaFiles)
    BY SpikeAssumption, LenProperties
  <1>2. \A i \in 1 .. Len(IsaFiles) : IsaFiles[i] \in K
    BY <1>1 DEF ToSet
  <1>3. c \in Seq(Seq(K))
    <2> HIDE DEF K, S
    <2>1. \A i \in 1 .. Len(IsaFiles) : c[i] \in Seq(K)
      BY <1>1, <1>2
    <2>2. c = [i \in 1 .. Len(IsaFiles) |-> c[i]]
      BY <1>1
    <2> HIDE DEF c
    <2> QED BY <1>1, <2>1, <2>2, IsASeq
  <1>4. s \in Seq(K)
    <2>1. FlattenSeq(c) \in Seq(K)
      BY <1>3, FlattenType
    <2> QED BY <2>1 DEF Kept
  <1>5. Discovered(suites) = [i \in DOMAIN s |-> s[i].name]
    BY DEF Discovered
  <1>6. Len(s) \in Nat /\ DOMAIN s = 1 .. Len(s) /\ \A i \in 1 .. Len(s) : s[i].name \in Names
    <2> HIDE DEF s
    <2>1. \A f \in K : f.name \in Names
      BY DEF Names
    <2> HIDE DEF K
    <2> QED BY <1>4, <2>1, LenProperties, ElementOfSeq
  <1> HIDE DEF s
  <1> QED BY <1>5, <1>6, IsASeq

\* An element appended.
LEMMA ToSetGrows ==
  ASSUME NEW K, NEW s \in Seq(K), NEW b \in K
  PROVE  ToSet(Append(s, b)) = ToSet(s) \cup {b}
  <1>1. /\ Append(s, b) \in Seq(K) /\ Len(Append(s, b)) = Len(s) + 1 /\ Append(s, b)[Len(s) + 1] = b
        /\ \A i \in 1 .. Len(s) : Append(s, b)[i] = s[i]
    BY AppendProperties
  <1>2. Len(s) \in Nat /\ DOMAIN s = 1 .. Len(s) /\ DOMAIN Append(s, b) = 1 .. Len(s) + 1
    BY <1>1, LenProperties
  <1> QED BY <1>1, <1>2 DEF ToSet

\* The empty list.
LEMMA NoElements == DOMAIN <<>> = {} /\ ToSet(<<>>) = {} /\ Len(<<>>) = 0
  <1>1. <<>> \in Seq({}) /\ Len(<<>>) = 0
    BY EmptySeq
  <1>2. DOMAIN <<>> = 1 .. 0
    BY <1>1, LenProperties
  <1> QED BY <1>1, <1>2 DEF ToSet

\* How old a trace file may be.
Ages == {"none", "old", "new"}
Outcome == [test : Names, match : BOOLEAN, spike : BOOLEAN, rtl : BOOLEAN, proof : SUBSET Ages]

\* Every variable of the job holds a value of its type.
JobTypeOK ==
  /\ tests \in Seq(Names) /\ todo \in Seq(Names) /\ results \in Seq(Outcome) /\ skipped \in Seq(Names)
  /\ at \in {"select", "test", "spike", "image", "simulate", "compare"}
  /\ {model_compiled, spike_ok, verilator_ok} \subseteq BOOLEAN
  /\ {hex_file, spike_commits, rtl_trace} \subseteq [Names -> Ages] /\ sim_build \in Ages
  /\ at = "select" => tests = <<>> /\ todo = <<>>
  /\ at # "test" /\ at # "select" => todo # <<>> /\ Elf \notin NotApplicable

\* How many of the selected tests are done.
Done == Len(tests) - Len(todo)

\* The tests done are the first ones, and each is in exactly one of the two lists, in order.
Accounted ==
  /\ Len(todo) <= Len(tests) /\ \A i \in 1 .. Len(todo) : todo[i] = tests[Done + i]
  /\ Len(skipped) + Len(results) = Done
  /\ skipped = KeptOf(tests, NotApplicable, Done)
  /\ [i \in DOMAIN results |-> results[i].test] = KeptOf(tests, ToSet(tests) \ NotApplicable, Done)
  /\ ToSet(skipped) \cup {r.test : r \in ToSet(results)} = {tests[i] : i \in 1 .. Done}

\* Nothing is done yet, in this state.
LEMMA NoneDone == tests = todo /\ tests \in Seq(Names) /\ skipped = <<>> /\ results = <<>> => Accounted
  <1> SUFFICES ASSUME tests = todo, tests \in Seq(Names), skipped = <<>>, results = <<>> PROVE Accounted
    OBVIOUS
  <1>1. Len(tests) \in Nat /\ Done = 0
    BY LenProperties DEF Done
  <1>2. KeptOf(tests, NotApplicable, Done) = <<>> /\ KeptOf(tests, ToSet(tests) \ NotApplicable, Done) = <<>>
    BY <1>1, KeptNone
  <1>3. DOMAIN results = {} /\ 1 .. 0 = {} /\ ToSet(results) = {} /\ ToSet(skipped) = {} /\ Len(skipped) + Len(results) = 0
    BY NoElements
  <1>4. [i \in DOMAIN results |-> results[i].test] = <<>>
    <2> DEFINE f == [i \in DOMAIN results |-> results[i].test]
    <2>1. f = [i \in 1 .. 0 |-> f[i]]
      BY <1>3
    <2>2. f \in Seq(Names) /\ Len(f) = 0
      BY <2>1
    <2> HIDE DEF f
    <2>3. f = <<>>
      BY <2>2, EmptySeq
    <2> QED BY <2>3 DEF f
  <1>5. ToSet(skipped) \cup {r.test : r \in ToSet(results)} = {tests[i] : i \in 1 .. Done}
    BY <1>1, <1>3
  <1> QED BY <1>1, <1>2, <1>3, <1>4, <1>5 DEF Accounted

\* How old the files are that the current test reads.
Fresh ==
  /\ at \in {"spike", "image", "simulate"} => hex_file[Elf] = "new" /\ rtl_trace[Elf] = "none"
  /\ at = "compare" => hex_file[Elf] = "new" /\ rtl_trace[Elf] # "old" /\ model_compiled
  /\ at \in {"image", "simulate", "compare"} /\ spike_ok => spike_commits[Elf] = "new"
  /\ at \in {"simulate", "compare"} => runtime_hex = Elf

\* Every comparison made so far found no divergence.
AllMatch == \A i \in DOMAIN results : results[i].match

\* A result that matches rests on this job; so will the next, unless the model was not built, and then the
\* test that found out has no trace and cannot match.
Grounded ==
  /\ AllMatch => \A i \in DOMAIN results : results[i].spike = results[i].rtl /\ results[i].proof = {"new"}
  /\ AllMatch /\ model_compiled => sim_build = "new" \/ (at = "compare" /\ rtl_trace[Elf] = "none")
  /\ status = <<0>> => AllMatch /\ todo = <<>>

\* The inductive invariant.
JobInv == JobTypeOK /\ Accounted /\ Fresh /\ Grounded

\* The inductive invariant gives the property.
LEMMA JobMeans == JobInv => JobReported
  <1> SUFFICES ASSUME JobInv PROVE JobReported
    OBVIOUS
  <1> USE DEF JobInv, JobTypeOK, Accounted
  <1>1. Len(tests) \in Nat /\ DOMAIN tests = 1 .. Len(tests) /\ Len(todo) \in Nat /\ DOMAIN todo = 1 .. Len(todo)
    BY LenProperties
  <1>2. \A S : KeptOf(tests, S, Len(tests)) = Kept(tests, S)
    BY <1>1 DEF KeptOf, Kept
  <1>3. GreenIsTrue
    <2> DEFINE green == status = <<0>>
    <2> SUFFICES ASSUME green PROVE GreenIsTrue
      BY DEF GreenIsTrue
    <2>1. AllMatch /\ todo = <<>>
      BY DEF Grounded
    <2>2. Done = Len(tests)
      BY <1>1, <2>1, EmptySeq DEF Done
    <2>3. \A i \in DOMAIN results : results[i].match /\ results[i].spike = results[i].rtl /\ results[i].proof = {"new"}
      BY <2>1 DEF Grounded, AllMatch
    <2>4. /\ [i \in DOMAIN results |-> results[i].test] = Kept(tests, ToSet(tests) \ NotApplicable)
          /\ skipped = Kept(tests, NotApplicable)
      BY <1>2, <2>2
    <2> QED BY <2>3, <2>4 DEF GreenIsTrue
  <1>4. TestsAccounted
    <2>1. Done \in Nat /\ Done + Len(todo) = Len(tests)
      BY <1>1 DEF Done
    <2>2. {tests[i] : i \in 1 .. Done} \cup ToSet(todo) = ToSet(tests)
      <3>1. ToSet(todo) = {tests[Done + i] : i \in 1 .. Len(todo)}
        <4>1. ToSet(todo) = {todo[i] : i \in 1 .. Len(todo)}
          BY <1>1 DEF ToSet
        <4>2. \A i \in 1 .. Len(todo) : todo[i] = tests[Done + i]
          OBVIOUS
        <4> HIDE DEF JobInv
        <4> QED BY <4>1, <4>2
      <3>2. ToSet(tests) = {tests[i] : i \in 1 .. Len(tests)}
        BY <1>1 DEF ToSet
      <3>3. \A i \in 1 .. Len(tests) : i \in 1 .. Done \/ \E j \in 1 .. Len(todo) : i = Done + j
        <4> SUFFICES ASSUME NEW i \in 1 .. Len(tests), i \notin 1 .. Done
                     PROVE  \E j \in 1 .. Len(todo) : i = Done + j
          OBVIOUS
        <4> HIDE DEF JobInv
        <4>1. i - Done \in 1 .. Len(todo) /\ i = Done + (i - Done)
          BY <1>1, <2>1
        <4> QED BY <4>1
      <3>4. \A j \in 1 .. Len(todo) : Done + j \in 1 .. Len(tests)
        BY <1>1, <2>1
      <3>5. \A i \in 1 .. Done : i \in 1 .. Len(tests)
        BY <1>1, <2>1
      <3> HIDE DEF JobInv, Done
      <3> QED BY <3>1, <3>2, <3>3, <3>4, <3>5
    <2>3. Len(skipped) + Len(results) + Len(todo) = Len(tests)
      BY <2>1, LenProperties
    <2> QED BY <2>2, <2>3 DEF TestsAccounted
  <1> QED BY <1>3, <1>4 DEF JobReported

\* It holds initially.
LEMMA JobInitHolds == SpikeInit => JobInv
  <1> SUFFICES ASSUME SpikeInit PROVE JobInv
    OBVIOUS
  <1> USE DEF SpikeInit
  <1>1. \A K : <<>> \in Seq(K)
    BY EmptySeq
  <1>2. JobTypeOK
    BY <1>1 DEF JobTypeOK, Ages
  <1>3. Accounted
    <2>1. tests = <<>> /\ todo = <<>> /\ results = <<>> /\ skipped = <<>>
      OBVIOUS
    <2> HIDE DEF SpikeInit
    <2> QED BY <1>1, <2>1, NoneDone
  <1>4. Fresh /\ Grounded
    <2>1. DOMAIN results = {} /\ at = "select" /\ ~model_compiled /\ status # <<0>>
      BY NoElements
    <2> HIDE DEF SpikeInit
    <2> QED BY <2>1 DEF Fresh, Grounded, AllMatch
  <1> QED BY <1>2, <1>3, <1>4 DEF JobInv

\* The first of the tests to do is the next of the selection.
LEMMA NextTest ==
  ASSUME JobInv, todo # <<>>
  PROVE  /\ Done \in Nat /\ Done < Len(tests) /\ Len(tests) \in Nat /\ Elf = tests[Done + 1] /\ Elf \in Names
         /\ Elf \in ToSet(tests)
         /\ Tail(todo) \in Seq(Names) /\ Len(Tail(todo)) = Len(todo) - 1 /\ Len(todo) \in Nat
         /\ \A i \in 1 .. Len(Tail(todo)) : Tail(todo)[i] = todo[i + 1]
  <1>1. tests \in Seq(Names) /\ todo \in Seq(Names)
    BY DEF JobInv, JobTypeOK
  <1>2. /\ Len(tests) \in Nat /\ DOMAIN tests = 1 .. Len(tests) /\ Len(todo) \in Nat /\ Len(todo) # 0
        /\ Elf \in Names /\ Elf = todo[1]
        /\ Tail(todo) \in Seq(Names) /\ Len(Tail(todo)) = Len(todo) - 1
        /\ \A i \in 1 .. Len(Tail(todo)) : Tail(todo)[i] = todo[i + 1]
    BY <1>1, HeadTailProperties, LenProperties, EmptySeq DEF Elf
  <1>3. Len(todo) <= Len(tests) /\ \A i \in 1 .. Len(todo) : todo[i] = tests[Done + i]
    BY DEF JobInv, Accounted
  <1>4. Done \in Nat /\ Done < Len(tests)
    BY <1>2, <1>3 DEF Done
  <1>5. Elf = tests[Done + 1]
    BY <1>2, <1>3
  <1>6. Elf \in ToSet(tests)
    BY <1>2, <1>4, <1>5 DEF ToSet
  <1> QED BY <1>2, <1>4, <1>5, <1>6

\* A test is handled: skipped, or its outcome recorded.
LEMMA Handled ==
  ASSUME JobInv, todo # <<>>, tests' = tests, todo' = Tail(todo),
         NEW r \in Outcome, r.test = Elf,
         \/ Elf \in NotApplicable /\ skipped' = Append(skipped, Elf) /\ results' = results
         \/ Elf \notin NotApplicable /\ results' = Append(results, r) /\ skipped' = skipped
  PROVE  Accounted' /\ skipped' \in Seq(Names) /\ results' \in Seq(Outcome)
  <1>1. /\ tests \in Seq(Names) /\ todo \in Seq(Names) /\ skipped \in Seq(Names) /\ results \in Seq(Outcome)
        /\ Len(skipped) \in Nat /\ Len(results) \in Nat /\ DOMAIN results = 1 .. Len(results)
    BY LenProperties DEF JobInv, JobTypeOK
  <1>2. /\ Done \in Nat /\ Done < Len(tests) /\ Len(tests) \in Nat /\ Elf = tests[Done + 1] /\ Elf \in Names
        /\ Elf \in ToSet(tests)
        /\ Tail(todo) \in Seq(Names) /\ Len(Tail(todo)) = Len(todo) - 1 /\ Len(todo) \in Nat
        /\ \A i \in 1 .. Len(Tail(todo)) : Tail(todo)[i] = todo[i + 1]
    BY NextTest
  <1>3. /\ Len(todo) <= Len(tests) /\ \A i \in 1 .. Len(todo) : todo[i] = tests[Done + i]
        /\ Len(skipped) + Len(results) = Done
        /\ skipped = KeptOf(tests, NotApplicable, Done)
        /\ [i \in DOMAIN results |-> results[i].test] = KeptOf(tests, ToSet(tests) \ NotApplicable, Done)
        /\ ToSet(skipped) \cup {q.test : q \in ToSet(results)} = {tests[i] : i \in 1 .. Done}
    BY DEF JobInv, Accounted
  <1>4. Done' = Done + 1
    BY <1>2 DEF Done
  <1>5. Len(todo') <= Len(tests') /\ \A i \in 1 .. Len(todo') : todo'[i] = tests'[Done' + i]
    <2>1. Len(todo') = Len(todo) - 1 /\ \A i \in 1 .. Len(todo') : todo'[i] = todo[i + 1]
      BY <1>2
    <2>2. \A i \in 1 .. Len(todo') : i + 1 \in 1 .. Len(todo) /\ Done + (i + 1) = (Done + 1) + i
      BY <1>2, <2>1
    <2>3. \A i \in 1 .. Len(todo') : todo'[i] = tests[(Done + 1) + i]
      BY <1>3, <2>1, <2>2
    <2> QED BY <1>2, <1>3, <1>4, <2>1, <2>3
  <1>6. \A S : KeptOf(tests, S, Done + 1) = IF Elf \in S THEN Append(KeptOf(tests, S, Done), Elf) ELSE KeptOf(tests, S, Done)
    BY <1>1, <1>2, KeptNext
  <1>7. {tests[i] : i \in 1 .. Done + 1} = {tests[i] : i \in 1 .. Done} \cup {Elf}
    <2>1. 1 .. Done + 1 = (1 .. Done) \cup {Done + 1}
      BY <1>2
    <2> QED BY <1>2, <2>1
  <1>8. CASE Elf \in NotApplicable /\ skipped' = Append(skipped, Elf) /\ results' = results
    <2>1. skipped' \in Seq(Names) /\ Len(skipped') = Len(skipped) + 1 /\ ToSet(skipped') = ToSet(skipped) \cup {Elf}
      <3>1. skipped \in Seq(Names) /\ Elf \in Names
        BY <1>1, <1>2
      <3>2. Append(skipped, Elf) \in Seq(Names) /\ Len(Append(skipped, Elf)) = Len(skipped) + 1
        BY <3>1, AppendProperties
      <3>3. ToSet(Append(skipped, Elf)) = ToSet(skipped) \cup {Elf}
        BY <3>1, ToSetGrows
      <3> QED BY <1>8, <3>2, <3>3
    <2>2. Len(skipped') + Len(results') = Done'
      <3>1. Len(results') = Len(results)
        BY <1>8, Zenon
      <3> QED BY <1>1, <1>2, <1>3, <1>4, <2>1, <3>1
    <2>3. skipped' = KeptOf(tests, NotApplicable, Done + 1)
      BY <1>3, <1>6, <1>8
    <2>4. [i \in DOMAIN results |-> results[i].test] = KeptOf(tests, ToSet(tests) \ NotApplicable, Done + 1)
      BY <1>3, <1>6, <1>8
    <2>5. ToSet(skipped') \cup {q.test : q \in ToSet(results)} = {tests[i] : i \in 1 .. Done + 1}
      BY <1>3, <1>7, <2>1
    <2>6. Accounted'
      BY <1>4, <1>5, <1>8, <2>2, <2>3, <2>4, <2>5 DEF Accounted
    <2> QED BY <1>1, <1>8, <2>1, <2>6
  <1>9. CASE Elf \notin NotApplicable /\ results' = Append(results, r) /\ skipped' = skipped
    <2>1. /\ results' \in Seq(Outcome) /\ Len(results') = Len(results) + 1 /\ ToSet(results') = ToSet(results) \cup {r}
          /\ results'[Len(results) + 1] = r /\ \A i \in 1 .. Len(results) : results'[i] = results[i]
      <3>1. results \in Seq(Outcome) /\ r \in Outcome
        BY <1>1
      <3> HIDE DEF Outcome
      <3>2. /\ Append(results, r) \in Seq(Outcome) /\ Len(Append(results, r)) = Len(results) + 1
            /\ Append(results, r)[Len(results) + 1] = r /\ \A i \in 1 .. Len(results) : Append(results, r)[i] = results[i]
        BY <3>1, AppendProperties
      <3>3. ToSet(Append(results, r)) = ToSet(results) \cup {r}
        BY <3>1, ToSetGrows
      <3> QED BY <1>9, <3>2, <3>3
    <2>2. Len(skipped') + Len(results') = Done'
      <3>1. Len(skipped') = Len(skipped)
        BY <1>9, Zenon
      <3> QED BY <1>1, <1>2, <1>3, <1>4, <2>1, <3>1
    <2>3. skipped' = KeptOf(tests, NotApplicable, Done + 1)
      BY <1>3, <1>6, <1>9
    <2>4. [i \in DOMAIN results' |-> results'[i].test] = KeptOf(tests, ToSet(tests) \ NotApplicable, Done + 1)
      <3> DEFINE a == [i \in DOMAIN results |-> results[i].test]
                 b == [i \in DOMAIN results' |-> results'[i].test]
      <3>1. KeptOf(tests, ToSet(tests) \ NotApplicable, Done + 1) = Append(a, Elf)
        BY <1>2, <1>3, <1>6, <1>9
      <3>2. a \in Seq(Names) /\ Len(a) = Len(results) /\ \A i \in 1 .. Len(results) : a[i] = results[i].test
        <4>1. \A i \in 1 .. Len(results) : results[i].test \in Names
          <5>1. \A i \in 1 .. Len(results) : results[i] \in Outcome
            BY <1>1, ElementOfSeq
          <5>2. \A q \in Outcome : q.test \in Names
            BY DEF Outcome
          <5> QED BY <5>1, <5>2
        <4> QED BY <1>1, <4>1, IsASeq
      <3>3. DOMAIN results' = 1 .. Len(results) + 1
        BY <2>1, LenProperties
      <3>4. b \in Seq(Names) /\ Len(b) = Len(results) + 1 /\ \A i \in 1 .. Len(results) + 1 : b[i] = results'[i].test
        <4>1. \A i \in 1 .. Len(results) + 1 : results'[i].test \in Names
          <5>1. \A i \in 1 .. Len(results) + 1 : results'[i] \in Outcome
            BY <2>1, ElementOfSeq
          <5>2. \A q \in Outcome : q.test \in Names
            BY DEF Outcome
          <5> QED BY <5>1, <5>2
        <4>2. Len(results) + 1 \in Nat
          BY <1>1
        <4> QED BY <4>1, <4>2, <3>3, IsASeq
      <3> HIDE DEF a, b
      <3> DEFINE c == Append(a, Elf)
      <3>5. /\ c \in Seq(Names) /\ Len(c) = Len(results) + 1 /\ c[Len(results) + 1] = Elf
            /\ \A i \in 1 .. Len(results) : c[i] = results[i].test
        BY <1>2, <3>2, AppendProperties
      <3> HIDE DEF c
      <3>6. \A i \in 1 .. Len(b) : b[i] = c[i]
        <4> SUFFICES ASSUME NEW i \in 1 .. Len(results) + 1 PROVE b[i] = c[i]
          BY <3>4
        <4>1. CASE i = Len(results) + 1
          BY <2>1, <3>4, <3>5, <4>1
        <4>2. CASE i # Len(results) + 1
          <5>1. i \in 1 .. Len(results)
            BY <1>1, <4>2
          <5>2. b[i] = results'[i].test /\ results'[i] = results[i] /\ c[i] = results[i].test
            BY <2>1, <3>4, <3>5, <5>1
          <5> QED BY <5>2
        <4> QED BY <4>1, <4>2
      <3>7. b = c
        BY <3>4, <3>5, <3>6, SeqEqual
      <3> QED BY <3>1, <3>7 DEF b, c
    <2>5. ToSet(skipped') \cup {q.test : q \in ToSet(results')} = {tests[i] : i \in 1 .. Done + 1}
      <3>1. {q.test : q \in ToSet(results')} = {q.test : q \in ToSet(results)} \cup {Elf}
        BY <2>1
      <3> QED BY <1>3, <1>7, <1>9, <3>1
    <2>6. Accounted'
      BY <1>4, <1>5, <2>2, <2>3, <2>4, <2>5 DEF Accounted
    <2> QED BY <1>1, <1>9, <2>1, <2>6
  <1> QED BY <1>8, <1>9

\* The case of an empty beginning, in the next state.
LEMMA NoneDoneNext == (tests = todo /\ tests \in Seq(Names) /\ skipped = <<>> /\ results = <<>>)' => Accounted'
  BY NoneDone, PTL

\* Nothing of the bookkeeping changes.
LEMMA AccountedKept ==
  ASSUME Accounted, UNCHANGED <<tests, todo, skipped, results>>
  PROVE  Accounted'
  BY DEF Accounted, Done, KeptOf

\* Neither do the outcomes.
LEMMA GroundedKept ==
  ASSUME Grounded, UNCHANGED <<results, status, todo>>,
         AllMatch /\ model_compiled' => sim_build' = "new" \/ (at' = "compare" /\ rtl_trace'[Elf] = "none")
  PROVE  Grounded'
  BY DEF Grounded, AllMatch, Elf

\* discover_tests and require_suites.
LEMMA SelectStep ==
  ASSUME JobInv, NEW isaDir \in BOOLEAN, NEW suites \in SUBSET Suites, NEW limit \in 0 .. MaxLimit,
         Select(isaDir, suites, limit)
  PROVE  JobInv'
  <1> DEFINE all == Discovered(suites)
             chosen == IF limit > 0 THEN SubSeq(all, 1, IF limit < Len(all) THEN limit ELSE Len(all)) ELSE all
  <1>1. all \in Seq(Names)
    BY DiscoveredTests
  <1>2. /\ at = "select" /\ status = <<>>
        /\ \/ status' \in {<<1>>, <<2>>} /\ UNCHANGED <<tests, todo, at>>
           \/ tests' = chosen /\ todo' = chosen /\ at' = "test" /\ UNCHANGED status
        /\ UNCHANGED <<model_compiled, results, skipped, spike_ok, verilator_ok, files>>
    BY DEF Select
  <1>3. chosen \in Seq(Names)
    <2> HIDE DEF all
    <2>1. Len(all) \in Nat /\ limit \in Nat
      <3>1. MaxLimit \in Nat
        BY SpikeAssumption, Zenon
      <3> QED BY <1>1, <3>1, LenProperties
    <2>2. \A k \in 0 .. Len(all) : SubSeq(all, 1, k) \in Seq(Names)
      <3> SUFFICES ASSUME NEW k \in 0 .. Len(all) PROVE SubSeq(all, 1, k) \in Seq(Names)
        OBVIOUS
      <3>1. \A i \in 1 .. k : all[i] \in Names
        BY <1>1, <2>1, ElementOfSeq
      <3> QED BY <1>1, <2>1, <3>1, SubSeqProperties
    <2> QED BY <1>1, <2>1, <2>2
  <1> HIDE DEF chosen
  <1>4. JobTypeOK /\ Accounted /\ Fresh /\ Grounded
    BY DEF JobInv
  <1>5. tests = <<>> /\ todo = <<>> /\ skipped = <<>> /\ results = <<>>
    <2>1. tests = <<>> /\ todo = <<>>
      BY <1>2, <1>4 DEF JobTypeOK
    <2>2. Len(skipped) + Len(results) = 0
      BY <1>4, <2>1, NoElements DEF Accounted, Done
    <2>3. skipped \in Seq(Names) /\ results \in Seq(Outcome)
      BY <1>4 DEF JobTypeOK
    <2>4. Len(skipped) = 0 /\ Len(results) = 0
      BY <2>2, <2>3, LenProperties
    <2> QED BY <2>1, <2>3, <2>4, EmptySeq
  <1>6. Accounted'
    <2>1. CASE UNCHANGED <<tests, todo, at>>
      BY <1>2, <1>4, <2>1, AccountedKept
    <2>2. CASE tests' = chosen /\ todo' = chosen
      BY <1>2, <1>3, <1>5, <2>2, NoneDoneNext
    <2> QED BY <1>2, <2>1, <2>2
  <1>7. JobTypeOK'
    BY <1>2, <1>3, <1>4 DEF JobTypeOK, files, Elf
  <1>8. Fresh'
    BY <1>2, <1>4 DEF Fresh, files, Elf
  <1>9. Grounded'
    <2>1. status' # <<0>>
      BY <1>2
    <2> QED BY <1>2, <1>4, <2>1 DEF Grounded, AllMatch, files, Elf
  <1> QED BY <1>6, <1>7, <1>8, <1>9 DEF JobInv

\* A test of the script's table.
LEMMA SkipStep == ASSUME JobInv, Skip PROVE JobInv'
  <1>1. /\ status = <<>> /\ at = "test" /\ todo # <<>> /\ Elf \in NotApplicable
        /\ skipped' = Append(skipped, Elf) /\ todo' = Tail(todo)
        /\ UNCHANGED <<tests, status, at, model_compiled, results, spike_ok, verilator_ok, files>>
    BY DEF Skip, At, locals
  <1>2. JobTypeOK /\ Accounted /\ Fresh /\ Grounded
    BY DEF JobInv
  <1>3. Elf \in Names /\ Tail(todo) \in Seq(Names)
    BY <1>1, NextTest
  <1> DEFINE r == [test |-> Elf, match |-> FALSE, spike |-> FALSE, rtl |-> FALSE, proof |-> {}]
  <1>4. r \in Outcome /\ r.test = Elf
    BY <1>3 DEF Outcome
  <1> HIDE DEF r
  <1>5. Accounted' /\ skipped' \in Seq(Names) /\ results' \in Seq(Outcome)
    BY <1>1, <1>4, Handled
  <1>6. JobTypeOK'
    BY <1>1, <1>2, <1>3, <1>5 DEF JobTypeOK, files, Elf
  <1>7. Fresh' /\ Grounded'
    BY <1>1, <1>2 DEF Fresh, Grounded, AllMatch, files, Elf
  <1> QED BY <1>5, <1>6, <1>7 DEF JobInv

\* An exception.
LEMMA RaisesStep == ASSUME JobInv, Raises PROVE JobInv'
  <1> DEFINE r == [test |-> Elf, match |-> FALSE, spike |-> FALSE, rtl |-> FALSE, proof |-> {}]
  <1>1. /\ status = <<>> /\ at \in {"test", "spike", "image", "simulate", "compare"} /\ todo # <<>>
        /\ (at = "test" => Elf \notin NotApplicable)
        /\ results' = Append(results, r) /\ todo' = Tail(todo) /\ at' = "test"
        /\ UNCHANGED <<tests, status, model_compiled, skipped, spike_ok, verilator_ok, hex_file, spike_commits, rtl_trace, sim_build>>
    BY DEF Raises, locals
  <1>2. JobTypeOK /\ Accounted /\ Fresh /\ Grounded
    BY DEF JobInv
  <1>3. Elf \in Names /\ Tail(todo) \in Seq(Names) /\ Elf \notin NotApplicable
    <2>1. Elf \in Names /\ Tail(todo) \in Seq(Names)
      BY <1>1, NextTest
    <2> QED BY <1>1, <1>2, <2>1 DEF JobTypeOK
  <1>4. r \in Outcome /\ r.test = Elf /\ ~r.match
    BY <1>3 DEF Outcome
  <1> HIDE DEF r
  <1>5. Accounted' /\ skipped' \in Seq(Names) /\ results' \in Seq(Outcome)
    BY <1>1, <1>3, <1>4, Handled
  <1>6. JobTypeOK'
    BY <1>1, <1>2, <1>3, <1>5 DEF JobTypeOK, Elf
  <1>7. ~AllMatch'
    <2>1. results \in Seq(Outcome)
      BY <1>2 DEF JobTypeOK
    <2>2. results'[Len(results) + 1] = r /\ Len(results') = Len(results) + 1 /\ Len(results) \in Nat
      BY <1>1, <1>4, <2>1, AppendProperties, LenProperties
    <2>3. Len(results) + 1 \in DOMAIN results'
      BY <1>5, <2>2, LenProperties
    <2> QED BY <1>4, <2>2, <2>3 DEF AllMatch
  <1>8. Fresh' /\ Grounded'
    BY <1>1, <1>2, <1>7 DEF Fresh, Grounded
  <1> QED BY <1>5, <1>6, <1>8 DEF JobInv

\* The ELF file is converted.
LEMMA ConvertStep == ASSUME JobInv, Convert PROVE JobInv'
  <1>1. /\ status = <<>> /\ at = "test" /\ todo # <<>> /\ Elf \notin NotApplicable
        /\ hex_file' = [hex_file EXCEPT ![Elf] = "new"]
        /\ rtl_trace' = [rtl_trace EXCEPT ![Elf] = "none"]
        /\ at' = "spike"
        /\ UNCHANGED <<tests, status, todo, model_compiled, results, skipped, spike_ok, verilator_ok, spike_commits, runtime_hex, sim_build>>
    BY DEF Convert, At, locals
  <1>2. JobTypeOK /\ Accounted /\ Fresh /\ Grounded
    BY DEF JobInv
  <1>3. Elf \in Names
    BY <1>1, NextTest
  <1>4. Accounted'
    BY <1>1, <1>2, AccountedKept
  <1>5. JobTypeOK'
    BY <1>1, <1>2, <1>3 DEF JobTypeOK, Elf, Ages
  <1>6. hex_file'[Elf] = "new" /\ rtl_trace'[Elf] = "none"
    BY <1>1, <1>2, <1>3 DEF JobTypeOK
  <1>7. Fresh'
    BY <1>1, <1>6 DEF Fresh, Elf
  <1>8. Grounded'
    BY <1>1, <1>2, GroundedKept DEF Grounded
  <1> QED BY <1>4, <1>5, <1>7, <1>8 DEF JobInv

\* Spike runs.
LEMMA RunSpikeStep == ASSUME JobInv, RunSpike PROVE JobInv'
  <1>1. /\ status = <<>> /\ at = "spike" /\ todo # <<>> /\ at' = "image" /\ spike_ok' \in BOOLEAN
        /\ spike_commits' = [spike_commits EXCEPT ![Elf] = "new"] \/ (~spike_ok' /\ spike_commits' = spike_commits)
        /\ UNCHANGED <<tests, status, todo, model_compiled, results, skipped, verilator_ok, hex_file, rtl_trace, runtime_hex, sim_build>>
    BY DEF RunSpike, At, locals
  <1>2. JobTypeOK /\ Accounted /\ Fresh /\ Grounded
    BY DEF JobInv
  <1>3. Elf \in Names
    BY <1>1, NextTest
  <1>4. Accounted'
    BY <1>1, <1>2, AccountedKept
  <1>5. JobTypeOK'
    BY <1>1, <1>2, <1>3 DEF JobTypeOK, Elf, Ages
  <1>6. spike_ok' => spike_commits'[Elf] = "new"
    BY <1>1, <1>2, <1>3 DEF JobTypeOK
  <1>7. Fresh'
    BY <1>1, <1>2, <1>6 DEF Fresh, Elf
  <1>8. Grounded'
    BY <1>1, <1>2, GroundedKept DEF Grounded
  <1> QED BY <1>4, <1>5, <1>7, <1>8 DEF JobInv

\* The image is written.
LEMMA WriteImageStep == ASSUME JobInv, WriteImage PROVE JobInv'
  <1>1. /\ status = <<>> /\ at = "image" /\ todo # <<>> /\ at' = "simulate" /\ runtime_hex' = Elf
        /\ UNCHANGED <<tests, status, todo, model_compiled, results, skipped, spike_ok, verilator_ok, hex_file, spike_commits, rtl_trace, sim_build>>
    BY DEF WriteImage, At, locals
  <1>2. JobTypeOK /\ Accounted /\ Fresh /\ Grounded
    BY DEF JobInv
  <1>3. Accounted'
    BY <1>1, <1>2, AccountedKept
  <1>4. JobTypeOK'
    BY <1>1, <1>2 DEF JobTypeOK, Elf
  <1>5. Fresh'
    BY <1>1, <1>2 DEF Fresh, Elf
  <1>6. Grounded'
    BY <1>1, <1>2, GroundedKept DEF Grounded
  <1> QED BY <1>3, <1>4, <1>5, <1>6 DEF JobInv

\* The simulation runs, or does not.
LEMMA SimulateStep == ASSUME JobInv, Simulate PROVE JobInv'
  <1> DEFINE build == IF ~model_compiled \/ sim_build = "none" THEN "new" ELSE sim_build
  <1>1. /\ status = <<>> /\ at = "simulate" /\ todo # <<>> /\ at' = "compare" /\ model_compiled' = TRUE
        /\ \/ verilator_ok' = FALSE /\ sim_build' \in {"none", sim_build} /\ UNCHANGED rtl_trace
           \/ /\ verilator_ok' \in BOOLEAN /\ sim_build' = build
              /\ rtl_trace' = [rtl_trace EXCEPT ![Elf] = "new"]
        /\ UNCHANGED <<tests, status, todo, results, skipped, spike_ok, hex_file, spike_commits, runtime_hex>>
    BY DEF Simulate, At, locals
  <1>2. JobTypeOK /\ Accounted /\ Fresh /\ Grounded
    BY DEF JobInv
  <1>3. Elf \in Names
    BY <1>1, NextTest
  <1>4. Accounted'
    BY <1>1, <1>2, AccountedKept
  <1>5. JobTypeOK'
    <2>1. build \in Ages
      BY <1>2 DEF JobTypeOK, Ages
    <2> HIDE DEF build
    <2> QED BY <1>1, <1>2, <1>3, <2>1 DEF JobTypeOK, Elf, Ages
  <1>6. rtl_trace[Elf] = "none" /\ (rtl_trace' = [rtl_trace EXCEPT ![Elf] = "new"] => rtl_trace'[Elf] = "new")
    BY <1>1, <1>2, <1>3 DEF JobTypeOK, Fresh
  <1>7. Fresh'
    BY <1>1, <1>2, <1>6 DEF Fresh, Elf
  <1>8. Grounded'
    <2>1. AllMatch /\ model_compiled => sim_build = "new"
      BY <1>1, <1>2 DEF Grounded
    <2>2. AllMatch => sim_build' = "new" \/ (at' = "compare" /\ rtl_trace'[Elf] = "none")
      BY <1>1, <1>6, <2>1
    <2> QED BY <1>1, <1>2, <2>2, GroundedKept
  <1> QED BY <1>4, <1>5, <1>7, <1>8 DEF JobInv

\* The outcomes and the traces are compared.  With an empty TRACE_NOT_COMPARABLE a match needs a trace.
LEMMA CompareStep ==
  ASSUME TraceNotComparable = {}, JobInv, NEW equal \in BOOLEAN, Compare(equal)
  PROVE  JobInv'
  <1> DEFINE present == rtl_trace[Elf] # "none" /\ spike_commits[Elf] # "none"
             same == spike_ok = verilator_ok /\ present /\ equal
             proof == {hex_file[Elf], rtl_trace[Elf], IF runtime_hex = Elf THEN "new" ELSE "old", sim_build}
                        \cup (IF spike_ok THEN {spike_commits[Elf]} ELSE {})
             r == [test |-> Elf, match |-> same, spike |-> spike_ok, rtl |-> verilator_ok, proof |-> proof]
  <1>1. /\ status = <<>> /\ at = "compare" /\ todo # <<>> /\ at' = "test" /\ todo' = Tail(todo)
        /\ results' = Append(results, r)
        /\ UNCHANGED <<tests, status, model_compiled, skipped, spike_ok, verilator_ok, files>>
    <2>1. results' = Append(results,
             [test |-> Elf, match |-> spike_ok = verilator_ok /\ (Elf \in TraceNotComparable \/ (present /\ equal)),
              spike |-> spike_ok, rtl |-> verilator_ok, proof |-> proof])
      BY DEF Compare
    <2>2. (spike_ok = verilator_ok /\ (Elf \in TraceNotComparable \/ (present /\ equal))) = same
      OBVIOUS
    <2> HIDE DEF proof, same
    <2> QED BY <2>1, <2>2 DEF Compare, At, locals
  <1>2. JobTypeOK /\ Accounted /\ Fresh /\ Grounded
    BY DEF JobInv
  <1>3. Elf \in Names /\ Tail(todo) \in Seq(Names)
    BY <1>1, NextTest
  <1>4. Elf \notin NotApplicable
    BY <1>1, <1>2 DEF JobTypeOK
  <1>5. proof \subseteq Ages
    BY <1>2, <1>3 DEF JobTypeOK, Ages
  <1>6. same \in BOOLEAN /\ spike_ok \in BOOLEAN /\ verilator_ok \in BOOLEAN
    BY <1>2 DEF JobTypeOK
  <1>7. AllMatch /\ same => proof = {"new"} /\ spike_ok = verilator_ok /\ sim_build = "new"
    <2> SUFFICES ASSUME AllMatch, same PROVE proof = {"new"} /\ spike_ok = verilator_ok /\ sim_build = "new"
      OBVIOUS
    <2>1. rtl_trace[Elf] = "new" /\ hex_file[Elf] = "new" /\ runtime_hex = Elf /\ model_compiled
      <3>1. rtl_trace[Elf] \in Ages
        BY <1>2, <1>3 DEF JobTypeOK
      <3> QED BY <1>1, <1>2, <3>1 DEF Fresh, Ages
    <2>2. sim_build = "new"
      BY <1>2, <2>1 DEF Grounded
    <2>3. spike_ok => spike_commits[Elf] = "new"
      BY <1>1, <1>2 DEF Fresh
    <2> QED BY <2>1, <2>2, <2>3
  <1>8. r \in Outcome /\ r.test = Elf /\ r.match = same /\ r.spike = spike_ok /\ r.rtl = verilator_ok /\ r.proof = proof
    <2> HIDE DEF proof, same
    <2> QED BY <1>3, <1>5, <1>6 DEF Outcome
  <1> HIDE DEF r, proof, same, present
  <1>9. Accounted' /\ skipped' \in Seq(Names) /\ results' \in Seq(Outcome)
    BY <1>1, <1>4, <1>8, Handled
  <1>10. JobTypeOK'
    BY <1>1, <1>2, <1>3, <1>9 DEF JobTypeOK, files, Elf
  <1>11. Fresh'
    BY <1>1 DEF Fresh
  <1>12. Grounded'
    <2>1. results \in Seq(Outcome)
      BY <1>2 DEF JobTypeOK
    <2>2. /\ results'[Len(results) + 1] = r /\ Len(results') = Len(results) + 1 /\ Len(results) \in Nat
          /\ \A i \in 1 .. Len(results) : results'[i] = results[i]
      BY <1>1, <1>8, <2>1, AppendProperties, LenProperties
    <2>3. DOMAIN results = 1 .. Len(results) /\ DOMAIN results' = 1 .. Len(results) + 1
      BY <1>9, <2>1, <2>2, LenProperties
    <2>4. AllMatch' => AllMatch /\ same
      <3> SUFFICES ASSUME AllMatch' PROVE AllMatch /\ same
        OBVIOUS
      <3>1. \A i \in 1 .. Len(results) + 1 : results'[i].match
        BY <2>3 DEF AllMatch
      <3>2. Len(results) + 1 \in 1 .. Len(results) + 1 /\ \A i \in 1 .. Len(results) : i \in 1 .. Len(results) + 1
        BY <2>2
      <3>3. r.match
        BY <2>2, <3>1, <3>2
      <3>4. \A i \in 1 .. Len(results) : results[i].match
        BY <2>2, <3>1, <3>2
      <3> QED BY <1>8, <2>3, <3>3, <3>4 DEF AllMatch
    <2>5. AllMatch' => \A i \in DOMAIN results' : results'[i].spike = results'[i].rtl /\ results'[i].proof = {"new"}
      <3> SUFFICES ASSUME AllMatch', NEW i \in 1 .. Len(results) + 1
                   PROVE  results'[i].spike = results'[i].rtl /\ results'[i].proof = {"new"}
        BY <2>3
      <3>1. CASE i = Len(results) + 1
        BY <1>7, <1>8, <2>2, <2>4, <3>1
      <3>2. CASE i # Len(results) + 1
        <4>1. i \in 1 .. Len(results)
          BY <2>2, <3>2
        <4>2. results[i].spike = results[i].rtl /\ results[i].proof = {"new"}
          BY <1>2, <2>3, <2>4, <4>1 DEF Grounded
        <4> QED BY <2>2, <4>1, <4>2
      <3> QED BY <3>1, <3>2
    <2>6. AllMatch' => sim_build' = "new"
      BY <1>1, <1>7, <2>4 DEF files
    <2> QED BY <1>1, <2>5, <2>6 DEF Grounded
  <1> QED BY <1>9, <1>10, <1>11, <1>12 DEF JobInv

\* The job ends.
LEMMA ReportStep == ASSUME JobInv, Report PROVE JobInv'
  <1>1. /\ at = "test" /\ todo = <<>> /\ status = <<>>
        /\ status' \in {IF Mismatches = {} THEN <<0>> ELSE <<1>>, <<1>>}
        /\ UNCHANGED <<tests, at, todo, model_compiled, results, skipped, spike_ok, verilator_ok, files>>
    BY DEF Report
  <1>2. JobTypeOK /\ Accounted /\ Fresh /\ Grounded
    BY DEF JobInv
  <1>3. Accounted'
    BY <1>1, <1>2, AccountedKept
  <1>4. JobTypeOK'
    BY <1>1, <1>2 DEF JobTypeOK, files, Elf
  <1>5. Fresh'
    BY <1>1, <1>2 DEF Fresh, files, Elf
  <1>6. status' = <<0>> => AllMatch
    <2>1. status' = <<0>> => Mismatches = {}
      BY <1>1
    <2>2. Mismatches = {} => AllMatch
      BY DEF Mismatches, AllMatch, ToSet
    <2> QED BY <2>1, <2>2
  <1>7. Grounded'
    BY <1>1, <1>2, <1>6 DEF Grounded, AllMatch, files, Elf
  <1> QED BY <1>3, <1>4, <1>5, <1>7 DEF JobInv

\* A green job is a true one, and no test is lost, whatever fails and whatever earlier jobs left behind, for
\* any test directory and table of tests that do not apply, as long as every trace is compared (the script's
\* TRACE_NOT_COMPARABLE is empty).
THEOREM GreenJobTrue == ASSUME TraceNotComparable = {} PROVE SpikeSpec => []JobReported
  <1>1. SpikeInit => JobInv
    BY JobInitHolds
  <1>2. JobInv /\ [SpikeNext]_svars => JobInv'
    <2>1. ASSUME JobInv, UNCHANGED svars PROVE JobInv'
      <3>1. Accounted'
        BY <2>1, AccountedKept DEF JobInv, svars
      <3>2. JobTypeOK'
        BY <2>1 DEF JobInv, JobTypeOK, svars, files, Elf
      <3>3. Fresh'
        BY <2>1 DEF JobInv, Fresh, svars, files, Elf
      <3>4. Grounded'
        BY <2>1 DEF JobInv, Grounded, AllMatch, svars, files, Elf
      <3> QED BY <3>1, <3>2, <3>3, <3>4 DEF JobInv
    <2> QED BY <2>1, SelectStep, SkipStep, RaisesStep, ConvertStep, RunSpikeStep, WriteImageStep, SimulateStep,
               CompareStep, ReportStep DEF SpikeNext
  <1>3. JobInv => JobReported
    BY JobMeans
  <1> QED BY <1>1, <1>2, <1>3, PTL DEF SpikeSpec

\* Concatenation of lists of numbers is associative.
LEMMA NatAssoc == \A a, b, d \in Seq(Nat) : (a \o b) \o d = a \o (b \o d)
  <1> DEFINE K == Nat
  <1>1. \A a, b, d \in Seq(K) : (a \o b) \o d = a \o (b \o d)
    <2> HIDE DEF K
    <2> QED BY ConcatAssociative
  <1> QED BY <1>1

-----------------------------------------------------------------------------
(* The interactive console, output side: the stream of bytes from the      *)
(* client back to the transmitter.                                         *)

\* An element passes from the head of one list to the end of the list before it.
LEMMA PassedOn ==
  ASSUME NEW a \in Seq(Nat), NEW b \in Seq(Nat), b # <<>>
  PROVE  Append(a, Head(b)) \o Tail(b) = a \o b
  <1>1. Head(b) \in Nat /\ Tail(b) \in Seq(Nat) /\ <<Head(b)>> \in Seq(Nat)
    BY HeadTailProperties
  <1>2. Append(a, Head(b)) = a \o <<Head(b)>>
    BY <1>1, AppendIsConcat
  <1>3. <<Head(b)>> \o Tail(b) = b
    <2> DEFINE w == <<Head(b)>>
               z == w \o Tail(b)
    <2>1. z \in Seq(Nat) /\ Len(z) = 1 + Len(Tail(b)) /\ \A i \in 1 .. 1 + Len(Tail(b)) : z[i] = IF i <= 1 THEN w[i] ELSE Tail(b)[i - 1]
      BY <1>1, ConcatProperties
    <2>2. Len(b) = 1 + Len(Tail(b)) /\ Len(b) \in Nat /\ \A i \in 2 .. Len(b) : Tail(b)[i - 1] = b[i]
      BY HeadTailProperties, EmptySeq
    <2>3. w[1] = b[1]
      OBVIOUS
    <2>4. \A i \in 1 .. Len(z) : z[i] = b[i]
      <3> SUFFICES ASSUME NEW i \in 1 .. Len(z) PROVE z[i] = b[i]
        OBVIOUS
      <3> CASE i = 1
        BY <2>1, <2>3
      <3> CASE i # 1
        <4> HIDE DEF z, w
        <4> QED BY <2>1, <2>2
      <3> QED OBVIOUS
    <2> HIDE DEF z
    <2>5. z = b
      BY <2>1, <2>2, <2>4, SeqEqual
    <2> QED BY <2>5 DEF z
  <1>4. (a \o <<Head(b)>>) \o Tail(b) = a \o (<<Head(b)>> \o Tail(b))
    BY <1>1, ConcatAssoc
  <1> QED BY <1>2, <1>3, <1>4, Zenon

\* Two lists in one, element by element.
LEMMA InConcat ==
  ASSUME NEW a \in Seq(Nat), NEW b \in Seq(Nat)
  PROVE  /\ a \o b \in Seq(Nat) /\ Len(a) \in Nat /\ Len(b) \in Nat /\ Len(a \o b) = Len(a) + Len(b)
         /\ DOMAIN (a \o b) = 1 .. Len(a) + Len(b)
         /\ \A i \in 1 .. Len(a) : (a \o b)[i] = a[i]
         /\ \A i \in 1 .. Len(b) : (a \o b)[Len(a) + i] = b[i]
         /\ \A i \in Len(a) + 1 .. Len(a) + Len(b) : (a \o b)[i] = b[i - Len(a)]
  <1>1. a \o b \in Seq(Nat) /\ Len(a \o b) = Len(a) + Len(b) /\ Len(a) \in Nat /\ Len(b) \in Nat
    BY ConcatProperties, LenProperties
  <1>2. DOMAIN (a \o b) = 1 .. Len(a) + Len(b)
    BY <1>1, LenProperties
  <1>3. \A i \in 1 .. Len(a) + Len(b) : (a \o b)[i] = IF i <= Len(a) THEN a[i] ELSE b[i - Len(a)]
    BY ConcatProperties
  <1> DEFINE c == a \o b
  <1> HIDE DEF c
  <1>4. \A i \in 1 .. Len(a) : c[i] = a[i]
    BY <1>1, <1>3 DEF c
  <1>5. \A i \in Len(a) + 1 .. Len(a) + Len(b) : c[i] = b[i - Len(a)]
    BY <1>1, <1>3 DEF c
  <1>6. \A i \in 1 .. Len(b) : c[Len(a) + i] = b[i]
    <2> SUFFICES ASSUME NEW i \in 1 .. Len(b) PROVE c[Len(a) + i] = b[i]
      OBVIOUS
    <2>1. Len(a) + i \in Len(a) + 1 .. Len(a) + Len(b) /\ (Len(a) + i) - Len(a) = i
      BY <1>1
    <2> QED BY <2>1, <1>5
  <1> QED BY <1>1, <1>2, <1>4, <1>5, <1>6 DEF c

\* What is true of the bytes on their way, the ones the client has read included.
StreamKept(s) ==
  /\ s \in Seq(Nat) /\ (\A i \in 1 .. Len(s) : s[i] \in 1 .. emitted) /\ Len(s) <= emitted
  /\ \A i, j \in 1 .. Len(s) : s[i] = s[j] => i = j
  /\ \A b \in 1 .. emitted : b + Backlog > emitted => \E i \in 1 .. Len(s) : s[i] = b
  /\ Len(s) < emitted => emitted > Room + Backlog
  /\ ~midcall => \A i, j \in 1 .. Len(s) : i < j => s[i] < s[j]

PtyTypeOK ==
  /\ emitted \in Nat /\ midcall \in BOOLEAN /\ flushing \in BOOLEAN /\ call \in {"idle", "write_byte", "flush_backlog"}
  /\ kernel \in Seq(Nat) /\ tx_backlog \in Seq(Nat) /\ seen \in Seq(Nat)
  /\ Len(kernel) <= Room /\ Len(tx_backlog) <= Backlog
  /\ flushing => call # "idle"

\* The bytes the client has not reached: the backlog and the byte in hand.
Queued == tx_backlog \o InHand

\* A write_byte whose flush has left a backlog has no room, unless the client has read since.
PtyInv ==
  /\ PtyTypeOK /\ StreamKept(Stream)
  /\ \A i, j \in 1 .. Len(Queued) : i < j => Queued[i] < Queued[j]
  /\ call = "write_byte" /\ ~flushing /\ ~midcall /\ tx_backlog # <<>> => Len(kernel) = Room

\* The stream in two parts.
LEMMA StreamParts ==
  ASSUME PtyTypeOK
  PROVE  /\ InHand \in Seq(Nat) /\ Queued \in Seq(Nat) /\ seen \o kernel \in Seq(Nat)
         /\ Stream = (seen \o kernel) \o Queued
  <1>1. InHand \in Seq(Nat)
    BY DEF PtyTypeOK, InHand
  <1>2. seen \o kernel \in Seq(Nat) /\ Queued \in Seq(Nat)
    BY <1>1, ConcatProperties DEF PtyTypeOK, Queued
  <1>3. ((seen \o kernel) \o tx_backlog) \o InHand = (seen \o kernel) \o (tx_backlog \o InHand)
    <2> DEFINE a == seen \o kernel
               h == InHand
    <2>1. tx_backlog \in Seq(Nat)
      BY DEF PtyTypeOK
    <2>2. a \in Seq(Nat) /\ h \in Seq(Nat)
      BY <1>1, <1>2
    <2> HIDE DEF a, h
    <2>3. (a \o tx_backlog) \o h = a \o (tx_backlog \o h)
      BY <2>1, <2>2, ConcatAssoc
    <2> QED BY <2>3 DEF a, h
  <1> QED BY <1>1, <1>2, <1>3, Zenon DEF Queued, Stream

LEMMA StreamPartsNext ==
  PtyTypeOK' => Queued' \in Seq(Nat) /\ Stream' = (seen' \o kernel') \o Queued'
  <1>1. PtyTypeOK => Queued \in Seq(Nat) /\ Stream = (seen \o kernel) \o Queued
    BY StreamParts
  <1>2. (PtyTypeOK => Queued \in Seq(Nat) /\ Stream = (seen \o kernel) \o Queued)'
    BY <1>1, PTL
  <1> QED BY <1>2

\* The inductive invariant gives the property.
LEMMA PtyMeans == PtyInv => OutputKept
  <1> SUFFICES ASSUME PtyInv PROVE OutputKept
    OBVIOUS
  <1> DEFINE s == Stream
  <1>1. StreamKept(s) /\ s = Stream
    BY DEF PtyInv
  <1> HIDE DEF s
  <1>2. DOMAIN s = 1 .. Len(s) /\ ToSet(s) = {s[i] : i \in 1 .. Len(s)}
    BY <1>1, LenProperties DEF StreamKept, ToSet
  <1>3. IsInjective(s) /\ (~midcall => Increasing(s))
    BY <1>1, <1>2 DEF StreamKept, IsInjective, Increasing
  <1>4. \A b \in 1 .. emitted : b + Backlog > emitted => b \in ToSet(s)
    BY <1>1, <1>2 DEF StreamKept
  <1> QED BY <1>1, <1>3, <1>4 DEF OutputKept, StreamKept

\* It holds initially.
LEMMA PtyInitHolds == PtyInit => PtyInv
  <1> SUFFICES ASSUME PtyInit PROVE PtyInv
    OBVIOUS
  <1>1. <<>> \in Seq(Nat) /\ Len(<<>>) = 0 /\ <<>> \o <<>> = <<>>
    BY EmptySeq, ConcatEmptySeq
  <1>2. PtyTypeOK
    <2>1. Room \in Nat /\ Backlog \in Nat
      BY PtyAssumption
    <2>2. 0 <= Room /\ 0 <= Backlog
      BY <2>1
    <2> QED BY <1>1, <2>2 DEF PtyInit, PtyTypeOK
  <1>3. Queued = <<>> /\ Stream = <<>>
    BY <1>1 DEF PtyInit, Queued, Stream, InHand
  <1>4. StreamKept(<<>>)
    BY <1>1 DEF StreamKept, PtyInit
  <1> QED BY <1>1, <1>2, <1>3, <1>4 DEF PtyInv, PtyInit

\* The stream stays as it is: the client reads, or the backlog is flushed by a byte.
LEMMA StreamStays ==
  ASSUME StreamKept(Stream), Stream' = Stream, emitted' = emitted, midcall => midcall'
  PROVE  StreamKept(Stream)'
  <1> DEFINE s == Stream
  <1>1. StreamKept(s) /\ Stream' = s
    OBVIOUS
  <1> HIDE DEF s
  <1>2. /\ s \in Seq(Nat) /\ (\A i \in 1 .. Len(s) : s[i] \in 1 .. emitted') /\ Len(s) <= emitted'
        /\ \A i, j \in 1 .. Len(s) : s[i] = s[j] => i = j
        /\ \A b \in 1 .. emitted' : b + Backlog > emitted' => \E i \in 1 .. Len(s) : s[i] = b
        /\ Len(s) < emitted' => emitted' > Room + Backlog
        /\ ~midcall' => \A i, j \in 1 .. Len(s) : i < j => s[i] < s[j]
    BY <1>1 DEF StreamKept
  <1> QED BY <1>1, <1>2 DEF StreamKept

\* The newest byte enters it.
LEMMA StreamGrows ==
  ASSUME StreamKept(Stream), emitted \in Nat, Stream' = Append(Stream, emitted + 1), emitted' = emitted + 1, midcall' = midcall
  PROVE  StreamKept(Stream)'
  <1> DEFINE s == Stream
             e == emitted + 1
             t == Append(s, e)
             n == Len(s) + 1
  <1>1. StreamKept(s) /\ Stream' = t /\ emitted' = e
    OBVIOUS
  <1> HIDE DEF s, e
  <1>2. e \in Nat /\ e = emitted + 1 /\ s \in Seq(Nat) /\ Len(s) \in Nat
    BY <1>1, LenProperties DEF StreamKept, e
  <1>3. t \in Seq(Nat) /\ Len(t) = n /\ (\A i \in 1 .. Len(s) : t[i] = s[i]) /\ t[n] = e
    BY <1>2, AppendProperties
  <1> HIDE DEF t
  <1>4. \A i \in 1 .. n : i \in 1 .. Len(s) \/ i = n
    BY <1>2
  <1>5. /\ \A i \in 1 .. Len(s) : t[i] \in 1 .. emitted /\ t[i] < e
        /\ \A i, j \in 1 .. Len(s) : t[i] = t[j] => i = j
        /\ Len(s) <= emitted
    <2>1. /\ \A i \in 1 .. Len(s) : s[i] \in 1 .. emitted
          /\ \A i, j \in 1 .. Len(s) : s[i] = s[j] => i = j
          /\ Len(s) <= emitted
      BY <1>1 DEF StreamKept
    <2>2. \A i \in 1 .. Len(s) : s[i] < e
      BY <2>1, <1>2
    <2> QED BY <2>1, <2>2, <1>3
  <1>6. \A i \in 1 .. Len(t) : t[i] \in 1 .. e
    BY <1>2, <1>3, <1>4, <1>5
  <1>7. \A i, j \in 1 .. Len(t) : t[i] = t[j] => i = j
    BY <1>2, <1>3, <1>4, <1>5
  <1>8. \A b \in 1 .. e : b + Backlog > e => \E i \in 1 .. Len(t) : t[i] = b
    <2> SUFFICES ASSUME NEW b \in 1 .. e, b + Backlog > e PROVE \E i \in 1 .. Len(t) : t[i] = b
      OBVIOUS
    <2>1. CASE b = e
      BY <2>1, <1>2, <1>3
    <2>2. CASE b # e
      <3>1. b \in 1 .. emitted /\ b + Backlog > emitted
        BY <1>2, <2>2, PtyAssumption
      <3>2. PICK i \in 1 .. Len(s) : s[i] = b
        BY <3>1, <1>1 DEF StreamKept
      <3> QED BY <3>2, <1>2, <1>3
    <2> QED BY <2>1, <2>2
  <1>9. Len(t) <= e /\ (Len(t) < e => e > Room + Backlog)
    <2>1. Room + Backlog \in Nat
      BY PtyAssumption
    <2>2. Len(s) < emitted => emitted > Room + Backlog
      BY <1>1 DEF StreamKept
    <2> HIDE DEF StreamKept
    <2> QED BY <2>1, <2>2, <1>2, <1>3, <1>5
  <1>10. ~midcall' => \A i, j \in 1 .. Len(t) : i < j => t[i] < t[j]
    <2> SUFFICES ASSUME ~midcall, NEW i \in 1 .. n, NEW j \in 1 .. n, i < j PROVE t[i] < t[j]
      BY <1>3
    <2>1. i \in 1 .. Len(s)
      BY <1>2
    <2>2. j \in 1 .. Len(s) => s[i] < s[j]
      BY <1>1, <2>1 DEF StreamKept
    <2> QED BY <1>3, <1>4, <1>5, <2>1, <2>2
  <1> QED BY <1>1, <1>3, <1>6, <1>7, <1>8, <1>9, <1>10 DEF StreamKept

\* A byte overtakes the backlog: only after the client has read in the middle of the call.
LEMMA Overtakes ==
  ASSUME NEW a \in Seq(Nat), NEW b \in Seq(Nat), NEW x \in Nat, midcall, midcall',
         StreamKept(a \o (b \o <<x>>)), emitted' = emitted, Stream' = Append(a, x) \o b
  PROVE  StreamKept(Stream)'
  <1> DEFINE q == b \o <<x>>
             s == a \o q
             p == Append(a, x)
             t == p \o b
             k == Len(a)
             m == Len(b)
  <1>1. q \in Seq(Nat) /\ Len(q) = m + 1 /\ (\A i \in 1 .. m : q[i] = b[i]) /\ q[m + 1] = x /\ m \in Nat /\ k \in Nat
    <2>1. q = Append(b, x)
      BY AppendIsConcat
    <2> QED BY <2>1, AppendProperties, LenProperties
  <1>2. p \in Seq(Nat) /\ Len(p) = k + 1 /\ (\A i \in 1 .. k : p[i] = a[i]) /\ p[k + 1] = x
    BY AppendProperties
  <1> HIDE DEF p, q
  <1>3. /\ s \in Seq(Nat) /\ Len(s) = k + m + 1 /\ (\A i \in 1 .. k : s[i] = a[i])
        /\ \A i \in k + 1 .. k + m + 1 : s[i] = q[i - k]
    <2>1. /\ s \in Seq(Nat) /\ Len(s) = k + Len(q) /\ (\A i \in 1 .. k : s[i] = a[i])
          /\ \A i \in k + 1 .. k + Len(q) : s[i] = q[i - k]
      BY <1>1, InConcat
    <2>2. k + Len(q) = k + m + 1
      BY <1>1
    <2> HIDE DEF s, k, m
    <2> QED BY <2>1, <2>2
  <1>4. /\ t \in Seq(Nat) /\ Len(t) = k + m + 1 /\ (\A i \in 1 .. k + 1 : t[i] = p[i])
        /\ \A i \in k + 2 .. k + m + 1 : t[i] = b[i - (k + 1)]
    <2>1. /\ t \in Seq(Nat) /\ Len(t) = Len(p) + m /\ (\A i \in 1 .. Len(p) : t[i] = p[i])
          /\ \A i \in Len(p) + 1 .. Len(p) + m : t[i] = b[i - Len(p)]
      BY <1>2, InConcat
    <2>2. Len(p) = k + 1 /\ Len(p) + 1 = k + 2 /\ Len(p) + m = k + m + 1
      BY <1>1, <1>2
    <2> HIDE DEF t, k, m
    <2> QED BY <2>1, <2>2
  <1>5. StreamKept(s) /\ Stream' = t
    BY DEF q, p
  <1> HIDE DEF s, t, k, m
  <1> DEFINE src(i) == IF i <= k THEN i ELSE IF i = k + 1 THEN k + m + 1 ELSE i - 1
             dst(i) == IF i <= k THEN i ELSE IF i = k + m + 1 THEN k + 1 ELSE i + 1
  <1>6. \A i \in 1 .. k + m + 1 : src(i) \in 1 .. k + m + 1 /\ t[i] = s[src(i)]
    <2> SUFFICES ASSUME NEW i \in 1 .. k + m + 1 PROVE src(i) \in 1 .. k + m + 1 /\ t[i] = s[src(i)]
      OBVIOUS
    <2>1. CASE i <= k
      BY <2>1, <1>1, <1>2, <1>3, <1>4
    <2>2. CASE i = k + 1
      <3>1. src(i) = k + m + 1 /\ t[i] = x
        BY <2>2, <1>1, <1>2, <1>4
      <3>2. s[k + m + 1] = q[(k + m + 1) - k] /\ (k + m + 1) - k = m + 1
        BY <1>1, <1>3
      <3> QED BY <3>1, <3>2, <1>1
    <2>3. CASE i > k + 1
      <3>1. i \in k + 2 .. k + m + 1 /\ i - 1 \in k + 1 .. k + m /\ i - (k + 1) \in 1 .. m
        BY <2>3, <1>1
      <3>3. src(i) = i - 1 /\ t[i] = b[i - (k + 1)]
        <4>1. t[i] = b[i - (k + 1)]
          BY <3>1, <1>1, <1>4
        <4> QED BY <2>3, <4>1, <1>1
      <3>2. s[i - 1] = q[(i - 1) - k] /\ (i - 1) - k = i - (k + 1)
        BY <3>1, <1>1, <1>3
      <3> QED BY <3>1, <3>2, <3>3, <1>1
    <2> QED BY <2>1, <2>2, <2>3, <1>1
  <1>7. \A i \in 1 .. k + m + 1 : dst(i) \in 1 .. k + m + 1 /\ src(dst(i)) = i /\ dst(src(i)) = i
    BY <1>1
  <1> HIDE DEF src, dst
  <1>8. \A i \in 1 .. k + m + 1 : t[dst(i)] = s[i]
    BY <1>6, <1>7
  <1>9. /\ \A i \in 1 .. Len(s) : s[i] \in 1 .. emitted
        /\ Len(s) <= emitted
        /\ \A i, j \in 1 .. Len(s) : s[i] = s[j] => i = j
        /\ \A c \in 1 .. emitted : c + Backlog > emitted => \E i \in 1 .. Len(s) : s[i] = c
        /\ Len(s) < emitted => emitted > Room + Backlog
    BY <1>5 DEF StreamKept
  <1>10. \A i \in 1 .. Len(t) : t[i] \in 1 .. emitted
    BY <1>3, <1>4, <1>6, <1>9
  <1>11. \A i, j \in 1 .. Len(t) : t[i] = t[j] => i = j
    <2> SUFFICES ASSUME NEW i \in 1 .. k + m + 1, NEW j \in 1 .. k + m + 1, t[i] = t[j] PROVE i = j
      BY <1>4
    <2>1. src(i) = src(j)
      BY <1>3, <1>6, <1>9
    <2> QED BY <2>1, <1>7
  <1>12. \A c \in 1 .. emitted : c + Backlog > emitted => \E i \in 1 .. Len(t) : t[i] = c
    <2> SUFFICES ASSUME NEW c \in 1 .. emitted, c + Backlog > emitted PROVE \E i \in 1 .. Len(t) : t[i] = c
      OBVIOUS
    <2>1. PICK i \in 1 .. k + m + 1 : s[i] = c
      BY <1>3, <1>9
    <2>2. dst(i) \in 1 .. k + m + 1 /\ t[dst(i)] = c
      BY <2>1, <1>7, <1>8
    <2> QED BY <2>2, <1>4
  <1> QED BY <1>3, <1>4, <1>5, <1>9, <1>10, <1>11, <1>12 DEF StreamKept

\* The oldest byte of a full backlog is dropped.
LEMMA Drops ==
  ASSUME NEW a \in Seq(Nat), NEW q \in Seq(Nat), q # <<>>, emitted \in Nat, StreamKept(a \o q), emitted' = emitted, midcall => midcall',
         Stream' = a \o Tail(q), Head(q) + Backlog <= emitted, Len(a) + Len(q) > Room + Backlog
  PROVE  StreamKept(Stream)'
  <1> DEFINE s == a \o q
             r == Tail(q)
             t == a \o r
             k == Len(a)
             m == Len(q)
             back(i) == IF i <= k THEN i ELSE i + 1
  <1>1. k \in Nat /\ m \in Nat \ {0} /\ r \in Seq(Nat) /\ Len(r) = m - 1 /\ (\A i \in 1 .. m - 1 : r[i] = q[i + 1]) /\ Head(q) = q[1]
    BY HeadTailProperties, EmptySeq, LenProperties
  <1> HIDE DEF r
  <1>2. /\ s \in Seq(Nat) /\ Len(s) = k + m /\ (\A i \in 1 .. k : s[i] = a[i])
        /\ \A i \in k + 1 .. k + m : s[i] = q[i - k]
    BY <1>1, InConcat
  <1>3. /\ t \in Seq(Nat) /\ Len(t) = k + m - 1 /\ (\A i \in 1 .. k : t[i] = a[i])
        /\ \A i \in k + 1 .. k + m - 1 : t[i] = r[i - k]
    <2>1. /\ t \in Seq(Nat) /\ Len(t) = k + Len(r) /\ (\A i \in 1 .. k : t[i] = a[i])
          /\ \A i \in k + 1 .. k + Len(r) : t[i] = r[i - k]
      BY <1>1, InConcat
    <2>2. k + Len(r) = k + m - 1
      BY <1>1
    <2> HIDE DEF t, k, m
    <2> QED BY <2>1, <2>2
  <1>4. StreamKept(s) /\ Stream' = t
    BY DEF r
  <1> HIDE DEF s, t, k, m
  <1>5. \A i \in 1 .. k + m - 1 : back(i) \in 1 .. k + m /\ t[i] = s[back(i)]
    <2> SUFFICES ASSUME NEW i \in 1 .. k + m - 1 PROVE back(i) \in 1 .. k + m /\ t[i] = s[back(i)]
      OBVIOUS
    <2>1. CASE i <= k
      BY <2>1, <1>1, <1>2, <1>3
    <2>2. CASE i > k
      <3>1. i \in k + 1 .. k + m - 1 /\ i - k \in 1 .. m - 1 /\ i + 1 \in k + 1 .. k + m /\ (i + 1) - k = (i - k) + 1
        BY <2>2, <1>1
      <3>2. back(i) = i + 1 /\ t[i] = r[i - k] /\ s[i + 1] = q[(i + 1) - k]
        <4>1. back(i) = i + 1
          BY <2>2, <1>1
        <4>2. t[i] = r[i - k]
          BY <3>1, <1>3
        <4> DEFINE j == i + 1
        <4>3. j \in k + 1 .. k + m
          BY <3>1
        <4> HIDE DEF j
        <4>4. s[j] = q[j - k]
          BY <4>3, <1>2
        <4> QED BY <4>1, <4>2, <4>4 DEF j
      <3>3. r[i - k] = q[(i - k) + 1]
        BY <3>1, <1>1
      <3>4. t[i] = s[i + 1] /\ i + 1 \in 1 .. k + m
        <4>1. t[i] = s[i + 1]
          BY <3>1, <3>2, <3>3, Zenon
        <4>2. k + 1 .. k + m \subseteq 1 .. k + m
          BY <1>1
        <4> QED BY <3>1, <4>1, <4>2
      <3> QED BY <3>2, <3>4
    <2> QED BY <2>1, <2>2, <1>1
  <1>6. \A i, j \in 1 .. k + m - 1 : (back(i) = back(j) => i = j) /\ (i < j => back(i) < back(j))
    BY <1>1
  <1>7. \A i \in 1 .. k + m : i # k + 1 => \E j \in 1 .. k + m - 1 : back(j) = i
    <2> SUFFICES ASSUME NEW i \in 1 .. k + m, i # k + 1 PROVE \E j \in 1 .. k + m - 1 : back(j) = i
      OBVIOUS
    <2>1. CASE i <= k
      <3>1. i \in 1 .. k + m - 1 /\ back(i) = i
        BY <2>1, <1>1
      <3> QED BY <3>1
    <2>2. CASE i > k
      <3>1. i - 1 \in 1 .. k + m - 1 /\ back(i - 1) = i
        BY <2>2, <1>1
      <3> QED BY <3>1
    <2> QED BY <2>1, <2>2, <1>1
  <1> HIDE DEF back
  <1>8. /\ \A i \in 1 .. Len(s) : s[i] \in 1 .. emitted
        /\ Len(s) <= emitted
        /\ \A i, j \in 1 .. Len(s) : s[i] = s[j] => i = j
        /\ \A c \in 1 .. emitted : c + Backlog > emitted => \E i \in 1 .. Len(s) : s[i] = c
        /\ ~midcall => \A i, j \in 1 .. Len(s) : i < j => s[i] < s[j]
    BY <1>4 DEF StreamKept
  <1>9. \A i \in 1 .. Len(t) : t[i] \in 1 .. emitted
    BY <1>2, <1>3, <1>5, <1>8
  <1>10. \A i, j \in 1 .. Len(t) : t[i] = t[j] => i = j
    BY <1>2, <1>3, <1>5, <1>6, <1>8
  <1>11. \A c \in 1 .. emitted : c + Backlog > emitted => \E i \in 1 .. Len(t) : t[i] = c
    <2> SUFFICES ASSUME NEW c \in 1 .. emitted, c + Backlog > emitted PROVE \E i \in 1 .. Len(t) : t[i] = c
      OBVIOUS
    <2>1. PICK i \in 1 .. k + m : s[i] = c
      BY <1>2, <1>8
    <2>2. i # k + 1
      <3>1. s[k + 1] = q[(k + 1) - k] /\ (k + 1) - k = 1
        BY <1>1, <1>2
      <3>2. s[k + 1] + Backlog <= emitted
        BY <3>1, <1>1
      <3>3. emitted \in Nat /\ Backlog \in Nat /\ c \in Nat
        BY PtyAssumption
      <3> QED BY <2>1, <3>2, <3>3
    <2>3. PICK j \in 1 .. k + m - 1 : back(j) = i
      BY <2>2, <1>7
    <2> QED BY <2>1, <2>3, <1>3, <1>5
  <1>12. ~midcall' => \A i, j \in 1 .. Len(t) : i < j => t[i] < t[j]
    BY <1>2, <1>3, <1>5, <1>6, <1>8
  <1>13. emitted > Room + Backlog /\ Len(t) <= emitted
    <2>1. Room + Backlog \in Nat /\ k + m > Room + Backlog
      BY PtyAssumption DEF k, m
    <2> HIDE DEF StreamKept
    <2> QED BY <2>1, <1>1, <1>2, <1>3, <1>8
  <1> QED BY <1>3, <1>4, <1>9, <1>10, <1>11, <1>12, <1>13 DEF StreamKept

\* Increasing numbers lie at least one apart.
LEMMA Spread ==
  ASSUME NEW q \in Seq(Nat), \A i, j \in 1 .. Len(q) : i < j => q[i] < q[j]
  PROVE  \A n \in Nat : n + 1 <= Len(q) => q[1] + n <= q[n + 1]
  <1> DEFINE T == {n \in Nat : n + 1 <= Len(q) => q[1] + n <= q[n + 1]}
  <1>1. Len(q) \in Nat /\ \A i \in 1 .. Len(q) : q[i] \in Nat
    BY LenProperties
  <1>2. 0 \in T
    <2>1. 0 + 1 = 1 /\ (1 <= Len(q) => q[1] + 0 <= q[1])
      BY <1>1
    <2> QED BY <2>1
  <1>3. ASSUME NEW n \in Nat, n \in T PROVE n + 1 \in T
    <2> SUFFICES ASSUME (n + 1) + 1 <= Len(q) PROVE q[1] + (n + 1) <= q[(n + 1) + 1]
      OBVIOUS
    <2>1. 1 \in 1 .. Len(q) /\ n + 1 \in 1 .. Len(q) /\ (n + 1) + 1 \in 1 .. Len(q) /\ n + 1 < (n + 1) + 1
      BY <1>1
    <2>2. q[1] + n <= q[n + 1]
      BY <1>1, <1>3, <2>1
    <2>3. q[n + 1] < q[(n + 1) + 1]
      BY <2>1
    <2> QED BY <1>1, <2>1, <2>2, <2>3
  <1> HIDE DEF T
  <1>4. Nat \subseteq T
    BY <1>2, <1>3, Induction
  <1> QED BY <1>4 DEF T

\* The steps that take nothing from the stream.
LEMMA LoopEmitsStep == ASSUME PtyInv, LoopEmits PROVE PtyInv'
  <1> DEFINE a == seen \o kernel
  <1>1. PtyTypeOK /\ StreamKept(Stream) /\ emitted \in Nat /\ midcall' = midcall /\ emitted' = emitted + 1
    BY DEF PtyInv, PtyTypeOK, LoopEmits
  <1>2. PtyTypeOK'
    BY DEF PtyInv, PtyTypeOK, LoopEmits
  <1>3. tx_backlog \in Seq(Nat) /\ a \in Seq(Nat) /\ tx_backlog' = tx_backlog /\ a' = a
    BY ConcatProperties DEF PtyInv, PtyTypeOK, LoopEmits
  <1>4. Queued = tx_backlog /\ Queued' = Append(tx_backlog, emitted + 1)
    <2>1. InHand = <<>> /\ InHand' = <<emitted + 1>>
      BY DEF LoopEmits, InHand
    <2>2. tx_backlog \o <<>> = tx_backlog /\ tx_backlog \o <<emitted + 1>> = Append(tx_backlog, emitted + 1)
      BY <1>1, <1>3, ConcatEmptySeq, AppendIsConcat
    <2> QED BY <2>1, <2>2, <1>3 DEF Queued
  <1>5. Stream = a \o tx_backlog /\ Stream' = a \o Append(tx_backlog, emitted + 1)
    <2>1. Stream = a \o Queued /\ Stream' = a' \o Queued'
      BY <1>1, <1>2, StreamParts, StreamPartsNext, Zenon
    <2> QED BY <2>1, <1>3, <1>4
  <1> HIDE DEF a
  <1>6. Stream' = Append(Stream, emitted + 1)
    <2> DEFINE w == <<emitted + 1>>
    <2>1. w \in Seq(Nat) /\ Append(tx_backlog, emitted + 1) = tx_backlog \o w
      <3>1. emitted + 1 \in Nat
        BY <1>1
      <3> QED BY <3>1, <1>3, AppendIsConcat
    <2>2. a \o tx_backlog \in Seq(Nat) /\ Append(a \o tx_backlog, emitted + 1) = (a \o tx_backlog) \o w
      BY <1>1, <1>3, ConcatProperties, AppendIsConcat
    <2> HIDE DEF w
    <2>3. (a \o tx_backlog) \o w = a \o (tx_backlog \o w)
      <3>1. a \in Seq(Nat) /\ tx_backlog \in Seq(Nat) /\ w \in Seq(Nat)
        BY <1>3, <2>1, <1>1
      <3> QED BY <3>1, NatAssoc, Zenon
    <2> QED BY <1>5, <2>1, <2>2, <2>3, Zenon
  <1>7. StreamKept(Stream)'
    BY <1>1, <1>6, StreamGrows
  <1>8. \A i, j \in 1 .. Len(Queued') : i < j => Queued'[i] < Queued'[j]
    <2> DEFINE q == tx_backlog
               t == Append(q, emitted + 1)
    <2>1. Len(t) = Len(q) + 1 /\ Len(q) \in Nat /\ (\A i \in 1 .. Len(q) : t[i] = q[i]) /\ t[Len(q) + 1] = emitted + 1
      BY <1>1, <1>3, AppendProperties, LenProperties
    <2>2. \A i \in 1 .. Len(q) : q[i] \in 1 .. emitted
      <3>1. \A i \in 1 .. Len(q) : (a \o q)[Len(a) + i] = q[i] /\ Len(a) + i \in 1 .. Len(a \o q)
        BY <1>3, InConcat
      <3>2. \A i \in 1 .. Len(a \o q) : (a \o q)[i] \in 1 .. emitted
        BY <1>1, <1>5 DEF StreamKept
      <3> QED BY <3>1, <3>2
    <2>3. \A i, j \in 1 .. Len(q) : i < j => q[i] < q[j]
      BY <1>4 DEF PtyInv
    <2> HIDE DEF t, q
    <2>4. \A i, j \in 1 .. Len(t) : i < j => t[i] < t[j]
      <3> SUFFICES ASSUME NEW i \in 1 .. Len(t), NEW j \in 1 .. Len(t), i < j PROVE t[i] < t[j]
        OBVIOUS
      <3>1. i \in 1 .. Len(q) /\ (j \in 1 .. Len(q) \/ j = Len(q) + 1)
        BY <2>1
      <3>2. t[i] = q[i] /\ q[i] \in 1 .. emitted
        BY <2>1, <2>2, <3>1
      <3>3. CASE j \in 1 .. Len(q)
        BY <2>1, <2>3, <3>1, <3>3
      <3>4. CASE j = Len(q) + 1
        BY <2>1, <3>2, <3>4, <1>1
      <3> QED BY <3>1, <3>3, <3>4
    <2> QED BY <1>4, <2>4 DEF t, q
  <1>9. flushing'
    BY DEF LoopEmits
  <1> QED BY <1>2, <1>7, <1>8, <1>9 DEF PtyInv

LEMMA LoopQuietStep == ASSUME PtyInv, LoopQuiet PROVE PtyInv'
  <1>1. PtyTypeOK /\ StreamKept(Stream) /\ PtyTypeOK'
    BY DEF PtyInv, PtyTypeOK, LoopQuiet
  <1>2. Queued' = Queued /\ Stream' = Stream /\ emitted' = emitted /\ midcall' = midcall
    BY DEF LoopQuiet, Queued, Stream, InHand
  <1>3. StreamKept(Stream)'
    BY <1>1, <1>2, StreamStays
  <1>4. call' # "write_byte"
    BY DEF LoopQuiet
  <1> QED BY <1>1, <1>2, <1>3, <1>4 DEF PtyInv

LEMMA ClientReadsStep == ASSUME PtyInv, ClientReads PROVE PtyInv'
  <1>1. PtyTypeOK /\ StreamKept(Stream) /\ kernel # <<>> /\ seen \in Seq(Nat) /\ kernel \in Seq(Nat)
    BY DEF PtyInv, PtyTypeOK, ClientReads
  <1>2. PtyTypeOK'
    <2>1. Head(kernel) \in Nat /\ Tail(kernel) \in Seq(Nat) /\ Len(Tail(kernel)) = Len(kernel) - 1 /\ Len(kernel) \in Nat
      BY <1>1, HeadTailProperties, LenProperties
    <2>2. Append(seen, Head(kernel)) \in Seq(Nat)
      BY <1>1, <2>1, AppendProperties
    <2>3. Len(Tail(kernel)) <= Room
      BY <1>1, <2>1, PtyAssumption DEF PtyTypeOK
    <2> QED BY <2>1, <2>2, <2>3 DEF PtyInv, PtyTypeOK, ClientReads
  <1>3. seen' \o kernel' = seen \o kernel
    BY <1>1, PassedOn DEF ClientReads
  <1>4. Queued' = Queued /\ emitted' = emitted /\ (midcall => midcall')
    BY DEF ClientReads, Queued, InHand
  <1>5. Stream' = Stream
    <2>1. Stream = (seen \o kernel) \o Queued /\ Stream' = (seen' \o kernel') \o Queued'
      BY <1>1, <1>2, StreamParts, StreamPartsNext, Zenon
    <2> QED BY <2>1, <1>3, <1>4, Zenon
  <1>6. StreamKept(Stream)'
    BY <1>1, <1>4, <1>5, StreamStays
  <1>7. call' = "write_byte" => midcall'
    BY DEF ClientReads
  <1> QED BY <1>2, <1>4, <1>6, <1>7 DEF PtyInv

\* A byte of the backlog is written, or the flush ends: without a backlog or without room.
LEMMA FlushStepStep == ASSUME PtyInv, FlushStep PROVE PtyInv'
  <1>1. PtyTypeOK /\ StreamKept(Stream) /\ kernel \in Seq(Nat) /\ tx_backlog \in Seq(Nat) /\ seen \in Seq(Nat)
    BY DEF PtyInv, PtyTypeOK
  <1>2. emitted' = emitted /\ midcall' = midcall /\ seen' = seen /\ InHand' = InHand /\ InHand \in Seq(Nat)
    <2>1. call' = "write_byte" <=> call = "write_byte"
      BY DEF FlushStep
    <2> QED BY <2>1, <1>1, StreamParts DEF FlushStep, InHand
  <1>3. CASE tx_backlog # <<>> /\ Len(kernel) < Room
    <2>1. kernel' = Append(kernel, Head(tx_backlog)) /\ tx_backlog' = Tail(tx_backlog) /\ UNCHANGED <<call, flushing>> /\ flushing
      BY <1>3 DEF FlushStep
    <2>2. /\ Head(tx_backlog) \in Nat /\ Tail(tx_backlog) \in Seq(Nat) /\ Len(Tail(tx_backlog)) = Len(tx_backlog) - 1
          /\ Len(tx_backlog) \in Nat /\ Len(kernel) \in Nat
      BY <1>1, <1>3, HeadTailProperties, LenProperties
    <2>3. kernel' \in Seq(Nat) /\ Len(kernel') = Len(kernel) + 1
      BY <1>1, <2>1, <2>2, AppendProperties
    <2>4. Len(kernel') <= Room /\ Len(tx_backlog') <= Backlog
      BY <1>1, <1>3, <2>1, <2>2, <2>3, PtyAssumption DEF PtyTypeOK
    <2>5. PtyTypeOK'
      BY <1>1, <1>2, <2>1, <2>2, <2>3, <2>4 DEF PtyTypeOK
    <2>6. kernel' \o tx_backlog' = kernel \o tx_backlog
      BY <1>1, <1>3, <2>1, PassedOn
    <2>7. Stream' = Stream
      <3>1. (seen \o kernel) \o tx_backlog = seen \o (kernel \o tx_backlog)
        BY <1>1, NatAssoc, Zenon
      <3>2. (seen \o kernel') \o tx_backlog' = seen \o (kernel' \o tx_backlog')
        BY <1>1, <2>1, <2>2, <2>3, NatAssoc, Zenon
      <3>3. (seen \o kernel) \o tx_backlog = (seen' \o kernel') \o tx_backlog'
        BY <3>1, <3>2, <2>6, <1>2, Zenon
      <3> QED BY <3>3, <1>2 DEF Stream
    <2>8. StreamKept(Stream)'
      BY <1>1, <1>2, <2>7, StreamStays
    <2>9. Queued' = Tail(Queued) /\ Queued # <<>> /\ Queued \in Seq(Nat)
      <3> DEFINE h == Head(tx_backlog)
                 r == Tail(tx_backlog)
                 w == <<h>>
      <3>1. w \in Seq(Nat) /\ r \in Seq(Nat) /\ r \o InHand \in Seq(Nat)
        BY <2>2, <1>2, ConcatProperties
      <3>2. tx_backlog = w \o r
        <4>1. Append(<<>>, h) = w /\ <<>> \o tx_backlog = tx_backlog /\ <<>> \in Seq(Nat)
          BY <1>1, <2>2, ConcatEmptySeq, EmptySeq
        <4>2. Append(<<>>, h) \o r = <<>> \o tx_backlog
          BY <1>1, <1>3, <4>1, PassedOn
        <4> QED BY <4>1, <4>2, Zenon
      <3>3. Queued = w \o (r \o InHand)
        <4>1. (w \o r) \o InHand = w \o (r \o InHand)
          BY <3>1, <1>2, ConcatAssoc
        <4> QED BY <4>1, <3>2, Zenon DEF Queued
      <3>4. Queued' = r \o InHand
        BY <2>1, <1>2 DEF Queued
      <3> DEFINE z == r \o InHand
      <3> HIDE DEF z, r, h
      <3>5. Tail(w \o z) = z /\ w \o z # <<>> /\ w \o z \in Seq(Nat)
        <4>1. w \in Seq(Nat) /\ z \in Seq(Nat) /\ Len(w) = 1
          BY <3>1 DEF z
        <4>2. w \o z \in Seq(Nat) /\ Len(w \o z) = 1 + Len(z) /\ Len(z) \in Nat /\ \A i \in 1 .. Len(z) : (w \o z)[1 + i] = z[i]
          BY <4>1, InConcat
        <4> DEFINE y == w \o z
        <4> HIDE DEF y
        <4>3. y # <<>>
          BY <4>2, EmptySeq DEF y
        <4>4. Tail(y) \in Seq(Nat) /\ Len(Tail(y)) = Len(z) /\ \A i \in 1 .. Len(z) : Tail(y)[i] = z[i]
          BY <4>2, <4>3, HeadTailProperties DEF y
        <4>5. Tail(y) = z
          BY <4>1, <4>4, SeqEqual
        <4> QED BY <4>2, <4>3, <4>5 DEF y
      <3> QED BY <3>3, <3>4, <3>5, Zenon DEF z
    <2>10. \A i, j \in 1 .. Len(Queued') : i < j => Queued'[i] < Queued'[j]
      <3> DEFINE q == Queued
                 t == Tail(q)
      <3>1. q \in Seq(Nat) /\ q # <<>> /\ \A i, j \in 1 .. Len(q) : i < j => q[i] < q[j]
        BY <2>9 DEF PtyInv
      <3>2. Len(t) = Len(q) - 1 /\ Len(q) \in Nat /\ \A i \in 1 .. Len(t) : t[i] = q[i + 1]
        BY <3>1, HeadTailProperties, LenProperties
      <3> HIDE DEF q, t
      <3>3. \A i, j \in 1 .. Len(t) : i < j => t[i] < t[j]
        <4> SUFFICES ASSUME NEW i \in 1 .. Len(t), NEW j \in 1 .. Len(t), i < j PROVE t[i] < t[j]
          OBVIOUS
        <4>1. i + 1 \in 1 .. Len(q) /\ j + 1 \in 1 .. Len(q) /\ i + 1 < j + 1
          BY <3>2
        <4> QED BY <4>1, <3>1, <3>2
      <3> QED BY <3>3, <2>9 DEF q, t
    <2> QED BY <2>1, <2>5, <2>8, <2>10 DEF PtyInv
  <1>4. CASE ~(tx_backlog # <<>> /\ Len(kernel) < Room)
    <2>1. kernel' = kernel /\ tx_backlog' = tx_backlog /\ flushing' = FALSE /\ call' = (IF call = "flush_backlog" THEN "idle" ELSE call)
      BY <1>4 DEF FlushStep
    <2>2. Stream' = Stream /\ Queued' = Queued
      BY <1>2, <2>1 DEF Stream, Queued
    <2>3. StreamKept(Stream)'
      BY <1>1, <1>2, <2>2, StreamStays
    <2>4. PtyTypeOK'
      BY <1>1, <1>2, <2>1 DEF PtyTypeOK
    <2>5. tx_backlog # <<>> => Len(kernel) = Room
      <3>1. Len(kernel) \in Nat /\ Room \in Nat
        BY <1>1, LenProperties, PtyAssumption
      <3> QED BY <3>1, <1>1, <1>4 DEF PtyTypeOK
    <2> QED BY <2>1, <2>2, <2>3, <2>4, <2>5 DEF PtyInv
  <1> QED BY <1>3, <1>4

\* The byte in hand is written, kept, or kept in place of the oldest one.
LEMMA WriteStepStep == ASSUME PtyInv, WriteStep PROVE PtyInv'
  <1> DEFINE e == emitted
             a == seen \o kernel
             b == tx_backlog
             q == Append(b, e)
  <1>1. /\ PtyTypeOK /\ StreamKept(Stream) /\ kernel \in Seq(Nat) /\ b \in Seq(Nat) /\ seen \in Seq(Nat) /\ e \in Nat
        /\ Len(kernel) \in Nat /\ Len(b) \in Nat /\ Len(kernel) <= Room /\ Len(b) <= Backlog /\ Room \in Nat /\ Backlog \in Nat
    BY LenProperties, PtyAssumption DEF PtyInv, PtyTypeOK
  <1>2. emitted' = e /\ midcall' = midcall /\ seen' = seen /\ flushing' = flushing /\ call' = "idle" /\ call = "write_byte" /\ ~flushing
    BY DEF WriteStep
  <1>3. InHand = <<e>> /\ InHand' = <<>> /\ <<e>> \in Seq(Nat)
    BY <1>1, <1>2 DEF InHand
  <1>4. Queued = q /\ q = b \o <<e>> /\ q \in Seq(Nat) /\ Len(q) = Len(b) + 1 /\ q[Len(b) + 1] = e /\ q # <<>>
        /\ \A i \in 1 .. Len(b) : q[i] = b[i]
    <2>1. Queued = b \o <<e>> /\ q = b \o <<e>>
      BY <1>1, <1>3, AppendIsConcat DEF Queued
    <2>2. q \in Seq(Nat) /\ Len(q) = Len(b) + 1 /\ q[Len(b) + 1] = e /\ \A i \in 1 .. Len(b) : q[i] = b[i]
      BY <1>1, AppendProperties
    <2>3. q # <<>>
      <3> HIDE DEF q
      <3>1. Len(q) # 0
        BY <1>1, <2>2
      <3> QED BY <2>2, <3>1, EmptySeq
    <2> QED BY <2>1, <2>2, <2>3, Zenon
  <1>5. a \in Seq(Nat) /\ Len(a) = Len(seen) + Len(kernel) /\ Len(seen) \in Nat
    BY <1>1, ConcatProperties, LenProperties
  <1>6. Stream = a \o q
    BY <1>1, <1>4, StreamParts
  <1>7. PtyTypeOK' => Queued' = tx_backlog' /\ Stream' = (seen \o kernel') \o tx_backlog'
    <2> SUFFICES ASSUME PtyTypeOK' PROVE Queued' = tx_backlog' /\ Stream' = (seen \o kernel') \o tx_backlog'
      OBVIOUS
    <2>1. tx_backlog' \in Seq(Nat) /\ tx_backlog' \o <<>> = tx_backlog'
      BY ConcatEmptySeq DEF PtyTypeOK
    <2>2. Queued' = tx_backlog'
      BY <2>1, <1>3 DEF Queued
    <2>3. Stream' = (seen' \o kernel') \o Queued'
      BY StreamPartsNext
    <2> QED BY <2>2, <2>3, <1>2, Zenon
  <1>8. \A i, j \in 1 .. Len(q) : i < j => q[i] < q[j]
    BY <1>4 DEF PtyInv
  <1>9. CASE Len(kernel) < Room
    <2>1. kernel' = Append(kernel, e) /\ tx_backlog' = b
      BY <1>9 DEF WriteStep
    <2>2. kernel' \in Seq(Nat) /\ Len(kernel') = Len(kernel) + 1 /\ kernel' = kernel \o <<e>>
      BY <1>1, <2>1, AppendProperties, AppendIsConcat
    <2>3. PtyTypeOK'
      <3>1. Len(kernel') <= Room
        BY <1>1, <1>9, <2>2
      <3> QED BY <1>1, <1>2, <2>1, <2>2, <3>1 DEF PtyTypeOK
    <2>4. Stream' = Append(a, e) \o b
      <3>1. (seen \o kernel) \o <<e>> = seen \o (kernel \o <<e>>)
        BY <1>1, <1>3, NatAssoc, Zenon
      <3>2. Append(a, e) = a \o <<e>>
        BY <1>1, <1>5, AppendIsConcat
      <3>3. Append(a, e) = seen \o kernel'
        BY <3>1, <3>2, <2>2, Zenon
      <3> QED BY <3>3, <2>1, <2>3, <1>7, Zenon
    <2>5. StreamKept(Stream)'
      <3>1. CASE midcall
        <4>1. StreamKept(a \o (b \o <<e>>))
          BY <1>1, <1>4, <1>6, Zenon
        <4> HIDE DEF a, b, e
        <4> QED BY <3>1, <4>1, <1>1, <1>2, <1>5, <2>4, Overtakes DEF e
      <3>2. CASE ~midcall
        <4>1. b = <<>>
          BY <3>2, <1>1, <1>2, <1>9 DEF PtyInv
        <4>2. Stream' = Stream
          <5>1. Append(a, e) \in Seq(Nat) /\ Append(a, e) \o <<>> = Append(a, e) /\ Append(a, e) = a \o <<e>>
            BY <1>1, <1>5, AppendProperties, AppendIsConcat, ConcatEmptySeq
          <5>2. <<>> \o <<e>> = <<e>>
            BY <1>3, ConcatEmptySeq
          <5> QED BY <4>1, <5>1, <5>2, <2>4, <1>6, <1>4, Zenon
        <4> QED BY <4>2, <1>1, <1>2, StreamStays
      <3> QED BY <3>1, <3>2
    <2>6. \A i, j \in 1 .. Len(b) : i < j => b[i] < b[j]
      BY <1>1, <1>4, <1>8
    <2> QED BY <2>1, <2>3, <2>5, <2>6, <1>2, <1>7 DEF PtyInv
  <1>10. CASE ~(Len(kernel) < Room) /\ Len(b) < Backlog
    <2>1. kernel' = kernel /\ tx_backlog' = q
      BY <1>10 DEF WriteStep, BoundedAppend
    <2>2. PtyTypeOK'
      <3>1. Len(q) <= Backlog
        BY <1>1, <1>4, <1>10
      <3> QED BY <1>1, <1>2, <1>4, <2>1, <3>1 DEF PtyTypeOK
    <2>3. Stream' = Stream
      BY <1>6, <1>7, <2>1, <2>2
    <2>4. StreamKept(Stream)'
      BY <2>3, <1>1, <1>2, StreamStays
    <2> QED BY <2>1, <2>2, <2>4, <1>2, <1>7, <1>8 DEF PtyInv
  <1>11. CASE ~(Len(kernel) < Room) /\ ~(Len(b) < Backlog)
    <2>1. kernel' = kernel /\ tx_backlog' = Tail(q)
      BY <1>11 DEF WriteStep, BoundedAppend
    <2>2. /\ Tail(q) \in Seq(Nat) /\ Len(Tail(q)) = Len(b) /\ (\A i \in 1 .. Len(b) : Tail(q)[i] = q[i + 1])
          /\ Head(q) = q[1] /\ Len(b) = Backlog /\ Len(kernel) = Room
      <3>1. Tail(q) \in Seq(Nat) /\ Len(Tail(q)) = Len(b) /\ Head(q) = q[1]
        BY <1>1, <1>4, HeadTailProperties
      <3>2. \A i \in 1 .. Len(Tail(q)) : Tail(q)[i] = q[i + 1]
        BY <1>4, HeadTailProperties
      <3>3. Len(b) = Backlog /\ Len(kernel) = Room
        BY <1>1, <1>11
      <3>4. \A i \in 1 .. Len(b) : Tail(q)[i] = q[i + 1]
        BY <3>1, <3>2, Zenon
      <3> QED BY <3>1, <3>3, <3>4, Zenon
    <2>3. PtyTypeOK'
      BY <1>1, <1>2, <2>1, <2>2 DEF PtyTypeOK
    <2>4. Stream' = a \o Tail(q)
      BY <1>7, <2>1, <2>3
    <2>5. Head(q) + Backlog <= e
      <3>1. Len(b) + 1 <= Len(q) => q[1] + Len(b) <= q[Len(b) + 1]
        BY <1>1, <1>4, <1>8, Spread
      <3> HIDE DEF q
      <3> QED BY <3>1, <2>2, <1>1, <1>4
    <2>6. Len(a) + Len(q) > Room + Backlog
      BY <1>1, <1>4, <1>5, <2>2
    <2>7. StreamKept(Stream)'
      <3>1. StreamKept(a \o q)
        BY <1>1, <1>6
      <3> HIDE DEF a, q
      <3> QED BY <3>1, <1>1, <1>2, <1>4, <1>5, <2>4, <2>5, <2>6, Drops
    <2>8. \A i, j \in 1 .. Len(Tail(q)) : i < j => Tail(q)[i] < Tail(q)[j]
      <3> DEFINE t == Tail(q)
      <3>1. Len(t) = Len(b) /\ (\A i \in 1 .. Len(b) : t[i] = q[i + 1]) /\ Len(b) \in Nat /\ Len(q) = Len(b) + 1
        BY <2>2, <1>1, <1>4
      <3> HIDE DEF t, q
      <3> SUFFICES ASSUME NEW i \in 1 .. Len(b), NEW j \in 1 .. Len(b), i < j PROVE t[i] < t[j]
        BY <3>1 DEF t
      <3>2. i + 1 \in 1 .. Len(q) /\ j + 1 \in 1 .. Len(q) /\ i + 1 < j + 1
        BY <3>1
      <3> QED BY <3>1, <3>2, <1>8
    <2>9. Queued' = Tail(q)
      BY <2>1, <2>3, <1>7
    <2> HIDE DEF q
    <2>10. \A i, j \in 1 .. Len(Queued') : i < j => Queued'[i] < Queued'[j]
      BY <2>8, <2>9
    <2>11. call' # "write_byte"
      BY <1>2
    <2> QED BY <2>3, <2>7, <2>10, <2>11 DEF PtyInv
  <1> QED BY <1>9, <1>10, <1>11

\* No byte comes twice, the newest stay, nothing is dropped before the backlog is full, and the bytes keep
\* their order until the client reads in the middle of a call, for any terminal and backlog (write_byte,
\* _flush_backlog).
THEOREM OutputIsKept == PtySpec => []OutputKept
  <1>1. PtyInit => PtyInv
    BY PtyInitHolds
  <1>2. PtyInv /\ [PtyNext]_pvars => PtyInv'
    <2> SUFFICES ASSUME PtyInv, [PtyNext]_pvars PROVE PtyInv'
      OBVIOUS
    <2>1. CASE UNCHANGED pvars
      <3>1. PtyTypeOK' /\ StreamKept(Stream)
        BY <2>1 DEF pvars, PtyInv, PtyTypeOK
      <3>2. Stream' = Stream /\ Queued' = Queued /\ emitted' = emitted /\ midcall' = midcall
        BY <2>1 DEF pvars, Stream, Queued, InHand
      <3>3. StreamKept(Stream)'
        BY <3>1, <3>2, StreamStays
      <3> QED BY <2>1, <3>1, <3>2, <3>3 DEF pvars, PtyInv
    <2>2. CASE PtyNext
      BY <2>2, LoopEmitsStep, LoopQuietStep, FlushStepStep, WriteStepStep, ClientReadsStep DEF PtyNext
    <2> QED BY <2>1, <2>2
  <1>3. PtyInv => OutputKept
    BY PtyMeans
  <1> QED BY <1>1, <1>2, <1>3, PTL DEF PtySpec

-----------------------------------------------------------------------------
(* The monitor of the C program runner.                                    *)

\* A quotient is what it is.
LEMMA Quotient ==
  ASSUME NEW p \in Nat \ {0}, NEW k \in Nat, NEW r \in Nat, r < p
  PROVE  (k * p + r) \div p = k
  <1> DEFINE q == (k * p + r) \div p
  <1>1. k * p \in Nat /\ k * p + r \in Nat
    OBVIOUS
  <1>2. q \in Int /\ q * p <= k * p + r /\ k * p + r < (q + 1) * p
    BY <1>1
  <1> HIDE DEF q
  <1>3. ~(q < k)
    <2> SUFFICES ASSUME q < k PROVE FALSE
      OBVIOUS
    <2>1. PICK d \in Nat : k = q + 1 + d
      <3>1. k - q - 1 \in Nat /\ k = q + 1 + (k - q - 1)
        BY <1>2
      <3> QED BY <3>1
    <2>2. k * p = (q + 1) * p + d * p /\ d * p \in Nat
      BY <2>1, <1>2
    <2> QED BY <2>2, <1>2
  <1>4. ~(q > k)
    <2> SUFFICES ASSUME q > k PROVE FALSE
      OBVIOUS
    <2>1. PICK d \in Nat : q = k + 1 + d
      <3>1. q - k - 1 \in Nat /\ q = k + 1 + (q - k - 1)
        BY <1>2
      <3> QED BY <3>1
    <2>2. q * p = k * p + p + d * p /\ d * p \in Nat
      BY <2>1, <1>2
    <2> QED BY <2>2, <1>2
  <1>5. q = k
    BY <1>2, <1>3, <1>4
  <1> QED BY <1>5 DEF q

\* The offset in a frame at the monitor's k-th sample; where its stop bit begins; and its end.
Middle(k) == FirstSample + k * BitPeriod
StopsAt == (FrameBits + 1) * line_bit
FrameEnd == (FrameBits + 2) * line_bit

LEMMA TimeFacts ==
  ASSUME line_bit \in Nat \ {0}, Matches
  PROVE  /\ FrameBits \in Nat \ {0} /\ FirstSample \in Nat \ {0} /\ BitPeriod \in Nat \ {0}
         /\ FrameEnd \in Nat /\ FrameEnd > 1 /\ StopsAt \in Nat /\ StopsAt + line_bit = FrameEnd
         /\ Middle(0) = FirstSample /\ Middle(FrameBits) >= StopsAt
         /\ \A k \in 0 .. FrameBits :
              /\ Middle(k) \in Nat /\ Middle(k + 1) = Middle(k) + BitPeriod /\ Middle(k) + 1 < FrameEnd
              /\ (k + 1) * line_bit \in Nat /\ (k + 1) * line_bit < Middle(k)
              /\ Middle(k) < (k + 1) * line_bit + line_bit
  <1>1. PICK n \in Nat : BitPeriod = 2 * n /\ n >= 2
    BY MonitorAssumption
  <1>2. FirstSample = 3 * n
    BY <1>1 DEF FirstSample
  <1>3. FrameBits \in Nat \ {0}
    BY MonitorAssumption
  <1>4. FrameEnd \in Nat /\ StopsAt \in Nat /\ StopsAt + line_bit = FrameEnd
    BY <1>3 DEF FrameEnd, StopsAt
  <1>5. ASSUME NEW k \in 0 .. FrameBits
        PROVE  /\ Middle(k) \in Nat /\ Middle(k + 1) = Middle(k) + BitPeriod /\ Middle(k) + 1 < FrameEnd
               /\ (k + 1) * line_bit \in Nat /\ (k + 1) * line_bit < Middle(k)
               /\ Middle(k) < (k + 1) * line_bit + line_bit
    <2>1. k \in Nat /\ k * BitPeriod \in Nat /\ (k + 1) * BitPeriod = k * BitPeriod + BitPeriod
      BY <1>1, <1>3
    <2>2. Middle(k) \in Nat /\ Middle(k + 1) = Middle(k) + BitPeriod
      BY <1>1, <1>2, <2>1 DEF Middle
    <2>3. (k + 1) * line_bit < Middle(k) /\ Middle(k) + 1 < (k + 2) * line_bit
      BY DEF Matches, Middle
    <2>4. (k + 1) * line_bit \in Nat /\ (k + 2) * line_bit = (k + 1) * line_bit + line_bit
      BY <2>1
    <2>5. (k + 2) * line_bit <= FrameEnd
      <3>1. PICK d \in Nat : FrameBits = k + d
        <4>1. FrameBits - k \in Nat /\ FrameBits = k + (FrameBits - k)
          BY <1>3
        <4> QED BY <4>1
      <3>2. FrameEnd = (k + 2) * line_bit + d * line_bit /\ d * line_bit \in Nat /\ (k + 2) * line_bit \in Nat
        BY <2>1, <3>1 DEF FrameEnd
      <3> QED BY <3>2
    <2> DEFINE a == (k + 1) * line_bit
               b == (k + 2) * line_bit
    <2>6. a \in Nat /\ b = a + line_bit /\ a < Middle(k) /\ Middle(k) + 1 < b /\ b <= FrameEnd
      BY <2>3, <2>4, <2>5
    <2> HIDE DEF a, b
    <2>7. Middle(k) + 1 < FrameEnd /\ Middle(k) < a + line_bit
      BY <1>4, <2>2, <2>6
    <2> QED BY <2>2, <2>6, <2>7 DEF a
  <1>6. 0 \in 0 .. FrameBits /\ FrameBits \in 0 .. FrameBits
    BY <1>3
  <1>7. Middle(0) = FirstSample
    BY <1>1, <1>2 DEF Middle
  <1>8. FrameEnd > 1
    <2>1. Middle(0) + 1 < FrameEnd
      BY <1>5, <1>6
    <2> QED BY <1>1, <1>2, <1>4, <1>7, <2>1
  <1>9. Middle(FrameBits) >= StopsAt
    <2>1. StopsAt < Middle(FrameBits) /\ Middle(FrameBits) \in Nat
      BY <1>5, <1>6 DEF StopsAt
    <2> QED BY <1>4, <2>1
  <1>10. FirstSample \in Nat \ {0} /\ BitPeriod \in Nat \ {0}
    BY <1>1, <1>2
  <1> QED BY <1>3, <1>4, <1>5, <1>7, <1>8, <1>9, <1>10

\* What the line shows when nothing is sent, in the first cycle, at a sample, and in the stop bit.
LEMMA LevelFacts ==
  ASSUME line_bit \in Nat \ {0}, Matches
  PROVE  /\ frame = <<>> => Level = 1
         /\ frame # <<>> /\ offset = 0 => Level = 0
         /\ \A k \in 0 .. FrameBits - 1 : frame # <<>> /\ offset = Middle(k) => Level = frame[k + 1]
         /\ frame # <<>> /\ offset \in Nat /\ offset >= StopsAt /\ offset < FrameEnd => Level = 1
  <1>1. FrameBits \in Nat \ {0} /\ StopsAt \in Nat /\ FrameEnd = StopsAt + line_bit
    BY TimeFacts
  <1>2. frame = <<>> => Level = 1
    BY DEF Level
  <1>3. ASSUME frame # <<>>, offset = 0 PROVE Level = 0
    <2>1. 0 * line_bit + 0 = 0 /\ 0 \in Nat /\ 0 < line_bit
      OBVIOUS
    <2>2. (0 * line_bit + 0) \div line_bit = 0
      BY <2>1, Quotient
    <2>3. offset \div line_bit = 0
      BY <1>3, <2>1, <2>2
    <2> QED BY <1>1, <1>3, <2>3 DEF Level
  <1>4. ASSUME NEW k \in 0 .. FrameBits - 1, frame # <<>>, offset = Middle(k) PROVE Level = frame[k + 1]
    <2> DEFINE r == Middle(k) - (k + 1) * line_bit
    <2>1. k + 1 \in Nat /\ k + 1 # 0 /\ k + 1 # FrameBits + 1 /\ k \in 0 .. FrameBits
      BY <1>1
    <2>2. /\ Middle(k) \in Nat /\ (k + 1) * line_bit \in Nat /\ (k + 1) * line_bit < Middle(k)
          /\ Middle(k) < (k + 1) * line_bit + line_bit
      BY <2>1, TimeFacts
    <2>3. r \in Nat /\ r < line_bit /\ (k + 1) * line_bit + r = Middle(k)
      BY <2>2
    <2> HIDE DEF r
    <2>4. ((k + 1) * line_bit + r) \div line_bit = k + 1
      BY <2>1, <2>3, Quotient
    <2>5. offset \div line_bit = k + 1
      BY <1>4, <2>3, <2>4
    <2> QED BY <1>4, <2>1, <2>5 DEF Level
  <1>5. ASSUME frame # <<>>, offset \in Nat, offset >= StopsAt, offset < FrameEnd PROVE Level = 1
    <2> DEFINE r == offset - StopsAt
    <2>1. r \in Nat /\ r < line_bit /\ StopsAt + r = offset
      BY <1>1, <1>5
    <2> HIDE DEF r
    <2>2. ((FrameBits + 1) * line_bit + r) \div line_bit = FrameBits + 1
      BY <1>1, <2>1, Quotient
    <2>3. offset \div line_bit = FrameBits + 1
      BY <2>1, <2>2 DEF StopsAt
    <2> QED BY <1>5, <2>3 DEF Level
  <1> QED BY <1>2, <1>3, <1>4, <1>5

MonitorTypeOK ==
  /\ line_bit \in Nat \ {0}
  /\ frame = <<>> \/ frame \in Frames
  /\ {offset, heard, timer, count} \subseteq Nat /\ monitoring \in BOOLEAN
  /\ sentFrames \in Seq(Frames) /\ received_bytes \in Seq(Frames) /\ rx_byte \in Seq({0, 1})
  /\ monitor \in {"hunt", "bits", "stop", "done"} /\ test \in {"loop", "await", "summary"}

\* The frame on the line is the last one sent.
OnTheLine ==
  IF frame = <<>> THEN offset < line_bit
  ELSE Len(sentFrames) > 0 /\ frame = sentFrames[Len(sentFrames)] /\ offset < FrameEnd

\* What was received is what was sent, as far as it goes.
Agreed == Len(received_bytes) <= Len(sentFrames) /\ \A i \in 1 .. Len(received_bytes) : received_bytes[i] = sentFrames[i]

\* The monitor is one frame behind while it samples, its timer runs out at its next sample, and it
\* hunts only when the line is idle, in the stop bit of a frame it has, or about to show a start bit.
Sampling(k) ==
  /\ frame # <<>> /\ offset > 0 /\ timer > 0 /\ offset + timer = Middle(k) + 1
  /\ Len(rx_byte) = k /\ \A i \in 1 .. k : rx_byte[i] = frame[i]
  /\ Len(received_bytes) + 1 = Len(sentFrames)
MonitorInStep ==
  /\ monitor = "hunt" => /\ Len(received_bytes) + New = Len(sentFrames)
                         /\ frame # <<>> => offset = 0 \/ offset >= StopsAt
  /\ monitor = "bits" => \E k \in 0 .. FrameBits - 1 : Sampling(k)
  /\ monitor = "stop" => Sampling(FrameBits)
  /\ monitor = "done" => Len(received_bytes) >= heard /\ ~monitoring

\* The test clears the flag when it leaves its loop for the monitor, and sums up when the monitor is done.
Awaited ==
  /\ heard + New <= Len(sentFrames)
  /\ test = "loop" => monitoring
  /\ test = "await" => ~monitoring
  /\ test = "summary" /\ ~monitoring => monitor = "done"

MonitorInv == MonitorTypeOK /\ OnTheLine /\ Agreed /\ MonitorInStep /\ Awaited

\* Nothing is said of a monitor whose bit period is not near the line's.
Paired == Matches => MonitorInv

\* Agreement is what the property means by a prefix.
LEMMA PrefixIs ==
  ASSUME NEW K, NEW s \in Seq(K), NEW t \in Seq(K), Len(s) <= Len(t), \A i \in 1 .. Len(s) : s[i] = t[i]
  PROVE  IsPrefix(s, t)
  <1> DEFINE n == Len(s)
  <1>1. n \in Nat /\ n <= Len(t) /\ Len(t) \in Nat
    BY LenProperties
  <1>2. \A i \in 1 .. n : s[i] \in K /\ t[i] \in K
    BY <1>1, ElementOfSeq
  <1>3. /\ SubSeq(s, 1, n) \in Seq(K) /\ Len(SubSeq(s, 1, n)) = n
        /\ \A i \in 1 .. n : SubSeq(s, 1, n)[i] = s[i]
    <2>1. /\ SubSeq(s, 1, n) \in Seq(K) /\ Len(SubSeq(s, 1, n)) = IF 1 <= n THEN n - 1 + 1 ELSE 0
          /\ \A i \in 1 .. n - 1 + 1 : SubSeq(s, 1, n)[i] = s[1 + i - 1]
      BY <1>1, <1>2, SubSeqProperties, 1 \in Int, n \in Int
    <2> QED BY <2>1, <1>1
  <1>4. /\ SubSeq(t, 1, n) \in Seq(K) /\ Len(SubSeq(t, 1, n)) = n
        /\ \A i \in 1 .. n : SubSeq(t, 1, n)[i] = t[i]
    <2>1. /\ SubSeq(t, 1, n) \in Seq(K) /\ Len(SubSeq(t, 1, n)) = IF 1 <= n THEN n - 1 + 1 ELSE 0
          /\ \A i \in 1 .. n - 1 + 1 : SubSeq(t, 1, n)[i] = t[1 + i - 1]
      BY <1>1, <1>2, SubSeqProperties, 1 \in Int, n \in Int
    <2> QED BY <2>1, <1>1
  <1>5. SubSeq(s, 1, n) = SubSeq(t, 1, n)
    BY <1>3, <1>4, SeqEqual
  <1> QED BY <1>1, <1>5 DEF IsPrefix

\* The inductive invariant gives the property.
LEMMA MonitorMeans == Paired => MonitorHears
  <1> SUFFICES ASSUME Paired, Matches PROVE MonitorHears
    BY Zenon DEF MonitorHears
  <1> MonitorInv
    BY DEF Paired
  <1>1. IsPrefix(received_bytes, sentFrames)
    BY PrefixIs DEF MonitorInv, MonitorTypeOK, Agreed
  <1> QED BY <1>1 DEF MonitorInv, MonitorInStep, Awaited, MonitorHears

\* It holds initially.
LEMMA MonitorInitHolds == MonitorInit => MonitorInv
  <1> SUFFICES ASSUME MonitorInit PROVE MonitorInv
    OBVIOUS
  <1>1. <<>> \in Seq(Frames) /\ <<>> \in Seq({0, 1}) /\ Len(<<>>) = 0
    BY EmptySeq
  <1>2. line_bit \in Nat \ {0}
    <2>1. PICK d \in Divisors : line_bit = Ticks * d
      BY DEF MonitorInit
    <2>2. d \in Nat \ {0} /\ Ticks \in Nat \ {0}
      BY MonitorAssumption
    <2> QED BY <2>1, <2>2
  <1>3. MonitorTypeOK
    BY <1>1, <1>2 DEF MonitorInit, MonitorTypeOK
  <1> QED BY <1>1, <1>2, <1>3 DEF MonitorInit, MonitorInv, OnTheLine, Agreed, MonitorInStep, Awaited, New

\* A frame is not the empty sequence.
LEMMA FrameFacts ==
  \A f \in Frames : f \in Seq({0, 1}) /\ Len(f) = FrameBits /\ f # <<>>
  <1> SUFFICES ASSUME NEW f \in Frames PROVE f \in Seq({0, 1}) /\ Len(f) = FrameBits /\ f # <<>>
    OBVIOUS
  <1>1. f \in [1 .. FrameBits -> {0, 1}] /\ FrameBits \in Nat \ {0}
    BY MonitorAssumption
  <1>2. f \in Seq({0, 1}) /\ Len(f) = FrameBits
    BY <1>1
  <1> QED BY <1>1, <1>2, EmptySeq

\* The line goes on: the next cycle of a frame, an idle line, or a new frame.
LEMMA LineSteps ==
  ASSUME MonitorTypeOK, Matches, OnTheLine, LineAdvances
  PROVE  /\ OnTheLine' /\ sentFrames' \in Seq(Frames) /\ offset' \in Nat /\ (frame' = <<>> \/ frame' \in Frames)
         /\ line_bit' = line_bit /\ Len(sentFrames) \in Nat /\ Len(sentFrames') \in Nat
         /\ \A i \in 1 .. Len(sentFrames) : sentFrames'[i] = sentFrames[i]
         /\ Len(sentFrames') = Len(sentFrames) + New'
         /\ \/ offset' = offset + 1 /\ frame' = frame /\ sentFrames' = sentFrames
            \/ (frame # <<>> => offset + 1 = FrameEnd) /\ offset' = 0
  <1>1. /\ offset \in Nat /\ sentFrames \in Seq(Frames) /\ Len(sentFrames) \in Nat /\ FrameEnd \in Nat /\ FrameEnd > 1
        /\ line_bit \in Nat \ {0}
    BY TimeFacts, LenProperties DEF MonitorTypeOK
  <1>2. LastCycle <=> offset + 1 = (IF frame = <<>> THEN line_bit ELSE FrameEnd)
    BY <1>1 DEF LastCycle, FrameEnd
  <1>3. line_bit' = line_bit /\ FrameEnd' = FrameEnd
    BY DEF LineAdvances, FrameEnd
  <1>4. CASE ~LastCycle
    <2>1. offset' = offset + 1 /\ frame' = frame /\ sentFrames' = sentFrames
      BY <1>4 DEF LineAdvances
    <2>2. New' = 0
      BY <1>1, <2>1 DEF New
    <2>3. offset + 1 < (IF frame = <<>> THEN line_bit ELSE FrameEnd)
      BY <1>1, <1>2, <1>4 DEF OnTheLine
    <2>4. OnTheLine'
      BY <1>3, <2>1, <2>3 DEF OnTheLine
    <2>5. Len(sentFrames') = Len(sentFrames) + New'
      BY <2>1, <2>2, <1>1
    <2> QED BY <1>1, <1>3, <2>1, <2>4, <2>5 DEF MonitorTypeOK
  <1>5. CASE LastCycle
    <2>1. offset' = 0 /\ (frame # <<>> => offset + 1 = FrameEnd)
      BY <1>2, <1>5 DEF LineAdvances
    <2>2. CASE frame' = <<>> /\ UNCHANGED sentFrames
      <3>1. New' = 0 /\ OnTheLine'
        BY <1>1, <1>3, <2>1, <2>2 DEF New, OnTheLine
      <3> QED BY <1>1, <1>3, <2>1, <2>2, <3>1
    <2>3. CASE frame' \in Frames /\ sentFrames' = Append(sentFrames, frame')
      <3>1. frame' # <<>>
        BY <2>3, FrameFacts
      <3>2. /\ sentFrames' \in Seq(Frames) /\ Len(sentFrames') = Len(sentFrames) + 1 /\ sentFrames'[Len(sentFrames) + 1] = frame'
            /\ \A i \in 1 .. Len(sentFrames) : sentFrames'[i] = sentFrames[i]
        BY <1>1, <2>3, AppendProperties
      <3>3. New' = 1
        BY <2>1, <3>1 DEF New
      <3>4. OnTheLine'
        BY <1>1, <1>3, <2>1, <3>1, <3>2 DEF OnTheLine
      <3> QED BY <1>1, <1>3, <2>1, <2>3, <3>2, <3>3, <3>4
    <2> QED BY <1>5, <2>2, <2>3 DEF LineAdvances
  <1> QED BY <1>4, <1>5

\* The test at an edge: what it does to the flag and to heard.
LEMMA TestSteps ==
  ASSUME MonitorTypeOK, Awaited, NEW done \in BOOLEAN, TestEdge(done), Len(sentFrames) \in Nat
  PROVE  /\ heard' \in Nat /\ count' \in Nat /\ monitoring' \in BOOLEAN /\ test' \in {"loop", "await", "summary"}
         /\ heard' + New <= Len(sentFrames)
         /\ (~monitoring => ~monitoring' /\ heard' = heard)
         /\ (test' = "loop" => monitoring') /\ (test' = "await" => ~monitoring')
         /\ (test' = "summary" /\ ~monitoring' => monitor = "done")
  <1>1. New \in {0, 1} /\ heard \in Nat /\ count \in Nat /\ monitoring \in BOOLEAN
    BY DEF New, MonitorTypeOK
  <1>2. CASE test = "loop"
    <2>1. count' = count + 1 /\ monitoring
      BY <1>2 DEF TestEdge, Awaited
    <2>2. CASE done
      <3>1. test' = "await" /\ monitoring' = FALSE /\ heard' = Len(sentFrames) - New
        BY <1>2, <2>2 DEF TestEdge
      <3>2. heard' \in Nat /\ heard' + New <= Len(sentFrames)
        BY <1>1, <3>1 DEF Awaited
      <3>3. count' \in Nat
        BY <1>1, <2>1
      <3>4. ~monitoring' /\ monitoring' \in BOOLEAN
        BY <3>1
      <3> QED BY <2>1, <3>1, <3>2, <3>3, <3>4, Zenon
    <2>3. CASE ~done
      <3>1. monitoring' = monitoring /\ heard' = heard /\ test' \in {"loop", "summary"}
        BY <1>2, <2>3 DEF TestEdge
      <3> QED BY <1>1, <2>1, <3>1 DEF Awaited
    <2> QED BY <2>2, <2>3
  <1>3. CASE test # "loop"
    <2>1. test = "await" /\ UNCHANGED <<monitoring, heard, count>> /\ test' = (IF monitor = "done" THEN "summary" ELSE "await")
      BY <1>3 DEF TestEdge
    <2> QED BY <1>1, <2>1 DEF Awaited
  <1> QED BY <1>2, <1>3

\* The monitor at an edge, while the test and the line go on as above.
LEMMA MonitorStep ==
  ASSUME MonitorInv, Matches, NEW done \in BOOLEAN, NEW first \in BOOLEAN, Edge(done, first)
  PROVE  MonitorInv'
  <1> DEFINE on == IF first THEN monitoring ELSE monitoring'
             nr == Len(received_bytes)
             ns == Len(sentFrames)
             stops == StopsAt
  <1>1. MonitorTypeOK /\ OnTheLine /\ Agreed /\ MonitorInStep /\ Awaited /\ TestEdge(done) /\ MonitorEdge(on) /\ LineAdvances
    BY DEF MonitorInv, Edge
  <1>2. /\ OnTheLine' /\ sentFrames' \in Seq(Frames) /\ offset' \in Nat /\ (frame' = <<>> \/ frame' \in Frames)
        /\ line_bit' = line_bit /\ ns \in Nat /\ Len(sentFrames') \in Nat
        /\ \A i \in 1 .. ns : sentFrames'[i] = sentFrames[i]
        /\ Len(sentFrames') = ns + New'
        /\ \/ offset' = offset + 1 /\ frame' = frame /\ sentFrames' = sentFrames
           \/ (frame # <<>> => offset + 1 = FrameEnd) /\ offset' = 0
    BY <1>1, LineSteps
  <1>3. /\ heard' \in Nat /\ count' \in Nat /\ monitoring' \in BOOLEAN /\ test' \in {"loop", "await", "summary"}
        /\ heard' + New <= ns
        /\ (~monitoring => ~monitoring' /\ heard' = heard)
        /\ (test' = "loop" => monitoring') /\ (test' = "await" => ~monitoring')
        /\ (test' = "summary" /\ ~monitoring' => monitor = "done")
    BY <1>1, <1>2, TestSteps
  <1>4. ~on => ~monitoring'
    BY <1>3
  <1> HIDE DEF on
  <1>5. /\ offset \in Nat /\ timer \in Nat /\ heard \in Nat /\ nr \in Nat /\ nr <= ns /\ sentFrames \in Seq(Frames)
        /\ received_bytes \in Seq(Frames) /\ rx_byte \in Seq({0, 1}) /\ (frame = <<>> \/ frame \in Frames)
        /\ New \in {0, 1} /\ New' \in {0, 1} /\ line_bit \in Nat \ {0} /\ StopsAt' = StopsAt
    BY <1>1, <1>2, LenProperties DEF MonitorTypeOK, Agreed, New, StopsAt
  <1>6. /\ FrameBits \in Nat \ {0} /\ FirstSample \in Nat \ {0} /\ BitPeriod \in Nat \ {0} /\ FrameEnd \in Nat /\ FrameEnd > 1
        /\ Middle(0) = FirstSample /\ stops \in Nat /\ Middle(FrameBits) >= stops
        /\ \A k \in 0 .. FrameBits : Middle(k) \in Nat /\ Middle(k + 1) = Middle(k) + BitPeriod /\ Middle(k) + 1 < FrameEnd
    BY <1>5, TimeFacts
  <1>7. heard' + New' <= Len(sentFrames')
    BY <1>2, <1>3, <1>5
  <1>8. monitor = "done" => monitor' = "done"
    BY <1>1 DEF MonitorEdge
  <1>9. Awaited'
    BY <1>3, <1>7, <1>8 DEF Awaited
  <1> HIDE DEF stops
  \* Waiting for a start bit.
  <1>10. CASE monitor = "hunt"
    <2>1. Hunt(on) /\ received_bytes' = received_bytes
      BY <1>1, <1>10 DEF MonitorEdge
    <2>2. nr + New = ns /\ (frame # <<>> => offset = 0 \/ offset >= stops)
      BY <1>1, <1>10 DEF MonitorInStep, stops
    <2>3. Agreed'
      BY <1>1, <1>2, <1>5, <2>1 DEF Agreed
    <2>4. CASE ~on
      <3>1. monitor' = "done" /\ timer' = timer /\ rx_byte' = rx_byte
        BY <2>1, <2>4 DEF Hunt
      <3>2. nr >= heard' /\ ~monitoring'
        BY <1>3, <1>4, <1>5, <2>2, <2>4
      <3>3. MonitorInStep'
        BY <2>1, <3>1, <3>2 DEF MonitorInStep
      <3>4. MonitorTypeOK'
        BY <1>2, <1>3, <1>5, <2>1, <3>1 DEF MonitorTypeOK
      <3> QED BY <1>2, <1>9, <2>3, <3>3, <3>4 DEF MonitorInv
    <2>5. CASE on /\ frame # <<>> /\ offset = 0
      <3>1. monitor' = "bits" /\ timer' = FirstSample /\ rx_byte' = <<>>
        <4>1. Level = 0
          BY <1>5, <2>5, LevelFacts
        <4> QED BY <2>1, <2>5, <4>1 DEF Hunt, StartBit
      <3>2. frame' = frame /\ offset' = 1 /\ sentFrames' = sentFrames
        <4>1. offset + 1 # FrameEnd /\ offset + 1 = 1
          BY <1>6, <2>5
        <4> QED BY <1>2, <2>5, <4>1
      <3>3. New = 1
        BY <2>5 DEF New
      <3>4. <<>> \in Seq({0, 1}) /\ Len(<<>>) = 0
        BY EmptySeq
      <3>5. Sampling(0)'
        <4>1. Len(received_bytes') + 1 = Len(sentFrames')
          BY <2>1, <2>2, <3>2, <3>3
        <4>2. offset' + timer' = Middle(0) + 1 /\ offset' > 0 /\ timer' > 0
          BY <1>6, <3>1, <3>2
        <4>3. Len(rx_byte') = 0 /\ \A i \in 1 .. 0 : rx_byte'[i] = frame'[i]
          BY <3>1, <3>4
        <4> QED BY <2>5, <3>2, <4>1, <4>2, <4>3 DEF Sampling, Middle
      <3>6. MonitorInStep'
        <4>1. 0 \in 0 .. FrameBits - 1
          BY <1>6
        <4> QED BY <3>1, <3>5, <4>1 DEF MonitorInStep
      <3>7. MonitorTypeOK'
        BY <1>2, <1>3, <1>5, <1>6, <2>1, <3>1, <3>4 DEF MonitorTypeOK
      <3> QED BY <1>2, <1>9, <2>3, <3>6, <3>7 DEF MonitorInv
    <2>6. CASE on /\ ~(frame # <<>> /\ offset = 0)
      <3>1. monitor' = "hunt" /\ timer' = timer /\ rx_byte' = rx_byte
        <4>1. frame # <<>> => offset >= stops /\ offset < FrameEnd
          BY <1>1, <2>2, <2>6 DEF OnTheLine
        <4>2. Level = 1
          BY <4>1, <1>5, LevelFacts DEF stops
        <4> QED BY <2>1, <2>6, <4>2, <1>10 DEF Hunt, StartBit
      <3>2. New = 0 /\ nr = ns
        BY <2>2, <2>6, <1>5 DEF New
      <3>3. nr + New' = Len(sentFrames')
        BY <1>2, <3>2
      <3>4. frame' # <<>> => offset' = 0 \/ offset' >= stops
        <4>1. CASE offset' = offset + 1 /\ frame' = frame
          BY <1>5, <1>6, <2>2, <2>6, <4>1
        <4>2. CASE offset' = 0
          BY <4>2
        <4> QED BY <1>2, <4>1, <4>2
      <3>5. MonitorInStep'
        BY <1>5, <2>1, <3>1, <3>3, <3>4 DEF MonitorInStep, stops
      <3>6. MonitorTypeOK'
        BY <1>2, <1>3, <1>5, <2>1, <3>1 DEF MonitorTypeOK
      <3> QED BY <1>2, <1>9, <2>3, <3>5, <3>6 DEF MonitorInv
    <2> QED BY <2>4, <2>5, <2>6
  \* Sampling: the frame goes on, as the middle of none of its bits is its end.
  <1>11. ASSUME NEW k \in 0 .. FrameBits, Sampling(k)
         PROVE  /\ frame' = frame /\ offset' = offset + 1 /\ sentFrames' = sentFrames /\ Len(sentFrames') = nr + 1
                /\ timer > 1 => (timer - 1 \in Nat /\ timer - 1 > 0 /\ (offset + 1) + (timer - 1) = Middle(k) + 1)
                /\ ~(timer > 1) => offset = Middle(k)
    <2>1. offset > 0 /\ timer > 0 /\ offset + timer = Middle(k) + 1 /\ frame # <<>> /\ nr + 1 = ns
      BY <1>11 DEF Sampling
    <2>2. Middle(k) \in Nat /\ Middle(k) + 1 < FrameEnd
      BY <1>6
    <2>3. offset + 1 # FrameEnd
      BY <1>5, <1>6, <2>1, <2>2
    <2>4. frame' = frame /\ offset' = offset + 1 /\ sentFrames' = sentFrames
      BY <1>2, <2>1, <2>3
    <2> QED BY <1>5, <2>1, <2>2, <2>4
  <1>12. CASE monitor = "bits"
    <2>1. PICK k \in 0 .. FrameBits - 1 : Sampling(k)
      BY <1>1, <1>12 DEF MonitorInStep
    <2>2. k \in 0 .. FrameBits /\ k + 1 \in 0 .. FrameBits /\ k \in Nat
      BY <1>6
    <2>3. /\ frame' = frame /\ offset' = offset + 1 /\ sentFrames' = sentFrames /\ Len(sentFrames') = nr + 1
          /\ timer > 1 => (timer - 1 \in Nat /\ timer - 1 > 0 /\ (offset + 1) + (timer - 1) = Middle(k) + 1)
          /\ ~(timer > 1) => offset = Middle(k)
      BY <1>11, <2>1, <2>2
    <2>4. received_bytes' = received_bytes /\ frame # <<>> /\ offset > 0 /\ Len(rx_byte) = k /\ \A i \in 1 .. k : rx_byte[i] = frame[i]
      BY <1>1, <1>12, <2>1 DEF MonitorEdge, Sampling
    <2>5. Agreed'
      BY <1>1, <1>2, <1>5, <2>3, <2>4 DEF Agreed
    <2>6. offset + 1 > 0
      BY <1>5
    <2>7. CASE timer > 1
      <3>1. timer' = timer - 1 /\ monitor' = "bits" /\ rx_byte' = rx_byte
        BY <1>1, <1>12, <2>7 DEF MonitorEdge
      <3>2. Sampling(k)'
        BY <2>3, <2>4, <2>6, <2>7, <3>1 DEF Sampling, Middle
      <3>3. MonitorInStep'
        BY <3>1, <3>2 DEF MonitorInStep
      <3>4. MonitorTypeOK'
        BY <1>2, <1>3, <1>5, <2>3, <2>4, <2>7, <3>1 DEF MonitorTypeOK
      <3> QED BY <1>2, <1>9, <2>5, <3>3, <3>4 DEF MonitorInv
    <2>8. CASE ~(timer > 1)
      <3>1. rx_byte' = Append(rx_byte, Level) /\ timer' = BitPeriod /\ monitor' = (IF Len(rx_byte') = FrameBits THEN "stop" ELSE "bits")
        BY <1>1, <1>12, <2>8 DEF MonitorEdge
      <3>2. Level = frame[k + 1] /\ Level \in {0, 1}
        <4>1. Level = frame[k + 1]
          BY <1>5, <2>3, <2>4, <2>8, LevelFacts
        <4>2. frame \in Frames /\ k + 1 \in 1 .. FrameBits
          BY <1>5, <1>6, <2>4
        <4>3. frame[k + 1] \in {0, 1}
          BY <4>2, MonitorAssumption
        <4> QED BY <4>1, <4>3
      <3>3. rx_byte' \in Seq({0, 1}) /\ Len(rx_byte') = k + 1 /\ (\A i \in 1 .. k : rx_byte'[i] = rx_byte[i]) /\ rx_byte'[k + 1] = Level
        BY <1>5, <2>4, <3>1, <3>2, AppendProperties
      <3>4. \A i \in 1 .. k + 1 : rx_byte'[i] = frame'[i]
        BY <2>2, <2>3, <2>4, <3>2, <3>3
      <3>5. offset' + timer' = Middle(k + 1) + 1
        <4>1. offset = Middle(k) /\ Middle(k) \in Nat /\ Middle(k + 1) = Middle(k) + BitPeriod
          BY <1>6, <2>2, <2>3, <2>8
        <4> QED BY <1>6, <2>3, <3>1, <4>1
      <3>6. offset' > 0 /\ timer' > 0
        BY <1>6, <2>3, <2>6, <3>1
      <3>7. Sampling(k + 1)'
        BY <2>3, <2>4, <3>3, <3>4, <3>5, <3>6 DEF Sampling, Middle
      <3>8. MonitorInStep'
        <4>1. CASE k + 1 = FrameBits
          BY <3>1, <3>3, <3>7, <4>1 DEF MonitorInStep
        <4>2. CASE k + 1 # FrameBits
          <5>1. k + 1 \in 0 .. FrameBits - 1
            BY <1>6, <4>2
          <5>2. monitor' = "bits"
            BY <3>1, <3>3, <4>2
          <5> QED BY <3>7, <5>1, <5>2 DEF MonitorInStep
        <4> QED BY <4>1, <4>2
      <3>9. MonitorTypeOK'
        BY <1>2, <1>3, <1>5, <1>6, <2>4, <3>1, <3>3 DEF MonitorTypeOK
      <3> QED BY <1>2, <1>9, <2>5, <3>8, <3>9 DEF MonitorInv
    <2> QED BY <2>7, <2>8
  <1>13. CASE monitor = "stop"
    <2>1. Sampling(FrameBits) /\ FrameBits \in 0 .. FrameBits
      BY <1>1, <1>6, <1>13 DEF MonitorInStep
    <2>2. /\ frame' = frame /\ offset' = offset + 1 /\ sentFrames' = sentFrames /\ Len(sentFrames') = nr + 1
          /\ timer > 1 => (timer - 1 \in Nat /\ timer - 1 > 0 /\ (offset + 1) + (timer - 1) = Middle(FrameBits) + 1)
          /\ ~(timer > 1) => offset = Middle(FrameBits)
      BY <1>11, <2>1
    <2>3. frame # <<>> /\ offset > 0 /\ Len(rx_byte) = FrameBits /\ \A i \in 1 .. FrameBits : rx_byte[i] = frame[i]
      BY <1>1, <1>13, <2>1 DEF MonitorEdge, Sampling
    <2>4. offset + 1 > 0
      BY <1>5
    <2>5. CASE timer > 1
      <3>1. timer' = timer - 1 /\ monitor' = "stop" /\ UNCHANGED <<rx_byte, received_bytes>>
        BY <1>1, <1>13, <2>5 DEF MonitorEdge
      <3>2. Sampling(FrameBits)'
        BY <2>2, <2>3, <2>4, <2>5, <3>1 DEF Sampling, Middle
      <3>3. MonitorInStep'
        BY <3>1, <3>2 DEF MonitorInStep
      <3>4. MonitorTypeOK'
        BY <1>2, <1>3, <1>5, <2>2, <2>3, <2>5, <3>1 DEF MonitorTypeOK
      <3>5. Agreed'
        BY <1>1, <1>2, <1>5, <2>2, <3>1 DEF Agreed
      <3> QED BY <1>2, <1>9, <3>3, <3>4, <3>5 DEF MonitorInv
    <2>6. CASE ~(timer > 1)
      <3>1. /\ received_bytes' = Append(received_bytes, rx_byte) /\ UNCHANGED <<timer, rx_byte>>
            /\ monitor' = (IF on THEN "hunt" ELSE "done")
        <4>1. offset >= stops /\ offset < FrameEnd
          BY <1>5, <1>6, <2>1, <2>2, <2>6
        <4>2. Level = 1
          BY <1>5, <2>3, <4>1, LevelFacts DEF stops
        <4>3. received_bytes' = Append(received_bytes, rx_byte) /\ Hunt(on)
          BY <1>1, <1>13, <2>6 DEF MonitorEdge
        <4> QED BY <4>2, <4>3 DEF Hunt, StartBit
      <3>2. rx_byte = frame /\ frame \in Frames
        <4>1. frame \in Frames /\ frame \in Seq({0, 1}) /\ Len(frame) = FrameBits
          BY <1>5, <2>3, FrameFacts
        <4> QED BY <1>5, <2>3, <4>1, SeqEqual
      <3>3. /\ received_bytes' \in Seq(Frames) /\ Len(received_bytes') = nr + 1 /\ received_bytes'[nr + 1] = frame
            /\ \A i \in 1 .. nr : received_bytes'[i] = received_bytes[i]
        BY <1>5, <3>1, <3>2, AppendProperties
      <3>4. sentFrames[nr + 1] = frame /\ ns = nr + 1
        BY <1>1, <1>5, <2>2, <2>3 DEF OnTheLine
      <3>5. Agreed'
        <4>1. \A i \in 1 .. nr + 1 : received_bytes'[i] = sentFrames[i]
          BY <1>1, <1>5, <3>3, <3>4 DEF Agreed
        <4> QED BY <2>2, <3>3, <3>4, <4>1, <1>5 DEF Agreed
      <3>6. New = 0 /\ New' = 0
        BY <1>5, <2>2, <2>3, <2>4 DEF New
      <3>7. offset' >= stops
        BY <1>6, <2>2, <2>6
      <3>8. Len(received_bytes') + New' = Len(sentFrames')
        BY <1>5, <2>2, <3>3, <3>6
      <3>9. Len(received_bytes') >= heard'
        BY <1>3, <1>5, <3>3, <3>4, <3>6
      <3>10. monitor' = "done" => ~monitoring'
        BY <1>4, <3>1
      <3>11. MonitorInStep'
        BY <1>5, <3>1, <3>7, <3>8, <3>9, <3>10 DEF MonitorInStep, stops
      <3>12. MonitorTypeOK'
        BY <1>2, <1>3, <1>5, <2>3, <3>1, <3>3 DEF MonitorTypeOK
      <3> QED BY <1>2, <1>9, <3>5, <3>11, <3>12 DEF MonitorInv
    <2> QED BY <2>5, <2>6
  <1>14. CASE monitor = "done"
    <2>1. UNCHANGED <<monitor, timer, rx_byte, received_bytes>>
      BY <1>1, <1>14 DEF MonitorEdge
    <2>2. nr >= heard' /\ ~monitoring'
      BY <1>1, <1>3, <1>14 DEF MonitorInStep
    <2>3. MonitorInStep'
      BY <1>14, <2>1, <2>2 DEF MonitorInStep
    <2>4. Agreed'
      BY <1>1, <1>2, <1>5, <2>1 DEF Agreed
    <2>5. MonitorTypeOK'
      BY <1>1, <1>2, <1>3, <1>5, <2>1 DEF MonitorTypeOK
    <2> QED BY <1>2, <1>9, <2>3, <2>4, <2>5 DEF MonitorInv
  <1> QED BY <1>1, <1>10, <1>12, <1>13, <1>14 DEF MonitorTypeOK

\* Whenever the monitor's samples fall into the bits of the line (Matches), what it hears is what was sent, and
\* at the end all of it, for any frame length, bit period of the monitor, divisor of the UART and moment of
\* CPU_DONE, whichever coroutine runs first (start_monitoring, run_c_code).
THEOREM ProgramIsHeard == MonitorSpec => []MonitorHears
  <1>1. MonitorInit => Paired
    BY MonitorInitHolds DEF Paired
  <1>2. Paired /\ [MonitorNext]_uvars => Paired'
    <2> SUFFICES ASSUME Paired, [MonitorNext]_uvars, Matches' PROVE MonitorInv'
      BY DEF Paired
    <2>1. line_bit' = line_bit
      BY DEF MonitorNext, Edge, LineAdvances, uvars
    <2>2. Matches /\ MonitorInv
      BY <2>1 DEF Matches, Paired
    <2>3. CASE UNCHANGED uvars
      BY <2>2, <2>3 DEF uvars, MonitorInv, MonitorTypeOK, OnTheLine, Agreed, MonitorInStep, Sampling, Awaited, New,
                        FrameEnd, StopsAt
    <2>4. CASE MonitorNext
      BY <2>2, <2>4, MonitorStep DEF MonitorNext
    <2> QED BY <2>3, <2>4
  <1>3. Paired => MonitorHears
    BY MonitorMeans
  <1> QED BY <1>1, <1>2, <1>3, PTL DEF MonitorSpec
=============================================================================
