---------------------------- MODULE Blocks_proofs ---------------------------
(***************************************************************************)
(* Theorems about the blocks of the SoC that stand alone: the PLIC, the    *)
(* timer, the reservation of LR and SC, the memory adapter, the MMU with   *)
(* its TLB, for any pages, page tables, TLB size and number of stores to   *)
(* the tables, and the receiver of the UART, for any divisor.              *)
(***************************************************************************)
EXTENDS MemAdapter, Plic, Timer, Reservation, Sv32Mmu, UartRx, SequenceTheorems, TLAPS, WellFoundedInduction

-----------------------------------------------------------------------------
(* Induction, stated about sets of numbers: what the provers cannot do     *)
(* with a predicate as a parameter they can with its extension.            *)

\* Every nonempty set of natural numbers has a least element.
LEMMA LeastNumber ==
  ASSUME NEW T, T \subseteq Nat, T # {}
  PROVE  \E n \in T : \A m \in T : n <= m
  <1> DEFINE R == {ss \in Nat \X Nat : ss[1] < ss[2]}
  <1>1. PICK n \in T : \A m \in T : ~(<<m, n>> \in R)
    <2>1. IsWellFoundedOn(R, Nat)
      BY NatLessThanWellFounded, Zenon DEF OpToRel
    <2> HIDE DEF R
    <2> QED BY <2>1, WFMin
  <1>2. \A m \in T : ~(m < n)
    BY <1>1
  <1> QED BY <1>2

\* A set that holds 0 and the successor of each of its numbers holds all.
LEMMA Induction ==
  ASSUME NEW T, 0 \in T, \A n \in Nat : n \in T => n + 1 \in T
  PROVE  Nat \subseteq T
  <1> SUFFICES ASSUME Nat \ T # {} PROVE FALSE
    OBVIOUS
  <1>1. PICK n \in Nat \ T : \A m \in Nat \ T : n <= m
    <2> DEFINE rest == Nat \ T
    <2>1. rest \subseteq Nat /\ rest # {}
      OBVIOUS
    <2> HIDE DEF rest
    <2>2. \E n \in rest : \A m \in rest : n <= m
      BY <2>1, LeastNumber
    <2> QED BY <2>2 DEF rest
  <1>2. n - 1 \in Nat /\ n - 1 \in T
    BY <1>1
  <1> QED BY <1>2

-----------------------------------------------------------------------------
(* The PLIC.                                                               *)

\* The loop of plic.v computes what its body says, round by round.
LEMMA BestIsLoop ==
  ASSUME NEW c
  PROVE  Best(c) = [s \in 0 .. NumSources |->
                      IF s = 0 THEN [id |-> 0, priority |-> threshold[c]]
                      ELSE IF Better(s, c, Best(c)[s - 1]) THEN [id |-> s, priority |-> priority_q[s]]
                      ELSE Best(c)[s - 1]]
  <1> DEFINE none == [id |-> 0, priority |-> threshold[c]]
             Round(s, b) == IF Better(s, c, b) THEN [id |-> s, priority |-> priority_q[s]] ELSE b
             Runs(g, n) == g = [s \in 0 .. n |-> IF s = 0 THEN none ELSE Round(s, g[s - 1])]
             T == {n \in Nat : \E g : Runs(g, n)}
  <1> HIDE DEF Round, none
  <1>1. 0 \in T
    <2>1. Runs([s \in 0 .. 0 |-> none], 0)
      OBVIOUS
    <2> QED BY <2>1, Zenon
  <1>2. ASSUME NEW n \in Nat, n \in T PROVE n + 1 \in T
    <2>1. PICK g : Runs(g, n)
      BY <1>2, Zenon
    <2> DEFINE h == [s \in 0 .. n + 1 |-> IF s = n + 1 THEN Round(n + 1, g[n]) ELSE g[s]]
    <2>2. Runs(h, n + 1)
      <3> SUFFICES ASSUME NEW s \in 0 .. n + 1
                   PROVE h[s] = IF s = 0 THEN none ELSE Round(s, h[s - 1])
        BY Zenon
      <3>1. CASE s = n + 1
        BY <3>1
      <3>2. CASE s # n + 1
        <4>1. s \in 0 .. n
          BY <3>2
        <4>2. g[s] = IF s = 0 THEN none ELSE Round(s, g[s - 1])
          BY <2>1, <4>1
        <4> QED BY <4>1, <4>2, <3>2
      <3> QED BY <3>1, <3>2
    <2>3. n + 1 \in Nat
      OBVIOUS
    <2> HIDE DEF Runs
    <2> QED BY <2>2, <2>3
  <1>3. \E g : Runs(g, NumSources)
    <2> HIDE DEF T
    <2>1. NumSources \in T
      BY <1>1, <1>2, Induction, SourcesAssumption
    <2> QED BY <2>1, Zenon DEF T
  <1>4. Best(c) = CHOOSE g : Runs(g, NumSources)
    BY Zenon DEF Best, Round, none
  <1>5. Runs(Best(c), NumSources)
    <2> HIDE DEF Runs
    <2> QED BY <1>3, <1>4, Zenon
  <1> QED BY <1>5, Zenon DEF Round, none

\* The loop over the sources, as a recursive function.
LEMMA BestRounds ==
  ASSUME NEW c
  PROVE  /\ Best(c)[0] = [id |-> 0, priority |-> threshold[c]]
         /\ \A s \in Nat : s + 1 <= NumSources =>
              Best(c)[s + 1] = IF Better(s + 1, c, Best(c)[s]) THEN [id |-> s + 1, priority |-> priority_q[s + 1]]
                               ELSE Best(c)[s]
  <1>1. ASSUME NEW s \in 0 .. NumSources
        PROVE  Best(c)[s] = IF s = 0 THEN [id |-> 0, priority |-> threshold[c]]
                            ELSE IF Better(s, c, Best(c)[s - 1]) THEN [id |-> s, priority |-> priority_q[s]]
                            ELSE Best(c)[s - 1]
    BY BestIsLoop, Zenon
  <1>2. Best(c)[0] = [id |-> 0, priority |-> threshold[c]]
    <2>1. 0 \in 0 .. NumSources
      BY SourcesAssumption
    <2> QED BY <1>1, <2>1, Zenon
  <1>3. ASSUME NEW s \in Nat, s + 1 <= NumSources
        PROVE  Best(c)[s + 1] = IF Better(s + 1, c, Best(c)[s]) THEN [id |-> s + 1, priority |-> priority_q[s + 1]]
                                ELSE Best(c)[s]
    <2>1. s + 1 \in 0 .. NumSources /\ s + 1 # 0 /\ (s + 1) - 1 = s
      BY <1>3, SourcesAssumption
    <2>2. Best(c)[s + 1] = IF Better(s + 1, c, Best(c)[(s + 1) - 1]) THEN [id |-> s + 1, priority |-> priority_q[s + 1]]
                           ELSE Best(c)[(s + 1) - 1]
      BY <1>1, <2>1, Zenon
    <2> QED BY <2>1, <2>2, Zenon
  <1> QED BY <1>2, <1>3, Zenon

\* After the round of source s the best is that of the first s sources.
BestOfFirst(c, s) ==
  LET b == Best(c)[s]
      E == {t \in Eligible(c) : t <= s}
  IN IF E = {} THEN b = [id |-> 0, priority |-> threshold[c]]
     ELSE b.id \in E /\ b.priority = priority_q[b.id] /\ \A t \in E \ {b.id} : Beats(b.id, t)

\* One more round of it.
LEMMA BestRound ==
  ASSUME PlicTypeOK, NEW c \in Context, NEW s \in Nat, s + 1 <= NumSources, BestOfFirst(c, s)
  PROVE  BestOfFirst(c, s + 1)
  <1> DEFINE b == Best(c)[s]
             e == Best(c)[s + 1]
             E == {t \in Eligible(c) : t <= s}
             F == {t \in Eligible(c) : t <= s + 1}
             good == Better(s + 1, c, b)
  <1>1. e = IF good THEN [id |-> s + 1, priority |-> priority_q[s + 1]] ELSE b
    BY BestRounds, Zenon
  <1>2. s + 1 \in Source /\ Eligible(c) \subseteq Source /\ \A t \in Source : priority_q[t] \in Nat
    BY SourcesAssumption DEF PlicTypeOK, Source, Eligible, Priority
  <1>3. F = E \cup ({s + 1} \cap Eligible(c)) /\ s + 1 \notin E
    BY <1>2, SourcesAssumption DEF Source
  <1>4. threshold[c] \in Nat
    BY SourcesAssumption DEF PlicTypeOK, Priority
  <1>5. CASE E = {}
    <2>1. b = [id |-> 0, priority |-> threshold[c]]
      BY <1>5 DEF BestOfFirst
    <2>2. good <=> s + 1 \in Eligible(c)
      BY <2>1, <1>2 DEF Better, Eligible
    <2> HIDE DEF e, b, good
    <2>3. CASE good
      <3>1. F = {s + 1} /\ e = [id |-> s + 1, priority |-> priority_q[s + 1]]
        BY <2>3, <2>2, <1>1, <1>3, <1>5
      <3> QED BY <3>1 DEF BestOfFirst, e
    <2>4. CASE ~good
      BY <2>4, <2>1, <2>2, <1>1, <1>3, <1>5 DEF BestOfFirst, e
    <2> QED BY <2>3, <2>4
  <1>6. CASE E # {}
    <2>1. b.id \in E /\ b.priority = priority_q[b.id] /\ \A t \in E \ {b.id} : Beats(b.id, t)
      BY <1>6 DEF BestOfFirst
    <2>2. b.id \in Source /\ b.id <= s /\ priority_q[b.id] > threshold[c]
      BY <2>1, <1>2 DEF Eligible
    <2>3. good <=> s + 1 \in Eligible(c) /\ priority_q[s + 1] > priority_q[b.id]
      BY <2>1, <2>2, <1>2, <1>4 DEF Better, Eligible
    <2> HIDE DEF e, b, good
    <2>4. CASE good
      <3>1. e.id = s + 1 /\ e.priority = priority_q[s + 1] /\ s + 1 \in F
        BY <2>3, <2>4, <1>1, <1>3
      <3>2. ASSUME NEW t \in F \ {s + 1} PROVE Beats(s + 1, t)
        <4>1. t \in E /\ t \in Source
          BY <1>2, <1>3
        <4>2. t = b.id \/ Beats(b.id, t)
          BY <4>1, <2>1
        <4> QED BY <4>1, <4>2, <2>2, <2>3, <2>4, <1>2 DEF Beats
      <3> QED BY <3>1, <3>2 DEF BestOfFirst, e
    <2>5. CASE ~good
      <3>1. e = b /\ b.id \in F
        BY <2>5, <1>1, <1>3, <2>1
      <3>2. ASSUME NEW t \in F \ {b.id} PROVE Beats(b.id, t)
        <4>1. CASE t \in E
          BY <4>1, <2>1
        <4>2. CASE t \notin E
          <5>1. t = s + 1 /\ t \in Eligible(c)
            BY <4>2, <1>3
          <5> QED BY <5>1, <2>2, <2>3, <2>5, <1>2, SourcesAssumption DEF Beats, Source
        <4> QED BY <4>1, <4>2
      <3> QED BY <3>1, <3>2, <2>1 DEF BestOfFirst, e
    <2> QED BY <2>4, <2>5
  <1> QED BY <1>5, <1>6

\* The loop ends with the best of all sources.
LEMMA ClaimIsBest ==
  ASSUME PlicTypeOK
  PROVE  ClaimsTheBest
  <1> SUFFICES ASSUME NEW c \in Context
               PROVE  IF Eligible(c) = {} THEN best_source(c) = 0
                      ELSE /\ best_source(c) \in Eligible(c)
                           /\ \A t \in Eligible(c) \ {best_source(c)} : Beats(best_source(c), t)
    BY DEF ClaimsTheBest
  <1> DEFINE T == {n \in Nat : n <= NumSources => BestOfFirst(c, n)}
  <1>1. 0 \in T
    <2>1. {t \in Eligible(c) : t <= 0} = {}
      BY SourcesAssumption DEF Eligible, PlicTypeOK, Source
    <2>2. BestOfFirst(c, 0)
      BY <2>1, BestRounds DEF BestOfFirst
    <2> QED BY <2>2
  <1>2. ASSUME NEW n \in Nat, n \in T PROVE n + 1 \in T
    <2>1. ASSUME n + 1 <= NumSources PROVE BestOfFirst(c, n + 1)
      <3>1. BestOfFirst(c, n)
        BY <1>2, <2>1, SourcesAssumption
      <3> QED BY <2>1, <3>1, BestRound
    <2> QED BY <2>1
  <1>3. BestOfFirst(c, NumSources)
    <2> HIDE DEF T
    <2>1. NumSources \in T
      BY <1>1, <1>2, Induction, SourcesAssumption
    <2> QED BY <2>1, SourcesAssumption DEF T
  <1>4. {t \in Eligible(c) : t <= NumSources} = Eligible(c)
    BY SourcesAssumption DEF Eligible, PlicTypeOK, Source
  <1> QED BY <1>3, <1>4 DEF BestOfFirst, best_source

\* The registers keep their types, and the claim its range.
LEMMA PlicTypeStep ==
  ASSUME PlicTypeOK, [PlicNext]_plicvars
  PROVE  PlicTypeOK'
  <1>1. \A c \in Context : best_source(c) \in 0 .. NumSources
    BY ClaimIsBest, SourcesAssumption DEF ClaimsTheBest, Eligible, PlicTypeOK, Source
  <1> USE SourcesAssumption DEF PlicTypeOK
  <1>2. CASE UNCHANGED plicvars
    BY <1>2 DEF plicvars, settings
  <1>3. ASSUME NEW irq \in SUBSET Source, NEW claim, NEW complete, Gateway(irq, claim, complete)
        PROVE  pending' \subseteq Source /\ gateway_busy' \subseteq Source
    BY <1>3 DEF Gateway
  <1>4. NoClaim \in [by : Context, id : 0 .. NumSources]
    BY DEF NoClaim, Context
  <1>5. ASSUME NEW irq \in SUBSET Source, QuietCycle(irq) PROVE PlicTypeOK'
    BY <1>3, <1>4, <1>5 DEF QuietCycle, settings
  <1>6. ASSUME NEW irq \in SUBSET Source, NEW s \in Source, NEW p \in Priority, WritePriority(irq, s, p)
        PROVE  PlicTypeOK'
    BY <1>3, <1>4, <1>6 DEF WritePriority
  <1>7. ASSUME NEW irq \in SUBSET Source, NEW c \in Context, NEW E \in SUBSET Source, WriteEnable(irq, c, E)
        PROVE  PlicTypeOK'
    BY <1>3, <1>4, <1>7 DEF WriteEnable
  <1>8. ASSUME NEW irq \in SUBSET Source, NEW c \in Context, NEW p \in Priority, WriteThreshold(irq, c, p)
        PROVE  PlicTypeOK'
    BY <1>3, <1>4, <1>8 DEF WriteThreshold
  <1>9. ASSUME NEW irq \in SUBSET Source, NEW c \in Context, Claim(irq, c)
        PROVE  PlicTypeOK'
    <2> DEFINE id == best_source(c)
    <2>1. id \in 0 .. NumSources
      BY <1>1
    <2> HIDE DEF id
    <2>2. /\ Gateway(irq, id, 0) /\ served' = served \cup ({id} \ {0})
          /\ claimed' = [by |-> c, id |-> id]
      BY <1>9 DEF Claim, id
    <2>3. pending' \subseteq Source /\ gateway_busy' \subseteq Source
      BY <1>3, <2>2
    <2>4. served' \subseteq Source
      BY <2>1, <2>2 DEF Source
    <2>5. claimed' \in [by : Context, id : 0 .. NumSources]
      BY <2>1, <2>2
    <2>6. UNCHANGED <<priority_q, enable, threshold>>
      BY <1>9 DEF Claim, settings
    <2> QED BY <2>3, <2>4, <2>5, <2>6
  <1>10. ASSUME NEW irq \in SUBSET Source, NEW s \in Source, Complete(irq, s)
        PROVE  PlicTypeOK'
    BY <1>3, <1>4, <1>10 DEF Complete, settings
  <1> QED BY <1>2, <1>5, <1>6, <1>7, <1>8, <1>9, <1>10 DEF PlicNext

\* Only a claim and a completion move a request, and a claim takes one that waits.
LEMMA GatewayStep ==
  ASSUME PlicTypeOK, GatewayAccounts, [PlicNext]_plicvars
  PROVE  GatewayAccounts'
  <1> USE DEF GatewayAccounts, Gateway
  <1>1. CASE UNCHANGED plicvars
    BY <1>1 DEF plicvars
  <1>2. ASSUME NEW irq \in SUBSET Source, NEW c \in Context, Claim(irq, c)
        PROVE  GatewayAccounts'
    <2> DEFINE id == best_source(c)
    <2>1. 0 \notin pending /\ (id = 0 \/ id \in pending)
      BY ClaimIsBest, SourcesAssumption DEF ClaimsTheBest, Eligible, PlicTypeOK, Source
    <2> HIDE DEF id
    <2>2. Gateway(irq, id, 0) /\ served' = served \cup ({id} \ {0})
      BY <1>2 DEF Claim, id
    <2>3. 0 \notin gateway_busy
      BY SourcesAssumption DEF PlicTypeOK, Source
    <2> QED BY <2>1, <2>2, <2>3
  <1>3. ASSUME NEW irq \in SUBSET Source, NEW s \in Source, Complete(irq, s)
        PROVE  GatewayAccounts'
    <2>1. 0 \notin pending
      BY SourcesAssumption DEF PlicTypeOK, Source
    <2> QED BY <1>3, <2>1 DEF Complete
  <1>4. ASSUME NEW irq \in SUBSET Source, Gateway(irq, 0, 0), served' = served
        PROVE  GatewayAccounts'
    <2>1. 0 \notin pending /\ 0 \notin gateway_busy
      BY SourcesAssumption DEF PlicTypeOK, Source
    <2> QED BY <1>4, <2>1
  <1> QED BY <1>1, <1>2, <1>3, <1>4
          DEF PlicNext, QuietCycle, WritePriority, WriteEnable, WriteThreshold

\* For any number of sources and priorities: whatever the sources and the two contexts do, an
\* interrupt is claimed at most once before it is completed, is never forgotten, and a claim
\* returns the best waiting source, that of the lowest number among equals (plic.v, the
\* gateways and the loop over the sources).
THEOREM PlicServesOnce == PlicSpec => []ServedOnce
  <1>1. PlicInit => PlicTypeOK /\ GatewayAccounts
    BY SourcesAssumption DEF PlicInit, PlicTypeOK, GatewayAccounts, NoClaim, Context, Priority, Source
  <1>2. PlicTypeOK /\ GatewayAccounts /\ [PlicNext]_plicvars => PlicTypeOK' /\ GatewayAccounts'
    BY PlicTypeStep, GatewayStep
  <1>3. PlicTypeOK /\ GatewayAccounts => ServedOnce
    BY ClaimIsBest DEF ServedOnce
  <1> QED BY <1>1, <1>2, <1>3, PTL DEF PlicSpec
-----------------------------------------------------------------------------
(* The timer.  Halves and their order; after these lemmas no proof looks   *)
(* into hi, lo and Pair.                                                   *)
LEMMA Halves ==
  ASSUME NEW t \in Time
  PROVE  hi(t) \in 0 .. Half - 1 /\ lo(t) \in 0 .. Half - 1 /\ t = Pair(hi(t), lo(t))
  <1>1. t \in Nat /\ Half \in Nat /\ Half > 0 /\ t < Half * Half
    BY TimerAssumption DEF Time
  <1>2. lo(t) \in 0 .. Half - 1
    BY <1>1 DEF lo
  <1>3. hi(t) \in Nat
    BY <1>1 DEF hi
  <1>4. t = Half * hi(t) + lo(t)
    BY <1>1 DEF hi, lo
  <1>5. hi(t) < Half
    BY <1>1, <1>2, <1>3, <1>4
  <1> QED BY <1>1, <1>2, <1>3, <1>4, <1>5 DEF Pair

\* A pair of halves has these halves.
LEMMA Joined ==
  ASSUME NEW h \in 0 .. Half - 1, NEW l \in 0 .. Half - 1
  PROVE  Pair(h, l) \in Time /\ hi(Pair(h, l)) = h /\ lo(Pair(h, l)) = l
  <1>1. Half \in Nat /\ Half > 0
    BY TimerAssumption
  <1>2. h * Half \in Nat /\ h * Half <= Half * Half - Half
    BY <1>1
  <1>3. Pair(h, l) \in Time
    BY <1>1, <1>2 DEF Pair, Time
  <1>4. hi(Pair(h, l)) = h
    BY <1>1 DEF Pair, hi
  <1>5. lo(Pair(h, l)) = l
    BY <1>1 DEF Pair, lo
  <1> QED BY <1>3, <1>4, <1>5

\* Times compare as their halves do, high before low.
LEMMA HalvesOrder ==
  ASSUME NEW t \in Time, NEW u \in Time
  PROVE  t <= u <=> hi(t) < hi(u) \/ (hi(t) = hi(u) /\ lo(t) <= lo(u))
  <1> DEFINE h == hi(t)  l == lo(t)  k == hi(u)  m == lo(u)
  <1>1. Half \in Nat /\ Half > 0 /\ h \in 0 .. Half - 1 /\ l \in 0 .. Half - 1 /\ k \in 0 .. Half - 1 /\ m \in 0 .. Half - 1
    BY TimerAssumption, Halves
  <1>2. t = Pair(h, l) /\ u = Pair(k, m)
    BY Halves
  <1> HIDE DEF h, l, k, m
  <1>3. ASSUME h < k PROVE Pair(h, l) < Pair(k, m)
    BY <1>1, <1>3 DEF Pair
  <1>4. ASSUME h > k PROVE Pair(h, l) > Pair(k, m)
    BY <1>1, <1>4 DEF Pair
  <1>5. ASSUME h = k PROVE Pair(h, l) <= Pair(k, m) <=> l <= m
    BY <1>1, <1>5 DEF Pair
  <1>6. Pair(h, l) \in Nat /\ Pair(k, m) \in Nat
    BY <1>1 DEF Pair
  <1>7. Pair(h, l) <= Pair(k, m) <=> h < k \/ (h = k /\ l <= m)
    BY <1>1, <1>3, <1>4, <1>5, <1>6
  <1> QED BY <1>2, <1>7 DEF h, l, k, m

\* The counter wraps at the end of the range, and carries only from a full low half.
LEMMA CountedFacts ==
  ASSUME mtime \in Time
  PROVE  /\ Counted \in Time
         /\ Counted = IF mtime + 1 < Half * Half THEN mtime + 1 ELSE 0
         /\ mtime + 1 >= Half * Half => mtime + 1 = Half * Half
         /\ lo(mtime) + 1 < Half => hi(Counted) = hi(mtime) /\ lo(Counted) = lo(mtime) + 1
  <1>1. mtime \in Nat /\ Half \in Nat /\ Half > 0 /\ mtime < Half * Half /\ Half * Half \in Nat
    BY TimerAssumption DEF Time
  <1>2. Counted = IF mtime + 1 < Half * Half THEN mtime + 1 ELSE 0
    BY <1>1 DEF Counted
  <1>3. mtime + 1 >= Half * Half => mtime + 1 = Half * Half
    BY <1>1
  <1>4. Counted \in Time
    BY <1>1, <1>2 DEF Time
  <1>5. ASSUME lo(mtime) + 1 < Half PROVE hi(Counted) = hi(mtime) /\ lo(Counted) = lo(mtime) + 1
    <2> DEFINE h == hi(mtime)  l == lo(mtime)
    <2>1. h \in 0 .. Half - 1 /\ l \in 0 .. Half - 1 /\ mtime = Pair(h, l)
      BY Halves
    <2> HIDE DEF h, l
    <2>2. l + 1 \in 0 .. Half - 1
      BY <1>5, <2>1, <1>1 DEF l
    <2>3. mtime + 1 = Pair(h, l + 1)
      BY <2>1, <1>1 DEF Pair
    <2>4. Pair(h, l + 1) \in Time /\ hi(Pair(h, l + 1)) = h /\ lo(Pair(h, l + 1)) = l + 1
      BY <2>1, <2>2, Joined
    <2>5. Counted = Pair(h, l + 1)
      BY <2>3, <2>4, <1>1, <1>2 DEF Time
    <2> QED BY <2>4, <2>5 DEF h, l
  <1> QED BY <1>2, <1>3, <1>4, <1>5

Jobs == {"none", "cmp_low", "cmp_high", "time_high", "time_low", "read_low", "read_high"}

TimerTypeOK ==
  /\ mtime \in Time /\ mtimecmp \in Time /\ value \in Time /\ goal \in Time
  /\ deadline \in Time /\ former \in Time /\ began \in Time
  /\ job \in Jobs /\ gap \in 0 .. MaxGap

\* Where mtimecmp is while the deadline moves: never before the earlier of the two.
Rearming ==
  /\ job \notin {"cmp_low", "cmp_high"} => mtimecmp = deadline /\ former = deadline
  /\ job = "cmp_low" => mtimecmp = Pair(Half - 1, lo(former)) /\ value = deadline
  /\ job = "cmp_high" => mtimecmp = Pair(Half - 1, lo(deadline)) /\ value = deadline

\* Where mtime is while the time is set: its low half is too small to carry.
Setting ==
  /\ job = "time_high" => lo(mtime) = gap
  /\ job = "time_low" => hi(mtime) = hi(value) /\ lo(mtime) <= MaxGap + 1 + gap
  /\ job \notin {"time_high", "time_low"} => mtime = goal

\* d cycles after t.
Later(t, d) == IF t + d < Half * Half THEN t + d ELSE t + d - Half * Half

\* Where mtime is while the time is read: as many cycles later as the accesses took.
Reading ==
  /\ job = "read_low" => value = Pair(hi(began), 0) /\ mtime = Later(began, gap + 1)
  /\ job = "read_high" => \E e \in 1 .. MaxGap + 1 :
                            value = Pair(hi(began), lo(Later(began, e))) /\ mtime = Later(began, e + gap + 1)

TimerInv == TimerTypeOK /\ Rearming /\ Setting /\ Reading

\* Less than a half is added to a time: what counting does, and when it wraps.
LEMMA LaterFacts ==
  ASSUME NEW t \in Time, NEW d \in Nat, d < Half
  PROVE  /\ Later(t, d) \in Time
         /\ mtime = Later(t, d) => Counted = Later(t, d + 1)
         /\ t <= Later(t, d) <=> t + d < Half * Half
  <1>1. t \in Nat /\ t < Half * Half /\ Half * Half \in Nat /\ Half <= Half * Half /\ Half \in Nat
    BY TimerAssumption DEF Time
  <1>2. Later(t, d) \in Time
    BY <1>1 DEF Later, Time
  <1>3. ASSUME mtime = Later(t, d) PROVE Counted = Later(t, d + 1)
    <2>1. Counted = IF mtime + 1 < Half * Half THEN mtime + 1 ELSE 0
      BY <1>2, <1>3, CountedFacts
    <2> QED BY <2>1, <1>1, <1>3 DEF Later
  <1>4. t <= Later(t, d) <=> t + d < Half * Half
    BY <1>1 DEF Later
  <1> QED BY <1>2, <1>3, <1>4

\* Reset.
LEMMA TimerStart == TimerInit => TimerInv
  <1> SUFFICES ASSUME TimerInit PROVE TimerInv
    OBVIOUS
  <1>1. 0 \in Time /\ Half * Half - 1 \in Time
    BY TimerAssumption DEF Time
  <1>2. TimerTypeOK
    BY <1>1, TimerAssumption DEF TimerInit, TimerTypeOK, Jobs
  <1> QED BY <1>2 DEF TimerInit, TimerInv, Rearming, Setting, Reading

\* The invariant says what a run checks.
LEMMA TimerMeans == TimerInv => TimerExact
  <1> SUFFICES ASSUME TimerInv PROVE TimerExact
    OBVIOUS
  <1> USE DEF TimerInv
  <1>1. mtime \in Time /\ mtimecmp \in Time /\ deadline \in Time /\ former \in Time /\ value \in Time /\ began \in Time
    BY DEF TimerTypeOK
  <1>2. Half - 1 \in 0 .. Half - 1 /\ 0 \in 0 .. Half - 1 /\ Half \in Nat
    BY TimerAssumption
  <1>3. \A t \in Time : t <= Pair(Half - 1, lo(t))
    <2> SUFFICES ASSUME NEW t \in Time PROVE t <= Pair(Half - 1, lo(t))
      OBVIOUS
    <2>1. hi(t) \in 0 .. Half - 1 /\ lo(t) \in 0 .. Half - 1
      BY Halves
    <2>2. Pair(Half - 1, lo(t)) \in Time /\ hi(Pair(Half - 1, lo(t))) = Half - 1 /\ lo(Pair(Half - 1, lo(t))) = lo(t)
      BY <1>2, <2>1, Joined
    <2> QED BY <2>1, <2>2, <1>2, HalvesOrder
  <1>4. InterruptInTime
    <2>1. mtime \in Nat /\ mtimecmp \in Nat /\ deadline \in Nat /\ former \in Nat
      BY <1>1 DEF Time
    <2>2. CASE job \notin {"cmp_low", "cmp_high"}
      BY <2>2, <2>1, <1>1 DEF InterruptInTime, Rearming, timer_interrupt
    <2>3. CASE job = "cmp_low"
      <3>1. mtimecmp >= former
        BY <2>3, <1>1, <1>3 DEF Rearming
      <3>2. mtime >= mtimecmp => mtime >= former
        BY <2>1, <3>1
      <3> QED BY <2>3, <3>2 DEF InterruptInTime, timer_interrupt
    <2>4. CASE job = "cmp_high"
      <3>1. mtimecmp >= deadline
        BY <2>4, <1>1, <1>3 DEF Rearming
      <3>2. mtime >= mtimecmp => mtime >= deadline
        BY <2>1, <3>1
      <3> QED BY <2>4, <3>2 DEF InterruptInTime, timer_interrupt
    <2> QED BY <2>2, <2>3, <2>4
  <1>5. ASSUME job = "read_high", hi(value) = hi(mtime), began <= mtime
        PROVE  value >= began /\ value <= mtime
    <2>1. PICK e \in 1 .. MaxGap + 1 : value = Pair(hi(began), lo(Later(began, e))) /\ mtime = Later(began, e + gap + 1)
      BY <1>5 DEF Reading
    <2> DEFINE m == Later(began, e)
    <2>2. e \in Nat /\ e < Half /\ e + gap + 1 \in Nat /\ e + gap + 1 < Half /\ gap \in Nat
      BY TimerAssumption DEF TimerTypeOK
    <2>3. m \in Time /\ began <= m /\ m <= mtime
      <3>1. began + (e + gap + 1) < Half * Half
        BY <1>1, <1>5, <2>1, <2>2, LaterFacts
      <3>2. mtime = began + (e + gap + 1) /\ m = began + e
        BY <3>1, <2>1, <2>2, <1>1, TimerAssumption DEF Later, Time
      <3>3. m \in Time
        BY <2>2, <1>1, LaterFacts
      <3> QED BY <3>2, <3>3, <2>2, <1>1 DEF Time
    <2> HIDE DEF m
    <2>4. hi(began) \in 0 .. Half - 1 /\ lo(m) \in 0 .. Half - 1 /\ hi(m) \in 0 .. Half - 1
      BY <2>3, <1>1, Halves
    <2>5. hi(value) = hi(began) /\ lo(value) = lo(m)
      BY <2>1, <2>4, Joined DEF m
    <2>6. hi(m) = hi(began)
      <3>1. hi(began) <= hi(m)
        BY <2>3, <2>4, <1>1, <1>2, HalvesOrder
      <3>2. hi(m) <= hi(mtime) /\ hi(mtime) \in 0 .. Half - 1
        BY <2>3, <2>4, <1>1, <1>2, HalvesOrder, Halves
      <3>3. hi(mtime) = hi(began)
        BY <2>5, <1>5
      <3> QED BY <3>1, <3>2, <3>3, <2>4, <1>2
    <2>7. value = m
      BY <2>1, <2>6, <2>3, Halves DEF m
    <2> QED BY <2>3, <2>7
  <1> QED BY <1>4, <1>5 DEF TimerExact, TimeInOnePiece, Setting
(* One lemma per job of the software.  In each the type comes first, then  *)
(* the parts that the job is about.                                        *)
LEMMA TimerFacts ==
  ASSUME TimerTypeOK
  PROVE  /\ mtime \in Time /\ mtimecmp \in Time /\ value \in Time /\ goal \in Time
         /\ deadline \in Time /\ former \in Time /\ began \in Time /\ gap \in 0 .. MaxGap
         /\ Counted \in Time /\ 0 \in Time /\ Operand \subseteq Time
         /\ Half \in Nat /\ MaxGap \in Nat /\ 2 * MaxGap + 2 < Half
         /\ 0 \in 0 .. Half - 1 /\ Half - 1 \in 0 .. Half - 1
  <1>1. mtime \in Time
    BY DEF TimerTypeOK
  <1>2. 0 \in Time
    BY <1>1, TimerAssumption DEF Time
  <1> QED BY <1>1, <1>2, CountedFacts, TimerAssumption DEF TimerTypeOK

\* What software means to write counts on as the counter would.
LEMMA GoalCounts ==
  ASSUME TimerTypeOK, Passes
  PROVE  /\ goal' \in Time
         /\ job \notin {"time_high", "time_low"} /\ mtime = goal => goal' = Counted
  <1>1. (goal + 1) % (Half * Half) \in Time
    <2>1. goal \in Nat /\ Half * Half \in Nat /\ Half * Half > 0
      BY TimerAssumption DEF TimerTypeOK, Time
    <2> DEFINE w == Half * Half
    <2> HIDE DEF w
    <2>2. (goal + 1) % w \in 0 .. w - 1
      BY <2>1 DEF w
    <2> QED BY <2>2 DEF w, Time
  <1> QED BY <1>1 DEF Passes, TimerTypeOK, Counted

\* A cycle in which software writes no half.
LEMMA NoAccessStep ==
  ASSUME TimerInv, TimerEdge("none", 0) \/ (job = "none" /\ \E bit \in {0, 1} : TimerEdge("MSIP", bit)),
         Passes, UNCHANGED <<job, value, deadline, former, began>>,
         IF job = "none" THEN gap' = 0 ELSE gap < MaxGap /\ gap' = gap + 1
  PROVE  TimerInv'
  <1> USE DEF TimerInv
  <1>a. /\ mtime \in Time /\ mtimecmp \in Time /\ value \in Time /\ goal \in Time
        /\ deadline \in Time /\ former \in Time /\ began \in Time
        /\ Counted \in Time /\ 0 \in Time /\ Operand \subseteq Time
    BY TimerFacts
  <1>b. gap \in Nat /\ gap <= MaxGap /\ Half \in Nat /\ MaxGap \in Nat /\ 2 * MaxGap + 2 < Half
    BY TimerFacts
  <1>c. 0 \in 0 .. Half - 1 /\ Half - 1 \in 0 .. Half - 1
    BY TimerFacts
  <1> USE <1>a, <1>b
  <1>1. mtime' = Counted /\ mtimecmp' = mtimecmp
    BY DEF TimerEdge
  <1>2. TimerTypeOK'
    <2>1. gap' \in 0 .. MaxGap
      BY DEF TimerTypeOK
    <2>2. goal' \in Time
      BY GoalCounts
    <2> QED BY <1>1, <2>1, <2>2 DEF TimerTypeOK
  <1>3. Rearming'
    BY <1>1 DEF Rearming
  <1>4. Setting'
    <2>1. ASSUME job = "time_high" PROVE lo(mtime') = gap'
      BY <2>1, <1>1, CountedFacts DEF Setting
    <2>2. ASSUME job = "time_low" PROVE hi(mtime') = hi(value) /\ lo(mtime') <= MaxGap + 1 + gap'
      <3>1. lo(mtime) \in Nat
        BY Halves
      <3> QED BY <2>2, <3>1, <1>1, CountedFacts DEF Setting
    <2>3. ASSUME job \notin {"time_high", "time_low"} PROVE mtime' = goal'
      BY <2>3, <1>1, GoalCounts DEF Setting
    <2> QED BY <2>1, <2>2, <2>3 DEF Setting
  <1>5. Reading'
    <2>1. ASSUME job = "read_low" PROVE mtime' = Later(began, gap' + 1)
      BY <2>1, <1>1, LaterFacts DEF Reading
    <2>2. ASSUME job = "read_high", NEW e \in 1 .. MaxGap + 1, mtime = Later(began, e + gap + 1)
          PROVE  mtime' = Later(began, e + gap' + 1)
      BY <2>2, <1>1, LaterFacts
    <2> QED BY <2>1, <2>2 DEF Reading, Later
  <1> QED BY <1>2, <1>3, <1>4, <1>5

\* The accesses that move the deadline.
LEMMA RearmStep ==
  ASSUME TimerInv, Rearm
  PROVE  TimerInv'
  <1> USE DEF TimerInv
  <1>a. /\ mtime \in Time /\ mtimecmp \in Time /\ value \in Time /\ goal \in Time
        /\ deadline \in Time /\ former \in Time /\ began \in Time
        /\ Counted \in Time /\ 0 \in Time /\ Operand \subseteq Time
    BY TimerFacts
  <1>b. gap \in Nat /\ gap <= MaxGap /\ Half \in Nat /\ MaxGap \in Nat /\ 2 * MaxGap + 2 < Half
    BY TimerFacts
  <1>c. 0 \in 0 .. Half - 1 /\ Half - 1 \in 0 .. Half - 1
    BY TimerFacts
  <1> USE <1>a, <1>b
  <1>1. mtime' = Counted /\ gap' = 0 /\ job \in {"none", "cmp_low", "cmp_high"}
    BY DEF Rearm, TimerEdge, Software
  <1>2. Setting'
    BY <1>1, GoalCounts DEF Setting, Rearm, Software
  <1>3. Reading'
    BY DEF Reading, Rearm, Software
  <1>4. goal' \in Time /\ began' \in Time /\ gap' \in 0 .. MaxGap
    <2>1. goal' \in Time
      BY GoalCounts DEF Rearm
    <2>2. began' \in Time
      BY DEF Rearm
    <2>3. gap' \in 0 .. MaxGap
      BY <1>1
    <2> QED BY <2>1, <2>2, <2>3
  <1>5. \A t \in Time : hi(t) \in 0 .. Half - 1 /\ lo(t) \in 0 .. Half - 1 /\ t = Pair(hi(t), lo(t))
    BY Halves
  <1>6. CASE job = "none"
    <2>1. /\ job' = "cmp_low" /\ mtimecmp' = Pair(Half - 1, lo(mtimecmp))
          /\ value' \in Operand /\ deadline' = value' /\ former' = deadline
      BY <1>6 DEF Rearm, TimerEdge, Software
    <2>2. mtimecmp' \in Time
      BY <2>1, <1>5, Joined
    <2>3. TimerTypeOK'
      BY <1>1, <1>4, <2>1, <2>2, TimerAssumption DEF TimerTypeOK, Jobs
    <2>4. Rearming'
      BY <2>1, <1>6 DEF Rearming
    <2> QED BY <2>3, <2>4, <1>2, <1>3
  <1>7. CASE job = "cmp_low"
    <2>1. /\ job' = "cmp_high" /\ mtimecmp' = Pair(hi(mtimecmp), lo(value))
          /\ UNCHANGED <<value, deadline, former>>
      BY <1>7 DEF Rearm, TimerEdge, Software
    <2>2. mtimecmp' \in Time
      BY <2>1, <1>5, Joined
    <2>3. TimerTypeOK'
      BY <1>1, <1>4, <2>1, <2>2 DEF TimerTypeOK, Jobs
    <2>4. hi(mtimecmp) = Half - 1
      BY <1>5, <1>7, Joined DEF Rearming
    <2>5. Rearming'
      BY <2>1, <2>4, <1>7 DEF Rearming
    <2> QED BY <2>3, <2>5, <1>2, <1>3
  <1>8. CASE job = "cmp_high"
    <2>1. /\ job' = "none" /\ mtimecmp' = Pair(hi(value), lo(mtimecmp))
          /\ value' = 0 /\ former' = deadline /\ deadline' = deadline
      BY <1>8 DEF Rearm, TimerEdge, Software
    <2>2. lo(mtimecmp) = lo(deadline) /\ value = deadline
      BY <1>5, <1>8, Joined DEF Rearming
    <2>3. mtimecmp' = deadline
      BY <2>1, <2>2, <1>5
    <2>4. TimerTypeOK'
      BY <1>1, <1>4, <2>1, <2>3 DEF TimerTypeOK, Jobs
    <2>5. Rearming'
      BY <2>1, <2>3 DEF Rearming
    <2> QED BY <2>4, <2>5, <1>2, <1>3
  <1> QED BY <1>1, <1>6, <1>7, <1>8

\* The accesses that set the time.
LEMMA SetTimeStep ==
  ASSUME TimerInv, SetTime
  PROVE  TimerInv'
  <1> USE DEF TimerInv
  <1>a. /\ mtime \in Time /\ mtimecmp \in Time /\ value \in Time /\ goal \in Time
        /\ deadline \in Time /\ former \in Time /\ began \in Time
        /\ Counted \in Time /\ 0 \in Time /\ Operand \subseteq Time
    BY TimerFacts
  <1>b. gap \in Nat /\ gap <= MaxGap /\ Half \in Nat /\ MaxGap \in Nat /\ 2 * MaxGap + 2 < Half
    BY TimerFacts
  <1>c. 0 \in 0 .. Half - 1 /\ Half - 1 \in 0 .. Half - 1
    BY TimerFacts
  <1> USE <1>a, <1>b
  <1>1. /\ mtimecmp' = mtimecmp /\ gap' = 0 /\ job \in {"none", "time_high", "time_low"}
        /\ job' \notin {"cmp_low", "cmp_high", "read_low", "read_high"}
        /\ UNCHANGED <<deadline, former, began>>
    BY DEF SetTime, TimerEdge, Software
  <1>2. Rearming' /\ Reading'
    BY <1>1 DEF Rearming, Reading
  <1>3. hi(Counted) \in 0 .. Half - 1 /\ lo(Counted) \in 0 .. Half - 1
    BY Halves
  <1>4. hi(value) \in 0 .. Half - 1 /\ lo(value) \in 0 .. Half - 1 /\ value = Pair(hi(value), lo(value))
    BY Halves
  <1>5. CASE job = "none"
    <2>1. job' = "time_high" /\ mtime' = Pair(hi(Counted), 0) /\ value' \in Operand /\ goal' = 0
      BY <1>5 DEF SetTime, TimerEdge, Software
    <2>2. mtime' \in Time /\ lo(mtime') = 0
      BY <2>1, <1>3, Joined
    <2>3. TimerTypeOK'
      BY <1>1, <2>1, <2>2, TimerAssumption DEF TimerTypeOK, Jobs
    <2>4. Setting'
      BY <1>1, <2>1, <2>2 DEF Setting
    <2> QED BY <2>3, <2>4, <1>2
  <1>6. CASE job = "time_high"
    <2>1. job' = "time_low" /\ mtime' = Pair(hi(value), lo(Counted)) /\ UNCHANGED <<value, goal>>
      BY <1>6 DEF SetTime, TimerEdge, Software
    <2>2. mtime' \in Time /\ hi(mtime') = hi(value) /\ lo(mtime') = lo(Counted)
      BY <2>1, <1>3, <1>4, Joined
    <2>3. lo(Counted) = gap + 1 /\ gap <= MaxGap
      BY <1>6, CountedFacts DEF Setting, TimerTypeOK
    <2>4. TimerTypeOK'
      BY <1>1, <2>1, <2>2 DEF TimerTypeOK, Jobs
    <2>5. Setting'
      BY <1>1, <2>1, <2>2, <2>3 DEF Setting
    <2> QED BY <2>4, <2>5, <1>2
  <1>7. CASE job = "time_low"
    <2>1. job' = "none" /\ mtime' = Pair(hi(Counted), lo(value)) /\ value' = 0 /\ goal' = value
      BY <1>7 DEF SetTime, TimerEdge, Software
    <2>2. lo(mtime) \in Nat /\ lo(mtime) + 1 < Half
      <3>1. lo(mtime) \in Nat
        BY Halves
      <3> QED BY <3>1, <1>7 DEF Setting, TimerTypeOK
    <2>3. mtime' = value
      BY <2>1, <2>2, <1>4, <1>7, CountedFacts DEF Setting
    <2>4. TimerTypeOK'
      BY <1>1, <2>1, <2>3 DEF TimerTypeOK, Jobs
    <2>5. Setting'
      BY <2>1, <2>3 DEF Setting
    <2> QED BY <2>4, <2>5, <1>2
  <1> QED BY <1>1, <1>5, <1>6, <1>7

\* The accesses that read the time, until the high half read twice is the same.
LEMMA ReadTimeStep ==
  ASSUME TimerInv, ReadTime
  PROVE  TimerInv'
  <1> USE DEF TimerInv
  <1>a. /\ mtime \in Time /\ mtimecmp \in Time /\ value \in Time /\ goal \in Time
        /\ deadline \in Time /\ former \in Time /\ began \in Time
        /\ Counted \in Time /\ 0 \in Time /\ Operand \subseteq Time
    BY TimerFacts
  <1>b. gap \in Nat /\ gap <= MaxGap /\ Half \in Nat /\ MaxGap \in Nat /\ 2 * MaxGap + 2 < Half
    BY TimerFacts
  <1>c. 0 \in 0 .. Half - 1 /\ Half - 1 \in 0 .. Half - 1
    BY TimerFacts
  <1> USE <1>a, <1>b
  <1>1. /\ mtime' = Counted /\ mtimecmp' = mtimecmp /\ gap' = 0 /\ job \in {"none", "read_low", "read_high"}
        /\ job' \in {"none", "read_low", "read_high"} /\ UNCHANGED <<deadline, former>> /\ Passes
    BY DEF ReadTime, TimerEdge, Software
  <1>2. Rearming' /\ Setting'
    BY <1>1, GoalCounts DEF Rearming, Setting
  <1>3. \A t \in Time : hi(t) \in 0 .. Half - 1 /\ lo(t) \in 0 .. Half - 1
    BY Halves
  <1>4. goal' \in Time
    BY <1>1, GoalCounts
  <1>5. Counted = Later(mtime, 1)
    <2>1. mtime = Later(mtime, 0)
      BY DEF Later, Time
    <2> QED BY <2>1, LaterFacts
  <1>6. CASE job' = "read_low"
    <2>1. value' = Pair(hi(mtime), 0) /\ began' = mtime
      BY <1>6 DEF ReadTime, Software
    <2>2. value' \in Time
      BY <2>1, <1>3, Joined
    <2>3. TimerTypeOK'
      BY <1>1, <1>4, <2>1, <2>2 DEF TimerTypeOK, Jobs
    <2>4. Reading'
      BY <1>1, <1>5, <1>6, <2>1 DEF Reading, Later
    <2> QED BY <2>3, <2>4, <1>2
  <1>7. CASE job' = "read_high"
    <2>1. job = "read_low" /\ value' = Pair(hi(value), lo(mtime)) /\ began' = began
      BY <1>7 DEF ReadTime, Software
    <2>2. value' \in Time
      BY <2>1, <1>3, Joined
    <2>3. TimerTypeOK'
      BY <1>1, <1>4, <2>1, <2>2 DEF TimerTypeOK, Jobs
    <2>4. hi(value) = hi(began)
      BY <2>1, <1>3, Joined DEF Reading
    <2>5. gap + 1 \in 1 .. MaxGap + 1 /\ mtime = Later(began, gap + 1)
      BY <2>1 DEF Reading, TimerTypeOK
    <2>6. mtime' = Later(began, (gap + 1) + gap' + 1)
      BY <1>1, <2>5, LaterFacts
    <2>7. Reading'
      BY <1>7, <2>1, <2>4, <2>5, <2>6 DEF Reading, Later
    <2> QED BY <2>3, <2>7, <1>2
  <1>8. CASE job' = "none"
    <2>1. value' = 0 /\ began' = 0
      BY <1>8 DEF ReadTime, Software
    <2>2. TimerTypeOK'
      BY <1>1, <1>4, <2>1 DEF TimerTypeOK, Jobs
    <2> QED BY <2>2, <1>2, <1>8 DEF Reading
  <1> QED BY <1>1, <1>6, <1>7, <1>8

\* For halves of any size, and any deadlines and times: an interrupt comes exactly when mtime has
\* reached the deadline, while the deadline moves not before the earlier of the two, and the time
\* set or read in halves is in one piece (timer.v, the write port and the compare).
THEOREM TimerIsExact == TimerSpec => []TimerExact
  <1>1. TimerInv /\ [TimerNext]_timervars => TimerInv'
    <2> SUFFICES ASSUME TimerInv, [TimerNext]_timervars PROVE TimerInv'
      OBVIOUS
    <2>1. CASE NoAccess
      BY <2>1, NoAccessStep DEF NoAccess
    <2>2. ASSUME NEW bit \in {0, 1}, Ipi(bit) PROVE TimerInv'
      BY <2>2, NoAccessStep DEF Ipi, Software
    <2>3. CASE UNCHANGED timervars
      BY <2>3 DEF timervars, TimerInv, TimerTypeOK, Rearming, Setting, Reading, Later, hi, lo
    <2> QED BY <2>1, <2>2, <2>3, RearmStep, SetTimeStep, ReadTimeStep DEF TimerNext
  <1> QED BY <1>1, TimerStart, TimerMeans, PTL DEF TimerSpec

-----------------------------------------------------------------------------
(* The reservation.                                                        *)
LEMMA InstructionFacts ==
  ASSUME NEW m \in Instruction
  PROVE  /\ m.kind \in {"none", "lr", "sc", "amo", "store", "load"}
         /\ m.kind \in {"lr", "sc", "amo"} => m.addr[2] = 0
         /\ [m EXCEPT !.kind = "lr"].kind = "lr" /\ [m EXCEPT !.kind = "lr"].addr = m.addr
  <1>1. CASE m = Nothing
    BY <1>1 DEF Nothing
  <1>2. CASE m # Nothing
    BY <1>2 DEF Instruction, AccessKind
  <1> QED BY <1>1, <1>2

LsuTypeOK ==
  /\ lr_valid \in BOOLEAN /\ amo_write_phase \in BOOLEAN /\ granted \in BOOLEAN /\ wrote \in BOOLEAN
  /\ ex_mem \in Instruction

\* The registers and the last LR agree, except that a store or an AMO that has written and still
\* waits for its answer has ended the link but not yet the reservation.
Reserved ==
  /\ lr_valid => lr_addr \in link \/ (wrote /\ ex_mem.kind \in {"store", "amo"} /\ ex_mem.addr[1] = lr_addr[1])
  /\ before.kind = "lr" => lr_valid /\ lr_addr = before.addr

\* An SC has written exactly if memory granted it, and then its reservation still stands.
ScWrites ==
  is("sc") => (granted => wrote) /\ (wrote => lr_valid /\ lr_addr = ex_mem.addr)

LsuInv == LsuTypeOK /\ Reserved /\ ScWrites

\* LsuInv is preserved.
LEMMA LsuStep ==
  ASSUME LsuInv, NEW grant \in BOOLEAN, NEW rvalid \in BOOLEAN, NEW faulted \in BOOLEAN, NEW next \in Instruction,
         LsuCycle(grant, rvalid, faulted, next)
  PROVE  LsuInv'
  <1> USE DEF LsuInv
  <1>1. /\ ex_mem.kind \in {"none", "lr", "sc", "amo", "store", "load"}
        /\ ex_mem.kind \in {"lr", "sc", "amo"} => ex_mem.addr[2] = 0
    BY InstructionFacts DEF LsuTypeOK
  <1> DEFINE hold == mem_wait(rvalid, faulted)
  <1>2. CASE hold
    <2>1. /\ lr_valid' = lr_valid /\ lr_addr' = lr_addr /\ ex_mem' = ex_mem /\ before' = before
          /\ wrote' = Performed(grant)
          /\ granted' = (~rvalid /\ (granted \/ grant))
          /\ grant => rd_en \/ wr_en
      BY <1>2 DEF LsuCycle, ReservationEdge
    <2>2. link' = IF grant /\ wr_en /\ ~is("sc") THEN {a \in link : a[1] # ex_mem.addr[1]} ELSE link
      BY <1>2 DEF LsuCycle
    <2>3. LsuTypeOK'
      BY <2>1 DEF LsuTypeOK, LsuCycle, AmoPhaseEdge, Performed, amo_read_phase, wr_en, is, sc_success, aligned
    <2>4. Reserved'
      <3>1. grant /\ wr_en /\ ~is("sc") => wrote' /\ ex_mem.kind \in {"store", "amo"}
        BY <2>1 DEF Performed, wr_en, sc_success, is
      <3>2. wrote => wrote'
        BY <2>1 DEF Performed
      <3> QED BY <2>1, <2>2, <3>1, <3>2 DEF Reserved
    <2>5. ScWrites'
      <3>1. is("sc") /\ (rd_en \/ wr_en) => sc_success /\ wr_en
        BY DEF is, rd_en, wr_en, amo_read_phase
      <3> QED BY <2>1, <3>1 DEF ScWrites, Performed, is, wr_en, sc_success
    <2> QED BY <2>3, <2>4, <2>5
  <1>3. CASE ~hold
    <2>1. /\ granted' = FALSE /\ ex_mem' = next /\ wrote' = FALSE
          /\ before' = IF is("none") THEN before ELSE IF faulted THEN Nothing ELSE ex_mem
      BY <1>3 DEF LsuCycle
    <2>2. IF is("lr") THEN lr_valid' = TRUE /\ lr_addr' = ex_mem.addr
          ELSE /\ lr_valid' = (lr_valid /\ ~(is("sc") \/ is("amo") \/ (is("store") /\ ex_mem.addr[1] = lr_addr[1])))
               /\ lr_addr' = lr_addr
      BY <1>1, <1>3 DEF LsuCycle, ReservationEdge, aligned, is
    <2>3. link' = IF is("lr") THEN {ex_mem.addr}
                  ELSE IF (grant /\ wr_en /\ ~is("sc")) \/ is("sc")
                  THEN {a \in link : a[1] # ex_mem.addr[1] /\ ~is("sc")} ELSE link
      BY <1>3 DEF LsuCycle
    <2>4. LsuTypeOK'
      BY <2>1, <2>2 DEF LsuTypeOK, LsuCycle, AmoPhaseEdge, amo_read_phase, is
    <2>5. lr_valid' => lr_addr' \in link'
      <3>1. CASE is("lr")
        BY <3>1, <2>2, <2>3
      <3>2. CASE is("load") \/ is("none")
        <4>1. ~wr_en
          BY <3>2 DEF wr_en, is, sc_success
        <4> QED BY <3>2, <4>1, <2>2, <2>3 DEF Reserved, is
      <3>3. CASE is("sc") \/ is("amo")
        BY <3>3, <2>2 DEF is
      <3>4. CASE is("store")
        BY <3>4, <2>2, <2>3 DEF Reserved, is
      <3> QED BY <1>1, <3>1, <3>2, <3>3, <3>4 DEF is
    <2>6. before'.kind = "lr" => lr_valid' /\ lr_addr' = before'.addr
      <3>1. Nothing.kind = "none"
        BY DEF Nothing
      <3>2. CASE is("none")
        BY <3>2, <2>1, <2>2 DEF Reserved, is
      <3>3. CASE ~is("none")
        BY <3>1, <3>3, <2>1, <2>2 DEF is
      <3> QED BY <3>2, <3>3
    <2> QED BY <2>1, <2>4, <2>5, <2>6 DEF Reserved, ScWrites
  <1> QED BY <1>2, <1>3

\* For any memory: an SC writes exactly if it reports success, only while the word it was linked to
\* is unwritten, and the SC right after its LR succeeds (atomic_lsu.v, the reservation and its
\* wait for the access).
THEOREM ScIsHonest == LsuSpec => ScHonest
  <1>1. LsuInit => LsuInv
    <2>1. Nothing.kind = "none" /\ Nothing \in Instruction
      BY DEF Nothing, Instruction
    <2> QED BY <2>1 DEF LsuInit, LsuInv, LsuTypeOK, Reserved, ScWrites, is
  <1>2. LsuInv /\ [LsuNext]_lsuvars => LsuInv'
    <2> SUFFICES ASSUME LsuInv, [LsuNext]_lsuvars PROVE LsuInv'
      OBVIOUS
    <2>1. CASE LsuNext
      BY <2>1, LsuStep DEF LsuNext
    <2>2. CASE UNCHANGED lsuvars
      BY <2>2 DEF lsuvars, LsuInv, LsuTypeOK, Reserved, ScWrites, is
    <2> QED BY <2>1, <2>2
  <1>3. LsuInv => ScTrue
    <2> SUFFICES ASSUME LsuInv, is("sc"), NEW grant \in BOOLEAN, NEW rvalid \in BOOLEAN, NEW faulted \in BOOLEAN,
                        LsuCycle(grant, rvalid, faulted, ex_mem')
                 PROVE  /\ Performed(grant) => ex_mem.addr \in link
                        /\ ~mem_wait(rvalid, faulted) /\ ~faulted => (sc_success <=> Performed(grant))
                        /\ before = [ex_mem EXCEPT !.kind = "lr"] => sc_success
      BY DEF ScTrue
    <2> USE DEF LsuInv
    <2>1. /\ ex_mem.addr[2] = 0
          /\ [ex_mem EXCEPT !.kind = "lr"].kind = "lr" /\ [ex_mem EXCEPT !.kind = "lr"].addr = ex_mem.addr
      BY InstructionFacts DEF LsuTypeOK, is
    <2>2. sc_success <=> lr_valid /\ lr_addr = ex_mem.addr
      BY <2>1 DEF sc_success, aligned
    <2>3. wr_en <=> sc_success
      BY DEF wr_en, is
    <2>4. ~rd_en /\ ~amo_read_phase
      BY DEF rd_en, amo_read_phase, is
    <2>5. Performed(grant) => sc_success
      BY <2>2, <2>3 DEF Performed, ScWrites
    <2>6. sc_success => ex_mem.addr \in link
      BY <2>2 DEF Reserved, is
    <2>7. ASSUME ~mem_wait(rvalid, faulted), ~faulted, sc_success PROVE Performed(grant)
      <3>1. rvalid
        BY <2>7, <2>3, <2>4 DEF mem_wait
      <3>2. granted \/ grant
        BY <3>1 DEF LsuCycle
      <3> QED BY <2>7, <2>3, <3>2 DEF Performed, ScWrites
    <2>8. before = [ex_mem EXCEPT !.kind = "lr"] => sc_success
      BY <2>1, <2>2 DEF Reserved
    <2> QED BY <2>5, <2>6, <2>7, <2>8
  <1>4. LsuSpec => []LsuInv
    BY <1>1, <1>2, PTL DEF LsuSpec
  <1> QED BY <1>3, <1>4, PTL DEF ScHonest

-----------------------------------------------------------------------------
(* The memory adapter.                                                     *)
\* COUNT_WIDTH is wide enough for every latency.
LEMMA CounterFits ==
  ASSUME latency \in Latencies, latency > 1
  PROVE  LAST = latency - 1 /\ CountModulus \in Nat /\ latency <= CountModulus
  <1>1. latency \in 0 .. 256
    BY LatencyAssumption
  <1> QED BY <1>1 DEF LAST, CountModulus

\* What the port does with a request is a memory and a response.
LEMMA RequestFacts ==
  /\ None \notin Request
  /\ \A r \in Request, m \in [Word -> Port!Data] :
       /\ r.addr \in Word /\ m[r.addr] \in Port!Data
       /\ Port!Apply(m, r) \in [Word -> Port!Data]
       /\ Port!Answered(m, r) \in Port!Response
  <1>1. None \notin Request
    BY NoneAssumption DEF Request, Port!Request
  <1>2. ASSUME NEW r \in Request, NEW m \in [Word -> Port!Data]
        PROVE  /\ r.addr \in Word /\ m[r.addr] \in Port!Data
               /\ Port!Apply(m, r) \in [Word -> Port!Data]
               /\ Port!Answered(m, r) \in Port!Response
    <2>1. PICK S \in SUBSET Lane : r.bytes \in [S -> Byte]
      BY DEF Request, Port!Request
    <2>2. r.addr \in Word /\ m[r.addr] \in Port!Data
      BY DEF Request, Port!Request
    <2>3. \A d \in Port!Data : Port!Merge(d, r) \in Port!Data
      BY <2>1 DEF Port!Merge, Port!Data
    <2>4. Port!Apply(m, r) \in [Word -> Port!Data]
      BY <2>2, <2>3 DEF Port!Apply
    <2>5. Port!Answered(m, r) \in Port!Response
      BY <2>2 DEF Port!Answered, Port!Response, Request
    <2> QED BY <2>2, <2>4, <2>5
  <1> QED BY <1>1, <1>2

\* While a request is in flight the counter is its age, and nothing is being answered.
Counting ==
  /\ busy => latency > 1 /\ count \in 1 .. latency - 1 /\ age = count /\ ~rvalid_q
  /\ ~busy => count = 0
  /\ rvalid_q => age = latency

AdapterInv == TypeOK /\ Counting

\* Reset, of the adapter and of the port it implements.
LEMMA AdapterStart == Init => AdapterInv /\ Port!Init
  <1> SUFFICES ASSUME Init PROVE AdapterInv /\ Port!Init
    OBVIOUS
  <1>1. latency \in Nat /\ latency <= 256 /\ latency \in Latencies
    BY LatencyAssumption DEF Init
  <1>2. /\ count = 0 /\ age = 0 /\ ~busy /\ ~rvalid_q /\ busy \in BOOLEAN /\ rvalid_q \in BOOLEAN
        /\ req_q \in Request /\ rdata_q \in Port!Data /\ mem \in [Word -> Port!Data] /\ resp = None
    BY DEF Init
  <1>3. TypeOK
    BY <1>1, <1>2 DEF TypeOK
  <1>4. Counting
    BY <1>2 DEF Counting
  <1> QED BY <1>2, <1>3, <1>4 DEF AdapterInv, Port!Init, pend

\* The invariant is kept, and every cycle is a step of the port or a stutter of it.
LEMMA AdapterStep ==
  ASSUME AdapterInv, [Next]_vars
  PROVE  AdapterInv' /\ [Port!Next]_Port!vars
  <1> USE DEF AdapterInv
  <1>1. latency \in Nat /\ latency <= 256 /\ count \in Nat /\ age \in Nat /\ age <= latency + 1
    BY LatencyAssumption DEF TypeOK
  <1>2. req_q \in Request /\ mem \in [Word -> Port!Data]
    BY DEF TypeOK
  <1>3. ASSUME NEW r \in Request \cup {None}, Combinational(r) PROVE AdapterInv' /\ [Port!Next]_Port!vars
    <2>1. ~busy /\ r \in Request /\ store(r) = r /\ UNCHANGED <<latency, busy, count, req_q, rvalid_q, rdata_q, age>>
      BY <1>1, <1>3 DEF Combinational, gnt, store, Counting
    <2>2. mem' = Port!Apply(mem, r) /\ resp' = Port!Answered(mem, r)
      BY <1>3, <2>1 DEF Combinational, Fire
    <2>3. AdapterInv'
      BY <1>2, <2>1, <2>2, RequestFacts DEF TypeOK, Counting
    <2>4. Port!Serve(r)
      BY <2>1, <2>2 DEF Port!Serve, pend
    <2> QED BY <2>1, <2>3, <2>4 DEF Port!Next, Request
  <1>4. ASSUME NEW r \in Request \cup {None}, AcceptAndSample(r) PROVE AdapterInv' /\ [Port!Next]_Port!vars
    <2>1. ~busy /\ r \in Request /\ store(r) = r /\ latency = 1 /\ UNCHANGED <<latency, busy, count>>
      BY <1>1, <1>4 DEF AcceptAndSample, sample_on_accept, gnt, store
    <2>2. /\ mem' = Port!Apply(mem, r) /\ resp' = Port!Answered(mem, r)
          /\ req_q' = r /\ rdata_q' = mem[r.addr] /\ rvalid_q' = TRUE /\ age' = 1
      BY <1>4, <2>1 DEF AcceptAndSample, Fire
    <2>3. AdapterInv'
      BY <1>1, <1>2, <2>1, <2>2, RequestFacts DEF TypeOK, Counting
    <2>4. Port!Serve(r)
      BY <2>1, <2>2 DEF Port!Serve, pend
    <2> QED BY <2>1, <2>3, <2>4 DEF Port!Next, Request
  <1>5. ASSUME NEW r \in Request \cup {None}, Accept(r) PROVE AdapterInv' /\ [Port!Next]_Port!vars
    <2>1. ~busy /\ r \in Request /\ latency > 1
      BY <1>1, <1>5 DEF Accept, gnt
    <2>2. /\ req_q' = r /\ busy' = TRUE /\ count' = 1 /\ rvalid_q' = FALSE /\ resp' = None /\ age' = 1
          /\ UNCHANGED <<latency, rdata_q, mem>>
      BY <1>5 DEF Accept
    <2>3. AdapterInv'
      <3>1. TypeOK'
        <4>1. count' \in 0 .. 255 /\ (count' = 0 \/ count' < latency') /\ age' \in 0 .. latency' + 1
          BY <1>1, <2>1, <2>2
        <4> QED BY <1>1, <1>2, <2>1, <2>2, <4>1 DEF TypeOK
      <3>2. Counting'
        BY <1>1, <2>1, <2>2 DEF Counting
      <3> QED BY <3>1, <3>2
    <2>4. Port!Accept(r)
      BY <2>1, <2>2 DEF Port!Accept, pend
    <2> QED BY <2>1, <2>3, <2>4 DEF Port!Next, Request
  <1>6. ASSUME NEW r \in Request \cup {None}, Sample(r) PROVE AdapterInv' /\ [Port!Next]_Port!vars
    <2>1. busy /\ store(r) = req_q /\ count = LAST /\ age = count /\ latency > 1
      BY <1>6 DEF Sample, sample_now, store, Counting
    <2>2. age = latency - 1
      BY <2>1, CounterFits DEF TypeOK
    <2>3. /\ mem' = Port!Apply(mem, req_q) /\ resp' = Port!Answered(mem, req_q)
          /\ rdata_q' = mem[req_q.addr] /\ rvalid_q' = TRUE /\ busy' = FALSE /\ count' = 0
          /\ UNCHANGED <<latency, req_q>>
      BY <1>6, <2>1 DEF Sample, Fire
    <2>4. age' = latency
      BY <1>1, <1>6, <2>2 DEF Sample, Older
    <2>5. AdapterInv'
      <3>1. rdata_q' \in Port!Data /\ mem' \in [Word -> Port!Data] /\ resp' \in Port!Response
        BY <1>2, <2>3, RequestFacts
      <3>2. TypeOK'
        <4>1. count' \in 0 .. 255 /\ (count' = 0 \/ count' < latency') /\ age' \in 0 .. latency' + 1
          BY <1>1, <2>3, <2>4
        <4> QED BY <1>1, <2>3, <2>4, <3>1, <4>1 DEF TypeOK
      <3>3. Counting'
        BY <1>1, <2>3, <2>4 DEF Counting
      <3> QED BY <3>2, <3>3
    <2>6. Port!Answer
      BY <1>2, <2>1, <2>3, RequestFacts DEF Port!Answer, pend
    <2> QED BY <2>5, <2>6 DEF Port!Next
  <1>7. ASSUME NEW r \in Request \cup {None}, Wait(r) PROVE AdapterInv' /\ [Port!Next]_Port!vars
    <2>1. rvalid_q' = FALSE /\ resp' = None /\ UNCHANGED <<latency, busy, req_q, rdata_q, mem>>
      BY <1>7 DEF Wait
    <2>2. Port!Quiet
      BY <2>1 DEF Port!Quiet, pend
    <2>3. CASE busy
      <3>1. count # LAST /\ latency > 1 /\ count <= latency - 1 /\ age = count
        BY <1>7, <2>3 DEF Wait, sample_now, Counting
      <3>2. count + 1 <= latency - 1 /\ count + 1 < CountModulus /\ CountModulus \in Nat
        BY <1>1, <3>1, CounterFits DEF TypeOK
      <3>3. count' = count + 1
        BY <1>1, <1>7, <2>3, <3>2 DEF Wait
      <3>4. age' = age + 1
        BY <1>1, <1>7, <2>3, <3>1 DEF Wait, Older
      <3>5. TypeOK'
        <4>1. count' \in 0 .. 255 /\ (count' = 0 \/ count' < latency') /\ age' \in 0 .. latency' + 1
          BY <1>1, <2>1, <3>1, <3>2, <3>3, <3>4
        <4> QED BY <1>1, <2>1, <3>1, <3>2, <3>3, <3>4, <4>1 DEF TypeOK
      <3>6. Counting'
        BY <1>1, <2>1, <2>3, <3>1, <3>2, <3>3, <3>4 DEF Counting
      <3> QED BY <2>2, <3>5, <3>6 DEF Port!Next
    <2>4. CASE ~busy
      <3>1. count' = count /\ age' = 0
        BY <1>7, <2>4 DEF Wait
      <3>2. TypeOK'
        <4>1. count' \in 0 .. 255 /\ (count' = 0 \/ count' < latency') /\ age' \in 0 .. latency' + 1
          BY <1>1, <2>1, <2>4, <3>1 DEF Counting
        <4> QED BY <1>1, <2>1, <3>1, <4>1 DEF TypeOK
      <3>3. Counting'
        BY <2>1, <2>4, <3>1 DEF Counting
      <3> QED BY <2>2, <3>2, <3>3 DEF Port!Next
    <2> QED BY <2>3, <2>4
  <1>8. CASE UNCHANGED vars
    BY <1>8 DEF vars, TypeOK, Counting, Port!vars, pend
  <1> QED BY <1>3, <1>4, <1>5, <1>6, <1>7, <1>8 DEF Next

\* For every latency of the parameter's range and any memory: an answer comes exactly as many cycles
\* after its request as RESPONSE_LATENCY says (mem_adapter.v, COUNT_WIDTH and LAST).
THEOREM AdapterIsExact == Spec => []ExactLatency
  <1>1. AdapterInv => ExactLatency
    <2> SUFFICES ASSUME AdapterInv PROVE ExactLatency
      OBVIOUS
    <2>1. latency \in Nat /\ age \in Nat
      BY LatencyAssumption DEF AdapterInv, TypeOK
    <2> QED BY <2>1 DEF AdapterInv, Counting, ExactLatency
  <1> QED BY <1>1, AdapterStart, AdapterStep, PTL DEF Spec

\* The adapter implements the abstract port: each request it accepts is performed and answered once,
\* whatever the request lines do while it counts (mem_adapter.v, the latched request).
THEOREM AdapterKeepsPort == Spec => RefinesPort
  BY AdapterStart, AdapterStep, PTL DEF Spec, RefinesPort, Port!Spec

-----------------------------------------------------------------------------
(* The MMU.                                                                *)

\* The tables and their history: an entry has had its present value since the last flush.
TablesOK ==
  /\ satp \in Root
  /\ DOMAIN pt = PteAddr
  /\ DOMAIN since = PteAddr
  /\ \A a \in PteAddr : pt[a] \in since[a] /\ since[a] \subseteq Content[a]

\* A walk in flight that no flush has overtaken came here by a pointer, and has read an entry, that
\* was there after the last flush.
WalkCurrent ==
  /\ walk_state \in {"IDLE", "LEVEL1", "LEVEL0"} /\ walk_side \in Side /\ walk_page \in Page
  /\ walk_state = "IDLE" => walk_read = <<>>
  /\ walk_state = "LEVEL0" /\ ~walk_aborted => \E q \in Pointers(walk_page) : q.ppn[1] = walk_base
  /\ walk_read # <<>> /\ ~walk_aborted => walk_read[1] \in since[walk_addr]

\* Translations and faults are of pages that were translated.
PagesOK ==
  /\ \A e \in DOMAIN tlb : tlb[e] # <<>> => tlb[e][1].page \in Page
  /\ fill # <<>> => fill[1].page \in Page
  /\ \A s \in Side : fault[s] # Off => fault[s] \in Page

MmuInv == TablesOK /\ WalkCurrent /\ PagesOK /\ TranslationsCurrent /\ FaultsCurrent

-----------------------------------------------------------------------------
\* A walk stays inside the page tables.
LEMMA WalkAddresses ==
  ASSUME TablesOK, NEW page \in Page
  PROVE  /\ <<satp, page[1]>> \in PteAddr
         /\ \A q \in Pointers(page) : <<q.ppn[1], page[2]>> \in PteAddr
  <1>1. <<satp, page[1]>> \in PteAddr
    BY DEF TablesOK, PteAddr
  <1>2. ASSUME NEW q \in Pointers(page) PROVE <<q.ppn[1], page[2]>> \in PteAddr
    <2>1. q \in Content[<<satp, page[1]>>] /\ ~pte_is_leaf(q)
      BY <1>1 DEF Pointers, TablesOK
    <2>2. q.ppn[1] \in Frame
      BY <1>1, <2>1, MmuAssumption DEF pte_is_leaf
    <2> QED BY <2>2 DEF PteAddr
  <1> QED BY <1>1, <1>2

\* The entry that answers a walk that counts was in its place after the last flush.
LEMMA AnswerCurrent ==
  ASSUME TablesOK, WalkCurrent, walk_state # "IDLE", ~walk_aborted
  PROVE  walk_addr \in PteAddr /\ Answer \in since[walk_addr]
  <1>1. walk_addr \in PteAddr
    <2>1. CASE walk_state = "LEVEL1"
      BY <2>1, WalkAddresses DEF walk_addr, WalkCurrent
    <2>2. CASE walk_state = "LEVEL0"
      <3>1. PICK q \in Pointers(walk_page) : q.ppn[1] = walk_base
        BY <2>2 DEF WalkCurrent
      <3> QED BY <2>2, <3>1, WalkAddresses DEF walk_addr, WalkCurrent
    <2> QED BY <2>1, <2>2 DEF WalkCurrent
  <1> QED BY <1>1 DEF Answer, TablesOK, WalkCurrent

\* What the answer ends a walk with, a translation or a fault, is one of the tables after the flush.
LEMMA WalkEnds ==
  ASSUME TablesOK, WalkCurrent, walk_state # "IDLE", ~walk_aborted
  PROVE  /\ ~Faulty(Answer) /\ pte_is_leaf(Answer) => MayMap(walk_page, walk_state = "LEVEL1", Answer)
         /\ Faulty(Answer) => MayFault(walk_page)
         /\ ~Faulty(Answer) /\ ~pte_is_leaf(Answer) => walk_state = "LEVEL1" /\ Answer \in Pointers(walk_page)
  <1>1. Answer \in since[walk_addr]
    BY AnswerCurrent
  <1>2. CASE walk_state = "LEVEL1"
    <2>1. Answer \in since[<<satp, walk_page[1]>>]
      BY <1>1, <1>2 DEF walk_addr
    <2> QED BY <1>2, <2>1 DEF MayMap, MayFault, Faulty, Pointers
  <1>3. CASE walk_state = "LEVEL0"
    <2>1. PICK q \in Pointers(walk_page) : q.ppn[1] = walk_base
      BY <1>3 DEF WalkCurrent
    <2>2. Answer \in Leafs(walk_page)
      BY <1>1, <1>3, <2>1 DEF walk_addr, Leafs
    <2> QED BY <1>3, <2>2 DEF MayMap, MayFault, Faulty
  <1> QED BY <1>2, <1>3 DEF WalkCurrent

\* A store of software takes nothing away from what a walk may find.
LEMMA MoreToFind ==
  ASSUME satp' = satp, \A a \in PteAddr : since[a] \subseteq since'[a], TablesOK, NEW page \in Page
  PROVE  /\ Pointers(page) \subseteq Pointers(page)'
         /\ \A mega, pte : MayMap(page, mega, pte) => MayMap(page, mega, pte)'
         /\ MayFault(page) => MayFault(page)'
  <1>1. /\ <<satp, page[1]>> \in PteAddr
        /\ \A q \in Pointers(page) : <<q.ppn[1], page[2]>> \in PteAddr
    BY WalkAddresses
  <1>2. since[<<satp, page[1]>>] \subseteq since'[<<satp', page[1]>>]
    BY <1>1
  <1>3. Pointers(page) \subseteq Pointers(page)'
    BY <1>2 DEF Pointers, pte_usable, pte_is_leaf
  <1>4. Leafs(page) \subseteq Leafs(page)'
    BY <1>1, <1>3 DEF Leafs
  <1>5. ASSUME NEW mega, NEW pte, MayMap(page, mega, pte) PROVE MayMap(page, mega, pte)'
    BY <1>2, <1>4, <1>5 DEF MayMap, pte_usable, pte_is_leaf
  <1>6. MayFault(page) => MayFault(page)'
    BY <1>2, <1>4 DEF MayFault, pte_usable, pte_is_leaf
  <1> QED BY <1>3, <1>5, <1>6

\* A store to a page table adds the new value to what a walk may find.
LEMMA StoreStep ==
  ASSUME MmuInv, NEW a \in PteAddr, NEW pte \in Content[a], StorePte(a, pte)
  PROVE  MmuInv'
  <1> USE DEF MmuInv
  <1>1. /\ pt' = [pt EXCEPT ![a] = pte] /\ since' = [since EXCEPT ![a] = @ \cup {pte}]
        /\ UNCHANGED <<satp, tlb, fill, walk_state, walk_side, walk_page, walk_base, walk_aborted, walk_read, fault, away>>
    BY DEF StorePte, walker
  <1>2. \A b \in PteAddr : since[b] \subseteq since'[b]
    BY <1>1 DEF TablesOK
  <1>3. TablesOK'
    BY <1>1 DEF TablesOK
  <1>4. WalkCurrent'
    <2>1. walk_state = "LEVEL0" /\ ~walk_aborted => \E q \in Pointers(walk_page)' : q.ppn[1] = walk_base
      BY <1>1, <1>2, MoreToFind DEF WalkCurrent
    <2>2. walk_addr' = walk_addr
      BY <1>1 DEF walk_addr
    <2>3. walk_read # <<>> /\ ~walk_aborted => walk_read[1] \in since'[walk_addr]
      BY <1>2, AnswerCurrent DEF WalkCurrent
    <2> QED BY <1>1, <2>1, <2>2, <2>3 DEF WalkCurrent
  <1>5. PagesOK'
    BY <1>1 DEF PagesOK
  <1>6. TranslationsCurrent'
    BY <1>1, <1>2, MoreToFind DEF TranslationsCurrent, PagesOK
  <1>7. FaultsCurrent'
    BY <1>1, <1>2, MoreToFind DEF FaultsCurrent, PagesOK
  <1> QED BY <1>3, <1>4, <1>5, <1>6, <1>7

\* A flush leaves no translation, no fault and no walk that counts.
LEMMA FlushStep ==
  ASSUME MmuInv, NEW i \in Page \cup {Off}, NEW d \in Page \cup {Off}, NEW bus,
         MmuCycle(TRUE, i, d, bus)
  PROVE  MmuInv'
  <1> USE DEF MmuInv
  <1>1. pt' = pt /\ since' = [a \in PteAddr |-> {pt[a]}] /\ satp' \in Root
    BY DEF MmuCycle
  <1>2. TablesOK'
    BY <1>1 DEF TablesOK
  <1>3. fill' = <<>>
    BY DEF MmuCycle, WalkIdle, WalkWaits, WalkAnswered
  <1>4. \A e \in DOMAIN tlb' : tlb'[e] = <<>>
    BY DEF MmuCycle, TlbEdge
  <1>5. \A s \in Side : fault'[s] = Off
    BY DEF MmuCycle, FaultEdge, KeptFault
  <1>6. WalkCurrent'
    <2>1. CASE WalkIdle(i, d)
      <3>1. walk_state' \in {"IDLE", "LEVEL1"} /\ walk_read' = <<>> /\ walk_side' \in Side /\ walk_page' \in Page
        BY <2>1 DEF WalkIdle, WalkCurrent, walk_needed, Side
      <3> QED BY <3>1 DEF WalkCurrent
    <2>2. CASE ~WalkIdle(i, d)
      <3>1. /\ walk_aborted' = TRUE /\ walk_side' = walk_side /\ walk_page' = walk_page
            /\ \/ walk_state' = walk_state /\ walk_state # "IDLE"
               \/ walk_state' = "IDLE" /\ walk_read' = <<>>
        BY <2>2 DEF MmuCycle, WalkWaits, WalkAnswered
      <3> QED BY <3>1 DEF WalkCurrent
    <2> QED BY <2>1, <2>2
  <1> QED BY <1>2, <1>3, <1>4, <1>5, <1>6 DEF PagesOK, TranslationsCurrent, FaultsCurrent

\* Without a flush the tables' history stands, and only the end of a walk adds something.
LEMMA QuietStep ==
  ASSUME MmuInv, NEW i \in Page \cup {Off}, NEW d \in Page \cup {Off}, NEW bus,
         MmuCycle(FALSE, i, d, bus)
  PROVE  MmuInv'
  <1> USE DEF MmuInv
  <1>1. pt' = pt /\ since' = since /\ satp' = satp
    BY DEF MmuCycle
  <1>2. TablesOK'
    BY <1>1 DEF TablesOK
  <1>3. /\ \A page : Pointers(page)' = Pointers(page)
        /\ \A page, mega, pte : MayMap(page, mega, pte)' = MayMap(page, mega, pte)
        /\ \A page : MayFault(page)' = MayFault(page)
    BY <1>1 DEF Pointers, Leafs, MayMap, MayFault
  <1>4. (fill' # <<>>) => /\ fill'[1].page \in Page
                          /\ MayMap(fill'[1].page, fill'[1].mega, fill'[1].pte)
    <2>1. CASE fill' = <<>>
      BY <2>1
    <2>2. CASE fill' # <<>>
      <3>1. /\ walk_state # "IDLE" /\ ~walk_aborted /\ ~Faulty(Answer) /\ pte_is_leaf(Answer)
            /\ fill' = <<[page |-> walk_page, mega |-> walk_state = "LEVEL1", pte |-> Answer]>>
        BY <2>2 DEF MmuCycle, WalkIdle, WalkWaits, WalkAnswered
      <3>2. MayMap(walk_page, walk_state = "LEVEL1", Answer)
        BY <3>1, WalkEnds
      <3> QED BY <3>1, <3>2 DEF WalkCurrent
    <2> QED BY <2>1, <2>2
  <1>5. /\ \A e \in DOMAIN tlb' : tlb'[e] # <<>> =>
               tlb'[e][1].page \in Page /\ MayMap(tlb'[e][1].page, tlb'[e][1].mega, tlb'[e][1].pte)
    <2>1. DOMAIN tlb' = DOMAIN tlb /\ \A e \in DOMAIN tlb : tlb'[e] = tlb[e] \/ tlb'[e] = fill
      BY DEF MmuCycle, TlbEdge
    <2> QED BY <2>1 DEF PagesOK, TranslationsCurrent
  <1>6. \A s \in Side : fault'[s] # Off => fault'[s] \in Page /\ MayFault(fault'[s]) /\ ~away'[s]
    <2> DEFINE found == bus = "rvalid" /\ walk_state # "IDLE" /\ ~walk_aborted /\ Faulty(Answer)
    <2>1. FaultEdge(FALSE, i, d, found)
      BY DEF MmuCycle, WalkIdle, WalkWaits, WalkAnswered
    <2>2. found => MayFault(walk_page)
      BY WalkEnds
    <2> HIDE DEF found
    <2> SUFFICES ASSUME NEW s \in Side, fault'[s] # Off
                 PROVE  fault'[s] \in Page /\ MayFault(fault'[s]) /\ ~away'[s]
      OBVIOUS
    <2>3. CASE found /\ s = walk_side
      <3>1. fault'[s] = walk_page /\ ~away'[s]
        BY <2>1, <2>3 DEF FaultEdge
      <3> QED BY <3>1, <2>2, <2>3 DEF WalkCurrent
    <2>4. CASE ~(found /\ s = walk_side)
      <3> DEFINE page == IF s = "data" THEN d ELSE i
      <3>1. fault'[s] = KeptFault(FALSE, s, page) /\ away'[s] = (away[s] \/ page # fault[s])
        BY <2>1, <2>4 DEF FaultEdge
      <3>2. page = fault[s] /\ fault'[s] = fault[s]
        BY <3>1 DEF KeptFault
      <3> QED BY <3>1, <3>2 DEF PagesOK, FaultsCurrent
    <2> QED BY <2>3, <2>4
  <1>7. WalkCurrent'
    <2>1. CASE WalkIdle(i, d)
      <3>1. walk_state' \in {"IDLE", "LEVEL1"} /\ walk_read' = <<>> /\ walk_side' \in Side /\ walk_page' \in Page
        BY <2>1 DEF WalkIdle, WalkCurrent, walk_needed, Side
      <3> QED BY <3>1 DEF WalkCurrent
    <2>2. CASE bus # "rvalid" /\ WalkWaits(FALSE, bus = "gnt")
      <3>1. /\ walk_state # "IDLE" /\ UNCHANGED <<walk_state, walk_side, walk_page, walk_base>>
            /\ walk_aborted' = (walk_aborted \/ FALSE)
            /\ walk_read' = walk_read \/ (walk_read = <<>> /\ walk_read' = <<pt[walk_addr]>>)
        BY <2>2 DEF WalkWaits
      <3>2. walk_addr' = walk_addr
        BY <1>1, <3>1 DEF walk_addr
      <3>3. walk_read' # <<>> /\ ~walk_aborted => walk_read'[1] \in since[walk_addr]
        BY <3>1, AnswerCurrent DEF WalkCurrent, TablesOK
      <3> QED BY <1>1, <1>3, <3>1, <3>2, <3>3 DEF WalkCurrent
    <2>3. CASE bus = "rvalid" /\ WalkAnswered(FALSE)
      <3> DEFINE pointer == ~walk_aborted /\ ~Faulty(Answer) /\ ~pte_is_leaf(Answer)
      <3>1. /\ walk_state # "IDLE" /\ walk_read' = <<>> /\ UNCHANGED <<walk_side, walk_page>>
            /\ walk_state' = IF pointer THEN "LEVEL0" ELSE "IDLE"
            /\ walk_base' = IF pointer THEN Answer.ppn[1] ELSE walk_base
        BY <2>3 DEF WalkAnswered
      <3>2. pointer => Answer \in Pointers(walk_page)
        BY <3>1, WalkEnds
      <3> QED BY <1>3, <3>1, <3>2 DEF WalkCurrent
    <2> QED BY <2>1, <2>2, <2>3 DEF MmuCycle
  <1>8. PagesOK' /\ TranslationsCurrent' /\ FaultsCurrent'
    BY <1>3, <1>4, <1>5, <1>6 DEF PagesOK, TranslationsCurrent, FaultsCurrent
  <1> QED BY <1>2, <1>7, <1>8

\* The invariant of walker and TLB.
LEMMA MmuInductive == MmuSpec => []MmuInv
  <1>1. MmuInit => MmuInv
    <2> SUFFICES ASSUME MmuInit PROVE MmuInv
      OBVIOUS
    <2>1. TablesOK
      BY DEF MmuInit, TablesOK
    <2>2. WalkCurrent
      BY DEF MmuInit, WalkCurrent, Side
    <2> QED BY <2>1, <2>2 DEF MmuInit, MmuInv, PagesOK, TranslationsCurrent, FaultsCurrent
  <1>2. MmuInv /\ [MmuNext]_mmuvars => MmuInv'
    <2> SUFFICES ASSUME MmuInv, [MmuNext]_mmuvars PROVE MmuInv'
      OBVIOUS
    <2>1. ASSUME NEW flush \in BOOLEAN, NEW i \in Page \cup {Off}, NEW d \in Page \cup {Off}, NEW bus,
                 MmuCycle(flush, i, d, bus)
          PROVE  MmuInv'
      <3>1. CASE flush = TRUE
        BY <2>1, <3>1, FlushStep
      <3>2. CASE flush = FALSE
        BY <2>1, <3>2, QuietStep
      <3> QED BY <3>1, <3>2
    <2>2. CASE UNCHANGED mmuvars
      <3>1. /\ UNCHANGED <<satp, pt, tlb, fill, fault, since, away>>
            /\ UNCHANGED <<walk_state, walk_side, walk_page, walk_base, walk_aborted, walk_read>>
        BY <2>2 DEF mmuvars, walker
      <3>2. /\ \A page : Pointers(page)' = Pointers(page)
            /\ \A page, mega, pte : MayMap(page, mega, pte)' = MayMap(page, mega, pte)
            /\ \A page : MayFault(page)' = MayFault(page)
            /\ walk_addr' = walk_addr
        BY <3>1 DEF Pointers, Leafs, MayMap, MayFault, walk_addr
      <3>3. TablesOK' /\ PagesOK' /\ WalkCurrent'
        BY <3>1, <3>2 DEF MmuInv, TablesOK, PagesOK, WalkCurrent
      <3>4. TranslationsCurrent' /\ FaultsCurrent'
        BY <3>1, <3>2 DEF MmuInv, TranslationsCurrent, FaultsCurrent
      <3> QED BY <3>3, <3>4 DEF MmuInv
    <2> QED BY <2>1, <2>2, StoreStep DEF MmuNext
  <1> QED BY <1>1, <1>2, PTL DEF MmuSpec

\* For any page tables, pages and TLB: in whichever cycle a flush meets a walk, no translation of the
\* time before it survives in the TLB or on the way there (sv32_mmu.v, walk_aborted; sv32_tlb.v, flush).
THEOREM TranslationsAreCurrent == MmuSpec => []TranslationsCurrent
  BY MmuInductive, PTL DEF MmuInv

\* The same of the held page faults, and none is held for a requester that has been elsewhere since
\* (sv32_mmu.v, the two fault registers).
THEOREM FaultsAreCurrent == MmuSpec => []FaultsCurrent
  BY MmuInductive, PTL DEF MmuInv

-----------------------------------------------------------------------------
(* The receiver of the UART: where its samples fall in a frame.            *)

\* SampleDue i of a frame, in clocks after the tick that saw its start bit: 0 confirms it, Bits + 1 is the stop bit.
SampleDue(i) == 7 * Period + 16 * (i * Period)

LEMMA PeriodFacts ==
  /\ Period \in Nat \ {0} /\ Bits \in Nat \ {0} /\ SampleDue(0) = 7 * Period
  /\ \A i \in Nat : SampleDue(i) \in Nat /\ SampleDue(i + 1) = SampleDue(i) + 16 * Period
  <1>1. Period \in Nat \ {0} /\ Bits \in Nat \ {0}
    BY RxAssumption DEF Period
  <1>2. SampleDue(0) = 7 * Period
    BY <1>1 DEF SampleDue
  <1>3. \A i \in Nat : SampleDue(i) \in Nat /\ SampleDue(i + 1) = SampleDue(i) + 16 * Period
    <2> SUFFICES ASSUME NEW i \in Nat PROVE SampleDue(i) \in Nat /\ SampleDue(i + 1) = SampleDue(i) + 16 * Period
      OBVIOUS
    <2>1. i * Period \in Nat /\ (i + 1) * Period = i * Period + Period
      BY <1>1
    <2> DEFINE d == Period  x == i * d  y == (i + 1) * d
    <2>2. d \in Nat /\ x \in Nat /\ y = x + d /\ SampleDue(i) = 7 * d + 16 * x /\ SampleDue(i + 1) = 7 * d + 16 * y
      BY <1>1, <2>1 DEF SampleDue
    <2> HIDE DEF d, x, y
    <2>3. SampleDue(i) \in Nat /\ SampleDue(i + 1) = SampleDue(i) + 16 * d
      BY <2>2
    <2> QED BY <2>3 DEF d
  <1> QED BY <1>1, <1>2, <1>3

\* A sent bit takes some time.
LEMMA BitLengths == \A l \in SenderBit : l \in Nat \ {0}
  BY RxAssumption

\* A tick is counted: the counter does not wrap before its limit.
LEMMA TickCounted == \A n \in 0 .. 15 : n # 15 => (n + 1) % 16 = n + 1
  OBVIOUS

\* A byte is its bits.
LEMMA SameBits == \A f, g \in [1 .. Bits -> {0, 1}] : (\A i \in 1 .. Bits : f[i] = g[i]) => f = g
  <1> SUFFICES ASSUME NEW f \in [1 .. Bits -> {0, 1}], NEW g \in [1 .. Bits -> {0, 1}],
                      \A i \in 1 .. Bits : f[i] = g[i]
               PROVE  f = g
    BY Zenon
  <1> DEFINE D == 1 .. Bits
  <1>1. f = [i \in D |-> f[i]] /\ g = [i \in D |-> g[i]] /\ \A i \in D : f[i] = g[i]
    BY Zenon
  <1> HIDE DEF D
  <1>2. [i \in D |-> f[i]] = [i \in D |-> g[i]]
    BY <1>1
  <1> QED BY <1>1, <1>2, Zenon

\* A multiple of something not positive is not positive, a larger multiple of something positive is larger.
LEMMA Multiples ==
  ASSUME NEW m \in Nat, NEW i \in 0 .. m, NEW e \in Int, NEW b \in Nat, m * e <= b
  PROVE  i * e <= b
  <1>1. i \in Nat /\ i * e \in Int /\ m * e \in Int
    OBVIOUS
  <1>2. CASE e <= 0
    <2>1. PICK g \in Nat : e = -g
      <3>1. -e \in Nat /\ e = -(-e)
        BY <1>2
      <3> QED BY <3>1
    <2>2. i * e = -(i * g) /\ i * g \in Nat
      BY <1>1, <2>1
    <2> QED BY <1>1, <2>2
  <1>3. CASE e > 0
    <2>1. PICK d \in Nat : m = i + d
      <3>1. m - i \in Nat /\ m = i + (m - i)
        BY <1>1
      <3> QED BY <3>1
    <2>2. e \in Nat
      BY <1>3
    <2>3. m * e = i * e + d * e /\ d * e \in Nat
      BY <1>1, <2>1, <2>2
    <2> QED BY <1>1, <2>3
  <1> QED BY <1>2, <1>3

\* Every sample falls in its bit, and the last before the end of the frame.
LEMMA Margins ==
  ASSUME Tolerable, NEW l \in SenderBit, NEW i \in 0 .. Bits + 1
  PROVE  i * l <= SampleDue(i) /\ SampleDue(i) + Period + 3 <= (i + 1) * l /\ i * l \in Nat /\ (i + 1) * l = i * l + l
  <1> DEFINE d == Period
  <1>1. d \in Nat \ {0} /\ Bits \in Nat \ {0} /\ l \in Nat \ {0} /\ i \in Nat
    BY PeriodFacts, RxAssumption
  <1>2. /\ (Bits + 1) * l <= 16 * (Bits + 1) * d + 7 * d
        /\ (Bits + 2) * l >= 16 * (Bits + 2) * d - 8 * d + 3
    BY DEF Tolerable
  <1>3. SampleDue(i) = 7 * d + 16 * (i * d)
    BY DEF SampleDue
  <1> HIDE DEF d
  <1>4. (Bits + 1) * (l - 16 * d) <= 7 * d
    <2>1. (Bits + 1) * (l - 16 * d) = (Bits + 1) * l - 16 * (Bits + 1) * d
      BY <1>1
    <2>2. (Bits + 1) * l \in Int /\ 16 * (Bits + 1) * d \in Int
      BY <1>1
    <2> QED BY <1>1, <1>2, <2>1, <2>2
  <1>5. (Bits + 2) * (16 * d - l) <= 8 * d - 3
    <2>1. (Bits + 2) * (16 * d - l) = 16 * (Bits + 2) * d - (Bits + 2) * l
      BY <1>1
    <2>2. (Bits + 2) * l \in Int /\ 16 * (Bits + 2) * d \in Int
      BY <1>1
    <2> QED BY <1>1, <1>2, <2>1, <2>2
  <1>6. i * (l - 16 * d) <= 7 * d
    <2>1. Bits + 1 \in Nat /\ i \in 0 .. Bits + 1 /\ l - 16 * d \in Int /\ 7 * d \in Nat
      BY <1>1
    <2> QED BY <1>4, <2>1, Multiples
  <1>7. (i + 1) * (16 * d - l) <= 8 * d - 3
    <2>1. Bits + 2 \in Nat /\ i + 1 \in 0 .. Bits + 2 /\ 16 * d - l \in Int /\ 8 * d - 3 \in Nat
      BY <1>1
    <2> QED BY <1>5, <2>1, Multiples
  <1> DEFINE x == i * d  y == i * l
  <1>8. x \in Nat /\ y \in Nat /\ i * (l - 16 * d) = y - 16 * x /\ (i + 1) * l = y + l /\ (i + 1) * (16 * d - l) = 16 * x + 16 * d - (y + l)
    BY <1>1
  <1>9. SampleDue(i) = 7 * d + 16 * x
    BY <1>3
  <1> HIDE DEF x
  <1>10. y <= SampleDue(i) /\ SampleDue(i) + d + 3 <= y + l
    <2> HIDE DEF y
    <2> QED BY <1>1, <1>6, <1>7, <1>8, <1>9
  <1> QED BY <1>8, <1>10 DEF d, y

\* Multiples are in the order of their factors.
LEMMA Order ==
  ASSUME NEW l \in Nat \ {0}, NEW i \in Nat, NEW j \in Nat, i * l < j * l
  PROVE  i < j
  <1> SUFFICES ASSUME ~(i < j) PROVE FALSE
    OBVIOUS
  <1>1. PICK d \in Nat : i = j + d
    <2>1. i - j \in Nat /\ i = j + (i - j)
      OBVIOUS
    <2> QED BY <2>1
  <1>2. i * l = j * l + d * l /\ d * l \in Nat /\ j * l \in Nat /\ i * l \in Nat
    BY <1>1
  <1> QED BY <1>2

\* v is what a frame of bits s, each l clocks long, shows p clocks after it began; before it the line was high.
Shows(v, p, l, s) ==
  /\ v \in {0, 1}
  /\ p < 0 => v = 1
  /\ p >= 0 /\ p < l => v = 0
  /\ \A i \in 1 .. Len(s) : i * l <= p /\ p < (i + 1) * l => v = s[i]
  /\ p >= (Bits + 1) * l => v = 1

\* The next sample, in clocks after the frame began, if the counter has to reach limit.
Due(p, limit) == p + baud_tick_counter + (limit - rx_tick_count) * Period

\* It is sample i of a frame that was seen at one of the clocks 2 to Period + 1.
InTime(q, i) == q >= SampleDue(i) + 2 /\ q <= SampleDue(i) + Period + 1

\* Where the receiver is, p clocks after a frame of bits s began.
Follows(p, l, s) ==
  \/ rx_state = "IDLE" /\ owed /\ p + baud_tick_counter <= Period + 1
  \/ rx_state = "START" /\ owed /\ rx_tick_count \in 0 .. 6 /\ InTime(Due(p, 6), 0)
  \/ /\ rx_state = "DATA" /\ owed /\ InTime(Due(p, 15), rx_bit_count + 1)
     /\ \A i \in 1 .. rx_bit_count : i <= Len(s) /\ rx_shift[i] = s[i]
  \/ /\ rx_state = "STOP" /\ owed /\ InTime(Due(p, 15), Bits + 1)
     /\ \A i \in 1 .. Bits : i <= Len(s) /\ rx_shift[i] = s[i]
  \/ rx_state = "IDLE" /\ ~owed /\ p - 2 >= (Bits + 1) * l

RxTypes ==
  /\ baud_tick_counter \in 0 .. Period - 1 /\ rx_meta \in {0, 1} /\ rx_sync \in {0, 1} /\ owed \in BOOLEAN
  /\ rx_state \in {"IDLE", "START", "DATA", "STOP"}
  /\ rx_tick_count \in 0 .. 15 /\ rx_bit_count \in 0 .. Bits - 1 /\ rx_shift \in [1 .. Bits -> {0, 1}]

\* A clock between two ticks, or the tick itself: the next sample is due when it was.
LEMMA DueStays ==
  ASSUME RxTypes, Baud, NEW p \in Nat, NEW limit \in 0 .. 15, rx_tick_count <= limit,
         \/ ~baud_tick /\ rx_tick_count' = rx_tick_count
         \/ baud_tick /\ rx_tick_count # limit /\ rx_tick_count' = rx_tick_count + 1
  PROVE  Due(p + 1, limit)' = Due(p, limit)
  <1> DEFINE d == Period  c == baud_tick_counter  n == rx_tick_count
  <1>1. d \in Nat \ {0} /\ c \in 0 .. d - 1 /\ n \in 0 .. 15
    BY PeriodFacts DEF RxTypes
  <1>2. c' = IF c = 0 THEN d - 1 ELSE c - 1
    BY DEF Baud, baud_tick
  <1>3. Due(p, limit) = p + c + (limit - n) * d /\ Due(p + 1, limit)' = p + 1 + c' + (limit - n') * d
    BY DEF Due, Period
  <1>4. \/ c # 0 /\ n' = n
        \/ c = 0 /\ n # limit /\ n' = n + 1
    BY DEF baud_tick
  <1> HIDE DEF d
  <1>5. CASE c # 0 /\ n' = n
    <2>1. c' = c - 1
      BY <1>2, <1>5
    <2>2. Due(p + 1, limit)' = p + 1 + (c - 1) + (limit - n) * d /\ (limit - n) * d \in Int
      BY <1>1, <1>3, <1>5, <2>1
    <2> QED BY <1>1, <1>3, <2>2
  <1>6. CASE c = 0 /\ n' = n + 1
    <2>1. (limit - n) * d = (limit - n') * d + d /\ (limit - n') * d \in Int
      BY <1>1, <1>6
    <2> QED BY <1>1, <1>2, <1>3, <1>6, <2>1
  <1> QED BY <1>4, <1>5, <1>6

\* After a sample the next one is 16 ticks away (7 for the first).
LEMMA DueNext ==
  ASSUME RxTypes, Baud, NEW p \in Nat, baud_tick, rx_tick_count' = 0
  PROVE  Due(p + 1, 6)' = p + 7 * Period /\ Due(p + 1, 15)' = p + 16 * Period
  <1>1. Period \in Nat \ {0} /\ baud_tick_counter' = Period - 1
    BY PeriodFacts DEF Baud
  <1>2. \A m \in {6, 15} : Due(p + 1, m)' = p + 1 + (Period - 1) + m * Period
    BY <1>1 DEF Due, Period
  <1> QED BY <1>1, <1>2

\* The sample is due now.
LEMMA DueNow ==
  ASSUME RxTypes, NEW p \in Nat, baud_tick, NEW limit \in 0 .. 15, rx_tick_count = limit
  PROVE  Due(p, limit) = p
  <1>1. Period \in Nat \ {0} /\ baud_tick_counter = 0
    BY PeriodFacts DEF baud_tick
  <1>2. (limit - rx_tick_count) * Period = 0
    BY <1>1
  <1> QED BY <1>1, <1>2 DEF Due

\* One clock of the receiver, p clocks into a frame that shows at least the bits it has begun.
LEMMA ReceiverStep ==
  ASSUME Tolerable, RxTypes, NEW l \in SenderBit, NEW s \in Seq({0, 1}), NEW s2 \in Seq({0, 1}), NEW p \in Nat,
         Len(s) <= Bits, Len(s) <= Len(s2), \A i \in 1 .. Len(s) : s2[i] = s[i],
         \A i \in 1 .. Bits : i * l <= p => i <= Len(s),
         Shows(rx_sync, p - 2, l, s), Follows(p, l, s), Baud, Receiver, owed' = (owed /\ ~pushed)
  PROVE  Follows(p + 1, l, s2)' /\ (pushed => owed /\ rx_shift = s)
  <1> DEFINE d == Period  c == baud_tick_counter  n == rx_tick_count
  <1>1. d \in Nat \ {0} /\ Bits \in Nat \ {0} /\ c \in 0 .. d - 1 /\ n \in 0 .. 15 /\ l \in Nat \ {0} /\ p - 2 \in Int
        /\ Len(s) \in Nat /\ Len(s2) \in Nat
    <2>1. Len(s) \in Nat /\ Len(s2) \in Nat
      BY LenProperties
    <2>2. l \in Nat \ {0}
      BY BitLengths
    <2> QED BY <2>1, <2>2, PeriodFacts DEF RxTypes
  <1>2. c' = (IF c = 0 THEN d - 1 ELSE c - 1) /\ (baud_tick <=> c = 0)
    BY DEF Baud, baud_tick
  <1>3. SampleDue(0) = 7 * d /\ \A i \in Nat : SampleDue(i) \in Nat /\ SampleDue(i + 1) = SampleDue(i) + 16 * d
    BY PeriodFacts
  <1>4. \A i \in 0 .. Bits + 1 : i * l <= SampleDue(i) /\ SampleDue(i) + d + 3 <= (i + 1) * l /\ i * l \in Nat /\ (i + 1) * l = i * l + l
    BY Margins
  <1>5. 0 * l = 0 /\ (0 + 1) * l = l
    BY <1>1
  <1>6. 0 \in 0 .. Bits + 1 /\ Bits + 1 \in 0 .. Bits + 1
    BY <1>1
  <1>7a. 8 * d + 3 <= l
    <2> DEFINE z == SampleDue(0)
    <2>1. z = 7 * d /\ z + d + 3 <= (0 + 1) * l
      BY <1>3, <1>4, <1>6
    <2> HIDE DEF z
    <2> QED BY <1>1, <1>5, <2>1
  <1> HIDE DEF d
  \* Not seen yet.
  <1>7. CASE rx_state = "IDLE" /\ owed /\ p + c <= d + 1
    <2>1. ~pushed /\ owed'
      BY <1>7 DEF pushed
    <2>2. CASE ~baud_tick
      <3>1. rx_state' = "IDLE"
        BY <1>7, <2>2 DEF Receiver, RxWait, RxIdle
      <3>2. (p + 1) + c' <= d + 1
        BY <1>1, <1>2, <1>7, <2>2
      <3> QED BY <2>1, <3>1, <3>2 DEF Follows, d
    <2>3. CASE baud_tick /\ rx_sync = 0
      <3>1. rx_state' = "START" /\ n' = 0
        BY <1>7, <2>3 DEF Receiver, RxWait, RxIdle
      <3>2. p >= 2
        BY <1>1, <2>3 DEF Shows
      <3>3. Due(p + 1, 6)' = p + 7 * d
        BY <2>3, <3>1, DueNext DEF d
      <3>4. InTime(p + 7 * d, 0)
        <4>1. p <= d + 1
          BY <1>1, <1>2, <1>7, <2>3
        <4> DEFINE z == SampleDue(0)
        <4>3. z = 7 * d
          BY <1>3
        <4> HIDE DEF z
        <4>2. p + 7 * d >= z + 2 /\ p + 7 * d <= z + d + 1
          BY <1>1, <3>2, <4>1, <4>3
        <4> QED BY <4>2 DEF InTime, d, z
      <3>5. n' \in 0 .. 6
        BY <3>1
      <3> QED BY <2>1, <3>1, <3>3, <3>4, <3>5 DEF Follows, InTime, SampleDue, Period
    <2>4. CASE baud_tick /\ rx_sync # 0
      <3>1. rx_state' = "IDLE"
        BY <1>7, <2>4 DEF Receiver, RxWait, RxIdle
      <3>2. p <= d + 1
        BY <1>1, <1>2, <1>7, <2>4
      <3>3. p - 2 < l
        BY <1>1, <1>7a, <3>2
      <3>4. p <= 1
        BY <1>1, <2>4, <3>3 DEF Shows
      <3>5. (p + 1) + c' <= d + 1
        BY <1>1, <1>2, <2>4, <3>4
      <3> QED BY <2>1, <3>1, <3>5 DEF Follows, d
    <2> QED BY <2>1, <2>2, <2>3, <2>4
  \* The byte has been handed on.
  <1>8. CASE rx_state = "IDLE" /\ ~owed /\ p - 2 >= (Bits + 1) * l
    <2>1. rx_sync = 1 /\ ~pushed /\ ~owed'
      BY <1>8 DEF Shows, pushed
    <2>2. rx_state' = "IDLE"
      BY <1>8, <2>1 DEF Receiver, RxWait, RxIdle
    <2>3. (p + 1) - 2 >= (Bits + 1) * l
      BY <1>1, <1>4, <1>6, <1>8
    <2> QED BY <2>1, <2>2, <2>3 DEF Follows
  \* The start bit is confirmed in its middle.
  <1>9. CASE rx_state = "START" /\ owed /\ n \in 0 .. 6 /\ InTime(Due(p, 6), 0)
    <2>1. ~pushed /\ owed'
      BY <1>9 DEF pushed
    <2>2. CASE ~baud_tick \/ n # 6
      <3>1. rx_state' = "START" /\ ((~baud_tick /\ n' = n) \/ (baud_tick /\ n # 6 /\ n' = (n + 1) % 16))
        BY <1>9, <2>2 DEF Receiver, RxWait, RxIdle, RxCount, Confirm, rxregs
      <3>2. n # 6 => (n + 1) % 16 = n + 1
        BY <1>9
      <3>3. Due(p + 1, 6)' = Due(p, 6)
        <4>1. 6 \in 0 .. 15 /\ n <= 6
          BY <1>9
        <4> QED BY <4>1, <3>1, <3>2, DueStays
      <3>4. n' \in 0 .. 6
        BY <1>9, <3>1, <3>2
      <3> QED BY <1>9, <2>1, <3>1, <3>3, <3>4 DEF Follows, InTime, SampleDue, Period
    <2>3. CASE baud_tick /\ n = 6
      <3>1. p >= 7 * d + 2 /\ p <= 8 * d + 1
        <4> DEFINE z == SampleDue(0)
        <4>1. Due(p, 6) = p
          BY <2>3, DueNow
        <4>2. z = 7 * d /\ p >= z + 2 /\ p <= z + d + 1
          BY <1>3, <1>9, <4>1 DEF InTime, d
        <4> HIDE DEF z
        <4> QED BY <1>1, <4>2
      <3>2. rx_sync = 0
        <4>1. p - 2 >= 0 /\ p - 2 < l
          BY <1>1, <1>7a, <3>1
        <4> QED BY <4>1 DEF Shows
      <3>3. rx_state' = "DATA" /\ n' = 0 /\ rx_bit_count' = 0
        BY <1>9, <2>3, <3>2 DEF Receiver, RxWait, RxIdle, RxCount, Confirm
      <3>4. Due(p + 1, 15)' = p + 16 * d
        BY <2>3, <3>3, DueNext DEF d
      <3>5. InTime(p + 16 * d, 1)
        <4> DEFINE z == SampleDue(1)
        <4>1. z = 23 * d
          <5>1. SampleDue(1) = SampleDue(0) + 16 * d
            BY <1>3
          <5> QED BY <1>1, <1>3, <5>1
        <4> HIDE DEF z
        <4>2. p + 16 * d >= z + 2 /\ p + 16 * d <= z + d + 1
          BY <1>1, <3>1, <4>1
        <4> QED BY <4>2 DEF InTime, z, d
      <3>6. InTime(Due(p + 1, 15)', (rx_bit_count + 1)')
        BY <3>3, <3>4, <3>5
      <3>7. \A i \in 1 .. rx_bit_count' : i <= Len(s2) /\ rx_shift'[i] = s2[i]
        BY <3>3
      <3> QED BY <2>1, <3>3, <3>6, <3>7 DEF Follows, InTime, SampleDue, Period
    <2> QED BY <2>2, <2>3
  \* A data bit, in its middle.
  <1>10. CASE /\ rx_state = "DATA" /\ owed /\ InTime(Due(p, 15), rx_bit_count + 1)
              /\ \A i \in 1 .. rx_bit_count : i <= Len(s) /\ rx_shift[i] = s[i]
    <2> DEFINE b == rx_bit_count
    <2>0. b \in 0 .. Bits - 1 /\ rx_shift \in [1 .. Bits -> {0, 1}] /\ rx_sync \in {0, 1}
      BY DEF RxTypes
    <2>1. ~pushed /\ owed'
      BY <1>10 DEF pushed
    <2>2. CASE ~baud_tick \/ n # 15
      <3>1. /\ rx_state' = "DATA" /\ rx_bit_count' = b /\ rx_shift' = rx_shift
            /\ (~baud_tick /\ n' = n) \/ (baud_tick /\ n # 15 /\ n' = (n + 1) % 16)
        BY <1>10, <2>2 DEF Receiver, RxWait, RxIdle, RxCount, RxSample, rxregs
      <3>2. n # 15 => (n + 1) % 16 = n + 1
        BY <1>1, TickCounted
      <3>3. Due(p + 1, 15)' = Due(p, 15)
        <4>1. 15 \in 0 .. 15 /\ n <= 15
          BY <1>1
        <4>2. (~baud_tick /\ n' = n) \/ (baud_tick /\ n # 15 /\ n' = n + 1)
          BY <3>1, <3>2
        <4> QED BY <4>1, <4>2, DueStays
      <3>4. \A i \in 1 .. b : i <= Len(s2) /\ rx_shift'[i] = s2[i]
        BY <1>1, <1>10, <2>0, <3>1
      <3> QED BY <1>10, <2>1, <3>1, <3>3, <3>4 DEF Follows, InTime, SampleDue, Period
    <2>3. CASE baud_tick /\ n = 15
      <3> DEFINE z == SampleDue(b + 1)
      <3>0. z \in Nat /\ SampleDue(b + 2) = z + 16 * d
        <4>1. b + 1 \in Nat /\ (b + 1) + 1 = b + 2
          BY <2>0, <1>1
        <4> QED BY <1>3, <4>1
      <3>1. p >= z + 2 /\ p <= z + d + 1
        <4>1. Due(p, 15) = p
          BY <2>3, DueNow
        <4> QED BY <1>10, <4>1 DEF InTime, d
      <3>2. b + 1 <= Len(s) /\ rx_sync = s[b + 1]
        <4>1. b + 1 \in 0 .. Bits + 1 /\ b + 1 \in 1 .. Bits
          BY <2>0, <1>1
        <4>2. (b + 1) * l <= z /\ z + d + 3 <= ((b + 1) + 1) * l /\ (b + 1) * l \in Nat /\ ((b + 1) + 1) * l = (b + 1) * l + l
          BY <1>4, <4>1
        <4> DEFINE x == (b + 1) * l  y == ((b + 1) + 1) * l
        <4>3. x <= z /\ z + d + 3 <= y /\ x \in Nat /\ y = x + l
          BY <4>2
        <4> HIDE DEF x, y, z
        <4>4. x <= p /\ x <= p - 2 /\ p - 2 < y
          BY <1>1, <3>0, <3>1, <4>3
        <4>5. b + 1 <= Len(s)
          BY <4>1, <4>4 DEF x
        <4>6. b + 1 \in 1 .. Len(s)
          BY <1>1, <4>1, <4>5
        <4> QED BY <4>4, <4>5, <4>6 DEF Shows, x, y
      <3>3. /\ n' = 0 /\ rx_shift' = [rx_shift EXCEPT ![b + 1] = rx_sync]
            /\ IF b = Bits - 1 THEN rx_state' = "STOP" /\ rx_bit_count' = b
                               ELSE rx_bit_count' = b + 1 /\ rx_state' = "DATA"
        BY <1>10, <2>3 DEF Receiver, RxWait, RxIdle, RxCount, RxSample
      <3>4. Due(p + 1, 15)' = p + 16 * d
        BY <2>3, <3>3, DueNext DEF d
      <3>5. InTime(p + 16 * d, b + 2)
        <4> DEFINE y == SampleDue(b + 2)
        <4>1. y = z + 16 * d
          BY <3>0
        <4> HIDE DEF z, y
        <4>2. p + 16 * d >= y + 2 /\ p + 16 * d <= y + d + 1
          BY <1>1, <3>0, <3>1, <4>1
        <4> QED BY <4>2 DEF InTime, y, d
      <3>6. \A i \in 1 .. b + 1 : i <= Len(s2) /\ rx_shift'[i] = s2[i]
        <4> HIDE DEF z
        <4> SUFFICES ASSUME NEW i \in 1 .. b + 1 PROVE i <= Len(s2) /\ rx_shift'[i] = s2[i]
          OBVIOUS
        <4>1. i \in 1 .. Len(s) /\ i \in 1 .. Bits
          BY <1>1, <2>0, <3>2
        <4>2. s2[i] = s[i] /\ i <= Len(s2)
          BY <1>1, <4>1
        <4>3. CASE i = b + 1
          BY <2>0, <3>2, <3>3, <4>1, <4>2, <4>3
        <4>4. CASE i # b + 1
          <5>1. i \in 1 .. b
            BY <2>0, <4>4
          <5>2. rx_shift'[i] = rx_shift[i]
            BY <2>0, <3>3, <4>1, <4>4
          <5> QED BY <1>10, <4>2, <5>1, <5>2
        <4> QED BY <4>3, <4>4
      <3>7. CASE b = Bits - 1
        <4>1. rx_state' = "STOP" /\ b + 2 = Bits + 1 /\ b + 1 = Bits
          BY <3>3, <3>7, <1>1, <2>0
        <4>2. InTime(Due(p + 1, 15)', Bits + 1)
          BY <3>4, <3>5, <4>1
        <4> QED BY <2>1, <3>6, <4>1, <4>2 DEF Follows, InTime, SampleDue, Period
      <3>8. CASE b # Bits - 1
        <4>1. rx_state' = "DATA" /\ rx_bit_count' = b + 1 /\ b + 2 = (b + 1) + 1
          BY <3>3, <3>8, <1>1, <2>0
        <4>2. InTime(Due(p + 1, 15)', rx_bit_count' + 1)
          BY <3>4, <3>5, <4>1
        <4> QED BY <2>1, <3>6, <4>1, <4>2 DEF Follows, InTime, SampleDue, Period
      <3> QED BY <3>7, <3>8
    <2> QED BY <2>2, <2>3
  \* The stop bit, in its middle: the byte is handed on.
  <1>11. CASE /\ rx_state = "STOP" /\ owed /\ InTime(Due(p, 15), Bits + 1)
              /\ \A i \in 1 .. Bits : i <= Len(s) /\ rx_shift[i] = s[i]
    <2>0. rx_shift \in [1 .. Bits -> {0, 1}] /\ rx_sync \in {0, 1}
      BY DEF RxTypes
    <2>2. CASE ~baud_tick \/ n # 15
      <3>1. /\ rx_state' = "STOP" /\ rx_shift' = rx_shift
            /\ (~baud_tick /\ n' = n) \/ (baud_tick /\ n # 15 /\ n' = (n + 1) % 16)
        BY <1>11, <2>2 DEF Receiver, RxWait, RxIdle, RxCount, RxStop, rxregs
      <3>2. n # 15 => (n + 1) % 16 = n + 1
        BY <1>1, TickCounted
      <3>3. Due(p + 1, 15)' = Due(p, 15)
        <4>1. 15 \in 0 .. 15 /\ n <= 15
          BY <1>1
        <4>2. (~baud_tick /\ n' = n) \/ (baud_tick /\ n # 15 /\ n' = n + 1)
          BY <3>1, <3>2
        <4> QED BY <4>1, <4>2, DueStays
      <3>4. \A i \in 1 .. Bits : i <= Len(s2) /\ rx_shift'[i] = s2[i]
        BY <1>1, <1>11, <2>0, <3>1
      <3>5. ~pushed /\ owed'
        BY <1>11, <2>2 DEF pushed
      <3> QED BY <1>11, <3>1, <3>3, <3>4, <3>5 DEF Follows, InTime, SampleDue, Period
    <2>3. CASE baud_tick /\ n = 15
      <3> DEFINE z == SampleDue(Bits + 1)  y == (Bits + 1) * l
      <3>0. z \in Nat /\ y \in Nat /\ y <= z
        <4>1. Bits + 1 \in Nat
          BY <1>1
        <4> QED BY <1>3, <1>4, <1>6, <4>1
      <3>1. p >= z + 2
        <4>1. Due(p, 15) = p
          BY <2>3, DueNow
        <4> QED BY <1>11, <4>1 DEF InTime
      <3> HIDE DEF z, y
      <3>2. p - 2 >= y /\ (p + 1) - 2 >= y
        BY <1>1, <3>0, <3>1
      <3>3. rx_sync = 1
        BY <3>2 DEF Shows, y
      <3>4. pushed /\ ~owed' /\ rx_state' = "IDLE"
        BY <1>11, <2>3, <3>3 DEF pushed, Receiver, RxWait, RxIdle, RxCount, RxStop
      <3>5. rx_shift = s
        <4>1. Bits \in 1 .. Bits
          BY <1>1
        <4>2. Len(s) = Bits
          BY <1>1, <1>11, <4>1
        <4>3. s \in [1 .. Bits -> {0, 1}]
          BY <4>2, LenProperties
        <4>4. \A i \in 1 .. Bits : rx_shift[i] = s[i]
          BY <1>11
        <4> QED BY <2>0, <4>3, <4>4, SameBits
      <3> QED BY <1>11, <3>2, <3>4, <3>5 DEF Follows, y
    <2> QED BY <2>2, <2>3
  <1> QED BY <1>7, <1>8, <1>9, <1>10, <1>11 DEF Follows, d

-----------------------------------------------------------------------------
(* The sender, and the levels its frame leaves in the synchroniser.        *)
SenderType ==
  sender \in [phase : {"idle", "noise", "start", "data", "stop"}, level : {0, 1}, left : Nat, length : Nat,
              bits : Seq({0, 1})]

\* The line x is p clocks into a frame whose bits are l clocks long.
Position(x, l, p) ==
  /\ x.length = l /\ x.left \in 1 .. l /\ x.bits \in Seq({0, 1})
  /\ \/ x.phase = "start" /\ x.bits = << >> /\ x.level = 0 /\ p + x.left = l
     \/ /\ x.phase = "data" /\ Len(x.bits) \in 1 .. Bits /\ x.level = x.bits[Len(x.bits)]
        /\ p + x.left = (Len(x.bits) + 1) * l
     \/ x.phase = "stop" /\ Len(x.bits) = Bits /\ x.level = 1 /\ p + x.left = (Bits + 2) * l

\* What is on the line in a frame is what the frame shows there, and the bits reached are begun.
LEMMA PositionShows ==
  ASSUME NEW x, NEW l \in Nat \ {0}, NEW p \in Nat, Position(x, l, p)
  PROVE  /\ Shows(x.level, p, l, x.bits) /\ Len(x.bits) \in 0 .. Bits
         /\ \A i \in 1 .. Bits : i * l <= p => i <= Len(x.bits)
  <1> DEFINE s == x.bits  v == x.level
  <1>1. Bits \in Nat \ {0} /\ s \in Seq({0, 1}) /\ Len(s) \in Nat /\ x.left \in 1 .. l
    BY PeriodFacts, LenProperties DEF Position
  <1>2. 0 * l = 0 /\ (0 + 1) * l = l /\ \A i \in Nat : i * l \in Nat /\ (i + 1) * l = i * l + l
    BY <1>1
  <1>3. CASE x.phase = "start" /\ s = << >> /\ v = 0 /\ p + x.left = l
    <2>1. Len(s) = 0 /\ p < l
      BY <1>1, <1>3
    <2>2. (Bits + 1) * l = Bits * l + l /\ Bits * l \in Nat
      BY <1>1, <1>2
    <2>3. ~(p >= (Bits + 1) * l)
      BY <1>1, <2>1, <2>2
    <2>4. \A i \in 1 .. Bits : ~(i * l <= p)
      <3> SUFFICES ASSUME NEW i \in 1 .. Bits, i * l <= p PROVE FALSE
        OBVIOUS
      <3>1. i * l = (i - 1) * l + l /\ (i - 1) * l \in Nat
        <4>1. i - 1 \in Nat /\ (i - 1) + 1 = i
          BY <1>1
        <4> QED BY <1>2, <4>1
      <3> QED BY <2>1, <3>1
    <2>5. Len(s) \in 0 .. Bits
      BY <1>1, <2>1
    <2> QED BY <1>1, <1>3, <2>1, <2>3, <2>4, <2>5 DEF Shows
  <1>4. CASE x.phase = "data" /\ Len(s) \in 1 .. Bits /\ v = s[Len(s)] /\ p + x.left = (Len(s) + 1) * l
    <2> DEFINE k == Len(s)
    <2>1. k * l \in Nat /\ (k + 1) * l = k * l + l /\ k \in Nat
      BY <1>1, <1>2
    <2> HIDE DEF k
    <2>2. k * l <= p /\ p < (k + 1) * l
      <3> DEFINE y == k * l  z == (k + 1) * l
      <3>1. z = y + l /\ y \in Nat /\ p + x.left = z
        BY <1>4, <2>1 DEF k
      <3> HIDE DEF y, z
      <3>2. y <= p /\ p < z
        BY <1>1, <3>1
      <3> QED BY <3>2 DEF y, z
    <2>3. \A i \in Nat : i * l <= p => i <= k
      <3> SUFFICES ASSUME NEW i \in Nat, i * l <= p PROVE i <= k
        OBVIOUS
      <3>1. i * l < (k + 1) * l
        <4>1. i * l \in Nat /\ (k + 1) * l \in Nat
          BY <1>2, <2>1
        <4> QED BY <2>2, <4>1
      <3>2. i < k + 1
        BY <2>1, <3>1, Order
      <3> QED BY <2>1, <3>2
    <2>4. \A i \in Nat : p < (i + 1) * l => k <= i
      <3> SUFFICES ASSUME NEW i \in Nat, p < (i + 1) * l PROVE k <= i
        OBVIOUS
      <3>1. k * l < (i + 1) * l
        <4>1. (i + 1) * l \in Nat /\ k * l \in Nat
          BY <1>2, <2>1
        <4> QED BY <2>2, <4>1
      <3>2. k < i + 1
        BY <2>1, <3>1, Order
      <3> QED BY <2>1, <3>2
    <2>5. k \in 1 .. Bits /\ v = s[k] /\ v \in {0, 1}
      BY <1>1, <1>4 DEF k
    <2>6. ~(p < l)
      <3>1. p < l => k <= 0
        BY <2>4, <1>2
      <3> QED BY <2>5, <3>1
    <2>7. ~(p >= (Bits + 1) * l)
      <3>1. (Bits + 1) * l <= p => Bits + 1 <= k
        BY <2>3, <1>1
      <3>2. (Bits + 1) * l \in Nat
        BY <1>1
      <3> QED BY <1>1, <2>5, <3>1, <3>2
    <2>8. \A i \in 1 .. Len(s) : i * l <= p /\ p < (i + 1) * l => v = s[i]
      <3> SUFFICES ASSUME NEW i \in 1 .. Len(s), i * l <= p, p < (i + 1) * l PROVE v = s[i]
        OBVIOUS
      <3>1. i \in Nat /\ i <= k /\ k <= i
        BY <2>3, <2>4
      <3> QED BY <2>1, <2>5, <3>1
    <2>9. \A i \in 1 .. Bits : i * l <= p => i <= Len(s)
      BY <1>1, <2>3 DEF k
    <2>10. Len(s) \in 0 .. Bits
      BY <1>1, <2>5 DEF k
    <2> QED BY <1>1, <2>5, <2>6, <2>7, <2>8, <2>9, <2>10 DEF Shows
  <1>5. CASE x.phase = "stop" /\ Len(s) = Bits /\ v = 1 /\ p + x.left = (Bits + 2) * l
    <2>1. p >= (Bits + 1) * l /\ (Bits + 1) * l = Bits * l + l /\ Bits * l \in Nat
      <3> DEFINE y == (Bits + 1) * l  z == ((Bits + 1) + 1) * l
      <3>1. z = y + l /\ y \in Nat
        BY <1>1, <1>2
      <3>2. p + x.left = z
        BY <1>1, <1>5
      <3> HIDE DEF y, z
      <3>3. p >= y
        BY <1>1, <3>1, <3>2
      <3> HIDE DEF Shows
      <3> QED BY <1>1, <1>2, <3>3 DEF y
    <2>2. ~(p < l)
      BY <1>1, <2>1
    <2>3. \A i \in 1 .. Bits : ~(p < (i + 1) * l)
      <3> SUFFICES ASSUME NEW i \in 1 .. Bits, p < (i + 1) * l PROVE FALSE
        OBVIOUS
      <3>1. (Bits + 1) * l < (i + 1) * l
        <4>1. (i + 1) * l \in Nat /\ (Bits + 1) * l \in Nat
          BY <1>1, <1>2
        <4> QED BY <2>1, <4>1
      <3>2. Bits + 1 < i + 1
        <4>1. Bits + 1 \in Nat /\ i + 1 \in Nat
          BY <1>1
        <4> QED BY <3>1, <4>1, Order
      <3> QED BY <1>1, <3>2
    <2>4. Len(s) \in 0 .. Bits
      BY <1>1, <1>5
    <2> QED BY <1>1, <1>5, <2>2, <2>3, <2>4 DEF Shows
  <1> QED BY <1>3, <1>4, <1>5 DEF Position

\* A clock of the sender within a frame: the bits grow, and a new one begins after this clock.
LEMMA PositionMoves ==
  ASSUME SenderType, NEW l \in Nat \ {0}, NEW p \in Nat, Position(sender, l, p),
         SendMore \/ (\E bit \in {0, 1} : SendData(bit)) \/ SendStop
  PROVE  /\ Position(sender', l, p + 1) /\ Len(sender.bits) <= Len(sender'.bits)
         /\ \A i \in 1 .. Len(sender.bits) : sender'.bits[i] = sender.bits[i]
         /\ \A i \in 1 .. Len(sender'.bits) : i > Len(sender.bits) => i * l > p
         /\ sender'.phase = "start" => sender.phase = "start"
  <1> DEFINE s == sender.bits
  <1>1. Bits \in Nat \ {0} /\ s \in Seq({0, 1}) /\ Len(s) \in Nat /\ sender.left \in 1 .. l /\ sender.length = l
    BY PeriodFacts, LenProperties DEF Position
  <1>2. CASE SendMore
    <2>1. /\ sender'.left = sender.left - 1 /\ sender.left > 1 /\ sender'.phase = sender.phase /\ sender'.level = sender.level
          /\ sender'.length = sender.length /\ sender'.bits = s
      BY <1>2 DEF SendMore, SenderType
    <2>2. sender'.left \in 1 .. l /\ p + sender.left = (p + 1) + sender'.left
      BY <1>1, <2>1
    <2>3. Position(sender', l, p + 1)
      BY <1>1, <2>1, <2>2 DEF Position
    <2> QED BY <1>1, <2>1, <2>3
  <1>3. ASSUME NEW bit \in {0, 1}, SendData(bit)
        PROVE  /\ Position(sender', l, p + 1) /\ Len(s) <= Len(sender'.bits)
               /\ \A i \in 1 .. Len(s) : sender'.bits[i] = s[i]
               /\ \A i \in 1 .. Len(sender'.bits) : i > Len(s) => i * l > p
               /\ sender'.phase = "start" => sender.phase = "start"
    <2>1. /\ sender'.phase = "data" /\ sender'.level = bit /\ sender'.left = l /\ sender'.bits = Append(s, bit)
          /\ sender'.length = l /\ sender.left <= 1
      BY <1>1, <1>3 DEF SendData, SenderType
    <2> DEFINE t == Append(s, bit)
    <2>2. /\ t \in Seq({0, 1}) /\ Len(t) = Len(s) + 1 /\ t[Len(s) + 1] = bit
          /\ \A i \in 1 .. Len(s) : t[i] = s[i]
      BY <1>1, <1>3, AppendProperties
    <2> HIDE DEF t
    <2>3. Len(s) < Bits /\ p + 1 = (Len(s) + 1) * l
      <3>1. sender.left = 1
        BY <1>1, <2>1
      <3>2. CASE sender.phase = "start"
        <4>1. s = << >> /\ p + 1 = l
          BY <3>1, <3>2 DEF Position
        <4>2. Len(s) = 0 /\ (0 + 1) * l = l
          BY <4>1, <1>1
        <4> QED BY <1>1, <4>1, <4>2
      <3>3. CASE sender.phase = "data" /\ Len(s) < Bits
        BY <3>1, <3>3 DEF Position
      <3> QED BY <1>3, <3>2, <3>3 DEF SendData
    <2>4. (p + 1) + l = ((Len(s) + 1) + 1) * l
      <3> DEFINE k == Len(s) + 1
      <3>1. k \in Nat /\ p + 1 = k * l
        BY <1>1, <2>3
      <3> HIDE DEF k
      <3>2. (p + 1) + l = (k + 1) * l
        BY <3>1
      <3> QED BY <3>2 DEF k
    <2>5. Position(sender', l, p + 1)
      <3>1. Len(t) \in 1 .. Bits /\ l \in 1 .. l
        BY <1>1, <2>2, <2>3
      <3> QED BY <2>1, <2>2, <2>4, <3>1 DEF Position, t
    <2>6. \A i \in 1 .. Len(t) : i > Len(s) => i * l > p
      <3> SUFFICES ASSUME NEW i \in 1 .. Len(t), i > Len(s) PROVE i * l > p
        OBVIOUS
      <3>1. i = Len(s) + 1
        BY <1>1, <2>2
      <3> QED BY <2>3, <3>1
    <2> QED BY <1>1, <2>1, <2>2, <2>5, <2>6 DEF t
  <1>4. CASE SendStop
    <2>1. /\ sender'.phase = "stop" /\ sender'.level = 1 /\ sender'.left = l /\ sender'.bits = s /\ sender'.length = l
          /\ sender.left <= 1 /\ sender.phase = "data" /\ Len(s) = Bits
      BY <1>1, <1>4 DEF SendStop, SenderType
    <2>2. p + 1 = (Bits + 1) * l
      <3>1. sender.left = 1
        BY <1>1, <2>1
      <3> QED BY <2>1, <3>1 DEF Position
    <2>3. (p + 1) + l = (Bits + 2) * l
      BY <1>1, <2>2
    <2>4. Position(sender', l, p + 1)
      <3>1. l \in 1 .. l
        BY <1>1
      <3> QED BY <1>1, <2>1, <2>3, <3>1 DEF Position
    <2> QED BY <1>1, <2>1, <2>4
  <1> QED BY <1>2, <1>3, <1>4

\* A level seen stays what the frame showed when more of its bits begin.
LEMMA ShowsStays ==
  ASSUME NEW v, NEW q \in Int, NEW l \in Nat \ {0}, NEW s \in Seq({0, 1}), NEW t \in Seq({0, 1}), Shows(v, q, l, s),
         Len(s) <= Len(t), \A i \in 1 .. Len(s) : t[i] = s[i],
         \A i \in 1 .. Len(t) : i > Len(s) => i * l > q
  PROVE  Shows(v, q, l, t)
  <1>1. Len(s) \in Nat /\ Len(t) \in Nat
    BY LenProperties
  <1>2. \A i \in 1 .. Len(t) : i * l <= q /\ q < (i + 1) * l => v = t[i]
    <2> SUFFICES ASSUME NEW i \in 1 .. Len(t), i * l <= q, q < (i + 1) * l PROVE v = t[i]
      OBVIOUS
    <2>1. i \in 1 .. Len(s)
      <3>1. i * l \in Int
        OBVIOUS
      <3>2. ~(i > Len(s))
        BY <3>1
      <3> QED BY <1>1, <3>2
    <2> QED BY <2>1 DEF Shows
  <1> QED BY <1>2 DEF Shows

-----------------------------------------------------------------------------
(* The invariant: at rest, after noise, or in a frame.                     *)

\* Nothing owed and a high line as far as the synchroniser goes back.
Calm == rx_state = "IDLE" /\ ~owed /\ sender.level = 1 /\ rx_meta = 1 /\ rx_sync = 1

Quiet == Calm /\ sender.phase = "idle" /\ sender.left = 0

\* The level p clocks after a low pulse of length m began.
Pulse(p, m) == IF p >= 0 /\ p < m THEN 0 ELSE 1

\* The receiver has not seen the pulse, has, or has seen it end.
Settles(p, m) ==
  \/ rx_state = "IDLE" /\ (p + baud_tick_counter <= Period + 1 \/ p - 2 >= m)
  \/ rx_state = "START" /\ rx_tick_count \in 0 .. 6 /\ InTime(Due(p, 6), 0)

\* In a low pulse, or in the idle time after it.
AfterPulse(p, m) ==
  /\ ~owed
  /\ \/ sender.phase = "noise" /\ p + sender.left = m
     \/ sender.phase = "idle" /\ p >= m /\ p + sender.left = m + 16 * Period
  /\ sender.left > 0
  /\ sender.level = Pulse(p, m) /\ rx_meta = Pulse(p - 1, m) /\ rx_sync = Pulse(p - 2, m)
  /\ Settles(p, m)

Disturbed == \E p \in Nat : \E m \in Noise : AfterPulse(p, m)

InFrame ==
  \E p \in Nat : \E l \in SenderBit :
    /\ Position(sender, l, p)
    /\ Shows(rx_meta, p - 1, l, sender.bits) /\ Shows(rx_sync, p - 2, l, sender.bits)
    /\ Follows(p, l, sender.bits)

RxInv == RxTypes /\ SenderType /\ (Quiet \/ Disturbed \/ InFrame)

\* What a step does to the registers and the sender.
LEMMA RxTypesStep == ASSUME RxTypes, SenderType, RxNext PROVE RxTypes' /\ SenderType'
  <1>1. Period \in Nat \ {0} /\ Bits \in Nat \ {0} /\ \A l \in SenderBit : l \in Nat \ {0}
    BY PeriodFacts, BitLengths
  <1>2. SenderType'
    <2>1. CASE SendMore
      <3>1. sender.left - 1 \in Nat
        BY <2>1 DEF SendMore, SenderType
      <3> QED BY <2>1, <3>1 DEF SendMore, SenderType
    <2>2. CASE SendStop
      BY <2>2 DEF SendStop, SenderType
    <2>3. CASE SendNothing
      BY <2>3 DEF SendNothing, SenderType, IdleLine
    <2>4. CASE NoiseEnds
      <3>1. 16 * Period \in Nat
        BY <1>1
      <3> HIDE DEF Period
      <3> QED BY <2>4, <3>1 DEF NoiseEnds, SenderType, IdleLine
    <2>5. ASSUME NEW l \in SenderBit, SendStart(l) PROVE SenderType'
      BY <1>1, <2>5 DEF SendStart, SenderType
    <2>6. ASSUME NEW bit \in {0, 1}, SendData(bit) PROVE SenderType'
      BY <2>6, AppendProperties DEF SendData, SenderType
    <2>7. ASSUME NEW m \in Noise, SendNoise(m) PROVE SenderType'
      <3>1. m \in Nat
        BY RxAssumption
      <3> QED BY <2>7, <3>1 DEF SendNoise, SenderType
    <2> QED BY <2>1, <2>2, <2>3, <2>4, <2>5, <2>6, <2>7 DEF RxNext, Sender
  <1>3. baud_tick_counter' \in 0 .. Period - 1
    <2> DEFINE d == Period  c == baud_tick_counter
    <2>1. c \in 0 .. d - 1 /\ d \in Nat \ {0} /\ c' = IF c = 0 THEN d - 1 ELSE c - 1
      BY <1>1 DEF RxTypes, RxNext, Baud, baud_tick
    <2> HIDE DEF d
    <2>2. c' \in 0 .. d - 1
      BY <2>1
    <2> QED BY <2>2 DEF d
  <1>4. rx_meta' \in {0, 1} /\ rx_sync' \in {0, 1} /\ owed' \in BOOLEAN
    BY DEF RxTypes, SenderType, RxNext, Synchronise, pushed
  <1>5. /\ rx_state' \in {"IDLE", "START", "DATA", "STOP"} /\ rx_tick_count' \in 0 .. 15 /\ rx_bit_count' \in 0 .. Bits - 1
        /\ rx_shift' \in [1 .. Bits -> {0, 1}]
    <2>0. /\ rx_state \in {"IDLE", "START", "DATA", "STOP"} /\ rx_tick_count \in 0 .. 15 /\ rx_bit_count \in 0 .. Bits - 1
          /\ rx_shift \in [1 .. Bits -> {0, 1}] /\ rx_sync \in {0, 1} /\ 0 \in 0 .. Bits - 1
      BY <1>1 DEF RxTypes
    <2>1. CASE RxWait \/ RxIdle \/ RxStop
      BY <2>0, <2>1 DEF RxWait, RxIdle, RxStop, rxregs
    <2>2. CASE RxCount(6) \/ RxCount(15)
      BY <2>0, <2>2 DEF RxCount
    <2>3. CASE Confirm
      <3>1. [i \in 1 .. Bits |-> 0] \in [1 .. Bits -> {0, 1}]
        OBVIOUS
      <3> QED BY <2>0, <2>3, <3>1 DEF Confirm, rxregs
    <2>4. CASE RxSample /\ rx_state = "DATA"
      <3>1. [rx_shift EXCEPT ![rx_bit_count + 1] = rx_sync] \in [1 .. Bits -> {0, 1}]
        BY <2>0
      <3>2. rx_bit_count # Bits - 1 => rx_bit_count + 1 \in 0 .. Bits - 1
        BY <1>1, <2>0
      <3> QED BY <2>0, <2>4, <3>1, <3>2 DEF RxSample
    <2> QED BY <2>1, <2>2, <2>3, <2>4 DEF RxNext, Receiver
  <1> QED BY <1>2, <1>3, <1>4, <1>5 DEF RxTypes, Period

\* The line is free: a frame begins, noise does, or nothing.
LEMMA CalmStep ==
  ASSUME RxTypes, SenderType, Calm, RxNext, sender.phase \in {"idle", "stop"}, sender.left <= 1
  PROVE  (Quiet \/ Disturbed \/ InFrame)' /\ ~pushed
  <1>1. rx_meta' = 1 /\ rx_sync' = 1 /\ ~pushed
    BY DEF Calm, RxNext, Synchronise, pushed
  <1>2. rx_state' = "IDLE"
    BY DEF Calm, RxNext, Receiver, RxWait, RxIdle
  <1>3. Period \in Nat \ {0} /\ Period' = Period /\ \A l \in SenderBit : l \in Nat \ {0}
    BY PeriodFacts, BitLengths DEF Period
  <1>4. 0 + baud_tick_counter' <= Period + 1
    <2> DEFINE d == Period  c == baud_tick_counter'
    <2>1. c \in 0 .. d - 1 /\ d \in Nat
      BY <1>3, RxTypesStep DEF RxTypes
    <2> HIDE DEF d, c
    <2>2. 0 + c <= d + 1
      BY <2>1
    <2> QED BY <2>2 DEF d, c
  <1>5. CASE SendNothing
    <2>1. sender'.phase = "idle" /\ sender'.level = 1 /\ sender'.left = 0
      BY <1>5 DEF SendNothing, IdleLine
    <2>2. ~owed'
      BY <1>1, <2>1 DEF Calm, RxNext
    <2> QED BY <1>1, <1>2, <2>1, <2>2 DEF Quiet, Calm
  <1>6. ASSUME NEW l \in SenderBit, SendStart(l) PROVE InFrame'
    <2>1. sender' = [phase |-> "start", level |-> 0, left |-> l, length |-> l, bits |-> << >>]
      BY <1>6 DEF SendStart
    <2>2. owed'
      BY <2>1 DEF RxNext
    <2>3. Position(sender', l, 0)
      <3>1. l \in 1 .. l /\ 0 + l = l
        BY <1>3
      <3>2. << >> \in Seq({0, 1})
        BY EmptySeq
      <3> QED BY <2>1, <3>1, <3>2 DEF Position
    <2>4. \A q \in {-1, -2} : Shows(1, q, l, << >>)
      <3>1. Len(<< >>) = 0 /\ l \in Nat /\ -1 < 0 /\ -2 < 0
        BY <1>3, EmptySeq
      <3> QED BY <3>1 DEF Shows
    <2>5. 0 - 1 = -1 /\ 0 - 2 = -2
      OBVIOUS
    <2>6. Shows(rx_meta', 0 - 1, l, sender'.bits) /\ Shows(rx_sync', 0 - 2, l, sender'.bits)
      BY <1>1, <2>1, <2>4, <2>5
    <2>7. Follows(0, l, sender.bits)'
      BY <1>2, <1>3, <1>4, <2>2 DEF Follows
    <2> QED BY <2>3, <2>6, <2>7 DEF InFrame
  <1>7. ASSUME NEW m \in Noise, SendNoise(m) PROVE Disturbed'
    <2>1. sender'.phase = "noise" /\ sender'.level = 0 /\ sender'.left = m /\ m \in Nat \ {0}
      BY <1>7, RxAssumption DEF SendNoise
    <2>2. ~owed'
      BY <1>1, <2>1 DEF Calm, RxNext
    <2>3. Pulse(0, m) = 0 /\ Pulse(0 - 1, m) = 1 /\ Pulse(0 - 2, m) = 1 /\ 0 + m = m /\ m > 0
      BY <2>1 DEF Pulse
    <2>4. AfterPulse(0, m)'
      BY <1>1, <1>2, <1>3, <1>4, <2>1, <2>2, <2>3 DEF AfterPulse, Settles, Pulse
    <2> QED BY <2>4 DEF Disturbed
  <1>8. SendNothing \/ (\E l \in SenderBit : SendStart(l)) \/ (\E m \in Noise : SendNoise(m))
    <2>1. ~(sender.left > 1)
      BY DEF SenderType
    <2>2. ~SendMore /\ ~SendStop /\ ~NoiseEnds /\ \A bit \in {0, 1} : ~SendData(bit)
      BY <2>1 DEF SendMore, SendData, SendStop, NoiseEnds
    <2> QED BY <2>2 DEF RxNext, Sender
  <1> QED BY <1>1, <1>5, <1>6, <1>7, <1>8

\* One clock of the receiver after a pulse began: a false start is over when it is to be confirmed.
LEMMA SettlesStep ==
  ASSUME Tolerable, RxTypes, NEW p \in Nat, NEW m \in Noise, Settles(p, m), rx_sync = Pulse(p - 2, m), Baud, Receiver
  PROVE  Settles(p + 1, m)' /\ ~pushed
  <1> DEFINE d == Period  c == baud_tick_counter  n == rx_tick_count
  <1>1. d \in Nat \ {0} /\ c \in 0 .. d - 1 /\ n \in 0 .. 15 /\ m \in Nat \ {0} /\ p - 2 \in Int /\ SampleDue(0) = 7 * d
    <2>1. m \in Nat \ {0}
      BY RxAssumption
    <2> QED BY <2>1, PeriodFacts DEF RxTypes
  <1>2. c' = (IF c = 0 THEN d - 1 ELSE c - 1) /\ (baud_tick <=> c = 0)
    BY DEF Baud, baud_tick
  <1>3. m <= 7 * d
    BY DEF Tolerable
  <1>4. rx_sync = IF p - 2 >= 0 /\ p - 2 < m THEN 0 ELSE 1
    BY DEF Pulse
  <1>5. ~pushed
    BY DEF Settles, pushed
  <1>6. d' = d
    BY DEF Period
  <1> HIDE DEF d
  <1>7. CASE rx_state = "IDLE" /\ p + c <= d + 1
    <2>2. CASE ~baud_tick
      <3>1. rx_state' = "IDLE"
        BY <1>7, <2>2 DEF Receiver, RxWait, RxIdle
      <3>2. (p + 1) + c' <= d + 1
        BY <1>1, <1>2, <1>7, <2>2
      <3> QED BY <1>5, <1>6, <3>1, <3>2 DEF Settles, d
    <2>3. CASE baud_tick /\ rx_sync = 0
      <3>1. rx_state' = "START" /\ n' = 0
        BY <1>7, <2>3 DEF Receiver, RxWait, RxIdle
      <3>2. p >= 2 /\ p <= d + 1
        BY <1>1, <1>2, <1>4, <1>7, <2>3
      <3>3. Due(p + 1, 6)' = p + 7 * d
        BY <2>3, <3>1, DueNext DEF d
      <3>4. InTime(p + 7 * d, 0)
        <4> DEFINE z == SampleDue(0)
        <4>1. z = 7 * d
          BY <1>1
        <4> HIDE DEF z
        <4>2. p + 7 * d >= z + 2 /\ p + 7 * d <= z + d + 1
          BY <1>1, <3>2, <4>1
        <4> QED BY <4>2 DEF InTime, d, z
      <3>5. n' \in 0 .. 6
        BY <3>1
      <3> QED BY <1>5, <3>1, <3>3, <3>4, <3>5 DEF Settles, InTime, SampleDue, Period
    <2>4. CASE baud_tick /\ rx_sync # 0
      <3>1. rx_state' = "IDLE"
        BY <1>7, <2>4 DEF Receiver, RxWait, RxIdle
      <3>2. p <= 1 \/ p - 2 >= m
        BY <1>1, <1>4, <2>4
      <3>3. (p + 1) + c' <= d + 1 \/ (p + 1) - 2 >= m
        BY <1>1, <1>2, <2>4, <3>2
      <3> QED BY <1>5, <1>6, <3>1, <3>3 DEF Settles, d
    <2> QED BY <2>2, <2>3, <2>4
  <1>8. CASE rx_state = "IDLE" /\ p - 2 >= m
    <2>1. rx_sync = 1
      BY <1>1, <1>4, <1>8
    <2>2. rx_state' = "IDLE"
      BY <1>8, <2>1 DEF Receiver, RxWait, RxIdle
    <2>3. (p + 1) - 2 >= m
      BY <1>1, <1>8
    <2> QED BY <1>5, <2>2, <2>3 DEF Settles
  <1>9. CASE rx_state = "START" /\ n \in 0 .. 6 /\ InTime(Due(p, 6), 0)
    <2>2. CASE ~baud_tick \/ n # 6
      <3>1. rx_state' = "START" /\ ((~baud_tick /\ n' = n) \/ (baud_tick /\ n # 6 /\ n' = (n + 1) % 16))
        BY <1>9, <2>2 DEF Receiver, RxWait, RxIdle, RxCount, Confirm, rxregs
      <3>2. n # 6 => (n + 1) % 16 = n + 1
        BY <1>9
      <3>3. Due(p + 1, 6)' = Due(p, 6)
        <4>1. 6 \in 0 .. 15 /\ n <= 6
          BY <1>9
        <4> QED BY <4>1, <3>1, <3>2, DueStays
      <3>4. n' \in 0 .. 6
        BY <1>9, <3>1, <3>2
      <3> QED BY <1>5, <1>9, <3>1, <3>3, <3>4 DEF Settles, InTime, SampleDue, Period
    <2>3. CASE baud_tick /\ n = 6
      <3>1. p >= 7 * d + 2
        <4> DEFINE z == SampleDue(0)
        <4>1. Due(p, 6) = p
          BY <2>3, DueNow
        <4>2. z = 7 * d /\ p >= z + 2
          BY <1>1, <1>9, <4>1 DEF InTime, d
        <4> HIDE DEF z
        <4> QED BY <1>1, <4>2
      <3>2. p - 2 >= m /\ (p + 1) - 2 >= m
        BY <1>1, <1>3, <3>1
      <3>3. rx_sync = 1
        BY <1>1, <1>4, <3>2
      <3>4. rx_state' = "IDLE"
        BY <1>9, <2>3, <3>3 DEF Receiver, RxWait, RxIdle, RxCount, Confirm
      <3> QED BY <1>5, <3>2, <3>4 DEF Settles
    <2> QED BY <2>2, <2>3
  <1> QED BY <1>7, <1>8, <1>9 DEF Settles, d

\* After noise the line is idle for a bit time, which is enough for the receiver to be at rest again.
LEMMA DisturbedStep ==
  ASSUME Tolerable, RxTypes, SenderType, NEW p \in Nat, NEW m \in Noise, AfterPulse(p, m), RxNext
  PROVE  (Quiet \/ Disturbed \/ InFrame)' /\ ~pushed
  <1> DEFINE d == Period  x == sender.left
  <1>1. d \in Nat \ {0} /\ m \in Nat \ {0} /\ x \in Nat \ {0} /\ d' = d
    <2>1. m \in Nat \ {0}
      BY RxAssumption
    <2> QED BY <2>1, PeriodFacts DEF Period, SenderType, AfterPulse
  <1>2. Settles(p + 1, m)' /\ ~pushed
    BY SettlesStep DEF AfterPulse, RxNext
  <1>3. (p + 1) - 1 = p /\ (p + 1) - 2 = p - 1
    OBVIOUS
  <1>4. rx_meta' = Pulse((p + 1) - 1, m) /\ rx_sync' = Pulse((p + 1) - 2, m)
    BY <1>3 DEF AfterPulse, RxNext, Synchronise
  <1>5. CASE SendMore
    <2>1. sender'.left = x - 1 /\ x > 1 /\ sender'.phase = sender.phase /\ sender'.level = sender.level
      BY <1>5 DEF SendMore, SenderType
    <2>2. ~owed'
      BY <2>1 DEF AfterPulse, RxNext
    <2>3. sender'.left > 0 /\ (p + 1) + sender'.left = p + x
      BY <1>1, <2>1
    <2>4. Pulse(p + 1, m) = Pulse(p, m)
      <3> HIDE DEF d
      <3>1. CASE sender.phase = "noise" /\ p + x = m
        BY <1>1, <2>1, <3>1 DEF Pulse
      <3>2. CASE sender.phase = "idle" /\ p + x = m + 16 * d
        <4>1. p >= m
          BY <3>2 DEF AfterPulse
        <4> QED BY <1>1, <4>1 DEF Pulse
      <3> QED BY <3>1, <3>2 DEF AfterPulse, d
    <2>5. AfterPulse(p + 1, m)'
      <3>1. \/ sender'.phase = "noise" /\ (p + 1) + sender'.left = m
            \/ sender'.phase = "idle" /\ p + 1 >= m /\ (p + 1) + sender'.left = m + 16 * d
        <4>1. p >= m => p + 1 >= m
          BY <1>1
        <4> QED BY <2>1, <2>3, <4>1 DEF AfterPulse
      <3>2. sender'.level = Pulse(p + 1, m)
        BY <2>1, <2>4 DEF AfterPulse
      <3> QED BY <1>1, <1>2, <1>4, <2>2, <2>3, <3>1, <3>2 DEF AfterPulse, Pulse
    <2>6. p + 1 \in Nat
      OBVIOUS
    <2> QED BY <1>2, <2>5, <2>6 DEF Disturbed
  <1>6. CASE NoiseEnds
    <2>1. sender'.left = 16 * d /\ sender'.phase = "idle" /\ sender'.level = 1 /\ sender.phase = "noise" /\ x <= 1
      BY <1>6 DEF NoiseEnds, IdleLine
    <2>2. ~owed'
      BY <2>1 DEF AfterPulse, RxNext
    <2>3. p + 1 = m /\ p + 1 >= m /\ sender'.left > 0 /\ (p + 1) + sender'.left = m + 16 * d
      <3>1. p + x = m
        BY <2>1 DEF AfterPulse
      <3> HIDE DEF d
      <3> QED BY <1>1, <2>1, <3>1
    <2>4. sender'.level = Pulse(p + 1, m)
      BY <1>1, <2>1, <2>3 DEF Pulse
    <2>5. AfterPulse(p + 1, m)'
      BY <1>1, <1>2, <1>4, <2>1, <2>2, <2>3, <2>4 DEF AfterPulse, Pulse
    <2>6. p + 1 \in Nat
      OBVIOUS
    <2> QED BY <1>2, <2>5, <2>6 DEF Disturbed
  <1>7. CASE ~SendMore /\ ~NoiseEnds
    <2>1. x = 1
      <3>1. x <= 1
        <4> SUFFICES ASSUME x > 1 PROVE FALSE
          BY <1>1
        <4>1. ~(x <= 1)
          BY <1>1
        <4> QED BY <1>7, <4>1 DEF RxNext, Sender, SendStop, SendNothing, SendStart, SendData, SendNoise
      <3> QED BY <1>1, <3>1
    <2>2. sender.phase = "idle"
      BY <1>7 DEF AfterPulse, RxNext, Sender, SendStop, SendNothing, SendStart, SendData, SendNoise
    <2>3. p + 1 = m + 16 * d
      BY <2>1, <2>2 DEF AfterPulse
    <2>4. p >= m /\ p - 1 >= m /\ p - 2 >= m /\ p > 8 * d + 1
      <3> HIDE DEF d
      <3> QED BY <1>1, <2>3
    <2>5. sender.level = 1 /\ rx_meta = 1 /\ rx_sync = 1
      <3>1. Pulse(p, m) = 1 /\ Pulse(p - 1, m) = 1 /\ Pulse(p - 2, m) = 1
        BY <1>1, <2>4 DEF Pulse
      <3> QED BY <3>1 DEF AfterPulse
    <2>6. rx_state = "IDLE"
      <3> SUFFICES ASSUME rx_state = "START" /\ rx_tick_count \in 0 .. 6 /\ InTime(Due(p, 6), 0) PROVE FALSE
        BY DEF AfterPulse, Settles
      <3> DEFINE c == baud_tick_counter  k == (6 - rx_tick_count) * d  z == SampleDue(0)
      <3>1. z = 7 * d /\ k \in Nat /\ c \in Nat
        <4>1. 6 - rx_tick_count \in Nat
          OBVIOUS
        <4>2. k \in Nat
          BY <1>1, <4>1
        <4>3. c \in Nat
          BY <1>1 DEF RxTypes
        <4> QED BY <4>2, <4>3, PeriodFacts
      <3>2. p + c + k <= z + d + 1
        BY DEF InTime, Due
      <3> HIDE DEF c, k, z, d
      <3> QED BY <1>1, <2>4, <3>1, <3>2
    <2>7. Calm
      BY <2>5, <2>6 DEF Calm, AfterPulse
    <2> QED BY <2>1, <2>2, <2>7, CalmStep
  <1> QED BY <1>5, <1>6, <1>7

\* A sample is not due before now.
LEMMA NotPast == ASSUME RxTypes, NEW p \in Nat, NEW limit \in 0 .. 15, rx_tick_count <= limit PROVE Due(p, limit) >= p
  <1> DEFINE k == (limit - rx_tick_count) * Period  c == baud_tick_counter
  <1>1. Period \in Nat \ {0} /\ limit - rx_tick_count \in Nat /\ c \in Nat
    BY PeriodFacts DEF RxTypes
  <1>2. k \in Nat
    BY <1>1
  <1> HIDE DEF k, c
  <1>3. p + c + k >= p
    BY <1>1, <1>2
  <1> QED BY <1>3 DEF Due, k, c

\* In the start bit the frame is owed and nothing is handed on.
LEMMA FrameBegun ==
  ASSUME Tolerable, RxTypes, NEW p \in Nat, NEW l \in SenderBit, NEW s, Follows(p, l, s), p < l
  PROVE  owed /\ ~pushed
  <1> DEFINE z == SampleDue(Bits + 1)  y == (Bits + 1) * l  u == Bits * l
  <1>1. Bits \in Nat \ {0} /\ l \in Nat \ {0}
    BY PeriodFacts, BitLengths
  <1>2. y <= z /\ y = u + l /\ u \in Nat /\ z \in Nat
    <2>1. Bits + 1 \in Nat /\ Bits + 1 \in 0 .. Bits + 1
      BY <1>1
    <2> QED BY <1>1, <2>1, Margins, PeriodFacts
  <1>3. owed
    <2> SUFFICES ASSUME p - 2 >= y PROVE FALSE
      BY DEF Follows
    <2> HIDE DEF y, u, z
    <2> QED BY <1>1, <1>2
  <1>4. ~pushed
    <2> SUFFICES ASSUME pushed PROVE FALSE
      OBVIOUS
    <2>1. Due(p, 15) >= z + 2
      BY <1>3 DEF pushed, Follows, InTime
    <2>2. Due(p, 15) = p
      BY DueNow DEF pushed
    <2> HIDE DEF y, u, z
    <2> QED BY <1>1, <1>2, <2>1, <2>2
  <1> QED BY <1>3, <1>4

\* At the end of the frame the byte has been handed on, one clock earlier at least.
LEMMA FrameOver ==
  ASSUME Tolerable, RxTypes, NEW p \in Nat, NEW l \in SenderBit, NEW s, Follows(p, l, s), p + 1 = (Bits + 2) * l
  PROVE  rx_state = "IDLE" /\ ~owed
  <1> DEFINE d == Period
  <1>1. Bits \in Nat \ {0} /\ l \in Nat \ {0} /\ d \in Nat \ {0}
    BY PeriodFacts, BitLengths
  <1>2. \A i \in 0 .. Bits + 1 : SampleDue(i) + d + 3 <= p + 1 /\ SampleDue(i) \in Nat
    <2> SUFFICES ASSUME NEW i \in 0 .. Bits + 1 PROVE SampleDue(i) + d + 3 <= p + 1 /\ SampleDue(i) \in Nat
      OBVIOUS
    <2> DEFINE z == SampleDue(i)  y == (i + 1) * l
    <2>1. z + d + 3 <= y /\ z \in Nat
      BY <1>1, Margins, PeriodFacts
    <2>2. y <= p + 1
      <3>1. PICK e \in Nat : Bits + 2 = (i + 1) + e
        <4>1. (Bits + 2) - (i + 1) \in Nat /\ Bits + 2 = (i + 1) + ((Bits + 2) - (i + 1))
          BY <1>1
        <4> QED BY <4>1
      <3>2. (Bits + 2) * l = y + e * l /\ e * l \in Nat /\ y \in Nat
        BY <1>1, <3>1
      <3> HIDE DEF y
      <3> QED BY <1>1, <3>2
    <2>3. y \in Int
      BY <1>1
    <2> HIDE DEF z, y
    <2>4. z + d + 3 <= p + 1
      BY <1>1, <2>1, <2>2, <2>3
    <2> QED BY <2>1, <2>4 DEF z
  <1>3. \A i \in 0 .. Bits + 1 : ~(p <= SampleDue(i) + d + 1)
    <2> SUFFICES ASSUME NEW i \in 0 .. Bits + 1, p <= SampleDue(i) + d + 1 PROVE FALSE
      OBVIOUS
    <2> DEFINE z == SampleDue(i)
    <2>1. z + d + 3 <= p + 1 /\ z \in Nat /\ p <= z + d + 1
      BY <1>2
    <2> HIDE DEF z, d
    <2> QED BY <1>1, <2>1
  <1>4. ASSUME NEW limit \in 0 .. 15, rx_tick_count <= limit, NEW i \in 0 .. Bits + 1, InTime(Due(p, limit), i)
        PROVE  FALSE
    <2> DEFINE q == Due(p, limit)  z == SampleDue(i)
    <2>1. q >= p /\ q <= z + d + 1
      BY <1>4, NotPast DEF InTime
    <2>2. q \in Int
      BY <1>1 DEF Due, RxTypes
    <2>3. z \in Nat /\ ~(p <= z + d + 1)
      BY <1>2, <1>3
    <2> HIDE DEF q, z, d
    <2> QED BY <1>1, <2>1, <2>2, <2>3
  <1>5. ~(p + baud_tick_counter <= d + 1)
    <2> DEFINE z == SampleDue(0)  c == baud_tick_counter
    <2>1. z \in Nat /\ ~(p <= z + d + 1) /\ c \in Nat
      <3>1. 0 \in 0 .. Bits + 1
        BY <1>1
      <3> QED BY <1>1, <1>2, <1>3, <3>1 DEF RxTypes
    <2> HIDE DEF z, d, c
    <2>2. ~(p + c <= d + 1)
      BY <1>1, <2>1
    <2> QED BY <2>2 DEF c
  <1>6. ~(rx_tick_count \in 0 .. 6 /\ InTime(Due(p, 6), 0))
    <2>1. 6 \in 0 .. 15 /\ 0 \in 0 .. Bits + 1 /\ \A n \in 0 .. 6 : n <= 6
      BY <1>1
    <2> QED BY <1>4, <2>1
  <1>7. ~InTime(Due(p, 15), rx_bit_count + 1) /\ ~InTime(Due(p, 15), Bits + 1)
    <2>1. 15 \in 0 .. 15 /\ rx_tick_count <= 15 /\ rx_bit_count + 1 \in 0 .. Bits + 1 /\ Bits + 1 \in 0 .. Bits + 1
      BY <1>1 DEF RxTypes
    <2> QED BY <1>4, <2>1
  <1> QED BY <1>5, <1>6, <1>7 DEF Follows

\* A clock within a frame, or the one after it.
LEMMA FrameStep ==
  ASSUME Tolerable, RxTypes, SenderType, NEW p \in Nat, NEW l \in SenderBit, Position(sender, l, p),
         Shows(rx_meta, p - 1, l, sender.bits), Shows(rx_sync, p - 2, l, sender.bits), Follows(p, l, sender.bits), RxNext
  PROVE  /\ (Quiet \/ Disturbed \/ InFrame)' /\ (pushed => owed /\ rx_shift = sender.bits)
         /\ sender'.phase = "start" /\ sender.phase # "start" => ~owed
  <1> DEFINE s == sender.bits  t == sender'.bits
  <1>1. /\ Bits \in Nat \ {0} /\ l \in Nat \ {0} /\ s \in Seq({0, 1}) /\ sender.left \in 1 .. l
        /\ (p + 1) - 1 = p /\ (p + 1) - 2 = p - 1 /\ p - 1 \in Int
    BY PeriodFacts, BitLengths DEF Position
  <1>2. Shows(sender.level, p, l, s) /\ Len(s) \in 0 .. Bits /\ \A i \in 1 .. Bits : i * l <= p => i <= Len(s)
    BY <1>1, PositionShows
  <1>3. CASE SendMore \/ (\E bit \in {0, 1} : SendData(bit)) \/ SendStop
    <2>1. /\ Position(sender', l, p + 1) /\ Len(s) <= Len(t) /\ (\A i \in 1 .. Len(s) : t[i] = s[i])
          /\ \A i \in 1 .. Len(t) : i > Len(s) => i * l > p
          /\ sender'.phase = "start" => sender.phase = "start"
      BY <1>1, <1>3, PositionMoves
    <2>2. p + 1 \in Nat /\ t \in Seq({0, 1})
      BY <2>1 DEF Position
    <2>3. Shows(sender'.level, p + 1, l, t)
      BY <1>1, <2>1, <2>2, PositionShows
    <2>4. Shows(sender.level, p, l, t)
      <3>1. p \in Int /\ Shows(sender.level, p, l, s) /\ Len(s) <= Len(t)
        BY <1>2, <2>1
      <3> QED BY <1>1, <2>1, <2>2, <3>1, ShowsStays
    <2>5. Shows(rx_meta, p - 1, l, t)
      <3>1. \A i \in 1 .. Len(t) : i > Len(s) => i * l > p - 1
        <4> SUFFICES ASSUME NEW i \in 1 .. Len(t), i > Len(s) PROVE i * l > p - 1
          OBVIOUS
        <4>1. i * l > p /\ i * l \in Int
          BY <1>1, <2>1
        <4> QED BY <4>1
      <3> QED BY <1>1, <2>1, <2>2, <3>1, ShowsStays
    <2>6. Shows(rx_meta', (p + 1) - 1, l, t) /\ Shows(rx_sync', (p + 1) - 2, l, t)
      BY <1>1, <2>4, <2>5 DEF RxNext, Synchronise
    <2>7. owed' = (owed /\ ~pushed)
      <3>1. CASE sender'.phase = "start"
        <4>1. sender.phase = "start"
          BY <2>1, <3>1
        <4>2. p < l
          <5>1. p + sender.left = l
            BY <4>1 DEF Position
          <5> QED BY <1>1, <5>1
        <4>3. owed /\ ~pushed
          BY <4>2, FrameBegun
        <4> QED BY <3>1, <4>3 DEF RxNext
      <3>2. CASE sender'.phase # "start"
        BY <3>2 DEF RxNext
      <3> QED BY <3>1, <3>2
    <2> PICK w \in Seq({0, 1}) : w = t
      BY <2>2
    <2>8. Follows(p + 1, l, w)' /\ (pushed => owed /\ rx_shift = s)
      <3>1. Len(s) <= Bits /\ Len(s) <= Len(w) /\ (\A i \in 1 .. Len(s) : w[i] = s[i]) /\ Baud /\ Receiver
        BY <1>2, <2>1 DEF RxNext
      <3>2. \A i \in 1 .. Bits : i * l <= p => i <= Len(s)
        BY <1>2
      <3> QED BY <1>1, <2>7, <3>1, <3>2, ReceiverStep
    <2>9. InFrame'
      <3>1. /\ Position(sender', l, p + 1) /\ Shows(rx_meta', (p + 1) - 1, l, w) /\ Shows(rx_sync', (p + 1) - 2, l, w)
            /\ Follows(p + 1, l, w)' /\ w = sender'.bits
        BY <2>1, <2>6, <2>8
      <3>2. Follows(p + 1, l, sender.bits)'
        BY <3>1 DEF Follows, InTime, Due, SampleDue, Period
      <3>3. /\ Position(sender, l, p + 1)' /\ Shows(rx_meta, (p + 1) - 1, l, sender.bits)'
            /\ Shows(rx_sync, (p + 1) - 2, l, sender.bits)'
        BY <3>1 DEF Position, Shows
      <3> QED BY <2>2, <3>2, <3>3 DEF InFrame
    <2> QED BY <2>1, <2>8, <2>9
  <1>4. CASE ~SendMore /\ ~SendStop /\ \A bit \in {0, 1} : ~SendData(bit)
    <2>1. sender.left <= 1 /\ sender.phase = "stop"
      <3>1. sender.phase # "noise" /\ sender.phase # "idle"
        BY DEF Position
      <3> QED BY <1>4, <3>1 DEF RxNext, Sender, SendNothing, SendStart, SendNoise, NoiseEnds
    <2>2. p + 1 = (Bits + 2) * l /\ sender.level = 1
      <3>1. sender.left = 1
        BY <1>1, <2>1
      <3> QED BY <2>1, <3>1 DEF Position
    <2>3. rx_state = "IDLE" /\ ~owed
      BY <2>2, FrameOver
    <2>4. rx_meta = 1 /\ rx_sync = 1
      <3> DEFINE y == (Bits + 1) * l
      <3>1. y + l = p + 1 /\ y \in Nat
        BY <1>1, <2>2
      <3>2. l >= 11
        <4> DEFINE d == Period  z == SampleDue(0)
        <4>1. z + d + 3 <= (0 + 1) * l /\ z = 7 * d /\ d \in Nat \ {0} /\ (0 + 1) * l = l
          <5>1. 0 \in 0 .. Bits + 1
            BY <1>1
          <5> QED BY <1>1, <5>1, Margins, PeriodFacts
        <4> HIDE DEF d, z
        <4> QED BY <1>1, <4>1
      <3> HIDE DEF y
      <3>3. p - 1 >= y /\ p - 2 >= y
        BY <1>1, <3>1, <3>2
      <3> QED BY <3>3 DEF Shows, y
    <2>5. Calm
      BY <2>2, <2>3, <2>4 DEF Calm
    <2> QED BY <2>1, <2>3, <2>5, CalmStep
  <1> QED BY <1>3, <1>4

\* The receiver's registers and the sender stay related whatever happens, and what is handed on is the byte sent.
LEMMA RxStep ==
  ASSUME Tolerable, RxInv, RxNext
  PROVE  RxInv' /\ ReceivesWhatIsSent /\ NextFrameInTime
  <1>1. RxTypes' /\ SenderType'
    BY RxTypesStep DEF RxInv
  <1>2. CASE Quiet
    <2>1. (Quiet \/ Disturbed \/ InFrame)' /\ ~pushed
      BY <1>2, CalmStep DEF RxInv, Quiet
    <2>2. ReceivesWhatIsSent /\ NextFrameInTime
      BY <1>2, <2>1 DEF Quiet, Calm, RxNext, ReceivesWhatIsSent, NextFrameInTime
    <2> QED BY <1>1, <2>1, <2>2 DEF RxInv
  <1>3. CASE Disturbed
    <2>1. (Quiet \/ Disturbed \/ InFrame)' /\ ~pushed /\ ~owed
      <3>1. PICK p \in Nat, m \in Noise : AfterPulse(p, m)
        BY <1>3 DEF Disturbed
      <3>2. (Quiet \/ Disturbed \/ InFrame)' /\ ~pushed
        BY <3>1, DisturbedStep DEF RxInv
      <3> QED BY <3>1, <3>2 DEF AfterPulse
    <2>2. ReceivesWhatIsSent /\ NextFrameInTime
      BY <2>1 DEF RxNext, ReceivesWhatIsSent, NextFrameInTime
    <2> QED BY <1>1, <2>1, <2>2 DEF RxInv
  <1>4. CASE InFrame
    <2>1. /\ (Quiet \/ Disturbed \/ InFrame)' /\ (pushed => owed /\ rx_shift = sender.bits)
          /\ sender'.phase = "start" /\ sender.phase # "start" => ~owed
      <3>1. PICK p \in Nat, l \in SenderBit :
              /\ Position(sender, l, p)
              /\ Shows(rx_meta, p - 1, l, sender.bits) /\ Shows(rx_sync, p - 2, l, sender.bits)
              /\ Follows(p, l, sender.bits)
        BY <1>4 DEF InFrame
      <3> QED BY <3>1, FrameStep DEF RxInv
    <2>2. ReceivesWhatIsSent /\ NextFrameInTime
      BY <2>1 DEF RxNext, ReceivesWhatIsSent, NextFrameInTime
    <2> QED BY <1>1, <2>1, <2>2 DEF RxInv
  <1> QED BY <1>2, <1>3, <1>4 DEF RxInv

\* The line is idle at first.
LEMMA RxStart == ASSUME RxInit PROVE RxInv
  <1>1. Period \in Nat \ {0} /\ Bits \in Nat \ {0}
    BY PeriodFacts
  <1>2. 0 \in 0 .. Period - 1 /\ 0 \in 0 .. Bits - 1
    BY <1>1
  <1>3. RxTypes
    <2>1. [i \in 1 .. Bits |-> 0] \in [1 .. Bits -> {0, 1}]
      OBVIOUS
    <2>2. baud_tick_counter \in 0 .. Period - 1 /\ rx_meta \in {0, 1} /\ rx_sync \in {0, 1} /\ owed \in BOOLEAN
      BY <1>2 DEF RxInit
    <2>3. /\ rx_state \in {"IDLE", "START", "DATA", "STOP"} /\ rx_tick_count \in 0 .. 15
          /\ rx_bit_count \in 0 .. Bits - 1 /\ rx_shift \in [1 .. Bits -> {0, 1}]
      <3>1. 0 \in 0 .. 15
        OBVIOUS
      <3> QED BY <1>2, <2>1, <3>1 DEF RxInit
    <2> QED BY <2>2, <2>3 DEF RxTypes
  <1>4. SenderType /\ Quiet
    <2>1. << >> \in Seq({0, 1})
      BY EmptySeq
    <2> QED BY <2>1 DEF RxInit, IdleLine, SenderType, Quiet, Calm
  <1> QED BY <1>3, <1>4 DEF RxInv

\* For every divisor, and every sender within Tolerable's drift and noise: a byte is received only for a
\* frame, it is the byte sent, and it is received before the next frame begins.
THEOREM FramesAreReceived == ASSUME Tolerable PROVE RxSpec => FramesReceived
  <1> DEFINE Step == ReceivesWhatIsSent /\ NextFrameInTime
  <1>1. RxInit => RxInv
    BY RxStart
  <1>2. RxInv /\ [RxNext]_rxvars => RxInv' /\ [Step]_rxvars
    <2>1. CASE RxNext
      BY <2>1, RxStep
    <2>2. CASE UNCHANGED rxvars
      <3>1. RxInv => RxInv'
        BY <2>2 DEF RxInv, RxTypes, SenderType, Quiet, Calm, Disturbed, AfterPulse, Settles, InFrame, Position, Shows, Follows,
                    InTime, Due, SampleDue, Period, Pulse, rxvars, rxregs
      <3> QED BY <2>2, <3>1
    <2> QED BY <2>1, <2>2
  <1> QED BY <1>1, <1>2, PTL DEF RxSpec, FramesReceived

\* Every register of the sampler holds a value of its width, whatever the sender does.
THEOREM RxTypeCorrect == RxSpec => []RxTypeOK
  <1> DEFINE Inv == RxTypes /\ SenderType
  <1>1. RxInit => Inv
    BY RxStart DEF RxInv
  <1>2. Inv /\ [RxNext]_rxvars => Inv'
    <2>1. CASE RxNext
      BY <2>1, RxTypesStep
    <2>2. CASE UNCHANGED rxvars
      BY <2>2 DEF RxTypes, SenderType, Period, rxvars, rxregs
    <2> QED BY <2>1, <2>2
  <1>3. Inv => RxTypeOK
    <2> SUFFICES ASSUME Inv PROVE RxTypeOK
      OBVIOUS
    <2>1. Period \in Nat \ {0} /\ Period - 1 <= Divisor /\ Divisor \in Nat
      BY RxAssumption DEF Period
    <2>2. baud_tick_counter \in 0 .. Divisor
      <3> DEFINE d == Period
      <3>1. baud_tick_counter \in 0 .. d - 1 /\ d \in Nat \ {0} /\ d - 1 <= Divisor /\ Divisor \in Nat
        BY <2>1 DEF RxTypes
      <3> HIDE DEF d
      <3> QED BY <3>1
    <2> QED BY <2>2 DEF RxTypes, RxTypeOK
  <1> QED BY <1>1, <1>2, <1>3, PTL DEF RxSpec
=============================================================================
