---------------------------- MODULE TraceCompare ----------------------------
(***************************************************************************)
(* The trace comparison of .github/scripts/compare_with_spike.py: Spike's  *)
(* commit log and the RTL's trace are parsed up to the write of tohost and *)
(* compared, register writes and memory bytes each in their order.         *)
(*                                                                         *)
(* A commit is a record [pc, reg, mem, csr]: reg is <<>> or <<register,    *)
(* value>>, mem is <<>> or <<address, width, value>>, csr tells that the   *)
(* instruction reads an implementation-defined CSR.  The two machines run  *)
(* what they like: a step lets one of them commit an instruction.  The     *)
(* text of the logs is abstracted away; orders are doubled, to keep the    *)
(* code's + 0.5 an integer.                                                *)
(***************************************************************************)
EXTENDS Naturals, Sequences, SequencesExt, FiniteSetsExt

CONSTANTS
  Commits,     \* the commits either machine may make
  Rom,         \* a commit of Spike's boot ROM
  EntryPc, Tohost,
  Base,        \* values of a byte (256 in the code)
  MaxCommits   \* bound: commits of each machine

\* Stores are aligned, and so is tohost: a store that writes it starts there.
ASSUME TraceAssumption ==
  /\ MaxCommits \in Nat /\ Base \in Nat \ {0, 1} /\ Tohost \in Nat /\ Rom.pc # EntryPc
  /\ \A c \in Commits \cup {Rom} :
       /\ c.csr \in BOOLEAN /\ c.reg \in {<<>>} \cup (Nat \X Nat) /\ c.mem \in {<<>>} \cup (Nat \X (Nat \ {0}) \X Nat)
       /\ c.mem # <<>> /\ Tohost \in c.mem[1]..(c.mem[1] + c.mem[2] - 1) => c.mem[1] = Tohost

VARIABLES spikeRun, rtlRun   \* the commits of the two machines

rvars == <<spikeRun, rtlRun>>

\* Spike runs its boot ROM first, the RTL starts at the entry point.
TraceInit == spikeRun = <<Rom>> /\ rtlRun = <<>>

SpikeCommits(c) ==
  /\ Len(spikeRun) <= MaxCommits
  /\ Len(spikeRun) = 1 => c.pc = EntryPc
  /\ spikeRun' = Append(spikeRun, c) /\ UNCHANGED rtlRun

RtlCommits(c) == Len(rtlRun) < MaxCommits /\ rtlRun' = Append(rtlRun, c) /\ UNCHANGED spikeRun

TraceNext == \E c \in Commits : SpikeCommits(c) \/ RtlCommits(c)
TraceSpec == TraceInit /\ [][TraceNext]_rvars

(***************************************************************************)
(* The script's functions.                                                 *)
(***************************************************************************)
\* The bytes of a store, lowest address first; store_width gives how many.
ByteOf(v, i) == (v \div Base^(i - 1)) % Base
StoreBytes(c) ==
  IF c.mem = <<>> THEN <<>>
  ELSE [i \in 1..c.mem[2] |-> [pc |-> c.pc, where |-> c.mem[1] + i - 1, value |-> ByteOf(c.mem[3], i)]]

RegWrites(c) == IF c.reg = <<>> THEN <<>> ELSE <<[pc |-> c.pc, where |-> c.reg[1], value |-> c.reg[2]]>>

\* parse_spike_commits reads from the entry point to the commit that writes tohost, which is left out.
Started(log, i) == \E j \in 1..i : log[j].pc = EntryPc
WritesTohost(c) == \E b \in ToSet(StoreBytes(c)) : b.where = Tohost
IsRead(log, i) == Started(log, i) /\ \A j \in 1..i : ~(Started(log, j) /\ WritesTohost(log[j]))

\* Each of its entries remembers its commit and whether its value may differ.
Entries(i, s, differ) ==
  [k \in DOMAIN s |-> [pc |-> s[k].pc, where |-> s[k].where, value |-> s[k].value, may_differ |-> differ, commit |-> i]]

Joined(log, c) == FlattenSeq([i \in DOMAIN log |-> IF IsRead(log, i) THEN c[i] ELSE <<>>])
ParseSpikeCommits(log) ==
  [registers |-> Joined(log, [i \in DOMAIN log |-> Entries(i, RegWrites(log[i]), log[i].csr)]),
   memory |-> Joined(log, [i \in DOMAIN log |-> Entries(i, StoreBytes(log[i]), FALSE)])]

\* The trace file test_riscv_isa.py writes: a store's bytes as it completes, a register a
\* cycle later at write-back, so behind the register writes of every earlier instruction.
LinesOf(c) ==
  [k \in DOMAIN StoreBytes(c) |-> <<"m", StoreBytes(c)[k]>>] \o [k \in DOMAIN RegWrites(c) |-> <<"x", RegWrites(c)[k]>>]
RtlLines(run) == FlattenSeq([i \in DOMAIN run |-> LinesOf(run[i])])

\* parse_rtl_trace: line by line up to the first byte of tohost.
IsTohost(line) == line[1] = "m" /\ line[2].where = Tohost
EntriesOf(lines, kind) ==
  FlattenSeq([k \in DOMAIN lines |-> IF lines[k][1] = kind /\ \A j \in 1..k : ~IsTohost(lines[j]) THEN <<lines[k][2]>> ELSE <<>>])
ParseRtlTrace(lines) == [registers |-> EntriesOf(lines, "x"), memory |-> EntriesOf(lines, "m")]

Differs(s, r) == <<s.pc, s.where>> # <<r.pc, r.where>> \/ (s.value # r.value /\ ~s.may_differ)

\* Faulty variant: the longer trace is cut to the length of the shorter.
Places_Zip(spike, rtl) == DOMAIN spike \cap DOMAIN rtl

\* The places first_divergence looks at: a trace that ends early diverges there.
Places(spike, rtl) == DOMAIN spike \cup DOMAIN rtl

\* first_divergence: <<>>, or the place in Spike's commit order of the first entries that differ.
FirstDivergence(spike, rtl) ==
  LET bad == {i \in Places(spike, rtl) :
                i > Len(spike) \/ i > Len(rtl) \/ Differs(spike[i], rtl[i])}
      i == Min(bad)
  IN IF bad = {} THEN <<>>
     ELSE IF i <= Len(spike) THEN <<2 * spike[i].commit>>
     ELSE IF spike = <<>> THEN <<0>> ELSE <<2 * Last(spike).commit + 1>>

\* compare_traces: <<>>, or the earlier of the two divergences.
CompareTraces(spike, rtl) ==
  LET found == {FirstDivergence(spike.registers, rtl.registers), FirstDivergence(spike.memory, rtl.memory)} \ {<<>>}
  IN IF found = {} THEN <<>> ELSE <<Min({d[1] : d \in found})>>

Divergence == CompareTraces(ParseSpikeCommits(spikeRun), ParseRtlTrace(RtlLines(rtlRun)))

(***************************************************************************)
(* Properties.                                                             *)
(***************************************************************************)
\* What a machine did before it wrote tohost, as the programmer sees it.
Reported(c) == c.mem # <<>> /\ Tohost \in c.mem[1]..(c.mem[1] + c.mem[2] - 1)
BeforeTohost(run, i) == \A j \in 1..i : ~Reported(run[j])
Writes(run) == FlattenSeq([i \in DOMAIN run |-> IF BeforeTohost(run, i) /\ run[i].reg # <<>> THEN <<run[i]>> ELSE <<>>])
Stores(run) == FlattenSeq([i \in DOMAIN run |-> IF BeforeTohost(run, i) THEN StoreBytes(run[i]) ELSE <<>>])

SameWrite(s, r) == s.pc = r.pc /\ s.reg[1] = r.reg[1] /\ (s.reg[2] = r.reg[2] \/ s.csr)

\* No divergence is reported exactly when the two machines wrote the same registers and the same memory
\* bytes at the same instructions before tohost, implementation-defined CSR values aside: none missed at
\* the end of either trace, none invented by where the two logs are cut (compare_with_spike.py:174, :195).
CompareExact ==
  LET program == Tail(spikeRun)
      w == Writes(program)   v == Writes(rtlRun)
  IN Divergence = <<>> <=>
       /\ Len(w) = Len(v) /\ \A i \in DOMAIN w : SameWrite(w[i], v[i])
       /\ Stores(program) = Stores(rtlRun)

\* A reported divergence is the earliest: were Spike's log to end at the commit before it, the traces would
\* agree as far as Spike's goes (compare_with_spike.py:215, min(found)).
DivergenceEarliest ==
  Divergence # <<>> =>
    LET before == SubSeq(spikeRun, 1, (Divergence[1] + 1) \div 2 - 1)
        s == ParseSpikeCommits(before)   r == ParseRtlTrace(RtlLines(rtlRun))
        agrees(a, b) == \A i \in DOMAIN a : i \in DOMAIN b /\ ~Differs(a[i], b[i])
    IN agrees(s.registers, r.registers) /\ agrees(s.memory, r.memory)

TraceVerdict == CompareExact /\ DivergenceEarliest
=============================================================================
