-------------------------------- MODULE Plic --------------------------------
(***************************************************************************)
(* rtl/core_modules/plic.v: the interrupt controller with one gateway per  *)
(* level-triggered source and two contexts, M and S.  One step is one      *)
(* clock edge with the levels of the sources and one access, if any, on    *)
(* the register port (top.v drives reads or writes, never both).           *)
(*                                                                         *)
(* The software is external: it may write any setting and claim at any     *)
(* time, from either context, and it completes only what was claimed, from *)
(* whichever context, in any order.                                        *)
(***************************************************************************)
EXTENDS Naturals

CONSTANTS NumSources,   \* parameter NUM_SOURCES
          MaxPriority   \* priorities and thresholds are 3 bits: 7

ASSUME SourcesAssumption == NumSources \in 1 .. 31 /\ MaxPriority \in 1 .. 7

Source == 1 .. NumSources
Priority == 0 .. MaxPriority
Context == {"M", "S"}

VARIABLES priority_q, pending, gateway_busy,
          enable, threshold,   \* of each context
          served,              \* history: the sources claimed and not completed
          claimed              \* observation: the context that claims in this cycle and what
                               \* it gets; 0 when there is nothing to claim or no claim

settings == <<priority_q, enable, threshold>>
plicvars == <<settings, pending, gateway_busy, served, claimed>>

-----------------------------------------------------------------------------
\* The loop body's condition: b is the best source so far and its priority.
Better(s, c, b) == s \in pending /\ s \in enable[c] /\ priority_q[s] > b.priority

\* The loop over the sources; Best(c)[s] is its state after source s.
Best(c) ==
  LET best[s \in 0 .. NumSources] ==
        IF s = 0 THEN [id |-> 0, priority |-> threshold[c]]
        ELSE IF Better(s, c, best[s - 1]) THEN [id |-> s, priority |-> priority_q[s]]
        ELSE best[s - 1]
  IN  best
best_source(c) == Best(c)[NumSources].id
external_interrupt(c) == best_source(c) # 0

\* Faulty variant: a completed source that is still high is not forwarded again.
Gateway_NoRearm(irq, claim, complete) ==
  /\ pending' = (irq \ gateway_busy) \cup (pending \ {claim})
  /\ gateway_busy' = irq \cup (gateway_busy \ {complete})
\* The gateways: one request per source is forwarded until it is completed;
\* a source still high at its completion is forwarded again.  claim and
\* complete are the source claimed and the ID completed in this cycle, or 0.
Gateway(irq, claim, complete) ==
  /\ pending' = (irq \ (gateway_busy \ {complete})) \cup (pending \ {claim})
  /\ gateway_busy' = irq \cup (gateway_busy \ {complete})

-----------------------------------------------------------------------------
NoClaim == [by |-> "M", id |-> 0]

PlicInit ==
  /\ priority_q = [s \in Source |-> 1]
  /\ pending = {} /\ gateway_busy = {}
  /\ enable = [c \in Context |-> {}] /\ threshold = [c \in Context |-> 0]
  /\ served = {} /\ claimed = NoClaim

\* A cycle without an access that changes anything.
QuietCycle(irq) ==
  /\ Gateway(irq, 0, 0)
  /\ claimed' = NoClaim
  /\ UNCHANGED <<settings, served>>

WritePriority(irq, s, p) ==
  /\ priority_q' = [priority_q EXCEPT ![s] = p]
  /\ Gateway(irq, 0, 0)
  /\ claimed' = NoClaim
  /\ UNCHANGED <<enable, threshold, served>>

WriteEnable(irq, c, sources) ==
  /\ enable' = [enable EXCEPT ![c] = sources]
  /\ Gateway(irq, 0, 0)
  /\ claimed' = NoClaim
  /\ UNCHANGED <<priority_q, threshold, served>>

WriteThreshold(irq, c, p) ==
  /\ threshold' = [threshold EXCEPT ![c] = p]
  /\ Gateway(irq, 0, 0)
  /\ claimed' = NoClaim
  /\ UNCHANGED <<priority_q, enable, served>>

\* A read of the claim register.
Claim(irq, c) ==
  LET id == best_source(c) IN
  /\ Gateway(irq, id, 0)
  /\ served' = served \cup ({id} \ {0})
  /\ claimed' = [by |-> c, id |-> id]
  /\ UNCHANGED settings

\* A write of the claim register, by the software's discipline.
Complete(irq, s) ==
  /\ s \in served
  /\ Gateway(irq, 0, s)
  /\ served' = served \ {s}
  /\ claimed' = NoClaim
  /\ UNCHANGED settings

PlicNext ==
  \E irq \in SUBSET Source :
    \/ QuietCycle(irq)
    \/ \E s \in Source, p \in Priority : WritePriority(irq, s, p)
    \/ \E c \in Context, E \in SUBSET Source : WriteEnable(irq, c, E)
    \/ \E c \in Context, p \in Priority : WriteThreshold(irq, c, p)
    \/ \E c \in Context : Claim(irq, c)
    \/ \E s \in Source : Complete(irq, s)

PlicSpec == PlicInit /\ [][PlicNext]_plicvars

-----------------------------------------------------------------------------
\* Every register holds a value of its width.
PlicTypeOK ==
  /\ priority_q \in [Source -> Priority]
  /\ pending \subseteq Source /\ gateway_busy \subseteq Source
  /\ enable \in [Context -> SUBSET Source] /\ threshold \in [Context -> Priority]
  /\ served \subseteq Source
  /\ claimed \in [by : Context, id : 0 .. NumSources]

\* A gateway is closed exactly while its request waits or is being served:
\* a closed gateway without either would never forward its source again, an
\* open one would let both contexts serve the same interrupt.
GatewayAccounts == gateway_busy = pending \cup served /\ pending \cap served = {}

\* What a context claims is a waiting source it has enabled, above its
\* threshold, and no other such source has a higher priority, nor the same
\* and a lower ID; it gets 0 only if there is none.
Eligible(c) == {s \in pending \cap enable[c] : priority_q[s] > threshold[c]}
Beats(s, t) == \/ priority_q[s] > priority_q[t]
               \/ priority_q[s] = priority_q[t] /\ s < t
ClaimsTheBest ==
  \A c \in Context :
    LET id == best_source(c) IN
    IF Eligible(c) = {} THEN id = 0
    ELSE id \in Eligible(c) /\ \A t \in Eligible(c) \ {id} : Beats(id, t)

\* No two contexts, and no context twice, get the same source without a
\* completion in between; a source that is high is pending, or being served.
ServedOnce == GatewayAccounts /\ ClaimsTheBest
=============================================================================
