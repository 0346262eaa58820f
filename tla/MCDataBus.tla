----------------------------- MODULE MCDataBus ------------------------------
(***************************************************************************)
(* Two buffer slots, a RAM word and a device.  Memory starts out as y and  *)
(* only x is written, so that a stale byte differs from a current one.     *)
(***************************************************************************)
EXTENDS DataBus

CONSTANTS x, y

VARIABLE clk   \* toggles at every edge, so that a cycle is never a stuttering step

OnlyX == {[l \in Lane |-> x]}

ClockedInit == Init /\ mem = [a \in Word |-> [l \in Lane |-> y]] /\ clk = FALSE
ClockedNext == Next /\ clk' = ~clk

\* The clock runs.
ClockRuns == []<>clk /\ []<>~clk

\* A request that stays on the port of the cache is answered (DCacheClient's
\* RequestAnswered); an answer shows in got or in out.
Asked == dcache_req \/ pend # None
CacheAnswers == []<>(Asked => got # None \/ out # None)

ClockedSpec == ClockedInit /\ [][ClockedNext]_<<vars, clk>> /\ ClockRuns /\ CacheAnswers
=============================================================================
