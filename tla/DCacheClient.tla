---------------------------- MODULE DCacheClient ----------------------------
(***************************************************************************)
(* The data cache with a client that behaves as top.v and riscv_cpu.v do:  *)
(* a request stays on the port until it is answered, and a FENCE.I holds   *)
(* clean_req, with no request behind the one on the port, until the cache  *)
(* is clean.                                                               *)
(***************************************************************************)
EXTENDS DCache

VARIABLES cur,    \* the request on the port, or None
          fence   \* a FENCE.I waits in EX

cvars == <<vars, cur, fence>>

ClientInit == Init /\ cur = None /\ fence = FALSE

\* One clock edge with the request cur; cur ends with its response.
ClientCycle(m) ==
  /\ \E na \in NextIndex : Cycle(cur, na, m, fence)
  /\ cur' \in IF cur # None /\ resp' = None THEN {cur}
              ELSE IF fence THEN {None} ELSE Request \cup {None}
  /\ fence' \in IF fence THEN {~(clean /\ cur = None)} ELSE BOOLEAN

ClientNext == \E m \in Port : ClientCycle(m)

\* The clock runs, and the memory answers: mem_adapter.v accepts a waiting
\* request and answers an accepted one within a bounded number of cycles.
ClientSpec ==
  /\ ClientInit /\ [][ClientNext]_cvars
  /\ WF_cvars(ClientNext)
  /\ WF_cvars(\E m \in Port \ {"idle"} : ClientCycle(m))

-----------------------------------------------------------------------------
\* A request on the port is answered, whatever other misses are queued: in a
\* direct-mapped cache the line a load waits for may be evicted by the next
\* queued fill of its set before the load has looked it up again.
RequestAnswered == cur # None ~> resp # None

\* A FENCE.I leaves EX: the scan finds every dirty line, including the ones
\* dirtied again while they were written back.
FenceEnds == fence ~> ~fence

\* Whatever the core waits for at the cache, it gets.
ClientServed == RequestAnswered /\ FenceEnds
=============================================================================
