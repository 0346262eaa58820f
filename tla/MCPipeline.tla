----------------------------- MODULE MCPipeline -----------------------------
(* A ring of three instruction addresses, the last one the trap vector.    *)
EXTENDS Pipeline

VARIABLE pace   \* toggles when the pipeline is given what it waits for

Addresses == 0 .. 2
Ring == [a \in Addresses |-> (a + 1) % 3]

\* The memory answers the access in MEM, else drains for the fence in EX, else
\* delivers a fetch.  No fault, interrupt or wake-up counts.
Given(i) == IF mem_access THEN i.mem = "done"
            ELSE IF idex # None /\ idex.kind \in {"fence", "fence_i"} THEN i.drained
            ELSE NeedsFetch(i) => i.fetch # None

PacedInit == Init /\ pace = FALSE
PacedNext == \E i \in Inputs : Cycle(i) /\ pace' = (pace # Given(i))

\* The clock runs, and again and again the pipeline is given what it waits for.
PacedSpec == PacedInit /\ [][PacedNext]_<<vars, pace>> /\ []<>pace /\ []<>~pace
=============================================================================
