------------------------------- MODULE MCFetch ------------------------------
(* Instruction fetch through one way of two sets.                          *)
EXTENDS Fetch

CONSTANT rom   \* an uncached word

VARIABLE pace   \* toggles when the fetch is given what it waits for

\* Two lines for the only way of set 0, and the uncached word.
ConflictCode == {<<0, 0, 0>>, <<1, 0, 0>>, rom}
\* What the data side writes.
WordAndUncached == {<<0, 0, 0>>, rom}

\* The memory moves on with what it is asked or owes, else the walker comes back
\* with the translation of the PC.  No redirect counts.
Given(ready, m) == IF mem_req(ready) \/ pend # None THEN m # "idle" ELSE ready

PacedInit == Init /\ pace = FALSE
PacedNext ==
  \E ready \in Ready, m \in Port : Clock(ready, m) /\ pace' = (pace # Given(ready, m))

\* The clock runs, and again and again the fetch is given what it waits for.
PacedSpec == PacedInit /\ [][PacedNext]_<<vars, pace>> /\ []<>pace /\ []<>~pace
=============================================================================
