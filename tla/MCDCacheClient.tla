--------------------------- MODULE MCDCacheClient ---------------------------
(* Two lines for the only way of set 0, one for that of set 1, two MSHRs.  *)
EXTENDS DCacheClient

\* The core stores to one line of each set.
OneOfEach == {<<0, 0, 0>>, <<0, 1, 0>>}
TwoSets == {<<0, 0, 0>>, <<1, 0, 0>>, <<0, 1, 0>>}
AllEqual == [a \in Word |-> CHOOSE d \in Data : TRUE]
=============================================================================
