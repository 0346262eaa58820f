------------------------------ MODULE MCDCache ------------------------------
(* Two ways of two sets, three lines for set 0 and a device.               *)
EXTENDS DCache

CONSTANT dev   \* an uncached word

\* Only the first line and the device are written.
Written == {<<0, 0, 0>>, dev}
Accessed == {<<0, 0, 0>>, <<1, 0, 0>>, <<2, 0, 0>>, dev}
AllEqual == [a \in Word |-> CHOOSE d \in Data : TRUE]
=============================================================================
