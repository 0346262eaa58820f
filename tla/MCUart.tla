------------------------------- MODULE MCUart -------------------------------
(***************************************************************************)
(* Model checking Uart with two-bit bytes.  10 and 01 tell the order of    *)
(* the bits and of the bytes apart.  The transmitter and the receiver      *)
(* share only ier, fcr and the interrupt output, so a behaviour may        *)
(* exercise one of them, or both: its part, chosen at the start.           *)
(***************************************************************************)
EXTENDS Uart

CONSTANT Parts
VARIABLE part

TwoBytes == {<<1, 0>>, <<0, 1>>}
OneByte == {<<1, 0>>}

PartInit == Init /\ part \in Parts

\* Nothing arrives in the "tx" part, nothing is written to THR in the "rx" part.
PartStep(tick) ==
  /\ \E byte \in (IF part = "tx" THEN {} ELSE RxByte) \cup {None} : Step(tick, byte)
  /\ part = "rx" => io'.wrote = None
  /\ UNCHANGED part

PartSpec == PartInit /\ [][\E tick \in BOOLEAN : PartStep(tick)]_<<vars, part>>

\* The baud counter reloads itself for ever, so bit ticks never stop.
PartFairSpec == PartSpec /\ WF_<<vars, part>>(PartStep(TRUE))
=============================================================================
