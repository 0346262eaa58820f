----------------------------- MODULE WriteQueue -----------------------------
(***************************************************************************)
(* What the store buffer promises the rest of the SoC: a bounded FIFO of   *)
(* translated writes.  A write enters behind every older one, the write    *)
(* that leaves is the oldest one still waiting, and only an empty queue    *)
(* lets a write through in the cycle it enters.  One step is one cycle.    *)
(***************************************************************************)
EXTENDS Naturals, Sequences

CONSTANTS Depth,   \* how many writes may wait
          Entry,   \* the writes
          None     \* no write

VARIABLES queue,   \* the writes that wait, oldest first
          in, out  \* the write that entered and the one that left in this cycle

vars == <<queue, in, out>>

Init == queue = << >> /\ in = None /\ out = None

Quiet ==
  /\ in' = None /\ out' = None
  /\ UNCHANGED queue

Enqueue(e) ==
  /\ Len(queue) < Depth
  /\ queue' = Append(queue, e)
  /\ in' = e /\ out' = None

Dequeue ==
  /\ queue # << >>
  /\ queue' = Tail(queue)
  /\ in' = None /\ out' = Head(queue)

\* A write enters in the very cycle in which the oldest one leaves.
Exchange(e) ==
  /\ queue # << >>
  /\ queue' = Append(Tail(queue), e)
  /\ in' = e /\ out' = Head(queue)

PassThrough(e) ==
  /\ queue = << >>
  /\ in' = e /\ out' = e
  /\ UNCHANGED queue

Next == Quiet \/ Dequeue \/ \E e \in Entry : Enqueue(e) \/ Exchange(e) \/ PassThrough(e)

Spec == Init /\ [][Next]_vars
=============================================================================
