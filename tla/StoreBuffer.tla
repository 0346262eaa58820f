---------------------------- MODULE StoreBuffer -----------------------------
(***************************************************************************)
(* rtl/store_buffer.v: the FIFO of translated writes between the core and  *)
(* the data port.  The registers addr_q, be_q, data_q and ram_q always     *)
(* move together, so they are one array q of entries; entry 0 is the       *)
(* oldest.  One step is one clock edge.                                    *)
(*                                                                         *)
(* The buffer itself obeys any push and pop; top.v only pushes into a      *)
(* buffer that is not full and only pops one that is not empty, and Next   *)
(* has exactly those combinations.                                         *)
(***************************************************************************)
EXTENDS Naturals, Sequences

CONSTANTS Depth,      \* parameter DEPTH
          Word,       \* word addresses
          Payload,    \* byte enables, data and the RAM/device bit of a write
          None        \* no write

\* The widest counter the code declares has 8 bits, so it holds 255 at most.
ASSUME DepthAssumption == Depth \in 1..255

VARIABLES q,          \* the entries, live or not
          count,      \* how many are live
          in, out     \* observation: the write that entered, that left in this cycle

bufvars == <<q, count, in, out>>

Entry == [addr : Word, bytes : Payload]
Slot == 0 .. Depth - 1

\* 2^COUNT_WIDTH: count is a COUNT_WIDTH-bit register.
CountModulus ==
  IF Depth < 2 THEN 2 ELSE IF Depth < 4 THEN 4 ELSE
  IF Depth < 8 THEN 8 ELSE IF Depth < 16 THEN 16 ELSE 256

empty == count = 0
full == count = Depth
tail(pop) == IF pop THEN (count + CountModulus - 1) % CountModulus ELSE count
drained(push, pop) == tail(pop) = 0 /\ ~push
head == q[0]
match(a) == \E i \in Slot : count > i /\ q[i].addr = a

\* The shift register: the entering write beats the shift, and the last slot
\* has nothing behind it to shift in.
Shifted(push, e, pop) ==
  [j \in Slot |-> IF push /\ j = tail(pop) THEN e
                  ELSE IF pop /\ j < Depth - 1 THEN q[j + 1]
                  ELSE q[j]]

\* The clocked block.
Clock(push, e, pop) ==
  /\ q' = Shifted(push, e, pop)
  /\ count' = (tail(pop) + (IF push THEN 1 ELSE 0)) % CountModulus

-----------------------------------------------------------------------------
\* Reset clears every register.
BufInit ==
  /\ \E e \in Entry : q = [j \in Slot |-> e]
  /\ count = 0
  /\ in = None /\ out = None

Idle ==
  /\ UNCHANGED <<q, count>>
  /\ in' = None /\ out' = None

Push(e) ==
  /\ ~full
  /\ Clock(TRUE, e, FALSE)
  /\ in' = e /\ out' = None

Pop ==
  /\ ~empty
  /\ Clock(FALSE, head, TRUE)  \* the push inputs are ignored
  /\ in' = None /\ out' = head

\* top.v refuses the entering write when the buffer is full, pop or no pop.
PushPop(e) ==
  /\ ~full
  /\ ~empty
  /\ Clock(TRUE, e, TRUE)
  /\ in' = e /\ out' = head

BufNext == Idle \/ Pop \/ \E e \in Entry : Push(e) \/ PushPop(e)

BufSpec == BufInit /\ [][BufNext]_bufvars

-----------------------------------------------------------------------------
\* Every register holds a value of its width, and the live entries fit the array.
BufTypeOK ==
  /\ q \in [Slot -> Entry]
  /\ count \in 0 .. Depth
  /\ in \in Entry \cup {None} /\ out \in Entry \cup {None}

\* The live entries as a sequence, oldest first.
Queue == [i \in 1 .. count |-> q[i - 1]]

\* The registers implement the FIFO that the data bus relies on: no write is
\* lost, duplicated, overwritten or overtaken, in particular when one enters
\* the slot that another one leaves in the same cycle.
WQ == INSTANCE WriteQueue WITH queue <- Queue
RefinesQueue == WQ!Spec
=============================================================================
