------------------------------ MODULE MemPort -------------------------------
(***************************************************************************)
(* What the gnt/rvalid port promises its client: a memory that serves one  *)
(* request at a time.  A request is accepted (gnt) and answered (rvalid),  *)
(* in the same cycle or later; it takes effect exactly once, between the   *)
(* two, and a read returns what the memory held then.                      *)
(*                                                                         *)
(* mem_adapter.v keeps this promise to the data cache, and dcache.v keeps  *)
(* it to the data bus of top.v, whose memory is then the coherent contents *)
(* of cache, MSHRs and backing store together.                             *)
(***************************************************************************)
CONSTANTS Word,     \* word addresses
          Lane,     \* the bytes of a word
          Byte,     \* byte values
          None      \* no request, no data

Data == [Lane -> Byte]

\* The byte enables and the data of a request are one function from the
\* enabled lanes to bytes.  The core never sends a write without an enabled
\* lane, so a request without one is a read.
Request == [addr : Word, bytes : UNION {[S -> Byte] : S \in SUBSET Lane}]
Response == [req : Request, data : Data \cup {None}]
we(r) == DOMAIN r.bytes # {}

\* A write replaces the enabled bytes and leaves the others alone.
Merge(old, r) == [l \in Lane |-> IF l \in DOMAIN r.bytes THEN r.bytes[l] ELSE old[l]]
Apply(m, r) == [m EXCEPT ![r.addr] = Merge(@, r)]
Answered(m, r) == [req |-> r, data |-> IF we(r) THEN None ELSE m[r.addr]]

-----------------------------------------------------------------------------
VARIABLES mem,      \* word -> data
          pend,     \* the accepted request without an answer, or None
          resp      \* the response on the port in this cycle, or None

vars == <<mem, pend, resp>>

TypeOK ==
  /\ mem \in [Word -> Data]
  /\ pend \in Request \cup {None}
  /\ resp \in Response \cup {None}

Init == mem \in [Word -> Data] /\ pend = None /\ resp = None

Accept(r) ==
  /\ pend = None
  /\ pend' = r
  /\ resp' = None
  /\ UNCHANGED mem

Answer ==
  /\ pend # None
  /\ mem' = Apply(mem, pend)
  /\ resp' = Answered(mem, pend)
  /\ pend' = None

\* Accepted and answered in one cycle.
Serve(r) ==
  /\ pend = None
  /\ UNCHANGED pend
  /\ resp' = Answered(mem, r)
  /\ mem' = Apply(mem, r)

\* A cycle without a response.
Quiet ==
  /\ resp' = None
  /\ UNCHANGED <<mem, pend>>

Next == Answer \/ Quiet \/ \E r \in Request : Accept(r) \/ Serve(r)

Spec == Init /\ [][Next]_vars
=============================================================================
