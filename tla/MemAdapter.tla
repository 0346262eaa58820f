----------------------------- MODULE MemAdapter -----------------------------
(***************************************************************************)
(* rtl/mem_adapter.v: the request/response port in front of a memory that  *)
(* answers combinationally.  RESPONSE_LATENCY 0 is the wire-through branch *)
(* of the generate block, 1 samples the storage on accept, 2 and more      *)
(* count.  One step is one clock edge; its input is the request the client *)
(* drives, which may change or go away as soon as it was granted.          *)
(*                                                                         *)
(* The latency is fixed when the design is elaborated: it is a variable    *)
(* that never changes, so that one behaviour has one latency and one run   *)
(* of TLC covers several.                                                  *)
(***************************************************************************)
EXTENDS Naturals

CONSTANTS Word, Lane, Byte, None,
          Latencies   \* the values of RESPONSE_LATENCY considered

\* LAST is truncated to COUNT_WIDTH bits, 8 at most.
ASSUME LatencyAssumption == Latencies \subseteq 0 .. 256
ASSUME NoneAssumption ==
  None \notin [addr : Word, bytes : UNION {[S -> Byte] : S \in SUBSET Lane}]

VARIABLES latency,    \* RESPONSE_LATENCY
          busy, count,
          req_q,      \* addr_q, we_q, be_q, wdata_q
          rvalid_q, rdata_q,
          mem,        \* the storage behind the adapter
          resp,       \* observation: the response of this cycle, with its request, or None
          age         \* observation: cycles since the request in flight was accepted

vars == <<latency, busy, count, req_q, rvalid_q, rdata_q, mem, resp, age>>

\* 2^COUNT_WIDTH
CountModulus ==
  IF latency < 3 THEN 2 ELSE IF latency < 5 THEN 4 ELSE
  IF latency < 9 THEN 8 ELSE IF latency < 17 THEN 16 ELSE 256
\* Faulty variant: counts one cycle too many.
LAST_OffByOne == latency % CountModulus
LAST == (latency - 1) % CountModulus

pend == IF busy THEN req_q ELSE None
Port == INSTANCE MemPort
Request == Port!Request

\* The input r is None while the client drives no request.
gnt(r) == r # None /\ (latency = 0 \/ (~busy /\ ~rvalid_q))
sample_now == busy /\ count = LAST
sample_on_accept(r) == gnt(r) /\ latency = 1

\* Faulty variant: follows the request lines while busy.
store_Unlatched(r) == IF r # None THEN r ELSE req_q
\* What the storage sees: the latched request while busy, else the input.
store(r) == IF busy THEN req_q ELSE r

\* The storage commits a write and answers a read in the fire cycle.
Fire(r) ==
  /\ mem' = Port!Apply(mem, store(r))
  /\ resp' = Port!Answered(mem, store(r))

-----------------------------------------------------------------------------
Init ==
  /\ latency \in Latencies
  /\ busy = FALSE
  /\ count = 0
  /\ \E r \in Request, d \in Port!Data : req_q = r /\ rdata_q = d
  /\ rvalid_q = FALSE
  /\ mem \in [Word -> Port!Data]
  /\ resp = None
  /\ age = 0

\* Latency 0: gnt and rvalid are the request itself; no register changes.
Combinational(r) ==
  /\ latency = 0
  /\ gnt(r)
  /\ Fire(r)
  /\ UNCHANGED <<latency, busy, count, req_q, rvalid_q, rdata_q, age>>

\* Latency 1: the accepted request fires at once, the answer follows registered.
AcceptAndSample(r) ==
  /\ sample_on_accept(r)
  /\ req_q' = r
  /\ Fire(r)
  /\ rdata_q' = mem[r.addr]
  /\ rvalid_q' = TRUE
  /\ age' = 1
  /\ UNCHANGED <<latency, busy, count>>

\* Latency 2 and more: latch the request and start to count.
Accept(r) ==
  /\ gnt(r)
  /\ latency > 1
  /\ req_q' = r
  /\ busy' = TRUE
  /\ count' = 1
  /\ rvalid_q' = FALSE
  /\ resp' = None
  /\ age' = 1
  /\ UNCHANGED <<latency, rdata_q, mem>>

\* The observed age stops at latency + 1: older is late anyway.
Older == IF age > latency THEN age ELSE age + 1

\* The last wait cycle.
Sample(r) ==
  /\ ~gnt(r)
  /\ sample_now
  /\ Fire(r)
  /\ rdata_q' = mem[store(r).addr]
  /\ rvalid_q' = TRUE
  /\ busy' = FALSE
  /\ count' = 0
  /\ age' = Older
  /\ UNCHANGED <<latency, req_q>>

\* Every other cycle: count while busy, and present a response for one cycle only.
Wait(r) ==
  /\ ~gnt(r) /\ ~sample_now
  /\ count' = IF busy THEN (count + 1) % CountModulus ELSE count
  /\ rvalid_q' = FALSE
  /\ resp' = None
  /\ age' = IF busy THEN Older ELSE 0
  /\ UNCHANGED <<latency, busy, req_q, rdata_q, mem>>

Next ==
  \E r \in Request \cup {None} :
    Combinational(r) \/ AcceptAndSample(r) \/ Accept(r) \/ Sample(r) \/ Wait(r)

Spec == Init /\ [][Next]_vars

-----------------------------------------------------------------------------
\* Every register holds a value of its width.
TypeOK ==
  /\ latency \in Latencies
  /\ busy \in BOOLEAN /\ rvalid_q \in BOOLEAN
  /\ count \in 0 .. 255 /\ (count = 0 \/ count < latency)
  /\ age \in 0 .. latency + 1
  /\ req_q \in Request
  /\ rdata_q \in Port!Data
  /\ mem \in [Word -> Port!Data]
  /\ resp \in Port!Response \cup {None}

\* Whatever the client does with its request lines once it was granted, the
\* accepted request and no other is performed, once, and answered with what
\* the storage held.
RefinesPort == Port!Spec

\* The answer is registered and arrives exactly RESPONSE_LATENCY cycles after
\* gnt: the counter neither stops short of LAST nor runs past it and wraps.
ExactLatency ==
  /\ rvalid_q => age = latency /\ ~busy
  /\ busy => age < latency
=============================================================================
