------------------------------ MODULE StoreBus ------------------------------
(***************************************************************************)
(* The way of a store from the head of the reorder buffer to memory or a   *)
(* device: commit hands a cacheable store to the retired store buffer, and *)
(* sends any other one to its bus itself and stays until it is answered.   *)
(* Both call the bus again every cycle; an acknowledgement is there for    *)
(* one cycle and carries no name.                                          *)
(*                                                                         *)
(* Stores are numbered in program order.  Memory answers after any delay   *)
(* (the code's is a fixed number of cycles).  A cycle is the phases        *)
(* commit, memory, rsb, bus.                                               *)
(***************************************************************************)
EXTENDS Naturals, Sequences

CONSTANTS RETIRED_STORE_BUFFER_SIZE,
          Kinds,        \* what the program writes to: see Writes
          MaxStores     \* bound: stores of a run

\* Memory; an address of the cacheable range without a slave; a register of the
\* clint; an access the clint refuses; an address of the other range without a slave.
Writes == {"memory", "memory_hole", "clint", "clint_refused", "hole"}

ASSUME ConstAssumption ==
    /\ RETIRED_STORE_BUFFER_SIZE \in Nat \ {0}
    /\ Kinds \subseteq Writes
    /\ MaxStores \in Nat

VARIABLES
    phase,
    stores,     \* kind and state of each store, and how often it was written
    is_waiting_ack,     \* commit's
    sync_request_q,     \* of the bus that is not cacheable
    rsb, rsb_waiting_ack, pushed,       \* retired_store_buffer; pushed in this cycle
    writes,     \* the memory's pipeline of writes
    ack, ack_new        \* data_write_ack of each bus with data_write_errno, and what
                        \* the flip-flop takes at the end of the cycle

vars == <<phase, stores, is_waiting_ack, sync_request_q, rsb, rsb_waiting_ack, pushed,
          writes, ack, ack_new>>

Buses == {"cacheable", "noncacheable"}
NoAck == [of |-> 0, error |-> FALSE]

Init ==
    /\ phase = "commit"
    /\ stores = <<>>
    /\ is_waiting_ack = FALSE /\ sync_request_q = <<>>
    /\ rsb = <<>> /\ rsb_waiting_ack = FALSE /\ pushed = 0
    /\ writes = <<>>
    /\ ack = [b \in Buses |-> NoAck] /\ ack_new = [b \in Buses |-> NoAck]

Cacheable(kind) == kind \in {"memory", "memory_hole"}
HeadId == Len(stores)
AtHead == stores # <<>> /\ stores[HeadId].state = "head"
HeadKind == stores[HeadId].kind

-----------------------------------------------------------------------------
(***************************************************************************)
(* commit::run, as far as stores go: at most one per cycle.                *)
(***************************************************************************)
\* A finished store comes to the head of the reorder buffer.
NextStore ==
    /\ phase = "commit" /\ ~AtHead /\ Len(stores) < MaxStores
    /\ \E kind \in Kinds :
         stores' = Append(stores, [kind |-> kind, state |-> "head", written |-> 0])
    /\ UNCHANGED <<phase, is_waiting_ack, sync_request_q, rsb, rsb_waiting_ack, pushed,
                   writes, ack, ack_new>>

CommitCacheable ==
    /\ phase = "commit" /\ AtHead /\ ~is_waiting_ack /\ Cacheable(HeadKind)
    /\ Len(rsb) < RETIRED_STORE_BUFFER_SIZE
    /\ rsb' = Append(rsb, HeadId) /\ pushed' = 1
    /\ stores' = [stores EXCEPT ![HeadId].state = "retired"]
    /\ phase' = "memory"
    /\ UNCHANGED <<is_waiting_ack, sync_request_q, rsb_waiting_ack, writes, ack, ack_new>>

\* Faulty variant: the wait is not noted.
CommitSendForgets ==
    /\ phase = "commit" /\ AtHead /\ ~is_waiting_ack /\ ~Cacheable(HeadKind)
    /\ sync_request_q' = Append(sync_request_q, HeadId)
    /\ phase' = "memory"
    /\ UNCHANGED <<stores, is_waiting_ack, rsb, rsb_waiting_ack, pushed, writes, ack, ack_new>>
CommitSend ==
    /\ phase = "commit" /\ AtHead /\ ~is_waiting_ack /\ ~Cacheable(HeadKind)
    /\ sync_request_q' = Append(sync_request_q, HeadId)
    /\ is_waiting_ack' = TRUE
    /\ phase' = "memory"
    /\ UNCHANGED <<stores, rsb, rsb_waiting_ack, pushed, writes, ack, ack_new>>

\* An error becomes a trap.
CommitAcked ==
    /\ phase = "commit" /\ AtHead /\ is_waiting_ack /\ ack["noncacheable"].of # 0
    /\ is_waiting_ack' = FALSE
    /\ stores' = [stores EXCEPT ![HeadId].state =
                     IF ack["noncacheable"].error THEN "trapped" ELSE "retired"]
    /\ phase' = "memory"
    /\ UNCHANGED <<sync_request_q, rsb, rsb_waiting_ack, pushed, writes, ack, ack_new>>

\* No finished store, no room, or no answer yet.
CommitPause ==
    /\ phase = "commit"
    /\ \/ ~AtHead
       \/ AtHead /\ is_waiting_ack /\ ack["noncacheable"].of = 0
       \/ /\ AtHead /\ ~is_waiting_ack /\ Cacheable(HeadKind)
          /\ Len(rsb) = RETIRED_STORE_BUFFER_SIZE
    /\ phase' = "memory"
    /\ UNCHANGED <<stores, is_waiting_ack, sync_request_q, rsb, rsb_waiting_ack, pushed,
                   writes, ack, ack_new>>

-----------------------------------------------------------------------------
\* memory::run_post, as far as writes go.
MemoryWrites ==
    /\ phase = "memory" /\ writes # <<>>
    /\ stores' = [stores EXCEPT ![Head(writes)].written = @ + 1]
    /\ ack_new' = [ack_new EXCEPT !["cacheable"] = [of |-> Head(writes), error |-> FALSE]]
    /\ writes' = Tail(writes)
    /\ phase' = "rsb"
    /\ UNCHANGED <<is_waiting_ack, sync_request_q, rsb, rsb_waiting_ack, pushed, ack>>

MemorySilent ==
    /\ phase = "memory"
    /\ phase' = "rsb"
    /\ UNCHANGED <<stores, is_waiting_ack, sync_request_q, rsb, rsb_waiting_ack, pushed,
                   writes, ack, ack_new>>

(***************************************************************************)
(* retired_store_buffer::run: the front is popped when its write is        *)
(* acknowledged, error or not, and the next one sent in the same cycle.    *)
(* An address without a slave is answered by the bus at once.              *)
(***************************************************************************)
\* Faulty variant: an error is not taken for an answer.
AckedWell == rsb_waiting_ack /\ ack["cacheable"].of # 0 /\ ~ack["cacheable"].error
Acked == rsb_waiting_ack /\ ack["cacheable"].of # 0

\* Faulty variant: the newest is sent.
FrontNewest(q) == q[Len(q)]
Front(q) == Head(q)

RsbRun ==
    /\ phase = "rsb"
    /\ rsb' = IF Acked THEN Tail(rsb) ELSE rsb
    /\ IF (Acked \/ ~rsb_waiting_ack) /\ Len(rsb') > pushed
       THEN LET s == Front(rsb')
            IN /\ rsb_waiting_ack' = TRUE
               /\ IF stores[s].kind = "memory"
                  THEN writes' = Append(writes, s) /\ UNCHANGED ack_new
                  ELSE /\ ack_new' = [ack_new EXCEPT !["cacheable"] = [of |-> s, error |-> TRUE]]
                       /\ UNCHANGED writes
       ELSE /\ rsb_waiting_ack' = (rsb_waiting_ack /\ ~Acked)
            /\ UNCHANGED <<writes, ack_new>>
    /\ phase' = "bus"
    /\ UNCHANGED <<stores, is_waiting_ack, sync_request_q, pushed, ack>>

(***************************************************************************)
(* bus::run and bus::sync of both buses, and the clock edge.  Only commit  *)
(* uses the deferred writes, and the clint answers at once.                *)
(***************************************************************************)
\* Faulty variant: an acknowledgement stays.
LatchedKept == [b \in Buses |-> IF ack_new[b] = NoAck THEN ack[b] ELSE ack_new[b]]
Latched == ack_new

BusRun ==
    /\ phase = "bus"
    /\ IF sync_request_q = <<>>
       THEN ack' = Latched /\ UNCHANGED stores
       ELSE LET s == Head(sync_request_q)
                ok == stores[s].kind = "clint"
            IN /\ ack' = [Latched EXCEPT !["noncacheable"] = [of |-> s, error |-> ~ok]]
               /\ stores' = IF ok THEN [stores EXCEPT ![s].written = @ + 1] ELSE stores
    /\ sync_request_q' = <<>>
    /\ ack_new' = [b \in Buses |-> NoAck]
    /\ pushed' = 0
    /\ phase' = "commit"
    /\ UNCHANGED <<is_waiting_ack, rsb, rsb_waiting_ack, writes>>

Next == \/ NextStore \/ CommitCacheable \/ CommitSend \/ CommitAcked \/ CommitPause
        \/ MemoryWrites \/ MemorySilent
        \/ RsbRun \/ BusRun

Spec == Init /\ [][Next]_vars

-----------------------------------------------------------------------------
(***************************************************************************)
(* Properties.                                                             *)
(***************************************************************************)
Ids == 1..MaxStores
Acks == [of : 0..MaxStores, error : BOOLEAN]

\* The variables have their types; the retired store buffer never exceeds its size.
TypeOK ==
    /\ phase \in {"commit", "memory", "rsb", "bus"}
    /\ stores \in Seq([kind : Kinds, state : {"head", "retired", "trapped"}, written : Nat])
    /\ Len(stores) <= MaxStores
    /\ is_waiting_ack \in BOOLEAN /\ rsb_waiting_ack \in BOOLEAN /\ pushed \in {0, 1}
    /\ sync_request_q \in Seq(Ids) /\ writes \in Seq(Ids)
    /\ rsb \in Seq(Ids) /\ Len(rsb) <= RETIRED_STORE_BUFFER_SIZE
    /\ ack \in [Buses -> Acks] /\ ack_new \in [Buses -> Acks]

\* An acknowledgement answers the store that waits for it, and comes only to one
\* that waits: the pending write of the one side is never taken for the other's, nor
\* for that of a later store.
AckOwn ==
    phase = "commit" =>
        /\ ack["noncacheable"].of # 0 =>
              is_waiting_ack /\ AtHead /\ ack["noncacheable"].of = HeadId
        /\ ack["cacheable"].of # 0 =>
              rsb_waiting_ack /\ rsb # <<>> /\ ack["cacheable"].of = Head(rsb)

Pending(s) == \E k \in DOMAIN rsb : rsb[k] = s

\* A store is written once, however many cycles commit and the buffer look at it
\* again, and a device store traps exactly if its own write was refused.
WrittenOnce ==
    \A s \in DOMAIN stores :
        LET e == stores[s]
        IN /\ e.written <= 1
           /\ e.state = "retired" /\ ~Pending(s) =>
                 e.written = (IF e.kind \in {"memory", "clint"} THEN 1 ELSE 0)
           /\ e.state = "retired" => e.kind \in {"memory", "memory_hole", "clint"}
           /\ e.state = "trapped" => e.written = 0 /\ e.kind \in {"clint_refused", "hole"}

\* Memory is written in program order.
WriteOrder ==
    \A s, t \in DOMAIN stores :
        s < t /\ stores[s].kind = "memory" /\ stores[t].kind = "memory"
              /\ stores[t].written > 0 => stores[s].written > 0

\* The clock ticks, and memory performs every write.
Fairness == WF_vars(BusRun) /\ WF_vars(RsbRun) /\ WF_vars(MemorySilent)
            /\ WF_vars(CommitCacheable) /\ WF_vars(CommitSend) /\ WF_vars(CommitAcked)
            /\ WF_vars(CommitPause) /\ SF_vars(MemoryWrites)
LiveSpec == Spec /\ Fairness

\* Every store is finished: it retires or traps, and leaves the buffer.
StoresFinish ==
    \A s \in Ids : Len(stores) >= s
                   ~> (Len(stores) >= s /\ stores[s].state # "head" /\ ~Pending(s))
=============================================================================
