-------------------------------- MODULE Fifo --------------------------------
(***************************************************************************)
(* component/fifo.h: the circular buffer every queue of the core is built  *)
(* from (reorder buffer, free list, checkpoint buffer, load queue, store   *)
(* buffers, fetch and decode queues), with the flip-flops of component/    *)
(* dff.h it keeps its state in, and the age comparison of component/       *)
(* age_compare.h that reads its pointers.                                  *)
(*                                                                         *)
(* Every flip-flop has a current value, which get() reads, and a new       *)
(* value, which set() writes and get_new() reads; the end of the cycle     *)
(* copies new over current.  The producer sees (new wptr, current rptr),   *)
(* the customer (current wptr, new rptr).  A pointer is an index and a     *)
(* stage bit that toggles each time the index wraps.                       *)
(***************************************************************************)
EXTENDS Naturals, Sequences, Ring

CONSTANTS Size,         \* number of slots
          Data,         \* elements
          NoData        \* content of a slot never written

ASSUME SizeAssumption == Size \in Nat \ {0}
ASSUME DataAssumption == NoData \notin Data

VARIABLES cur,          \* current values of the four pointer flip-flops
          new,          \* their new values
          buffer,       \* current values of the slots
          buffer_new,   \* new values of the slots
          closed,       \* flushed or rolled back in this cycle
          out           \* the element the last pop returned

vars == <<cur, new, buffer, buffer_new, closed, out>>

Ids == 0..(Size - 1)
Stages == 0..1          \* the stage bit

Pointers == [wptr : Ids, wstage : Stages, rptr : Ids, rstage : Stages]

-----------------------------------------------------------------------------
(***************************************************************************)
(* Pointer arithmetic.                                                     *)
(***************************************************************************)

\* Faulty variant: the wrap one slot late.
NextIdLate(id) == IF id >= Size THEN 0 ELSE id + 1

\* The slot after id, and the stage bit there.
NextId(id) == IF id >= Size - 1 THEN 0 ELSE id + 1
NextStage(id, stage) == IF id >= Size - 1 THEN 1 - stage ELSE stage

\* Every view of the queue is a write pointer taken from one valuation of the
\* flip-flops (w) and a read pointer taken from another one (r).
IsEmpty(w, r) == w.wptr = r.rptr /\ w.wstage = r.rstage
IsFull(w, r) == w.wptr = r.rptr /\ w.wstage # r.rstage
\* Faulty variant: the full queue not treated apart.
UsedSpaceModulo(w, r) == (w.wptr + Size - r.rptr) % Size
UsedSpace(w, r) == IF IsFull(w, r) THEN Size
                   ELSE (w.wptr + Size - r.rptr) % Size

producer_is_empty == IsEmpty(new, cur)
customer_is_empty == IsEmpty(cur, new)
new_is_empty == IsEmpty(new, new)
\* Faulty variant: the producer may use slots freed in this cycle; or never looks.
producer_is_full_early == IsFull(new, new)
producer_is_full_never == FALSE
producer_is_full == IsFull(new, cur)
customer_is_full == IsFull(cur, new)
new_is_full == IsFull(new, new)

\* Faulty variant: the stage bits are not looked at.
CheckIdValidNoWrap(w, r, id) == r.rptr <= id /\ id < w.wptr

\* Whether slot id holds an element of the view.
CheckIdValid(w, r, id) ==
    /\ ~IsEmpty(w, r)
    /\ IF w.wstage = r.rstage
       THEN r.rptr <= id /\ id < w.wptr
       ELSE (r.rptr <= id /\ id < Size) \/ id < w.wptr

customer_check_id_valid(id) == CheckIdValid(cur, new, id)
producer_check_id_valid(id) == CheckIdValid(new, cur, id)

\* age_compare: is the element at index id1 with stage bit stage1 younger than
\* the one at id2, stage2?  (operator< of age_compare.h)
Younger(id1, stage1, id2, stage2) ==
    IF stage1 = stage2 THEN id1 > id2 ELSE id1 < id2

-----------------------------------------------------------------------------
Init == /\ cur = [wptr |-> 0, wstage |-> 0, rptr |-> 0, rstage |-> 0]
        /\ new = cur
        /\ buffer = [i \in Ids |-> NoData]
        /\ buffer_new = buffer
        /\ closed = FALSE
        /\ out = NoData

\* push(): refused, with no effect, when the producer sees a full queue.
Push(d) == /\ ~closed
           /\ ~producer_is_full
           /\ buffer_new' = [buffer_new EXCEPT ![new.wptr] = d]
           /\ new' = [new EXCEPT !.wptr = NextId(new.wptr),
                                 !.wstage = NextStage(new.wptr, new.wstage)]
           /\ UNCHANGED <<cur, buffer, closed, out>>

\* Faulty variant: pop reads at the current read pointer.
PopCurrent == /\ ~closed
              /\ ~customer_is_empty
              /\ out' = buffer[cur.rptr]
              /\ new' = [new EXCEPT !.rptr = NextId(new.rptr),
                                    !.rstage = NextStage(new.rptr, new.rstage)]
              /\ UNCHANGED <<cur, buffer, buffer_new, closed>>

\* pop(): refused, with no effect, when the customer sees an empty queue.  It
\* returns the current value of the slot, not the new one.
Pop == /\ ~closed
       /\ ~customer_is_empty
       /\ out' = buffer[new.rptr]
       /\ new' = [new EXCEPT !.rptr = NextId(new.rptr),
                             !.rstage = NextStage(new.rptr, new.rstage)]
       /\ UNCHANGED <<cur, buffer, buffer_new, closed>>

\* flush(): all four pointers go back to zero.  The mixed views are meaningless
\* until the next cycle; no stage uses the queue again before it.
Flush == /\ ~closed
         /\ new' = [wptr |-> 0, wstage |-> 0, rptr |-> 0, rstage |-> 0]
         /\ closed' = TRUE
         /\ UNCHANGED <<cur, buffer, buffer_new, out>>

\* update_wptr(): the recovery of a mispredicted branch moves the write pointer
\* back behind an element the customer still sees, or to the front.  Nothing
\* has been pushed in the cycle: rename runs last and stalls on a recovery.
UpdateWptr == /\ ~closed
              /\ new.wptr = cur.wptr /\ new.wstage = cur.wstage
              /\ \/ new' = [new EXCEPT !.wptr = new.rptr, !.wstage = new.rstage]
                 \/ \E id \in Ids :
                      /\ customer_check_id_valid(id)
                      /\ LET stage == IF id < new.rptr THEN 1 - new.rstage
                                      ELSE new.rstage
                         IN new' = [new EXCEPT !.wptr = NextId(id),
                                               !.wstage = NextStage(id, stage)]
              /\ closed' = TRUE
              /\ UNCHANGED <<cur, buffer, buffer_new, out>>

\* dff_base::sync_all() at the end of the cycle.
Sync == /\ cur' = new
        /\ buffer' = buffer_new
        /\ closed' = FALSE
        /\ UNCHANGED <<new, buffer_new, out>>

Next == \/ \E d \in Data : Push(d)
        \/ Pop
        \/ Flush
        \/ UpdateWptr
        \/ Sync

Spec == Init /\ [][Next]_vars

-----------------------------------------------------------------------------
(***************************************************************************)
(* Properties.                                                             *)
(***************************************************************************)

\* Type invariant: the pointers stay inside the buffer.
TypeOK == /\ cur \in Pointers
          /\ new \in Pointers
          /\ buffer \in [Ids -> Data \cup {NoData}]
          /\ buffer_new \in [Ids -> Data \cup {NoData}]
          /\ closed \in BOOLEAN
          /\ out \in Data \cup {NoData}

\* The distance from a read to a write pointer, when the write pointer is at
\* most one lap ahead: this is what the stage bits are for.
Ordered(w, r) == IF w.wstage = r.rstage THEN r.rptr <= w.wptr
                                        ELSE w.wptr <= r.rptr
Distance(w, r) == IF w.wstage = r.rstage THEN w.wptr - r.rptr
                                         ELSE Size + w.wptr - r.rptr

\* While the queue is in use every view (producer, customer, new, current)
\* has its write pointer at most one lap ahead of its read pointer, and the
\* views nest: a customer never sees more than the new view holds, which is
\* never more than what the producer reckons with.
ViewsNested ==
    /\ Ordered(new, new)
    /\ Ordered(cur, cur)
    /\ ~closed => /\ Ordered(new, cur)
                  /\ Ordered(cur, new)
                  /\ Distance(cur, new) <= Distance(new, new)
                  /\ Distance(new, new) <= Distance(new, cur)
                  /\ Distance(new, cur) =
                       Distance(cur, cur) + (Distance(new, new) - Distance(cur, new))

\* producer_get_used_space() and the two others, which compute modulo Size and
\* treat the full queue apart, count the elements between the two pointers.
UsedSpaceExact ==
    /\ UsedSpace(new, new) = Distance(new, new)
    /\ ~closed => /\ UsedSpace(cur, new) = Distance(cur, new)
                  /\ UsedSpace(new, cur) = Distance(new, cur)

\* The slot and the stage bit of the n-th element the customer sees, as
\* customer_foreach() walks them from the read pointer.
SlotOf(r, n) == IF r.rptr + n < Size THEN r.rptr + n ELSE r.rptr + n - Size
StageOf(r, n) == IF r.rptr + n < Size THEN r.rstage ELSE 1 - r.rstage

\* Age comparison on the index and stage bit alone agrees with the order of
\* insertion for any two elements of the queue, also when the queue has
\* wrapped around and when it is full.
AgeOrder ==
    \A m, n \in 0..(Size - 1) :
        (m < Distance(new, new) /\ n < Distance(new, new)) =>
            (Younger(SlotOf(new, m), StageOf(new, m),
                     SlotOf(new, n), StageOf(new, n)) <=> m > n)

\* customer_check_id_valid() accepts exactly the slots of the elements the
\* customer sees.
IdValidExact ==
    ~closed => \A id \in Ids :
        customer_check_id_valid(id) <=>
            \E n \in 0..(Size - 1) : n < Distance(cur, new) /\ id = SlotOf(new, n)

\* The single-number positions of Ring, which the other modules use, agree with
\* the index and stage bit: same distance, same slot, same age comparison.
RingExact ==
    LET w == RingPos(new.wptr, new.wstage, Size)
        r == RingPos(new.rptr, new.rstage, Size)
    IN  /\ RingCount(w, r, Size) = Distance(new, new)
        /\ \A m \in 0..(Size - 1) :
              RingAdd(r, m, Size) = RingPos(SlotOf(new, m), StageOf(new, m), Size)
        /\ \A m, n \in 0..(Size - 1) :
              RingYounger(RingAdd(r, m, Size), RingAdd(r, n, Size), Size) <=>
              Younger(SlotOf(new, m), StageOf(new, m), SlotOf(new, n), StageOf(new, n))

\* What a visible slot holds is settled: the value a pop returns is the value
\* that was pushed, whatever is pushed behind it in the same cycle.
VisibleSettled ==
    ~closed => \A id \in Ids :
        customer_check_id_valid(id) => buffer[id] = buffer_new[id]

-----------------------------------------------------------------------------
(***************************************************************************)
(* The fifo implements the two-phase queue.                                *)
(***************************************************************************)
Abstract == INSTANCE TwoPhaseQueue WITH
    queue <- [n \in 1..Distance(new, new) |-> buffer_new[SlotOf(new, n - 1)]],
    fresh <- IF closed THEN 0 ELSE Distance(new, new) - Distance(cur, new),
    freed <- IF closed THEN 0 ELSE Distance(cur, cur) - Distance(cur, new)

\* Elements come out in the order they went in, none lost, none twice, never
\* more than Size of them, whatever mix of pushes, pops, rollbacks and flushes
\* the stages make within a cycle.
ImplementsQueue == Abstract!Spec
=============================================================================
