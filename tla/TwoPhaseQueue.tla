--------------------------- MODULE TwoPhaseQueue ---------------------------
(***************************************************************************)
(* What a clocked fifo of the cycle model promises its two users.          *)
(*                                                                         *)
(* The producer and the customer of a fifo are pipeline stages that run    *)
(* in the same clock cycle in a fixed order.  Whatever that order is, an   *)
(* element pushed in a cycle can be popped from the next cycle on, and the *)
(* room of an element popped in a cycle can be used from the next cycle    *)
(* on.  A recovery (flush or rollback) ends the use of the queue for the   *)
(* rest of the cycle.                                                      *)
(***************************************************************************)
EXTENDS Naturals, Sequences

CONSTANTS Size,         \* capacity
          Data,         \* elements
          NoData        \* what has been popped before the first pop

VARIABLES queue,        \* the elements, the oldest first
          fresh,        \* how many at the end were pushed in this cycle
          freed,        \* how many elements were popped in this cycle
          closed,       \* the queue was flushed or rolled back in this cycle
          out           \* the element popped last

vars == <<queue, fresh, freed, closed, out>>

Init == /\ queue = <<>>
        /\ fresh = 0
        /\ freed = 0
        /\ closed = FALSE
        /\ out = NoData

Push(d) == /\ ~closed
           /\ Len(queue) + freed < Size
           /\ queue' = Append(queue, d)
           /\ fresh' = fresh + 1
           /\ UNCHANGED <<freed, closed, out>>

Pop == /\ ~closed
       /\ Len(queue) > fresh
       /\ out' = Head(queue)
       /\ queue' = Tail(queue)
       /\ freed' = freed + 1
       /\ UNCHANGED <<fresh, closed>>

\* The youngest elements are dropped, all of them by a flush.
Rollback == /\ ~closed
            /\ \E n \in 0..(Len(queue) - fresh) : queue' = SubSeq(queue, 1, n)
            /\ fresh' = 0
            /\ freed' = 0
            /\ closed' = TRUE
            /\ UNCHANGED out

Sync == /\ fresh' = 0
        /\ freed' = 0
        /\ closed' = FALSE
        /\ UNCHANGED <<queue, out>>

Next == \/ \E d \in Data : Push(d)
        \/ Pop
        \/ Rollback
        \/ Sync

Spec == Init /\ [][Next]_vars
=============================================================================
