-------------------------------- MODULE Ring --------------------------------
(***************************************************************************)
(* Positions in a circular buffer of n slots.  A pointer of component/     *)
(* fifo.h, an index below n and a stage bit that toggles on each wrap, is  *)
(* the position index + n * stage, a number below 2n.  Fifo shows that the *)
(* two agree.                                                              *)
(***************************************************************************)
EXTENDS Naturals

Positions(n) == 0..(2 * n - 1)

\* The position of an index and a stage bit, and the index of a position.
RingPos(id, stage, n) == id + n * stage
RingSlot(p, n) == IF p < n THEN p ELSE p - n

\* Faulty variant: the position is not wrapped.
RingNextUnwrapped(p, n) == p + 1

\* The position after p, and k positions after p.
RingNext(p, n) == IF p = 2 * n - 1 THEN 0 ELSE p + 1
RingAdd(p, k, n) == IF p + k < 2 * n THEN p + k ELSE p + k - 2 * n

\* How many elements lie between read position r and write position w.
RingCount(w, r, n) == IF w >= r THEN w - r ELSE w + 2 * n - r

RingFull(w, r, n) == RingCount(w, r, n) = n

\* Faulty variant: positions compared as plain numbers.
RingYoungerPlain(p, q, n) == p > q

\* operator< of age_compare.h: is p younger than q?
RingYounger(p, q, n) ==
    IF (p < n) <=> (q < n) THEN RingSlot(p, n) > RingSlot(q, n)
                           ELSE RingSlot(p, n) < RingSlot(q, n)
=============================================================================
