----------------------------- MODULE FifoProofs -----------------------------
(***************************************************************************)
(* Proofs about Fifo, for every size of the buffer.                        *)
(***************************************************************************)
EXTENDS Fifo, Integers, TLAPS

\* The inductive invariant: the pointers are well typed and the views nest.
IInv == TypeOK /\ ViewsNested

\* The effect of one increment of a pointer, without the IF of its definition.
LEMMA NextPointer ==
  ASSUME NEW id \in Ids, NEW s \in Stages
  PROVE  /\ NextId(id) \in Ids
         /\ NextStage(id, s) \in Stages
         /\ \/ NextId(id) = id + 1 /\ NextStage(id, s) = s
            \/ id = Size - 1 /\ NextId(id) = 0 /\ NextStage(id, s) = 1 - s
BY SizeAssumption DEF Ids, Stages, NextId, NextStage

-----------------------------------------------------------------------------
\* reset() establishes the invariant.
LEMMA InitInv == Init => IInv
<1> USE SizeAssumption
<1> SUFFICES ASSUME Init PROVE IInv
  OBVIOUS
<1>1. 0 \in Ids
  BY DEF Ids
<1>2. cur \in Pointers /\ new \in Pointers
  BY <1>1 DEF Init, Pointers, Stages
<1>3. TypeOK
  BY <1>2 DEF Init, TypeOK
<1>4. ViewsNested
  BY DEF Init, ViewsNested, Ordered, Distance
<1>5. QED
  BY <1>3, <1>4 DEF IInv

\* push() preserves it: the producer's view is not full before the step.
LEMMA PushInv == ASSUME IInv, NEW d \in Data, Push(d) PROVE IInv'
<1> USE SizeAssumption
<1> DEFINE i == NextId(new.wptr)
           s == NextStage(new.wptr, new.wstage)
<1>1. /\ cur \in Pointers /\ new \in Pointers
      /\ new.wptr \in Ids /\ new.wstage \in Stages
      /\ ViewsNested /\ ~closed /\ ~closed'
  BY DEF IInv, TypeOK, Push, Pointers
<1>2. /\ i \in Ids /\ s \in Stages
      /\ \/ i = new.wptr + 1 /\ s = new.wstage
         \/ new.wptr = Size - 1 /\ i = 0 /\ s = 1 - new.wstage
  BY <1>1, NextPointer, Zenon
<1>3. new' = [new EXCEPT !.wptr = i, !.wstage = s] /\ cur' = cur
  BY DEF Push
<1> HIDE DEF i, s
<1>4. /\ new' \in Pointers
      /\ new'.wptr = i /\ new'.wstage = s
      /\ new'.rptr = new.rptr /\ new'.rstage = new.rstage
  BY <1>1, <1>2, <1>3 DEF Pointers
<1>5. TypeOK'
  BY <1>3, <1>4 DEF IInv, TypeOK, Push
<1>6. ViewsNested'
  <2>1. ~(new.wptr = cur.rptr /\ new.wstage # cur.rstage)
    BY DEF Push, producer_is_full, IsFull
  <2>2. QED
    BY <1>1, <1>2, <1>3, <1>4, <2>1
    DEF ViewsNested, Pointers, Ids, Stages, Ordered, Distance
<1>7. QED
  BY <1>5, <1>6 DEF IInv

\* pop() preserves it: the customer's view is not empty before the step.
LEMMA PopInv == ASSUME IInv, Pop PROVE IInv'
<1> USE SizeAssumption
<1> DEFINE i == NextId(new.rptr)
           s == NextStage(new.rptr, new.rstage)
<1>1. /\ cur \in Pointers /\ new \in Pointers
      /\ new.rptr \in Ids /\ new.rstage \in Stages
      /\ ViewsNested /\ ~closed /\ ~closed'
  BY DEF IInv, TypeOK, Pop, Pointers
<1>2. /\ i \in Ids /\ s \in Stages
      /\ \/ i = new.rptr + 1 /\ s = new.rstage
         \/ new.rptr = Size - 1 /\ i = 0 /\ s = 1 - new.rstage
  BY <1>1, NextPointer, Zenon
<1>3. new' = [new EXCEPT !.rptr = i, !.rstage = s] /\ cur' = cur
  BY DEF Pop
<1> HIDE DEF i, s
<1>4. /\ new' \in Pointers
      /\ new'.rptr = i /\ new'.rstage = s
      /\ new'.wptr = new.wptr /\ new'.wstage = new.wstage
  BY <1>1, <1>2, <1>3 DEF Pointers
<1>5. TypeOK'
  BY <1>1, <1>3, <1>4 DEF IInv, TypeOK, Pop
<1>6. ViewsNested'
  <2>1. ~(cur.wptr = new.rptr /\ cur.wstage = new.rstage)
    BY DEF Pop, customer_is_empty, IsEmpty
  <2>2. Distance(cur, new) > 0 /\ Distance(new, new) > 0
    BY <1>1, <2>1 DEF ViewsNested, Pointers, Ids, Stages, Ordered, Distance
  <2>3. Ordered(new', new')
    BY <1>1, <1>2, <1>4, <2>2
    DEF ViewsNested, Pointers, Ids, Stages, Ordered, Distance
  <2>4. Ordered(cur', new')
    BY <1>1, <1>2, <1>3, <1>4, <2>2
    DEF ViewsNested, Pointers, Ids, Stages, Ordered, Distance
  <2>5. /\ Distance(new', new') = Distance(new, new) - 1
        /\ Distance(cur', new') = Distance(cur, new) - 1
    BY <1>1, <1>2, <1>3, <1>4, <2>1
    DEF ViewsNested, Pointers, Ids, Stages, Ordered, Distance
  <2>6. Distance(new', cur') = Distance(new, cur) /\ Ordered(new', cur')
    BY <1>1, <1>3, <1>4 DEF ViewsNested, Ordered, Distance
  <2>7. /\ Distance(new, new) \in Int /\ Distance(cur, new) \in Int
        /\ Distance(new, cur) \in Int /\ Distance(cur, cur) \in Int
    BY <1>1 DEF Pointers, Ids, Distance
  <2>8. QED
    BY <1>1, <1>3, <2>3, <2>4, <2>5, <2>6, <2>7 DEF ViewsNested
<1>7. QED
  BY <1>5, <1>6 DEF IInv

\* flush() preserves it: only the new view is still constrained.
LEMMA FlushInv == ASSUME IInv, Flush PROVE IInv'
<1> USE SizeAssumption
<1>1. /\ new' = [wptr |-> 0, wstage |-> 0, rptr |-> 0, rstage |-> 0]
      /\ cur' = cur /\ closed'
  BY DEF Flush
<1>2. new' \in Pointers
  BY <1>1 DEF Pointers, Ids, Stages
<1>3. TypeOK'
  BY <1>1, <1>2 DEF IInv, TypeOK, Flush
<1>4. ViewsNested'
  BY <1>1 DEF IInv, ViewsNested, Ordered, Distance
<1>5. QED
  BY <1>3, <1>4 DEF IInv

\* update_wptr() preserves it: the target is a position of the new view.
LEMMA UpdateWptrInv == ASSUME IInv, UpdateWptr PROVE IInv'
<1> USE SizeAssumption
<1>1. /\ cur \in Pointers /\ new \in Pointers
      /\ ViewsNested /\ ~closed /\ closed' /\ cur' = cur
      /\ new.wptr = cur.wptr /\ new.wstage = cur.wstage
  BY DEF IInv, TypeOK, UpdateWptr
<1>2. new' \in Pointers /\ Ordered(new', new')
  <2>1. CASE new' = [new EXCEPT !.wptr = new.rptr, !.wstage = new.rstage]
    <3>1. /\ new' \in Pointers
          /\ new'.wptr = new.rptr /\ new'.wstage = new.rstage
          /\ new'.rptr = new.rptr /\ new'.rstage = new.rstage
      BY <1>1, <2>1 DEF Pointers
    <3>2. QED
      BY <1>1, <3>1 DEF Pointers, Ids, Ordered
  <2>2. ASSUME NEW id \in Ids, customer_check_id_valid(id),
               NEW st \in Stages,
               st = IF id < new.rptr THEN 1 - new.rstage ELSE new.rstage,
               new' = [new EXCEPT !.wptr = NextId(id),
                                  !.wstage = NextStage(id, st)]
        PROVE  new' \in Pointers /\ Ordered(new', new')
    <3> DEFINE i == NextId(id)
               s == NextStage(id, st)
    <3>1. /\ i \in Ids /\ s \in Stages
          /\ \/ i = id + 1 /\ s = st
             \/ id = Size - 1 /\ i = 0 /\ s = 1 - st
      BY NextPointer, Zenon
    <3>2. new' = [new EXCEPT !.wptr = i, !.wstage = s]
      BY <2>2
    <3> HIDE DEF i, s
    <3>3. /\ new' \in Pointers
          /\ new'.wptr = i /\ new'.wstage = s
          /\ new'.rptr = new.rptr /\ new'.rstage = new.rstage
      BY <1>1, <3>1, <3>2 DEF Pointers
    <3>4. IF cur.wstage = new.rstage
          THEN new.rptr <= id /\ id < cur.wptr
          ELSE (new.rptr <= id /\ id < Size) \/ id < cur.wptr
      BY <2>2 DEF customer_check_id_valid, CheckIdValid
    <3>5. Ordered(new', new')
      BY <1>1, <2>2, <3>1, <3>3, <3>4
      DEF ViewsNested, Pointers, Ids, Stages, Ordered
    <3>6. QED
      BY <3>3, <3>5
  <2>3. QED
    <3>1. CASE \E id \in Ids :
                /\ customer_check_id_valid(id)
                /\ LET stage == IF id < new.rptr THEN 1 - new.rstage
                                ELSE new.rstage
                   IN new' = [new EXCEPT !.wptr = NextId(id),
                                         !.wstage = NextStage(id, stage)]
      <4> PICK id \in Ids :
                /\ customer_check_id_valid(id)
                /\ LET stage == IF id < new.rptr THEN 1 - new.rstage
                                ELSE new.rstage
                   IN new' = [new EXCEPT !.wptr = NextId(id),
                                         !.wstage = NextStage(id, stage)]
        BY <3>1
      <4> DEFINE st == IF id < new.rptr THEN 1 - new.rstage ELSE new.rstage
      <4>1. st \in Stages
        BY <1>1 DEF Pointers, Stages, Ids
      <4>2. QED
        BY <2>2, <4>1, Zenon
    <3>2. QED
      BY <2>1, <3>1 DEF UpdateWptr
<1>3. TypeOK'
  BY <1>1, <1>2 DEF IInv, TypeOK, UpdateWptr
<1>4. ViewsNested'
  BY <1>1, <1>2 DEF ViewsNested
<1>5. QED
  BY <1>3, <1>4 DEF IInv

\* The end of a cycle preserves it: all views become the new view.
LEMMA SyncInv == ASSUME IInv, Sync PROVE IInv'
<1>1. cur' = new /\ new' = new /\ new \in Pointers /\ Ordered(new, new)
  BY DEF IInv, TypeOK, ViewsNested, Sync
<1>2. TypeOK'
  BY <1>1 DEF IInv, TypeOK, Sync
<1>3. ViewsNested'
  BY <1>1, SizeAssumption DEF ViewsNested, Pointers, Ids, Stages, Ordered, Distance
<1>4. QED
  BY <1>2, <1>3 DEF IInv

\* The invariant is inductive.
LEMMA StepInv == IInv /\ [Next]_vars => IInv'
<1> SUFFICES ASSUME IInv, [Next]_vars PROVE IInv'
  OBVIOUS
<1>1. CASE \E d \in Data : Push(d)
  BY <1>1, PushInv
<1>2. CASE Pop
  BY <1>2, PopInv
<1>3. CASE Flush
  BY <1>3, FlushInv
<1>4. CASE UpdateWptr
  BY <1>4, UpdateWptrInv
<1>5. CASE Sync
  BY <1>5, SyncInv
<1>6. CASE UNCHANGED vars
  BY <1>6 DEF IInv, TypeOK, ViewsNested, Ordered, Distance, vars
<1>7. QED
  BY <1>1, <1>2, <1>3, <1>4, <1>5, <1>6 DEF Next

-----------------------------------------------------------------------------
\* Every index of every view stays inside the buffer, whatever the size.
THEOREM TypeCorrect == Spec => []TypeOK
<1>1. IInv => TypeOK
  BY DEF IInv
<1>2. QED
  BY InitInv, StepInv, <1>1, PTL DEF Spec

\* The views of the producer and of the customer nest, for every size.
THEOREM NestedViews == Spec => []ViewsNested
<1>1. IInv => ViewsNested
  BY DEF IInv
<1>2. QED
  BY InitInv, StepInv, <1>1, PTL DEF Spec

\* age_compare orders any two elements of a queue by age, for every size.
THEOREM AgeCorrect == Spec => []AgeOrder
<1>1. IInv => AgeOrder
  <2> SUFFICES ASSUME IInv,
                      NEW m \in 0..(Size - 1), NEW n \in 0..(Size - 1),
                      m < Distance(new, new), n < Distance(new, new)
               PROVE  Younger(SlotOf(new, m), StageOf(new, m),
                              SlotOf(new, n), StageOf(new, n)) <=> m > n
    BY DEF AgeOrder
  <2>1. new \in Pointers /\ Ordered(new, new)
    BY DEF IInv, TypeOK, ViewsNested
  <2>2. QED
    BY <2>1, SizeAssumption
    DEF Younger, SlotOf, StageOf, Pointers, Ids, Stages, Ordered, Distance
<1>2. QED
  BY InitInv, StepInv, <1>1, PTL DEF Spec

-----------------------------------------------------------------------------
\* customer_check_id_valid() is exact, for every size.
THEOREM IdValidCorrect == Spec => []IdValidExact
<1>1. IInv => IdValidExact
  <2> SUFFICES ASSUME IInv, ~closed, NEW id \in Ids
               PROVE  customer_check_id_valid(id) <=>
                      \E n \in 0..(Size - 1) :
                          n < Distance(cur, new) /\ id = SlotOf(new, n)
    BY DEF IdValidExact
  <2>1. cur \in Pointers /\ new \in Pointers /\ Ordered(cur, new)
    BY DEF IInv, TypeOK, ViewsNested
  <2>2. ASSUME customer_check_id_valid(id)
        PROVE  \E n \in 0..(Size - 1) :
                   n < Distance(cur, new) /\ id = SlotOf(new, n)
    <3> DEFINE n == IF id >= new.rptr THEN id - new.rptr ELSE Size + id - new.rptr
    <3>1. n \in 0..(Size - 1) /\ n < Distance(cur, new) /\ id = SlotOf(new, n)
      BY <2>1, <2>2, SizeAssumption
      DEF customer_check_id_valid, CheckIdValid, IsEmpty, SlotOf, Pointers, Ids,
          Stages, Ordered, Distance
    <3>2. QED
      BY <3>1
  <2>3. ASSUME NEW n \in 0..(Size - 1), n < Distance(cur, new), id = SlotOf(new, n)
        PROVE  customer_check_id_valid(id)
    BY <2>1, <2>3, SizeAssumption
    DEF customer_check_id_valid, CheckIdValid, IsEmpty, SlotOf, Pointers, Ids,
        Stages, Ordered, Distance
  <2>4. QED
    BY <2>2, <2>3
<1>2. QED
  BY InitInv, StepInv, <1>1, PTL DEF Spec

\* The used space the free list and the decode stage rely on is the number of
\* elements, for every size.
THEOREM UsedSpaceCorrect == Spec => []UsedSpaceExact
<1>1. ASSUME NEW w \in Pointers, NEW r \in Pointers, Ordered(w, r)
      PROVE  UsedSpace(w, r) = Distance(w, r)
  <2>1. CASE IsFull(w, r)
    BY <1>1, <2>1, SizeAssumption DEF UsedSpace, IsFull, Distance, Pointers, Ids
  <2>2. CASE ~IsFull(w, r)
    <3>1. /\ w.wptr \in Int /\ r.rptr \in Int
          /\ Distance(w, r) \in 0..(Size - 1)
          /\ \/ w.wptr + Size - r.rptr = Distance(w, r)
             \/ w.wptr + Size - r.rptr = Distance(w, r) + Size
      BY <1>1, <2>2, SizeAssumption
      DEF IsFull, Distance, Ordered, Pointers, Ids, Stages
    <3>2. \A k \in 0..(Size - 1) : k % Size = k /\ (k + Size) % Size = k
      BY SizeAssumption
    <3>3. QED
      BY <2>2, <3>1, <3>2 DEF UsedSpace
  <2>3. QED
    BY <2>1, <2>2
<1>2. IInv => UsedSpaceExact
  BY <1>1 DEF IInv, TypeOK, ViewsNested, UsedSpaceExact
<1>3. QED
  BY InitInv, StepInv, <1>2, PTL DEF Spec

-----------------------------------------------------------------------------
\* A push never writes a slot the customer can still read.
LEMMA PushFreshSlot ==
  ASSUME IInv, ~closed, ~producer_is_full
  PROVE  ~customer_check_id_valid(new.wptr)
<1>1. cur \in Pointers /\ new \in Pointers /\ ViewsNested
  BY DEF IInv, TypeOK
<1>2. ~(new.wptr = cur.rptr /\ new.wstage # cur.rstage)
  BY DEF producer_is_full, IsFull
<1>3. Distance(new, cur) < Size
  BY <1>1, <1>2, SizeAssumption
  DEF ViewsNested, Pointers, Ids, Stages, Ordered, Distance
<1>4. Distance(new, new) < Size
  BY <1>1, <1>3, SizeAssumption DEF ViewsNested, Pointers, Ids, Distance
<1>5. QED
  BY <1>1, <1>4, SizeAssumption
  DEF customer_check_id_valid, CheckIdValid, IsEmpty, ViewsNested, Pointers, Ids,
      Stages, Ordered, Distance

\* With the settled slots the invariant is still inductive.
SInv == IInv /\ VisibleSettled

\* reset() establishes the stronger invariant: no slot is visible.
LEMMA InitSettled == Init => SInv
BY InitInv DEF Init, SInv, VisibleSettled

\* Every operation preserves it: a push writes no visible slot, a pop shows no
\* new one, and the end of the cycle copies every slot.
LEMMA StepSettled == SInv /\ [Next]_vars => SInv'
<1> SUFFICES ASSUME SInv, [Next]_vars, IInv, VisibleSettled PROVE VisibleSettled'
  BY StepInv DEF SInv
<1>1. ASSUME NEW d \in Data, Push(d) PROVE VisibleSettled'
  <2>1. ~closed /\ ~producer_is_full /\ cur' = cur /\ buffer' = buffer
    BY <1>1 DEF Push
  <2>2. new'.rptr = new.rptr /\ new'.rstage = new.rstage
    BY <1>1 DEF Push, IInv, TypeOK, Pointers
  <2>3. \A id \in Ids : customer_check_id_valid(id)' <=> customer_check_id_valid(id)
    BY <2>1, <2>2 DEF customer_check_id_valid, CheckIdValid, IsEmpty
  <2>4. \A id \in Ids : id # new.wptr => buffer_new'[id] = buffer_new[id]
    BY <1>1 DEF Push, IInv, TypeOK
  <2>5. QED
    BY <2>1, <2>3, <2>4, PushFreshSlot DEF VisibleSettled
<1>2. CASE Pop
  <2>1. /\ ~closed /\ cur' = cur /\ buffer' = buffer /\ buffer_new' = buffer_new
        /\ ~IsEmpty(cur, new)
    BY <1>2 DEF Pop, customer_is_empty
  <2>2. /\ cur \in Pointers /\ new \in Pointers /\ new' \in Pointers
        /\ new.rptr \in Ids /\ new.rstage \in Stages
        /\ Ordered(cur, new) /\ Ordered(cur', new')
    BY <1>2, <2>1, PopInv DEF Pop, IInv, TypeOK, ViewsNested, Pointers
  <2>3. \/ new'.rptr = new.rptr + 1 /\ new'.rstage = new.rstage
        \/ new.rptr = Size - 1 /\ new'.rptr = 0 /\ new'.rstage = 1 - new.rstage
    <3>1. new'.rptr = NextId(new.rptr) /\ new'.rstage = NextStage(new.rptr, new.rstage)
      BY <1>2, <2>2 DEF Pop, Pointers
    <3>2. QED
      BY <2>2, <3>1, NextPointer, Zenon
  <2>4. ASSUME NEW id \in Ids, customer_check_id_valid(id)'
        PROVE  customer_check_id_valid(id)
    BY <2>1, <2>2, <2>3, <2>4, SizeAssumption
    DEF customer_check_id_valid, CheckIdValid, IsEmpty, Pointers, Ids, Stages, Ordered
  <2>5. QED
    BY <2>1, <2>4 DEF VisibleSettled
<1>3. CASE Flush
  BY <1>3 DEF Flush, VisibleSettled
<1>4. CASE UpdateWptr
  BY <1>4 DEF UpdateWptr, VisibleSettled
<1>5. CASE Sync
  BY <1>5 DEF Sync, VisibleSettled
<1>6. CASE UNCHANGED vars
  BY <1>6 DEF vars, VisibleSettled, customer_check_id_valid, CheckIdValid, IsEmpty
<1>7. QED
  BY <1>1, <1>2, <1>3, <1>4, <1>5, <1>6 DEF Next

\* What the customer can pop is settled at the start of the cycle, for every
\* size and every mix of operations.
THEOREM SettledCorrect == Spec => []VisibleSettled
<1>1. SInv => VisibleSettled
  BY DEF SInv
<1>2. QED
  BY <1>1, InitSettled, StepSettled, PTL DEF Spec

-----------------------------------------------------------------------------
\* The position of a pointer, without the product of its definition.
LEMMA Position ==
  ASSUME NEW id \in Ids, NEW s \in Stages
  PROVE  RingPos(id, s, Size) = IF s = 0 THEN id ELSE id + Size
BY SizeAssumption DEF Ids, Stages, RingPos

\* Positions are compared by age as the index and the stage bit they encode.
LEMMA PositionAge ==
  ASSUME NEW id1 \in Ids, NEW s1 \in Stages, NEW id2 \in Ids, NEW s2 \in Stages
  PROVE  RingYounger(RingPos(id1, s1, Size), RingPos(id2, s2, Size), Size) <=>
         Younger(id1, s1, id2, s2)
<1> DEFINE p == RingPos(id1, s1, Size)
           q == RingPos(id2, s2, Size)
<1>1. /\ p = IF s1 = 0 THEN id1 ELSE id1 + Size
      /\ q = IF s2 = 0 THEN id2 ELSE id2 + Size
  BY Position
<1> HIDE DEF p, q
<1>2. /\ RingSlot(p, Size) = id1 /\ (p < Size <=> s1 = 0)
      /\ RingSlot(q, Size) = id2 /\ (q < Size <=> s2 = 0)
  BY <1>1, SizeAssumption DEF RingSlot, Ids, Stages
<1>3. RingYounger(p, q, Size) <=> Younger(id1, s1, id2, s2)
  BY <1>2 DEF RingYounger, Younger, Stages
<1>4. QED
  BY <1>3 DEF p, q

\* The single-number positions the modules built on Ring use stand for the
\* pointers of fifo.h, for every size: what those modules conclude from counts
\* and ages of positions is what the code computes from index and stage bit.
THEOREM RingCorrect == Spec => []RingExact
<1>1. IInv => RingExact
  <2> SUFFICES ASSUME IInv PROVE RingExact
    OBVIOUS
  <2> DEFINE w == RingPos(new.wptr, new.wstage, Size)
             r == RingPos(new.rptr, new.rstage, Size)
  <2>1. /\ new.wptr \in Ids /\ new.wstage \in Stages
        /\ new.rptr \in Ids /\ new.rstage \in Stages
        /\ Ordered(new, new)
    BY DEF IInv, TypeOK, ViewsNested, Pointers
  <2>2. /\ w = IF new.wstage = 0 THEN new.wptr ELSE new.wptr + Size
        /\ r = IF new.rstage = 0 THEN new.rptr ELSE new.rptr + Size
    BY <2>1, Position
  <2> HIDE DEF w, r
  <2>3. RingCount(w, r, Size) = Distance(new, new)
    BY <2>1, <2>2, SizeAssumption DEF RingCount, Distance, Ordered, Ids, Stages
  <2>4. ASSUME NEW m \in 0..(Size - 1)
        PROVE  /\ SlotOf(new, m) \in Ids /\ StageOf(new, m) \in Stages
               /\ RingAdd(r, m, Size) = RingPos(SlotOf(new, m), StageOf(new, m), Size)
    <3>1. SlotOf(new, m) \in Ids /\ StageOf(new, m) \in Stages
      BY <2>1, SizeAssumption DEF SlotOf, StageOf, Ids, Stages
    <3>2. RingPos(SlotOf(new, m), StageOf(new, m), Size) =
            IF StageOf(new, m) = 0 THEN SlotOf(new, m) ELSE SlotOf(new, m) + Size
      BY <3>1, Position
    <3>3. RingAdd(r, m, Size) =
            IF StageOf(new, m) = 0 THEN SlotOf(new, m) ELSE SlotOf(new, m) + Size
      BY <2>1, <2>2, SizeAssumption DEF RingAdd, SlotOf, StageOf, Ids, Stages
    <3>4. QED
      BY <3>1, <3>2, <3>3
  <2>5. ASSUME NEW m \in 0..(Size - 1), NEW n \in 0..(Size - 1)
        PROVE  RingYounger(RingAdd(r, m, Size), RingAdd(r, n, Size), Size) <=>
               Younger(SlotOf(new, m), StageOf(new, m), SlotOf(new, n), StageOf(new, n))
    BY <2>4, PositionAge, Zenon
  <2>6. QED
    BY <2>3, <2>4, <2>5, Zenon DEF RingExact, w, r
<1>2. QED
  BY InitInv, StepInv, <1>1, PTL DEF Spec

-----------------------------------------------------------------------------
(***************************************************************************)
(* The refinement: the contents of the new view are the abstract queue.    *)
(***************************************************************************)

\* The elements between the two pointers of p, as slots b hold them.
Contents(p, b) == [n \in 1..Distance(p, p) |-> b[SlotOf(p, n - 1)]]

\* A view that is at most one lap long has one element per slot it covers.
LEMMA ContentsType ==
  ASSUME NEW S, NEW p \in Pointers, Ordered(p, p), NEW b \in [Ids -> S]
  PROVE  /\ Distance(p, p) \in 0..Size
         /\ \A n \in 0..(Distance(p, p) - 1) : SlotOf(p, n) \in Ids
         /\ Contents(p, b) \in Seq(S)
         /\ Len(Contents(p, b)) = Distance(p, p)
<1> USE SizeAssumption
<1>1. Distance(p, p) \in 0..Size
  BY DEF Pointers, Ids, Stages, Ordered, Distance
<1>2. \A n \in 0..(Distance(p, p) - 1) : SlotOf(p, n) \in Ids
  BY <1>1 DEF Pointers, Ids, SlotOf
<1>3. \A n \in 1..Distance(p, p) : b[SlotOf(p, n - 1)] \in S
  <2> SUFFICES ASSUME NEW n \in 1..Distance(p, p) PROVE b[SlotOf(p, n - 1)] \in S
    OBVIOUS
  <2>1. n - 1 \in 0..(Distance(p, p) - 1)
    BY <1>1
  <2>2. QED
    BY <1>2, <2>1
<1>4. Contents(p, b) \in [1..Distance(p, p) -> S]
  BY <1>3, Zenon DEF Contents
<1>5. QED
  BY <1>1, <1>2, <1>4

\* Two sequences are equal when their lengths and their elements are.
LEMMA SameSequence ==
  ASSUME NEW S, NEW s \in Seq(S), NEW t \in Seq(S), Len(s) = Len(t),
         \A i \in 1..Len(s) : s[i] = t[i]
  PROVE  s = t
OBVIOUS

\* push() puts the element behind the youngest one.
LEMMA PushContents ==
  ASSUME IInv, NEW d \in Data, Push(d)
  PROVE  Contents(new', buffer_new') = Append(Contents(new, buffer_new), d)
<1> USE SizeAssumption
<1> DEFINE S == Data \cup {NoData}
           n == Distance(new, new)
<1>1. /\ new \in Pointers /\ new' \in Pointers /\ Ordered(new, new) /\ Ordered(new', new')
      /\ buffer_new \in [Ids -> S] /\ buffer_new' \in [Ids -> S]
      /\ cur \in Pointers /\ ViewsNested /\ ~closed
  BY PushInv DEF IInv, TypeOK, ViewsNested, Push
<1>2. /\ new'.rptr = new.rptr /\ new'.rstage = new.rstage
      /\ \/ new'.wptr = new.wptr + 1 /\ new'.wstage = new.wstage
         \/ new.wptr = Size - 1 /\ new'.wptr = 0 /\ new'.wstage = 1 - new.wstage
  <2>1. new.wptr \in Ids /\ new.wstage \in Stages
    BY <1>1 DEF Pointers
  <2>2. /\ new'.rptr = new.rptr /\ new'.rstage = new.rstage
        /\ new'.wptr = NextId(new.wptr) /\ new'.wstage = NextStage(new.wptr, new.wstage)
    BY <1>1 DEF Push, Pointers
  <2>3. QED
    BY <2>1, <2>2, NextPointer, Zenon
<1>3. n < Size
  <2>1. ~(new.wptr = cur.rptr /\ new.wstage # cur.rstage)
    BY DEF Push, producer_is_full, IsFull
  <2>2. Distance(new, cur) < Size
    BY <1>1, <2>1 DEF ViewsNested, Pointers, Ids, Stages, Ordered, Distance
  <2>3. QED
    BY <1>1, <2>2 DEF ViewsNested, Pointers, Ids, Distance
<1>4. Distance(new', new') = n + 1 /\ n \in 0..(Size - 1)
  BY <1>1, <1>2, <1>3 DEF Pointers, Ids, Stages, Ordered, Distance
<1>5. \A k \in 0..n : SlotOf(new', k) = SlotOf(new, k)
  BY <1>2 DEF SlotOf
<1>6. SlotOf(new, n) = new.wptr
  BY <1>1, <1>3 DEF SlotOf, Pointers, Ids, Stages, Ordered, Distance
<1>7. \A k \in 0..(n - 1) : SlotOf(new, k) \in Ids /\ SlotOf(new, k) # new.wptr
  <2> SUFFICES ASSUME NEW k \in 0..(n - 1)
               PROVE  SlotOf(new, k) \in Ids /\ SlotOf(new, k) # new.wptr
    OBVIOUS
  <2>1. CASE new.wstage = new.rstage
    BY <1>1, <1>3, <2>1 DEF SlotOf, Pointers, Ids, Ordered, Distance
  <2>2. CASE new.wstage # new.rstage
    BY <1>1, <1>3, <2>2 DEF SlotOf, Pointers, Ids, Ordered, Distance
  <2>3. QED
    BY <2>1, <2>2
<1>8. /\ buffer_new'[new.wptr] = d
      /\ \A i \in Ids : i # new.wptr => buffer_new'[i] = buffer_new[i]
  BY <1>1 DEF Push, Pointers
<1> DEFINE s == Contents(new, buffer_new)
           t == Contents(new', buffer_new')
<1>9. s \in Seq(S) /\ Len(s) = n /\ t \in Seq(S) /\ Len(t) = n + 1
  BY <1>1, <1>4, ContentsType, Zenon
<1>10. ASSUME NEW i \in 1..n PROVE t[i] = s[i]
  <2>1. i - 1 \in 0..(n - 1) /\ i - 1 \in 0..n /\ i \in 1..(n + 1)
    BY <1>4
  <2>2. t[i] = buffer_new'[SlotOf(new', i - 1)] /\ s[i] = buffer_new[SlotOf(new, i - 1)]
    BY <2>1, <1>4 DEF Contents
  <2>3. QED
    BY <2>1, <2>2, <1>5, <1>7, <1>8, Zenon
<1>11. t[n + 1] = d
  <2>1. n + 1 \in 1..(n + 1) /\ (n + 1) - 1 = n /\ n \in 0..n
    BY <1>4
  <2>2. t[n + 1] = buffer_new'[SlotOf(new', n)]
    BY <2>1, <1>4 DEF Contents
  <2>3. QED
    BY <2>1, <2>2, <1>5, <1>6, <1>8
<1> HIDE DEF s, t, n
<1>12. t = Append(s, d)
  BY <1>4, <1>9, <1>10, <1>11
<1>13. QED
  BY <1>12 DEF s, t

\* pop() takes the oldest element, whose slot is settled.
LEMMA PopContents ==
  ASSUME SInv, Pop
  PROVE  /\ Contents(new, buffer_new) # <<>>
         /\ out' = Head(Contents(new, buffer_new))
         /\ Contents(new', buffer_new') = Tail(Contents(new, buffer_new))
         /\ Distance(cur, new) > 0
         /\ Distance(new', new') = Distance(new, new) - 1
         /\ Distance(cur', new') = Distance(cur, new) - 1
         /\ Distance(cur', cur') = Distance(cur, cur)
<1> USE SizeAssumption
<1> DEFINE S == Data \cup {NoData}
           n == Distance(new, new)
<1>1. /\ new \in Pointers /\ new' \in Pointers /\ Ordered(new, new) /\ Ordered(new', new')
      /\ buffer_new \in [Ids -> S] /\ buffer_new' = buffer_new
      /\ cur \in Pointers /\ cur' = cur /\ ~closed
      /\ Ordered(cur, new) /\ Ordered(cur', new') /\ Distance(cur, new) <= n
  BY PopInv DEF SInv, IInv, TypeOK, ViewsNested, Pop
<1>2. /\ new'.wptr = new.wptr /\ new'.wstage = new.wstage
      /\ \/ new'.rptr = new.rptr + 1 /\ new'.rstage = new.rstage
         \/ new.rptr = Size - 1 /\ new'.rptr = 0 /\ new'.rstage = 1 - new.rstage
  <2>1. new.rptr \in Ids /\ new.rstage \in Stages
    BY <1>1 DEF Pointers
  <2>2. /\ new'.wptr = new.wptr /\ new'.wstage = new.wstage
        /\ new'.rptr = NextId(new.rptr) /\ new'.rstage = NextStage(new.rptr, new.rstage)
    BY <1>1 DEF Pop, Pointers
  <2>3. QED
    BY <2>1, <2>2, NextPointer, Zenon
<1>3. Distance(cur, new) > 0 /\ customer_check_id_valid(new.rptr)
  <2>1. ~(cur.wptr = new.rptr /\ cur.wstage = new.rstage) /\ ~IsEmpty(cur, new)
    BY DEF Pop, customer_is_empty, IsEmpty
  <2>2. Distance(cur, new) > 0
    BY <1>1, <2>1 DEF Pointers, Ids, Stages, Ordered, Distance
  <2>3. customer_check_id_valid(new.rptr)
    BY <1>1, <2>1 DEF Pointers, Ids, Ordered, customer_check_id_valid, CheckIdValid
  <2>4. QED
    BY <2>2, <2>3
<1>4. n \in 1..Size
  BY <1>1, <1>3 DEF Pointers, Ids, Stages, Ordered, Distance
<1>5. /\ Distance(new', new') = n - 1 /\ Distance(cur', new') = Distance(cur, new) - 1
      /\ Distance(cur', cur') = Distance(cur, cur)
  <2>1. Distance(new', new') = n - 1
    BY <1>1, <1>2, <1>4 DEF Pointers, Ids, Stages, Ordered, Distance
  <2>2. Distance(cur', new') = Distance(cur, new) - 1
    <3>1. /\ cur' = cur /\ cur \in Pointers /\ new \in Pointers /\ new' \in Pointers
          /\ Ordered(cur, new) /\ Ordered(cur, new')
          /\ ~(cur.wptr = new.rptr /\ cur.wstage = new.rstage)
      BY <1>1 DEF Pop, customer_is_empty, IsEmpty
    <3>2. QED
      BY <1>2, <3>1 DEF Pointers, Ids, Stages, Ordered, Distance
  <2>3. QED
    BY <1>1, <2>1, <2>2
<1>6. \A k \in 0..(n - 2) : SlotOf(new', k) = SlotOf(new, k + 1)
  BY <1>1, <1>2, <1>4 DEF SlotOf, Pointers, Ids
<1>7. SlotOf(new, 0) = new.rptr /\ new.rptr \in Ids
  BY <1>1 DEF SlotOf, Pointers, Ids
<1>8. out' = buffer_new[new.rptr]
  BY <1>1, <1>3, <1>7 DEF Pop, SInv, VisibleSettled
<1> DEFINE s == Contents(new, buffer_new)
           t == Contents(new', buffer_new')
<1>9. s \in Seq(S) /\ Len(s) = n /\ t \in Seq(S) /\ Len(t) = n - 1
  BY <1>1, <1>5, ContentsType, Zenon
<1>10. ASSUME NEW i \in 1..(n - 1) PROVE t[i] = s[i + 1]
  <2>1. i - 1 \in 0..(n - 2) /\ i + 1 \in 1..n /\ (i - 1) + 1 = i /\ (i + 1) - 1 = i
    BY <1>4
  <2>2. t[i] = buffer_new'[SlotOf(new', i - 1)] /\ s[i + 1] = buffer_new[SlotOf(new, i)]
    BY <2>1, <1>5 DEF Contents
  <2>3. SlotOf(new', i - 1) = SlotOf(new, i)
    BY <2>1, <1>6
  <2>4. QED
    BY <1>1, <2>2, <2>3
<1>11. s[1] = buffer_new[new.rptr]
  <2>1. 1 \in 1..n /\ 1 - 1 = 0
    BY <1>4
  <2>2. QED
    BY <2>1, <1>7 DEF Contents
<1> HIDE DEF s, t, n
<1>12. t = Tail(s) /\ s # <<>> /\ Head(s) = out'
  BY <1>4, <1>8, <1>9, <1>10, <1>11
<1>13. QED
  BY <1>3, <1>5, <1>12 DEF s, t, n

\* A step that moves the write pointer of the new view back to where n elements
\* are left drops the youngest ones and keeps the others.
LEMMA CutContents ==
  ASSUME NEW S, NEW p \in Pointers, NEW q \in Pointers, NEW b \in [Ids -> S],
         Ordered(p, p), Ordered(q, q), q.rptr = p.rptr,
         Distance(q, q) <= Distance(p, p)
  PROVE  Contents(q, b) = SubSeq(Contents(p, b), 1, Distance(q, q))
<1> DEFINE s == Contents(p, b)
           t == Contents(q, b)
           m == Distance(p, p)
           n == Distance(q, q)
<1>1. s \in Seq(S) /\ Len(s) = m /\ m \in Nat /\ t \in Seq(S) /\ Len(t) = n /\ n \in Nat
  <2>1. s \in Seq(S) /\ Len(s) = m /\ m \in 0..Size
    BY ContentsType, Zenon
  <2>2. t \in Seq(S) /\ Len(t) = n /\ n \in 0..Size
    BY ContentsType, Zenon
  <2>3. QED
    BY <2>1, <2>2, SizeAssumption
<1>2. ASSUME NEW i \in 1..n PROVE t[i] = s[i]
  BY <1>1 DEF Contents, SlotOf
<1> HIDE DEF s, t, m, n
<1>3. n <= m
  BY DEF m, n
<1>4. t = SubSeq(s, 1, n)
  BY <1>1, <1>2, <1>3
<1>5. QED
  BY <1>4 DEF s, t, m, n

\* flush() and update_wptr() leave a front part of what the customer sees.
LEMMA RecoveryContents ==
  ASSUME IInv, Flush \/ UpdateWptr
  PROVE  \E n \in 0..Distance(cur, new) :
            Contents(new', buffer_new') = SubSeq(Contents(new, buffer_new), 1, n)
<1> USE SizeAssumption
<1> DEFINE S == Data \cup {NoData}
<1>1. /\ new \in Pointers /\ new' \in Pointers /\ Ordered(new, new) /\ Ordered(new', new')
      /\ buffer_new \in [Ids -> S] /\ buffer_new' = buffer_new
      /\ cur \in Pointers /\ ~closed
      /\ Ordered(cur, new) /\ Distance(cur, new) <= Distance(new, new)
  BY FlushInv, UpdateWptrInv DEF IInv, TypeOK, ViewsNested, Flush, UpdateWptr
<1>2. Distance(cur, new) \in Nat /\ Distance(new, new) \in Nat
  BY <1>1 DEF Pointers, Ids, Stages, Ordered, Distance
<1>3. CASE Flush
  <2>1. Distance(new', new') = 0
    BY <1>3 DEF Flush, Distance
  <2>2. Contents(new', buffer_new') = <<>>
    BY <2>1 DEF Contents
  <2>3. Contents(new, buffer_new) \in Seq(S)
    BY <1>1, ContentsType, Zenon
  <2>4. SubSeq(Contents(new, buffer_new), 1, 0) = <<>>
    BY <2>3
  <2>5. 0 \in 0..Distance(cur, new)
    BY <1>2
  <2>6. QED
    BY <2>2, <2>4, <2>5
<1>4. CASE UpdateWptr
  <2>1. /\ new'.rptr = new.rptr /\ new'.rstage = new.rstage
        /\ new.wptr = cur.wptr /\ new.wstage = cur.wstage
    BY <1>1, <1>4 DEF UpdateWptr, Pointers
  <2>2. Distance(new', new') \in 0..Distance(cur, new)
    <3>1. CASE new' = [new EXCEPT !.wptr = new.rptr, !.wstage = new.rstage]
      <4>1. new'.wptr = new.rptr /\ new'.wstage = new.rstage
        BY <1>1, <3>1 DEF Pointers
      <4>2. Distance(new', new') = 0
        BY <1>1, <2>1, <4>1 DEF Pointers, Ids, Distance
      <4>3. QED
        BY <1>2, <4>2
    <3>2. ASSUME NEW id \in Ids, customer_check_id_valid(id),
                 NEW st \in Stages,
                 st = IF id < new.rptr THEN 1 - new.rstage ELSE new.rstage,
                 new'.wptr = NextId(id), new'.wstage = NextStage(id, st)
          PROVE  Distance(new', new') \in 0..Distance(cur, new)
      <4>1. \/ new'.wptr = id + 1 /\ new'.wstage = st
            \/ id = Size - 1 /\ new'.wptr = 0 /\ new'.wstage = 1 - st
        BY <3>2, NextPointer, Zenon
      <4>2. IF cur.wstage = new.rstage
            THEN new.rptr <= id /\ id < cur.wptr
            ELSE (new.rptr <= id /\ id < Size) \/ id < cur.wptr
        BY <3>2 DEF customer_check_id_valid, CheckIdValid
      <4>3. CASE new'.wptr = id + 1 /\ new'.wstage = st
        BY <1>1, <2>1, <3>2, <4>2, <4>3 DEF Pointers, Ids, Stages, Ordered, Distance
      <4>4. CASE id = Size - 1 /\ new'.wptr = 0 /\ new'.wstage = 1 - st
        BY <1>1, <2>1, <3>2, <4>2, <4>4 DEF Pointers, Ids, Stages, Ordered, Distance
      <4>5. QED
        BY <4>1, <4>3, <4>4
    <3>3. CASE \E id \in Ids :
                /\ customer_check_id_valid(id)
                /\ LET stage == IF id < new.rptr THEN 1 - new.rstage
                                ELSE new.rstage
                   IN new' = [new EXCEPT !.wptr = NextId(id),
                                         !.wstage = NextStage(id, stage)]
      <4> PICK id \in Ids :
                /\ customer_check_id_valid(id)
                /\ LET stage == IF id < new.rptr THEN 1 - new.rstage
                                ELSE new.rstage
                   IN new' = [new EXCEPT !.wptr = NextId(id),
                                         !.wstage = NextStage(id, stage)]
        BY <3>3
      <4> DEFINE st == IF id < new.rptr THEN 1 - new.rstage ELSE new.rstage
      <4>1. st \in Stages
        BY <1>1 DEF Pointers, Stages, Ids
      <4>2. new' = [new EXCEPT !.wptr = NextId(id), !.wstage = NextStage(id, st)]
        OBVIOUS
      <4> HIDE DEF st
      <4>3. new'.wptr = NextId(id) /\ new'.wstage = NextStage(id, st)
        BY <1>1, <4>2 DEF Pointers
      <4>4. st = IF id < new.rptr THEN 1 - new.rstage ELSE new.rstage
        BY DEF st
      <4>5. QED
        BY <3>2, <4>1, <4>3, <4>4, Zenon
    <3>4. QED
      BY <1>4, <3>1, <3>3 DEF UpdateWptr
  <2>3. Distance(new', new') <= Distance(new, new)
    BY <1>1, <1>2, <2>2
  <2>4. Contents(new', buffer_new') = SubSeq(Contents(new, buffer_new), 1, Distance(new', new'))
    BY <1>1, <2>1, <2>3, CutContents, Zenon
  <2>5. QED
    BY <2>2, <2>4
<1>5. QED
  BY <1>3, <1>4

\* reset() gives an empty queue.
LEMMA InitAbstract == Init => Abstract!Init
<1> SUFFICES ASSUME Init PROVE Abstract!Init
  OBVIOUS
<1>1. Distance(new, new) = 0 /\ Distance(cur, new) = 0 /\ Distance(cur, cur) = 0
  BY DEF Init, Distance
<1>2. [n \in 1..Distance(new, new) |-> buffer_new[SlotOf(new, n - 1)]] = <<>>
  BY <1>1
<1>3. QED
  BY <1>1, <1>2 DEF Init, Abstract!Init

\* Every operation of the fifo is a step of the two-phase queue.
LEMMA StepAbstract == SInv /\ [Next]_vars => [Abstract!Next]_(Abstract!vars)
<1> USE SizeAssumption
<1> SUFFICES ASSUME SInv, [Next]_vars PROVE [Abstract!Next]_(Abstract!vars)
  OBVIOUS
<1>1. /\ IInv /\ IInv' /\ cur \in Pointers /\ new \in Pointers
      /\ Ordered(new, new) /\ buffer_new \in [Ids -> Data \cup {NoData}]
      /\ closed \in BOOLEAN
  BY StepInv DEF SInv, IInv, TypeOK, ViewsNested
<1>2. Len(Contents(new, buffer_new)) = Distance(new, new)
  BY <1>1, ContentsType, Zenon
<1>3. /\ Distance(new, new) \in Int /\ Distance(cur, new) \in Int
      /\ Distance(new, cur) \in Int /\ Distance(cur, cur) \in Int
  <2>1. /\ Size \in Int /\ new.wptr \in Int /\ new.rptr \in Int
        /\ cur.wptr \in Int /\ cur.rptr \in Int
    BY <1>1 DEF Pointers, Ids
  <2>2. QED
    BY <2>1 DEF Distance
<1>4. ASSUME NEW d \in Data, Push(d) PROVE Abstract!Push(d)
  <2>1. Contents(new', buffer_new') = Append(Contents(new, buffer_new), d)
    BY <1>1, <1>4, PushContents
  <2>2. ~closed /\ ~closed' /\ closed' = closed /\ cur' = cur /\ out' = out
    BY <1>4 DEF Push
  <2>3. /\ new'.rptr = new.rptr /\ new'.rstage = new.rstage
        /\ new' \in Pointers /\ Ordered(new', new')
    BY <1>1, <1>4 DEF Push, Pointers, IInv, TypeOK, ViewsNested
  <2>4. Distance(cur', new') = Distance(cur, new) /\ Distance(cur', cur') = Distance(cur, cur)
    BY <2>2, <2>3 DEF Distance
  <2>5. Distance(new', new') = Distance(new, new) + 1
    <3>1. buffer_new' \in [Ids -> Data \cup {NoData}]
      BY <1>1 DEF IInv, TypeOK
    <3>2. Len(Contents(new', buffer_new')) = Distance(new', new')
      BY <2>3, <3>1, ContentsType, Zenon
    <3>3. Contents(new, buffer_new) \in Seq(Data \cup {NoData})
      BY <1>1, ContentsType, Zenon
    <3>4. QED
      BY <1>2, <2>1, <3>2, <3>3
  <2>6. Distance(new, cur) < Size
    <3>1. ~(new.wptr = cur.rptr /\ new.wstage # cur.rstage)
      BY <1>4 DEF Push, producer_is_full, IsFull
    <3>2. QED
      BY <1>1, <2>2, <3>1 DEF IInv, ViewsNested, Pointers, Ids, Stages, Ordered, Distance
  <2>7. Distance(new, new) + (Distance(cur, cur) - Distance(cur, new)) < Size
    BY <1>1, <1>3, <2>2, <2>6 DEF IInv, ViewsNested
  <2>8. /\ Distance(new', new') - Distance(cur', new') =
             (Distance(new, new) - Distance(cur, new)) + 1
        /\ Distance(cur', cur') - Distance(cur', new') = Distance(cur, cur) - Distance(cur, new)
    BY <1>3, <2>4, <2>5
  <2>9. QED
    BY <1>2, <2>1, <2>2, <2>7, <2>8 DEF Abstract!Push, Contents
<1>5. CASE Pop
  <2>1. /\ ~closed /\ ~closed' /\ closed' = closed
    BY <1>5 DEF Pop
  <2>2. /\ out' = Head(Contents(new, buffer_new))
        /\ Contents(new', buffer_new') = Tail(Contents(new, buffer_new))
        /\ Distance(cur, new) > 0
        /\ Distance(new', new') = Distance(new, new) - 1
        /\ Distance(cur', new') = Distance(cur, new) - 1
        /\ Distance(cur', cur') = Distance(cur, cur)
    BY <1>5, PopContents
  <2>3. /\ Distance(new, new) > Distance(new, new) - Distance(cur, new)
        /\ Distance(new', new') - Distance(cur', new') = Distance(new, new) - Distance(cur, new)
        /\ Distance(cur', cur') - Distance(cur', new') =
             (Distance(cur, cur) - Distance(cur, new)) + 1
    BY <1>3, <2>2
  <2>4. Abstract!Pop
    BY <1>2, <2>1, <2>2, <2>3 DEF Abstract!Pop, Contents
  <2>5. QED
    BY <2>4 DEF Abstract!Next
<1>6. CASE Flush \/ UpdateWptr
  <2>1. ~closed /\ closed' /\ out' = out
    BY <1>6 DEF Flush, UpdateWptr
  <2>2. PICK n \in 0..Distance(cur, new) :
           Contents(new', buffer_new') = SubSeq(Contents(new, buffer_new), 1, n)
    BY <1>1, <1>6, RecoveryContents
  <2>3. n \in 0..(Len(Contents(new, buffer_new)) - (Distance(new, new) - Distance(cur, new)))
    BY <1>2, <1>3
  <2>4. closed' = TRUE
    BY <1>1, <2>1 DEF IInv, TypeOK
  <2>5. Abstract!Rollback
    BY <2>1, <2>2, <2>3, <2>4 DEF Abstract!Rollback, Contents
  <2>6. QED
    BY <2>5 DEF Abstract!Next
<1>7. CASE Sync
  <2>1. cur' = new /\ new' = new /\ buffer_new' = buffer_new /\ closed' = FALSE /\ out' = out
    BY <1>7 DEF Sync
  <2>2. /\ Distance(new', new') - Distance(cur', new') = 0
        /\ Distance(cur', cur') - Distance(cur', new') = 0
    BY <1>3, <2>1
  <2>3. Abstract!Sync
    BY <2>1, <2>2 DEF Abstract!Sync, SlotOf, Distance
  <2>4. QED
    BY <2>3 DEF Abstract!Next
<1>8. CASE UNCHANGED vars
  BY <1>8 DEF vars, Abstract!vars, SlotOf, Distance
<1>9. QED
  BY <1>4, <1>5, <1>6, <1>7, <1>8 DEF Next, Abstract!Next

\* The circular buffer with its current and new pointers is a queue, for every
\* size: elements come out in the order they went in, none lost, none twice,
\* whatever mix of pushes, pops, rollbacks and flushes a cycle makes.
THEOREM QueueCorrect == Spec => ImplementsQueue
BY InitSettled, StepSettled, InitAbstract, StepAbstract, PTL
DEF Spec, ImplementsQueue, Abstract!Spec
=============================================================================
