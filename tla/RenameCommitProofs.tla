------------------------- MODULE RenameCommitProofs -------------------------
(***************************************************************************)
(* Theorems about RenameCommit, for every number of registers, every size  *)
(* of the buffers and every program.                                       *)
(*                                                                         *)
(* Instructions are named by their place in the reorder buffer, 0 for the  *)
(* oldest, so that retirement is a shift, a recovery a cut and renaming an *)
(* extension.  Once a verify() has failed nothing more is claimed.         *)
(***************************************************************************)
EXTENDS RenameCommit, Integers, FiniteSetTheorems, TLAPS

N == PHY_REG_NUM
CB == CHECKPOINT_BUFFER_SIZE

\* The positions of a ring of n slots from r up to, but without, w.
Span(r, w, n) == {p \in Positions(n) : RingCount(p, r, n) < RingCount(w, r, n)}

-----------------------------------------------------------------------------
(***************************************************************************)
(* Positions of a ring.                                                    *)
(***************************************************************************)

\* Counting from r and back.
LEMMA RingType ==
  ASSUME NEW n \in Nat \ {0}, NEW r \in Positions(n), NEW p \in Positions(n)
  PROVE  /\ RingCount(p, r, n) \in 0..(2 * n - 1)
         /\ RingCount(r, r, n) = 0
         /\ (RingCount(p, r, n) = 0) <=> (p = r)
         /\ RingNext(p, n) \in Positions(n)
         /\ RingSlot(p, n) \in 0..(n - 1)
         /\ RingAdd(r, RingCount(p, r, n), n) = p
         /\ RingCount(p, r, n) + 1 < 2 * n =>
               RingCount(RingNext(p, n), r, n) = RingCount(p, r, n) + 1
         /\ p \in Int /\ n \in Int
BY DEF Positions, RingCount, RingNext, RingSlot, RingAdd

\* Going k positions forward.
LEMMA RingAddType ==
  ASSUME NEW n \in Nat \ {0}, NEW r \in Positions(n), NEW k \in 0..(2 * n - 1)
  PROVE  /\ RingAdd(r, k, n) \in Positions(n)
         /\ RingCount(RingAdd(r, k, n), r, n) = k
         /\ RingAdd(r, 0, n) = r
         /\ k + 1 < 2 * n => /\ RingNext(RingAdd(r, k, n), n) = RingAdd(r, k + 1, n)
                             /\ RingAdd(RingNext(r, n), k, n) = RingAdd(r, k + 1, n)
BY DEF Positions, RingCount, RingNext, RingAdd

\* Two positions at the same distance are the same; so are two with the same slot
\* within one lap.
LEMMA RingSame ==
  ASSUME NEW n \in Nat \ {0}, NEW r \in Positions(n), NEW p \in Positions(n),
         NEW q \in Positions(n)
  PROVE  /\ RingCount(p, r, n) = RingCount(q, r, n) => p = q
         /\ RingCount(p, r, n) < n /\ RingCount(q, r, n) < n
              /\ RingSlot(p, n) = RingSlot(q, n) => p = q
BY DEF Positions, RingCount, RingSlot

\* Counting from a later position.
LEMMA RingRebase ==
  ASSUME NEW n \in Nat \ {0}, NEW r \in Positions(n), NEW b \in Positions(n),
         NEW p \in Positions(n)
  PROVE  /\ RingCount(b, r, n) <= RingCount(p, r, n) =>
               RingCount(p, b, n) = RingCount(p, r, n) - RingCount(b, r, n)
         /\ RingCount(p, r, n) < RingCount(b, r, n) =>
               RingCount(p, b, n) = RingCount(p, r, n) - RingCount(b, r, n) + 2 * n
BY DEF Positions, RingCount

\* Age within one lap is distance.
LEMMA RingAge ==
  ASSUME NEW n \in Nat \ {0}, NEW r \in Positions(n), NEW p \in Positions(n),
         NEW q \in Positions(n), RingCount(p, r, n) < n, RingCount(q, r, n) < n
  PROVE  RingYounger(p, q, n) <=> RingCount(p, r, n) > RingCount(q, r, n)
BY DEF Positions, RingCount, RingYounger, RingSlot

\* The sizes.
LEMMA Sizes ==
  /\ N \in Nat \ {0} /\ PHY_REG_NUM = N /\ ROB_SIZE \in Nat \ {0} /\ CB \in Nat \ {0}
  /\ Cardinality(Arch) \in Nat
  /\ N >= Cardinality(Arch) + ROB_SIZE
  /\ \A a \in Arch : a # 0 /\ Cardinality(Arch) >= 1
<1>1. Cardinality(Phys) \in Nat /\ Cardinality(Arch) \in Nat
  BY FS_CardinalityType, ConstAssumption
<1>2. \A a \in Arch : a # 0
  BY ConstAssumption
<1>3. \A a \in Arch : Cardinality(Arch) # 0
  BY ConstAssumption, FS_EmptySet
<1>4. QED
  BY <1>1, <1>2, <1>3, ConstAssumption DEF N, PHY_REG_NUM, CB


-----------------------------------------------------------------------------
(***************************************************************************)
(* The reorder buffer as a list.                                           *)
(***************************************************************************)

\* The k-th oldest instruction.
It(k) == RobItem(RobAt(k))
Ks == 0..(RobCount - 1)
RobTyped == /\ rob_w \in Positions(ROB_SIZE) /\ rob_r \in Positions(ROB_SIZE)
            /\ RobCount <= ROB_SIZE

\* Places and positions.
LEMMA RobIs ==
  ASSUME RobTyped
  PROVE  /\ RobCount \in Nat
         /\ (RobCount = 0) <=> (rob_r = rob_w)
         /\ \A k \in Ks : /\ RobAt(k) \in Positions(ROB_SIZE)
                          /\ RingCount(RobAt(k), rob_r, ROB_SIZE) = k
                          /\ k < ROB_SIZE
         /\ RobAt(0) = rob_r /\ Head = It(0)
         /\ \A j, k \in Ks : RingSlot(RobAt(j), ROB_SIZE) = RingSlot(RobAt(k), ROB_SIZE) => j = k
         /\ \A j, k \in Ks : RingYounger(RobAt(j), RobAt(k), ROB_SIZE) <=> j > k
         /\ RobLive \subseteq Positions(ROB_SIZE)
         /\ \A p \in RobLive : \E k \in Ks : p = RobAt(k)
         /\ \A k \in Ks : RobAt(k) \in RobLive
         /\ \A p, q \in RobLive : RingSlot(p, ROB_SIZE) = RingSlot(q, ROB_SIZE) => p = q
<1> USE DEF RobTyped
<1>0. ROB_SIZE \in Nat \ {0}
  BY Sizes
<1>1. RobCount \in Nat /\ ((RobCount = 0) <=> (rob_w = rob_r))
  BY <1>0, RingType DEF RobCount
<1>2. ASSUME NEW k \in Ks
      PROVE  /\ RobAt(k) \in Positions(ROB_SIZE)
             /\ RingCount(RobAt(k), rob_r, ROB_SIZE) = k /\ k < ROB_SIZE
  <2>1. k \in 0..(2 * ROB_SIZE - 1) /\ k < ROB_SIZE
    BY <1>0, <1>1 DEF Ks
  <2>2. QED
    BY <1>0, <2>1, RingAddType DEF RobAt
<1>3. RobAt(0) = rob_r
  BY <1>0, RingAddType DEF RobAt
<1>4. Head = It(0)
  BY <1>3 DEF Head, It
<1>5. \A j, k \in Ks : RingSlot(RobAt(j), ROB_SIZE) = RingSlot(RobAt(k), ROB_SIZE) => j = k
  <2> SUFFICES ASSUME NEW j \in Ks, NEW k \in Ks,
                      RingSlot(RobAt(j), ROB_SIZE) = RingSlot(RobAt(k), ROB_SIZE)
               PROVE  j = k
    OBVIOUS
  <2>1. RobAt(j) = RobAt(k)
    BY <1>0, <1>2, RingSame
  <2>2. QED
    BY <1>2, <2>1
<1>6. \A j, k \in Ks : RingYounger(RobAt(j), RobAt(k), ROB_SIZE) <=> j > k
  <2> SUFFICES ASSUME NEW j \in Ks, NEW k \in Ks
               PROVE  RingYounger(RobAt(j), RobAt(k), ROB_SIZE) <=> j > k
    OBVIOUS
  <2>1. /\ RobAt(j) \in Positions(ROB_SIZE) /\ RobAt(k) \in Positions(ROB_SIZE)
        /\ RingCount(RobAt(j), rob_r, ROB_SIZE) = j /\ j < ROB_SIZE
        /\ RingCount(RobAt(k), rob_r, ROB_SIZE) = k /\ k < ROB_SIZE
    BY <1>2
  <2>2. RingYounger(RobAt(j), RobAt(k), ROB_SIZE) <=>
          RingCount(RobAt(j), rob_r, ROB_SIZE) > RingCount(RobAt(k), rob_r, ROB_SIZE)
    BY <1>0, <2>1, RingAge
  <2>3. QED
    BY <2>1, <2>2
<1>7. RobLive = {RobAt(k) : k \in Ks}
  BY DEF RobLive, Ks
<1>8. \A p, q \in RobLive : RingSlot(p, ROB_SIZE) = RingSlot(q, ROB_SIZE) => p = q
  BY <1>5, <1>7
<1>9. QED
  BY <1>1, <1>2, <1>3, <1>4, <1>5, <1>6, <1>7, <1>8

\* The oldest instruction leaves.
LEMMA RobShift ==
  ASSUME RobTyped, rob_r # rob_w, rob_r' = RingNext(rob_r, ROB_SIZE), rob_w' = rob_w,
         rob' = rob
  PROVE  /\ RobTyped' /\ RobCount' = RobCount - 1 /\ 0 \in Ks
         /\ \A k \in Ks' : k + 1 \in Ks /\ RobAt(k)' = RobAt(k + 1) /\ It(k)' = It(k + 1)
         /\ RobLive' = RobLive \ {rob_r}
         /\ \A p : RobItem(p)' = RobItem(p)
<1> USE DEF RobTyped
<1>0. ROB_SIZE \in Nat \ {0}
  BY Sizes
<1>1. RobCount \in Nat /\ RobCount # 0 /\ 0 \in Ks
  BY RobIs DEF Ks
<1>2. /\ rob_r' \in Positions(ROB_SIZE)
      /\ RingCount(rob_w, RingNext(rob_r, ROB_SIZE), ROB_SIZE)
           = RingCount(rob_w, rob_r, ROB_SIZE) - 1
  <2>1. RingNext(rob_r, ROB_SIZE) \in Positions(ROB_SIZE)
    BY <1>0, RingType
  <2>2. RingCount(rob_r, rob_r, ROB_SIZE) = 0 /\ 0 + 1 < 2 * ROB_SIZE
    BY <1>0, RingType
  <2>3. RingCount(RingNext(rob_r, ROB_SIZE), rob_r, ROB_SIZE) = 1
    BY <1>0, <2>2, RingType
  <2>4. QED
    BY <1>0, <1>1, <2>1, <2>3, RingRebase DEF RobCount
<1>3. RobCount' = RobCount - 1
  BY <1>2 DEF RobCount
<1>4. ASSUME NEW k \in Ks'
      PROVE  k + 1 \in Ks /\ RobAt(k)' = RobAt(k + 1) /\ It(k)' = It(k + 1)
  <2>1. k \in 0..(RobCount - 2) /\ k + 1 \in Ks
    BY <1>1, <1>3, <1>4 DEF Ks
  <2>2. k \in 0..(2 * ROB_SIZE - 1) /\ k + 1 < 2 * ROB_SIZE
    BY <1>0, <1>1, <2>1
  <2>3. RobAt(k)' = RobAt(k + 1)
    BY <1>0, <2>2, RingAddType DEF RobAt
  <2>4. QED
    BY <2>1, <2>3 DEF It, RobItem
<1>5. RobTyped'
  BY <1>0, <1>1, <1>2, <1>3
<1>6. RobLive' = RobLive \ {rob_r}
  <2>1. ASSUME NEW p \in RobLive' PROVE p \in RobLive /\ p # rob_r
    <3>1. PICK k \in Ks' : p = RobAt(k)'
      BY <2>1 DEF RobLive, Ks
    <3>2. p = RobAt(k + 1) /\ k + 1 \in Ks /\ k + 1 # 0
      BY <1>4, <3>1 DEF Ks
    <3>3. RobAt(k + 1) # RobAt(0)
      BY <1>1, <3>2, RobIs
    <3>4. QED
      BY <3>2, <3>3, RobIs
  <2>2. ASSUME NEW p \in RobLive, p # rob_r PROVE p \in RobLive'
    <3>1. PICK k \in Ks : p = RobAt(k)
      BY RobIs
    <3>2. k # 0
      BY <2>2, <3>1, RobIs
    <3>3. k - 1 \in Ks' /\ (k - 1) + 1 = k
      BY <1>1, <1>3, <3>2 DEF Ks
    <3>4. RobAt(k - 1)' = RobAt(k)
      BY <1>4, <3>3
    <3>5. QED
      BY <3>1, <3>3, <3>4 DEF RobLive, Ks
  <2>3. QED
    BY <2>1, <2>2
<1>7. QED
  BY <1>1, <1>3, <1>4, <1>5, <1>6 DEF RobItem

\* What follows place j is removed.
LEMMA RobCut ==
  ASSUME RobTyped, NEW j \in Ks, rob_r' = rob_r, rob_w' = RingNext(RobAt(j), ROB_SIZE),
         rob' = rob
  PROVE  /\ RobTyped' /\ RobCount' = j + 1
         /\ \A k \in Ks' : k \in Ks /\ RobAt(k)' = RobAt(k) /\ It(k)' = It(k)
         /\ RobLive' = {p \in RobLive : ~RingYounger(p, RobAt(j), ROB_SIZE)}
         /\ \A p : RobItem(p)' = RobItem(p)
<1> USE DEF RobTyped
<1>0. ROB_SIZE \in Nat \ {0}
  BY Sizes
<1>1. RobCount \in Nat /\ j \in Nat /\ j < RobCount /\ j < ROB_SIZE
  BY RobIs DEF Ks
<1>2. /\ RobAt(j) \in Positions(ROB_SIZE) /\ RingCount(RobAt(j), rob_r, ROB_SIZE) = j
  BY RobIs
<1>3. /\ rob_w' \in Positions(ROB_SIZE)
      /\ RingCount(RingNext(RobAt(j), ROB_SIZE), rob_r, ROB_SIZE) = j + 1
  BY <1>0, <1>1, <1>2, RingType
<1>4. RobCount' = j + 1
  BY <1>3 DEF RobCount
<1>5. \A k : RobAt(k)' = RobAt(k)
  BY DEF RobAt
<1>6. ASSUME NEW k \in Ks'
      PROVE  k \in Ks /\ RobAt(k)' = RobAt(k) /\ It(k)' = It(k) /\ k <= j
  BY <1>1, <1>4, <1>5, <1>6 DEF Ks, It, RobItem
<1>7. RobTyped'
  BY <1>0, <1>1, <1>3, <1>4
<1>8. RobLive' = {p \in RobLive : ~RingYounger(p, RobAt(j), ROB_SIZE)}
  <2>1. ASSUME NEW p \in RobLive'
        PROVE  p \in RobLive /\ ~RingYounger(p, RobAt(j), ROB_SIZE)
    <3>1. PICK k \in Ks' : p = RobAt(k)'
      BY <2>1 DEF RobLive, Ks
    <3>2. p = RobAt(k) /\ k \in Ks /\ ~(k > j)
      BY <1>1, <1>6, <3>1 DEF Ks
    <3>3. QED
      BY <3>2, RobIs
  <2>2. ASSUME NEW p \in RobLive, ~RingYounger(p, RobAt(j), ROB_SIZE) PROVE p \in RobLive'
    <3>1. PICK k \in Ks : p = RobAt(k)
      BY RobIs
    <3>2. ~(k > j)
      BY <2>2, <3>1, RobIs
    <3>3. k \in Ks'
      BY <1>1, <1>4, <3>2 DEF Ks
    <3>4. QED
      BY <3>1, <3>3, <1>5 DEF RobLive, Ks
  <2>3. QED
    BY <2>1, <2>2
<1>9. QED
  BY <1>4, <1>6, <1>7, <1>8 DEF RobItem

\* Rename adds an instruction.
LEMMA RobGrow ==
  ASSUME RobTyped, RobCount < ROB_SIZE, rob_r' = rob_r, rob_w' = RingNext(rob_w, ROB_SIZE),
         NEW x, rob' = [rob EXCEPT ![RingSlot(rob_w, ROB_SIZE)] = x],
         DOMAIN rob = Slots(ROB_SIZE), NEW w, w = rob_w, NEW c, c = RobCount
  PROVE  /\ RobTyped' /\ RobCount' = c + 1 /\ c \in Nat
         /\ \A k \in Ks : k \in Ks' /\ RobAt(k)' = RobAt(k) /\ It(k)' = It(k) /\ k < c
         /\ c \in Ks' /\ (\A k \in Ks' : k \in Ks \/ k = c)
         /\ RobAt(c)' = w /\ RobItem(w)' = x /\ It(c)' = x
         /\ RobLive' = RobLive \cup {w}
         /\ \A p \in RobLive : RobItem(p)' = RobItem(p)
<1> USE DEF RobTyped
<1>0. ROB_SIZE \in Nat \ {0}
  BY Sizes
<1>1. c \in Nat /\ c \in 0..(2 * ROB_SIZE - 1) /\ c + 1 < 2 * ROB_SIZE
  BY <1>0, RobIs
<1>2. RobAt(c) = w
  BY <1>0, RingType DEF RobCount, RobAt
<1>3. /\ rob_w' \in Positions(ROB_SIZE) /\ RobCount' = c + 1
  BY <1>0, <1>1, RingType DEF RobCount
<1>4. \A k : RobAt(k)' = RobAt(k)
  BY DEF RobAt
<1>5. RingSlot(w, ROB_SIZE) \in DOMAIN rob
  BY <1>0, RingType DEF Slots
<1>6. ASSUME NEW p \in RobLive PROVE RobItem(p)' = RobItem(p)
  <2>1. PICK k \in Ks : p = RobAt(k)
    BY RobIs
  <2>2. /\ p \in Positions(ROB_SIZE) /\ RingCount(p, rob_r, ROB_SIZE) = k /\ k < c
        /\ k < ROB_SIZE
    BY <1>1, <2>1, RobIs DEF Ks
  <2>3. RingSlot(p, ROB_SIZE) # RingSlot(w, ROB_SIZE)
    <3>1. SUFFICES ASSUME RingSlot(p, ROB_SIZE) = RingSlot(w, ROB_SIZE) PROVE FALSE
      OBVIOUS
    <3>2. RingCount(w, rob_r, ROB_SIZE) = c
      BY DEF RobCount
    <3>3. p = w
      BY <1>0, <2>2, <3>1, <3>2, RingSame
    <3>4. QED
      BY <1>1, <2>2, <3>2, <3>3
  <2>4. QED
    BY <2>3 DEF RobItem
<1>7. ASSUME NEW k \in Ks PROVE k \in Ks' /\ RobAt(k)' = RobAt(k) /\ It(k)' = It(k) /\ k < c
  <2>1. k \in Ks' /\ k < c
    BY <1>1, <1>3 DEF Ks
  <2>2. RobAt(k) \in RobLive
    BY RobIs
  <2>3. PICK p : p = RobAt(k)
    OBVIOUS
  <2>4. RobItem(p)' = RobItem(p) /\ RobAt(k)' = p
    BY <1>4, <1>6, <2>2, <2>3
  <2>5. QED
    BY <2>1, <2>3, <2>4 DEF It, RobItem
<1>8. c \in Ks' /\ (\A k \in Ks' : k \in Ks \/ k = c)
  BY <1>1, <1>3 DEF Ks
<1>9. RobAt(c)' = w /\ RobItem(w)' = x
  BY <1>2, <1>4, <1>5 DEF RobItem
<1>10. It(c)' = x
  BY <1>9 DEF It, RobItem
<1>11. RobLive' = RobLive \cup {w}
  <2>1. RobLive = {RobAt(k) : k \in Ks} /\ RobLive' = {RobAt(k)' : k \in Ks'}
    BY DEF RobLive, Ks
  <2>2. QED
    BY <1>7, <1>8, <1>9, <2>1
<1>12. RobTyped'
  BY <1>0, <1>1, <1>3
<1>13. QED
  BY <1>1, <1>3, <1>6, <1>7, <1>8, <1>9, <1>10, <1>11, <1>12


-----------------------------------------------------------------------------
(***************************************************************************)
(* The inductive invariant.                                                *)
(***************************************************************************)

\* A read and a write position, with the read position of the last cycle.
Nested(w, r, r0, n) ==
    /\ RingCount(r, r0, n) + RingCount(w, r, n) = RingCount(w, r0, n)
    /\ RingCount(w, r0, n) <= n
PointerInv ==
    /\ RobCount <= ROB_SIZE
    /\ RingCount(cp_w, cp_r, CB) <= CB
    /\ flush # "commit" => /\ Nested(rob_w, rob_r, rob_r0, ROB_SIZE)
                           /\ Nested(cp_w, cp_r, cp_r0, CB)
    /\ flush = "commit" => RobCount = 0
    /\ flush # "commit" /\ phase # "rename" => fl_r = fl_r0

\* What kinds of instructions there are.
ShapeInv ==
    \A k \in Ks :
        /\ It(k).cp_valid => It(k).unit \in {"bru", "lu"}
        /\ It(k).bp_cp_valid => It(k).cp_valid /\ It(k).unit = "bru"
        /\ It(k).unit = "sdu" => It(k).rd = 0
        /\ It(k).rd # 0 => It(k).new_phy \in Phys /\ It(k).old_phy \in Phys
        /\ It(k).exception => (It(k).rd # 0 => FaultRd)

\* What executes and what is on the ports belongs to the reorder buffer.
PipeInv ==
    /\ phase = "bru" => flush = "none"
    /\ phase \in {"bru", "rename"} => exec = {}
    /\ phase = "rename" /\ flush = "commit" => port = {}
    /\ flush = "bru" /\ phase # "rename" => flush_pos \in exec /\ BruFlush(flush_pos)
    /\ flush # "commit" =>
         /\ port \cup exec \subseteq RobLive
         /\ exec \cap port = {}
         /\ \A p \in exec : ~RobItem(p).finish
         /\ \A p \in port : RobItem(p).finish <=> phase \in {"wb", "execute"}
         /\ phase \in {"bru", "commit", "rename"} =>
              \A p \in port_exception : RobItem(p).rd # 0 => FaultRd
         /\ phase \in {"wb", "execute"} =>
              \A p \in port : RobItem(p).exception <=> p \in port_exception

\* The free list from the oldest position that can be restored; first come the
\* registers in flight, then the free ones.
Base == IF RobCount = 0 THEN fl_r ELSE It(0).old_fl_r
Dist(p) == RingCount(p, Base, N)
FlSlot(p) == fl_buffer[RingSlot(p, N)]

ItemChain(k) ==
    /\ It(k).new_fl_r = IF It(k).rd = 0 THEN It(k).old_fl_r ELSE RingNext(It(k).old_fl_r, N)
    /\ It(k).rd # 0 => It(k).new_phy = FlSlot(It(k).old_fl_r)
    /\ Dist(It(k).old_fl_r) <= k
    /\ Dist(It(k).new_fl_r) <= Dist(fl_r)
    /\ k + 1 \in Ks => It(k + 1).old_fl_r = It(k).new_fl_r
    /\ k + 1 = RobCount => It(k).new_fl_r = fl_r
    /\ Dist(fl_r) <= Dist(It(k).new_fl_r) + (RobCount - k - 1)
    /\ \A j \in 0..(k - 1) : /\ Dist(It(j).new_fl_r) <= Dist(It(k).old_fl_r)
                             /\ Dist(It(k).old_fl_r) <= Dist(It(j).new_fl_r) + (k - j - 1)
ChainInv ==
    /\ \A k \in Ks : ItemChain(k)
    /\ \A p \in Span(Base, fl_r, N) : \E k \in Ks : It(k).rd # 0 /\ It(k).old_fl_r = p
    /\ Dist(fl_r) <= RobCount
    /\ Dist(fl_r) <= Dist(fl_w)
    /\ Dist(fl_w) + Cardinality(Arch) <= N

\* The registers between two positions; they are different ones and not rv.
Contents(buf, r, w) == {buf[RingSlot(p, N)] : p \in Span(r, w, N)}
Pool(b, w, buf, rv) ==
    /\ \A p, q \in Span(b, w, N) : buf[RingSlot(p, N)] = buf[RingSlot(q, N)] => p = q
    /\ \A p \in Span(b, w, N) : buf[RingSlot(p, N)] \notin rv
FreeInv == /\ Pool(Base, fl_w, fl_buffer, rrat_valid)
           /\ free_list_set = Contents(fl_buffer, fl_r, fl_w)

\* A table that maps each architectural register to one physical register.
Table(rv, rt) ==
    /\ \A p \in rv : rt[p] \in Arch
    /\ \A p, q \in rv : rt[p] = rt[q] => p = q
    /\ \A a \in Arch : \E p \in rv : rt[p] = a

\* p is what a maps to after the k oldest instructions.
Maps(k, a, p) ==
    \/ \E n \in 0..(k - 1) : /\ It(n).rd = a /\ It(n).new_phy = p
                             /\ \A m \in (n + 1)..(k - 1) : It(m).rd # a
    \/ /\ \A n \in 0..(k - 1) : It(n).rd # a
       /\ p \in rrat_valid /\ rrat_table[p] = a
MappedRegs(k) == {p \in Phys : \E a \in Arch : Maps(k, a, p)}

MapInv ==
    /\ \A k \in Ks : It(k).rd # 0 => srat_table[It(k).new_phy] = It(k).rd
    /\ \A p \in rrat_valid : srat_table[p] = rrat_table[p]
    /\ srat_valid = MappedRegs(RobCount)
    /\ \A k \in Ks : It(k).rd # 0 => Maps(k, It(k).rd, It(k).old_phy)
    /\ \A k \in 0..RobCount : \A a \in Arch : \E p \in Phys : Maps(k, a, p)

\* The checkpoints of branches, in their order and with their contents.
Restores(k) == It(k).unit = "bru" /\ It(k).cp_valid
Cp(k) == cpb[It(k).cp_id]
CpDist(p) == RingCount(p, cp_r, CB)
Saved(k) ==
    /\ \E q \in Span(cp_r, cp_w, CB) : /\ It(k).cp_id = RingSlot(q, CB)
                                       /\ Cp(k).new_cp_w = RingNext(q, CB)
    /\ \A j \in 0..(k - 1) : Restores(j) => CpDist(Cp(j).new_cp_w) < CpDist(Cp(k).new_cp_w)
    /\ Cp(k).valid = MappedRegs(k + 1)
    /\ Cp(k).new_fl_r = It(k).new_fl_r
CheckInv == \A k \in Ks : Restores(k) => Saved(k)

\* If no faulting instruction has a destination, no register is lost.
LossInv ==
    ~FaultRd =>
        /\ Dist(fl_w) + Cardinality(Arch) = N
        /\ flush # "commit" =>
              RingCount(fl_w, fl_w0, N) <= RingCount(rob_r, rob_r0, ROB_SIZE)

Body == /\ TypeOK /\ PointerInv /\ ShapeInv /\ PipeInv
        /\ ChainInv /\ FreeInv /\ Table(rrat_valid, rrat_table)
        /\ MapInv /\ CheckInv /\ LossInv
IInv == /\ ~FaultRd => ~aborted
        /\ ~aborted => Body

-----------------------------------------------------------------------------
(***************************************************************************)
(* Free list and tables by themselves.                                     *)
(***************************************************************************)

\* A part of a pool is a pool.
LEMMA PoolShrinks ==
  ASSUME NEW b \in Positions(N), NEW w \in Positions(N), NEW c \in Positions(N),
         RingCount(c, b, N) <= RingCount(w, b, N)
  PROVE  /\ Span(c, w, N) \subseteq Span(b, w, N)
         /\ \A p \in Span(c, w, N) : RingCount(c, b, N) <= RingCount(p, b, N)
<1>0. N \in Nat \ {0}
  BY Sizes
<1>1. ASSUME NEW p \in Span(c, w, N)
      PROVE  p \in Span(b, w, N) /\ RingCount(c, b, N) <= RingCount(p, b, N)
  <2>1. p \in Positions(N) /\ RingCount(p, c, N) < RingCount(w, c, N)
    BY DEF Span
  <2>2. /\ RingCount(p, b, N) \in 0..(2 * N - 1) /\ RingCount(w, b, N) \in 0..(2 * N - 1)
        /\ RingCount(c, b, N) \in 0..(2 * N - 1)
    BY <1>0, <2>1, RingType
  <2>3. RingCount(w, c, N) = RingCount(w, b, N) - RingCount(c, b, N)
    BY <1>0, RingRebase
  <2>4. RingCount(c, b, N) <= RingCount(p, b, N)
    <3>1. SUFFICES ASSUME RingCount(p, b, N) < RingCount(c, b, N) PROVE FALSE
      BY <2>2
    <3>2. RingCount(p, c, N) = RingCount(p, b, N) - RingCount(c, b, N) + 2 * N
      BY <1>0, <2>1, <3>1, RingRebase
    <3>3. QED
      BY <1>0, <2>1, <2>2, <2>3, <3>2
  <2>5. RingCount(p, c, N) = RingCount(p, b, N) - RingCount(c, b, N)
    BY <1>0, <2>1, <2>4, RingRebase
  <2>6. RingCount(p, b, N) < RingCount(w, b, N)
    BY <2>1, <2>2, <2>3, <2>5
  <2>7. QED
    BY <2>1, <2>4, <2>6 DEF Span
<1>2. QED
  BY <1>1

\* The free list after old was pushed.
Freed(buf, w, old) == [buf EXCEPT ![RingSlot(w, N)] = old]

\* Retirement with a destination: the oldest register of the pool goes to the
\* table, the one it replaces takes its place behind the others.
LEMMA PoolRetires ==
  ASSUME NEW b \in Positions(N), NEW w \in Positions(N), RingCount(w, b, N) < N, b # w,
         NEW buf \in [Slots(N) -> Phys], NEW rv, Pool(b, w, buf, rv), NEW old \in rv,
         NEW new, new = buf[RingSlot(b, N)]
  PROVE  /\ \A p \in Span(b, w, N) : Freed(buf, w, old)[RingSlot(p, N)] = buf[RingSlot(p, N)]
         /\ Freed(buf, w, old)[RingSlot(w, N)] = old
         /\ Span(RingNext(b, N), RingNext(w, N), N) = (Span(b, w, N) \ {b}) \cup {w}
         /\ Pool(RingNext(b, N), RingNext(w, N), Freed(buf, w, old), (rv \ {old}) \cup {new})
         /\ \A r \in Positions(N) : RingCount(r, b, N) <= RingCount(w, b, N) =>
               Contents(Freed(buf, w, old), r, RingNext(w, N)) = Contents(buf, r, w) \cup {old}
<1>0. N \in Nat \ {0}
  BY Sizes
<1> DEFINE D(p) == RingCount(p, b, N)
           B(p) == buf[RingSlot(p, N)]
           G(p) == Freed(buf, w, old)[RingSlot(p, N)]
           nb == RingNext(b, N)
           nw == RingNext(w, N)
<1>1. /\ D(b) = 0 /\ D(w) \in 1..(N - 1) /\ nb \in Positions(N) /\ nw \in Positions(N)
      /\ D(nb) = 1 /\ D(nw) = D(w) + 1
  <2>1. /\ D(b) = 0 /\ D(w) \in 0..(2 * N - 1) /\ D(w) # 0
        /\ nb \in Positions(N) /\ nw \in Positions(N)
    BY <1>0, RingType
  <2>2. D(nb) = 1
    BY <1>0, <2>1, RingType
  <2>3. D(nw) = D(w) + 1
    BY <1>0, <2>1, RingType
  <2>4. D(w) < N
    OBVIOUS
  <2> HIDE DEF D
  <2>5. QED
    BY <1>0, <2>1, <2>2, <2>3, <2>4
<1>2. \A p \in Positions(N) : D(p) \in 0..(2 * N - 1) /\ RingSlot(p, N) \in Slots(N)
  BY <1>0, RingType DEF Slots
<1>3. \A p \in Positions(N) : D(p) < N /\ D(p) # D(w) => RingSlot(p, N) # RingSlot(w, N)
  BY <1>0, <1>1, RingSame
<1>4. \A p \in Positions(N) : D(p) < N /\ D(p) # D(w) => G(p) = B(p)
  BY <1>2, <1>3 DEF Freed
<1>5. G(w) = old
  BY <1>2 DEF Freed
<1>6. b \in Span(b, w, N) /\ w \notin Span(b, w, N) /\ \A p \in Span(b, w, N) : D(p) < D(w)
  BY <1>1 DEF Span
<1>7. \A p \in Span(b, w, N) : G(p) = B(p)
  <2> SUFFICES ASSUME NEW p \in Span(b, w, N) PROVE G(p) = B(p)
    OBVIOUS
  <2>1. p \in Positions(N) /\ D(p) < D(w)
    BY DEF Span
  <2>2. D(p) \in 0..(2 * N - 1)
    BY <1>2, <2>1
  <2> HIDE DEF D
  <2>3. D(p) < N /\ D(p) # D(w)
    BY <1>0, <1>1, <2>1, <2>2
  <2>4. QED
    BY <1>4, <2>1, <2>3
<1>8. \A r \in Positions(N) : D(r) <= D(w) => Span(r, nw, N) = Span(r, w, N) \cup {w}
  <2> SUFFICES ASSUME NEW r \in Positions(N), D(r) <= D(w)
               PROVE  Span(r, nw, N) = Span(r, w, N) \cup {w}
    OBVIOUS
  <2>1. RingCount(w, r, N) = D(w) - D(r) /\ D(r) \in 0..(2 * N - 1)
    BY <1>0, <1>2, RingRebase
  <2>2. RingCount(nw, r, N) = RingCount(w, r, N) + 1 /\ RingCount(w, r, N) \in Nat
    <3>1. RingCount(w, r, N) \in Nat /\ RingCount(w, r, N) + 1 < 2 * N
      BY <1>0, <1>1, <2>1
    <3>2. QED
      BY <1>0, <3>1, RingType
  <2>3. \A p \in Positions(N) : /\ RingCount(p, r, N) \in Nat
                                /\ RingCount(p, r, N) = RingCount(w, r, N) => p = w
    BY <1>0, RingType, RingSame
  <2>4. QED
    BY <2>2, <2>3 DEF Span
<1>9. Span(nb, nw, N) = (Span(b, w, N) \ {b}) \cup {w}
  <2>1. RingCount(w, nb, N) = D(w) - 1
    BY <1>0, <1>1, RingRebase
  <2>2. \A p \in Positions(N) : D(p) >= 1 => RingCount(p, nb, N) = D(p) - 1
    BY <1>0, <1>1, RingRebase
  <2>3. RingCount(b, nb, N) = 2 * N - 1
    BY <1>0, <1>1, RingRebase
  <2>4. \A p \in Positions(N) : D(p) = 0 <=> p = b
    BY <1>0, RingType
  <2>5. Span(nb, w, N) = Span(b, w, N) \ {b}
    <3> SUFFICES ASSUME NEW p \in Positions(N)
                 PROVE  RingCount(p, nb, N) < RingCount(w, nb, N) <=> D(p) < D(w) /\ p # b
      BY DEF Span
    <3>1. CASE p = b
      BY <1>0, <1>1, <2>1, <2>3, <3>1
    <3>2. CASE p # b
      <4>1. D(p) >= 1 /\ D(p) \in Nat
        BY <1>2, <2>4, <3>2
      <4>2. QED
        BY <1>1, <2>1, <2>2, <3>2, <4>1
    <3>3. QED
      BY <3>1, <3>2
  <2>6. QED
    BY <1>1, <1>8, <2>5
<1> HIDE DEF D, nb, nw
<1>10. \A r \in Positions(N) : D(r) <= D(w) =>
          Contents(Freed(buf, w, old), r, nw) = Contents(buf, r, w) \cup {old}
  <2> SUFFICES ASSUME NEW r \in Positions(N), D(r) <= D(w)
               PROVE  Contents(Freed(buf, w, old), r, nw) = Contents(buf, r, w) \cup {old}
    OBVIOUS
  <2>1. Span(r, nw, N) = Span(r, w, N) \cup {w}
    BY <1>8
  <2>2. Span(r, w, N) \subseteq Span(b, w, N)
    BY PoolShrinks DEF D
  <2>3. \A p \in Span(r, w, N) : G(p) = B(p)
    BY <1>7, <2>2
  <2> HIDE DEF G, B
  <2>4. {G(p) : p \in Span(r, nw, N)} = {B(p) : p \in Span(r, w, N)} \cup {old}
    BY <1>5, <2>1, <2>3
  <2>5. QED
    BY <2>4 DEF Contents, G, B
<1>11. /\ \A p, q \in Span(b, w, N) : B(p) = B(q) => p = q
       /\ \A p \in Span(b, w, N) : B(p) \notin rv
  BY DEF Pool
<1>12. new = B(b)
  OBVIOUS
<1> HIDE DEF G, B
<1>13. ASSUME NEW p \in Span(nb, nw, N), NEW q \in Span(nb, nw, N), G(p) = G(q)
       PROVE  p = q
  BY <1>5, <1>7, <1>9, <1>11, <1>13
<1>14. ASSUME NEW p \in Span(nb, nw, N)
       PROVE  G(p) \notin (rv \ {old}) \cup {new}
  BY <1>5, <1>6, <1>7, <1>9, <1>11, <1>12
<1>15. Pool(nb, nw, Freed(buf, w, old), (rv \ {old}) \cup {new})
  BY <1>13, <1>14 DEF Pool, G
<1>16. QED
  BY <1>5, <1>7, <1>9, <1>10, <1>15 DEF G, B, D, nb, nw

\* A retired mapping.
Remapped(rv, rt, a, new) ==
    /\ \E old \in rv : /\ rt[old] = a
                       /\ set_map_valid(rv, rt, a, new) = (rv \ {old}) \cup {new}
    /\ Table(set_map_valid(rv, rt, a, new), set_map_table(rt, a, new))
    /\ \A p \in Phys : p \in set_map_valid(rv, rt, a, new) <=>
                         p = new \/ (p \in rv /\ rt[p] # a)
    /\ \A p \in Phys : set_map_table(rt, a, new)[p] = IF p = new THEN a ELSE rt[p]
    /\ Cardinality(Mapped(rv, rt, a)) = 1

\* set_map keeps a table a table, and its verify() holds.
LEMMA TableRetires ==
  ASSUME NEW rv \in SUBSET Phys, NEW rt \in [Phys -> Arch \cup {0}], Table(rv, rt),
         NEW a \in Arch, NEW new \in Phys, new \notin rv
  PROVE  Remapped(rv, rt, a, new)
<1>1. PICK old \in rv : rt[old] = a
  BY DEF Table
<1>2. Mapped(rv, rt, a) = {old}
  BY <1>1 DEF Mapped, Table
<1>3. set_map_valid(rv, rt, a, new) = (rv \ {old}) \cup {new}
  BY <1>2 DEF set_map_valid
<1>4. \A p \in Phys : set_map_table(rt, a, new)[p] = IF p = new THEN a ELSE rt[p]
  BY DEF set_map_table
<1>5. Table(set_map_valid(rv, rt, a, new), set_map_table(rt, a, new))
  BY <1>1, <1>3, <1>4 DEF Table
<1>6. Cardinality(Mapped(rv, rt, a)) = 1
  BY <1>2, FS_Singleton
<1>7. \A p \in Phys : p \in set_map_valid(rv, rt, a, new) <=>
               p = new \/ (p \in rv /\ rt[p] # a)
  BY <1>1, <1>2, <1>3 DEF Mapped, Table
<1>8. QED
  BY <1>1, <1>3, <1>4, <1>5, <1>6, <1>7 DEF Remapped


-----------------------------------------------------------------------------
(***************************************************************************)
(* Steps seen from the tables.                                             *)
(***************************************************************************)
Tables == ChainInv /\ FreeInv /\ Table(rrat_valid, rrat_table) /\ MapInv /\ CheckInv

\* Mappings depend on the destinations only.
LEMMA MapsSame ==
  ASSUME NEW c \in Nat, UNCHANGED <<rrat_valid, rrat_table>>,
         \A n \in 0..(c - 1) : /\ (It(n)').rd = It(n).rd
                               /\ (It(n)').new_phy = It(n).new_phy
  PROVE  /\ \A k \in 0..c : \A a, p : Maps(k, a, p)' <=> Maps(k, a, p)
         /\ \A k \in 0..c : MappedRegs(k)' = MappedRegs(k)
<1>1. ASSUME NEW k \in 0..c, NEW a, NEW p PROVE Maps(k, a, p)' <=> Maps(k, a, p)
  <2>1. \A n \in 0..(k - 1) : n \in 0..(c - 1)
    OBVIOUS
  <2>2. \A n \in 0..(k - 1) : \A m \in (n + 1)..(k - 1) : m \in 0..(c - 1)
    OBVIOUS
  <2>3. QED
    BY <2>1, <2>2, Zenon DEF Maps
<1>2. QED
  BY <1>1 DEF MappedRegs

\* An instruction with the same registers.
AlikeItem(x, y) ==
    /\ x.unit = y.unit /\ x.rd = y.rd /\ x.old_phy = y.old_phy /\ x.new_phy = y.new_phy
    /\ x.old_fl_r = y.old_fl_r /\ x.new_fl_r = y.new_fl_r
    /\ x.cp_valid = y.cp_valid /\ x.cp_id = y.cp_id
table_vars == <<fl_buffer, fl_w, fl_r, free_list_set, rat_vars, cpb, cp_w, cp_r>>

\* A step that moves nothing.
LEMMA AlikeTables ==
  ASSUME Tables, RobCount \in Nat, RobCount' = RobCount,
         \A k \in Ks : AlikeItem(It(k)', It(k)), UNCHANGED table_vars
  PROVE  /\ Tables' /\ Base' = Base /\ \A p : Dist(p)' = Dist(p)
<1> USE DEF table_vars, rat_vars
<1>1. Ks' = Ks
  BY DEF Ks
<1>2. Base' = Base
  <2>1. CASE RobCount = 0
    BY <2>1 DEF Base
  <2>2. CASE RobCount # 0
    <3>1. 0 \in Ks
      BY <2>2 DEF Ks
    <3>2. QED
      BY <2>2, <3>1 DEF Base, AlikeItem
  <2>3. QED
    BY <2>1, <2>2
<1>3. \A p : Dist(p)' = Dist(p) /\ FlSlot(p)' = FlSlot(p)
  BY <1>2 DEF Dist, FlSlot
<1>4. \A k \in Ks : \A j \in 0..(k - 1) : j \in Ks
  BY DEF Ks
<1>5. ChainInv'
  <2>1. \A k \in Ks : ItemChain(k)'
    <3> SUFFICES ASSUME NEW k \in Ks PROVE ItemChain(k)'
      OBVIOUS
    <3>1. ItemChain(k)
      BY DEF Tables, ChainInv
    <3>2. AlikeItem(It(k)', It(k)) /\ (k + 1 \in Ks => AlikeItem(It(k + 1)', It(k + 1)))
      OBVIOUS
    <3>3. \A j \in 0..(k - 1) : AlikeItem(It(j)', It(j))
      BY <1>4
    <3>4. QED
      BY <1>1, <1>3, <3>1, <3>2, <3>3, Zenon DEF ItemChain, AlikeItem
  <2>2. \A p \in Span(Base, fl_r, N)' :
           \E k \in Ks : (It(k)').rd # 0 /\ (It(k)').old_fl_r = p
    BY <1>2 DEF Tables, ChainInv, AlikeItem, Span
  <2>3. QED
    BY <1>1, <1>3, <2>1, <2>2 DEF ChainInv, Tables
<1>6. FreeInv' /\ Table(rrat_valid, rrat_table)'
  BY <1>2 DEF Tables, FreeInv
<1>7. /\ \A k \in 0..RobCount : \A a, p : Maps(k, a, p)' <=> Maps(k, a, p)
      /\ \A k \in 0..RobCount : MappedRegs(k)' = MappedRegs(k)
  <2>1. PICK c \in Nat : c = RobCount
    OBVIOUS
  <2>2. \A n \in 0..(c - 1) : n \in Ks
    BY <2>1 DEF Ks
  <2>3. \A n \in 0..(c - 1) : (It(n)').rd = It(n).rd /\ (It(n)').new_phy = It(n).new_phy
    BY <2>2 DEF AlikeItem
  <2>4. QED
    BY <2>1, <2>3, MapsSame
<1>8. \A k \in Ks : k \in 0..RobCount /\ k + 1 \in 0..RobCount
  BY DEF Ks
<1>9. MapInv'
  <2>1. \A k \in Ks : (It(k)').rd # 0 => srat_table[(It(k)').new_phy] = (It(k)').rd
    BY DEF Tables, MapInv, AlikeItem
  <2>2. srat_valid' = MappedRegs(RobCount)'
    <3>1. PICK c \in Nat : c = RobCount
      OBVIOUS
    <3>2. MappedRegs(c)' = MappedRegs(c) /\ srat_valid = MappedRegs(c)
      BY <1>7, <3>1 DEF Tables, MapInv
    <3>3. QED
      BY <3>1, <3>2 DEF MappedRegs, Maps
  <2>3. ASSUME NEW k \in Ks, (It(k)').rd # 0
        PROVE  Maps(k, It(k).rd, It(k).old_phy)'
    <3>1. PICK a, p : a = It(k).rd /\ p = It(k).old_phy
      OBVIOUS
    <3>2. a = (It(k)').rd /\ p = (It(k)').old_phy
      BY <3>1 DEF AlikeItem
    <3>3. Maps(k, a, p)'
      BY <1>7, <1>8, <2>3, <3>1, <3>2 DEF Tables, MapInv
    <3>4. QED
      BY <3>2, <3>3 DEF Maps
  <2>4. \A k \in 0..RobCount : \A a \in Arch : \E p \in Phys : Maps(k, a, p)'
    BY <1>7 DEF Tables, MapInv
  <2>5. QED
    BY <1>1, <2>1, <2>2, <2>3, <2>4 DEF MapInv, Tables
<1>10. CheckInv'
  <2> SUFFICES ASSUME NEW k \in Ks, Restores(k)' PROVE Saved(k)'
    BY <1>1 DEF CheckInv
  <2>1. Restores(k) /\ Saved(k)
    BY DEF Restores, AlikeItem, Tables, CheckInv
  <2>2. Cp(k)' = Cp(k) /\ AlikeItem(It(k)', It(k)) /\ \A p : CpDist(p)' = CpDist(p)
    BY DEF Cp, AlikeItem, CpDist
  <2>3. \A j \in 0..(k - 1) : Cp(j)' = Cp(j) /\ Restores(j)' = Restores(j)
    BY <1>4 DEF Cp, AlikeItem, Restores
  <2>4. MappedRegs(k + 1)' = MappedRegs(k + 1)
    BY <1>7, <1>8
  <2>5. QED
    BY <2>1, <2>2, <2>3, <2>4 DEF Saved, AlikeItem
<1>11. QED
  BY <1>2, <1>3, <1>5, <1>6, <1>9, <1>10 DEF Tables


\* Types, one by one.
LEMMA Typed ==
  ASSUME TypeOK, PointerInv
  PROVE  /\ RobTyped /\ rob_r0 \in Positions(ROB_SIZE) /\ DOMAIN rob = Slots(ROB_SIZE)
         /\ fl_w \in Positions(N) /\ fl_r \in Positions(N)
         /\ fl_w0 \in Positions(N) /\ fl_r0 \in Positions(N)
         /\ fl_buffer \in [Slots(N) -> Phys]
         /\ cp_w \in Positions(CB) /\ cp_r \in Positions(CB) /\ cp_r0 \in Positions(CB)
         /\ cpb \in [Slots(CB) -> [valid : SUBSET Phys, new_fl_r : Positions(N),
                                   new_cp_w : Positions(CB)]]
         /\ \A p \in Positions(ROB_SIZE) : RobItem(p) \in Items
         /\ \A k \in Ks : It(k) \in Items
         /\ \A k \in Ks : /\ It(k).old_fl_r \in Positions(N) /\ It(k).new_fl_r \in Positions(N)
                          /\ It(k).rd \in Arch \cup {0} /\ It(k).cp_id \in Slots(CB)
                          /\ Cp(k) \in [valid : SUBSET Phys, new_fl_r : Positions(N),
                                        new_cp_w : Positions(CB)]
         /\ Base \in Positions(N)
<1>1. N = PHY_REG_NUM /\ CB = CHECKPOINT_BUFFER_SIZE /\ ROB_SIZE \in Nat \ {0}
  BY Sizes DEF CB
<1>2. RobTyped /\ rob_r0 \in Positions(ROB_SIZE) /\ DOMAIN rob = Slots(ROB_SIZE)
  BY DEF TypeOK, PointerInv, RobTyped
<1>3. /\ fl_w \in Positions(N) /\ fl_r \in Positions(N)
      /\ fl_w0 \in Positions(N) /\ fl_r0 \in Positions(N)
      /\ fl_buffer \in [Slots(N) -> Phys]
  BY <1>1 DEF TypeOK
<1>4. /\ cp_w \in Positions(CB) /\ cp_r \in Positions(CB) /\ cp_r0 \in Positions(CB)
      /\ cpb \in [Slots(CB) -> [valid : SUBSET Phys, new_fl_r : Positions(N),
                                new_cp_w : Positions(CB)]]
  BY <1>1 DEF TypeOK
<1>5. \A p \in Positions(ROB_SIZE) : RobItem(p) \in Items
  <2>1. \A p \in Positions(ROB_SIZE) : RingSlot(p, ROB_SIZE) \in Slots(ROB_SIZE)
    BY <1>1, RingType DEF Slots
  <2>2. QED
    BY <2>1 DEF TypeOK, RobItem
<1>6. \A k \in Ks : It(k) \in Items
  BY <1>2, <1>5, RobIs DEF It
<1>7. \A k \in Ks : /\ It(k).old_fl_r \in Positions(N) /\ It(k).new_fl_r \in Positions(N)
                    /\ It(k).rd \in Arch \cup {0} /\ It(k).cp_id \in Slots(CB)
  BY <1>1, <1>6 DEF Items
<1>8. \A k \in Ks : Cp(k) \in [valid : SUBSET Phys, new_fl_r : Positions(N),
                               new_cp_w : Positions(CB)]
  BY <1>4, <1>7 DEF Cp
<1>9. Base \in Positions(N)
  <2>1. RobCount # 0 => 0 \in Ks
    BY <1>2, RobIs DEF Ks
  <2>2. QED
    BY <1>3, <1>7, <2>1 DEF Base
<1>10. QED
  BY <1>2, <1>3, <1>4, <1>5, <1>6, <1>7, <1>8, <1>9

\* The reorder buffer is empty and the speculative table is the retired one.
Clear ==
    /\ RobCount = 0 /\ srat_valid = rrat_valid /\ srat_table = rrat_table
    /\ rrat_valid \in SUBSET Phys /\ Table(rrat_valid, rrat_table)
    /\ fl_r \in Positions(N) /\ fl_w \in Positions(N)
    /\ Pool(fl_r, fl_w, fl_buffer, rrat_valid)
    /\ free_list_set = Contents(fl_buffer, fl_r, fl_w)
    /\ RingCount(fl_w, fl_r, N) + Cardinality(Arch) <= N
ClearInv == Tables /\ Base = fl_r /\ ShapeInv

\* So it is after reset.
LEMMA ClearTables == Clear => ClearInv
<1> SUFFICES ASSUME Clear PROVE ClearInv
  OBVIOUS
<1> USE DEF Clear
<1>0. N \in Nat \ {0}
  BY Sizes
<1>1. Base = fl_r /\ Ks = {}
  BY DEF Base, Ks
<1>2. ChainInv
  <2>1. RingCount(fl_r, fl_r, N) = 0 /\ RingCount(fl_w, fl_r, N) \in 0..(2 * N - 1)
    BY <1>0, RingType
  <2>2. Span(Base, fl_r, N) = {}
    BY <1>0, <1>1, <2>1, RingType DEF Span
  <2>3. Dist(fl_r) = 0 /\ Dist(fl_w) = RingCount(fl_w, fl_r, N)
    BY <1>1, <2>1 DEF Dist
  <2>4. QED
    BY <1>1, <2>1, <2>2, <2>3 DEF ChainInv
<1>3. FreeInv
  BY <1>1 DEF FreeInv
<1>4. \A a, p : Maps(0, a, p) <=> p \in rrat_valid /\ rrat_table[p] = a
  BY DEF Maps
<1>5. MapInv
  <2>1. MappedRegs(0) = rrat_valid
    BY <1>4 DEF MappedRegs, Table
  <2>2. \A a \in Arch : \E p \in Phys : Maps(0, a, p)
    BY <1>4 DEF Table
  <2>3. \A k \in 0..RobCount : k = 0
    OBVIOUS
  <2>4. QED
    BY <1>1, <2>1, <2>2, <2>3 DEF MapInv
<1>6. CheckInv /\ ShapeInv
  BY <1>1 DEF CheckInv, ShapeInv
<1>7. QED
  BY <1>1, <1>2, <1>3, <1>5, <1>6 DEF Tables, ClearInv

\* And after a flush from commit.
LEMMA ClearedTables == Clear' => ClearInv'
BY ClearTables, PTL

\* A recovery from a misprediction at place j.
LEMMA CutTables ==
  ASSUME Tables, TypeOK, PointerInv, NEW j \in Ks, Restores(j),
         RobCount' = j + 1, \A k \in Ks' : k \in Ks /\ It(k)' = It(k),
         UNCHANGED <<fl_buffer, fl_w, srat_table, rrat_valid, rrat_table, cpb, cp_r>>,
         fl_r' = It(j).new_fl_r, free_list_set' = Contents(fl_buffer, fl_r, fl_w)',
         srat_valid' = Cp(j).valid, cp_w' = Cp(j).new_cp_w
  PROVE  Tables' /\ Base' = Base /\ (\A p : Dist(p)' = Dist(p))
<1>0. N \in Nat \ {0} /\ CB \in Nat \ {0} /\ RobTyped /\ RobCount \in Nat
  BY Sizes, Typed, RobIs
<1>1. j \in Nat /\ j < RobCount /\ Ks' = 0..j /\ 0 \in Ks /\ 0 \in Ks' /\ j \in Ks'
  BY <1>0 DEF Ks
<1>2. Base' = Base
  BY <1>0, <1>1 DEF Base
<1>3. \A p : Dist(p)' = Dist(p) /\ FlSlot(p)' = FlSlot(p)
  BY <1>2 DEF Dist, FlSlot
<1>4. /\ fl_w \in Positions(N) /\ fl_r \in Positions(N) /\ Base \in Positions(N)
      /\ \A k \in Ks : It(k).old_fl_r \in Positions(N) /\ It(k).new_fl_r \in Positions(N)
  BY Typed
<1>5. \A k \in Ks : ItemChain(k)
  BY DEF Tables, ChainInv
<1>6. \A p \in Positions(N) : Dist(p) \in Nat
  BY <1>0, <1>4, RingType DEF Dist
<1>7. Dist(It(j).old_fl_r) <= j /\ Dist(It(j).new_fl_r) <= Dist(fl_r)
  BY <1>5 DEF ItemChain
<1>8. Dist(It(j).new_fl_r) <= Dist(It(j).old_fl_r) + 1
      /\ Dist(It(j).old_fl_r) <= Dist(It(j).new_fl_r)
  <2>0. PICK o \in Positions(N) : o = It(j).old_fl_r
    BY <1>4
  <2>1. It(j).new_fl_r = o \/ It(j).new_fl_r = RingNext(o, N)
    BY <1>5, <2>0 DEF ItemChain
  <2>2. Dist(o) \in Nat /\ Dist(o) <= j /\ j < N
    BY <1>0, <1>1, <1>6, <1>7, <2>0, Sizes DEF RobTyped
  <2>3. Dist(RingNext(o, N)) = Dist(o) + 1
    <3>1. Dist(o) + 1 < 2 * N
      BY <1>0, <1>1, <2>2
    <3>2. QED
      BY <1>0, <1>4, <3>1, RingType DEF Dist
  <2>4. QED
    BY <2>0, <2>1, <2>2, <2>3
<1>9. ChainInv'
  <2>1. ASSUME NEW k \in Ks' PROVE ItemChain(k)'
    <3>1. k \in Ks /\ It(k)' = It(k) /\ ItemChain(k) /\ k \in 0..j /\ k \in Int
      BY <1>1, <1>5, <2>1
    <3>2. \A i \in 0..(k - 1) : i \in Ks' /\ It(i)' = It(i)
      BY <1>1, <3>1
    <3>3. (k + 1 \in Ks') => k + 1 \in Ks /\ It(k + 1)' = It(k + 1)
      OBVIOUS
    <3>4. k + 1 = RobCount' => k = j
      BY <1>1, <3>1
    <3>5. Dist(It(k).new_fl_r) <= Dist(It(j).new_fl_r)
      <4>1. CASE k = j
        BY <1>4, <1>6, <4>1
      <4>2. CASE k # j
        <5>1. k \in 0..(j - 1)
          BY <1>1, <3>1, <4>2
        <5>2. Dist(It(k).new_fl_r) <= Dist(It(j).old_fl_r)
          BY <1>5, <5>1 DEF ItemChain
        <5>3. QED
          BY <1>4, <1>6, <1>8, <3>1, <5>2
      <4>3. QED
        BY <4>1, <4>2
    <3>6. /\ (It(k)').new_fl_r = IF (It(k)').rd = 0 THEN (It(k)').old_fl_r
                                 ELSE RingNext((It(k)').old_fl_r, N)
          /\ (It(k)').rd # 0 => (It(k)').new_phy = FlSlot(It(k).old_fl_r)'
          /\ Dist(It(k).old_fl_r)' <= k
      BY <1>3, <3>1 DEF ItemChain, Dist, FlSlot
    <3>7. Dist(It(k).new_fl_r)' <= Dist(fl_r)'
      BY <1>2, <3>1, <3>5 DEF Dist
    <3>8. k + 1 \in Ks' => (It(k + 1)').old_fl_r = (It(k)').new_fl_r
      BY <3>1, <3>3 DEF ItemChain
    <3>9. k + 1 = RobCount' => (It(k)').new_fl_r = fl_r'
      BY <3>1, <3>4
    <3>10. \A i \in 0..(k - 1) :
              /\ Dist(It(i).new_fl_r)' <= Dist(It(k).old_fl_r)'
              /\ Dist(It(k).old_fl_r)' <= Dist(It(i).new_fl_r)' + (k - i - 1)
      BY <1>2, <3>1, <3>2 DEF ItemChain, Dist
    <3>11. Dist(It(j).new_fl_r) <= Dist(It(k).new_fl_r) + ((j + 1) - k - 1)
      <4>1. CASE k = j
        BY <1>4, <1>6, <3>1, <4>1
      <4>2. CASE k # j
        <5>1. k \in 0..(j - 1)
          BY <1>1, <3>1, <4>2
        <5>2. Dist(It(j).old_fl_r) <= Dist(It(k).new_fl_r) + (j - k - 1)
          BY <1>5, <5>1 DEF ItemChain
        <5>3. /\ Dist(It(j).old_fl_r) \in Nat /\ Dist(It(k).new_fl_r) \in Nat
              /\ Dist(It(j).new_fl_r) \in Nat
          BY <1>4, <1>6, <3>1
        <5>4. QED
          BY <1>1, <1>8, <3>1, <5>2, <5>3
      <4>3. QED
        BY <4>1, <4>2
    <3>12. Dist(fl_r)' <= Dist(It(k).new_fl_r)' + ((RobCount)' - k - 1)
      BY <1>2, <3>1, <3>11 DEF Dist
    <3>13. QED
      BY <3>6, <3>7, <3>8, <3>9, <3>10, <3>12 DEF ItemChain
  <2>2. PICK f \in Positions(N) : f = It(j).new_fl_r
    BY <1>4
  <2>3. ASSUME NEW p \in Span(Base, f, N)
        PROVE  \E k \in Ks' : (It(k)').rd # 0 /\ (It(k)').old_fl_r = p
    <3>1. p \in Positions(N) /\ Dist(p) < Dist(f)
      BY DEF Span, Dist
    <3>2. p \in Span(Base, fl_r, N)
      <4>1. Dist(p) < Dist(fl_r)
        BY <1>4, <1>6, <1>7, <2>2, <3>1
      <4>2. QED
        BY <3>1, <4>1 DEF Span, Dist
    <3>3. PICK k \in Ks : It(k).rd # 0 /\ It(k).old_fl_r = p
      BY <3>2 DEF Tables, ChainInv
    <3>4. k <= j
      <4>1. SUFFICES ASSUME j < k PROVE FALSE
        BY <1>1 DEF Ks
      <4>2. j \in 0..(k - 1)
        BY <1>1, <4>1 DEF Ks
      <4>3. Dist(f) <= Dist(p)
        BY <1>5, <2>2, <3>3, <4>2 DEF ItemChain
      <4>4. QED
        BY <1>6, <3>1, <4>3
    <3>5. k \in Ks'
      BY <1>1, <3>4 DEF Ks
    <3>6. QED
      BY <3>3, <3>5
  <2>4. Dist(f) <= j + 1 /\ Dist(f) <= Dist(fl_w)
    <3>1. Dist(fl_r) <= Dist(fl_w)
      BY DEF Tables, ChainInv
    <3>2. QED
      BY <1>1, <1>4, <1>6, <1>7, <1>8, <2>2, <3>1
  <2>5. Dist(fl_w) + Cardinality(Arch) <= N
    BY DEF Tables, ChainInv
  <2>6. Dist(fl_r)' = Dist(f) /\ Dist(fl_w)' = Dist(fl_w)
    BY <1>2, <2>2 DEF Dist
  <2>7. Span(Base, fl_r, N)' = Span(Base, f, N)
    BY <1>2, <2>2 DEF Span
  <2>8. QED
    BY <2>1, <2>3, <2>4, <2>5, <2>6, <2>7 DEF ChainInv
<1>10. FreeInv' /\ Table(rrat_valid, rrat_table)'
  BY <1>2 DEF Tables, FreeInv
<1>11. /\ \A k \in 0..(j + 1) : \A a, p : Maps(k, a, p)' <=> Maps(k, a, p)
       /\ \A k \in 0..(j + 1) : MappedRegs(k)' = MappedRegs(k)
  <2>1. PICK c \in Nat : c = j + 1
    BY <1>1
  <2>2. \A n \in 0..(c - 1) : It(n)' = It(n)
    BY <1>1, <2>1
  <2>3. QED
    BY <2>1, <2>2, MapsSame
<1>12. Saved(j)
  BY DEF Tables, CheckInv
<1>13. MapInv'
  <2>1. \A k \in Ks' : (It(k)').rd # 0 => srat_table[(It(k)').new_phy] = (It(k)').rd
    BY DEF Tables, MapInv
  <2>2. srat_valid' = MappedRegs(j + 1)'
    BY <1>1, <1>11, <1>12 DEF Saved
  <2>3. ASSUME NEW k \in Ks', (It(k)').rd # 0
        PROVE  Maps(k, It(k).rd, It(k).old_phy)'
    <3>1. PICK a, p : a = It(k).rd /\ p = It(k).old_phy
      OBVIOUS
    <3>2. a = (It(k)').rd /\ p = (It(k)').old_phy /\ k \in Ks /\ k \in 0..(j + 1)
      BY <1>1, <3>1
    <3>3. Maps(k, a, p)'
      BY <1>11, <2>3, <3>1, <3>2 DEF Tables, MapInv
    <3>4. QED
      BY <3>2, <3>3 DEF Maps
  <2>4. \A k \in 0..(j + 1) : \A a \in Arch : \E p \in Phys : Maps(k, a, p)'
    <3>1. \A k \in 0..(j + 1) : k \in 0..RobCount
      BY <1>0, <1>1
    <3>2. QED
      BY <1>11, <3>1 DEF Tables, MapInv
  <2>5. \A p \in rrat_valid' : (srat_table')[p] = (rrat_table')[p]
    BY DEF Tables, MapInv
  <2>6. srat_valid' = MappedRegs(RobCount)'
    <3>1. PICK c : c = j + 1
      OBVIOUS
    <3>2. srat_valid' = MappedRegs(c)' /\ RobCount' = c
      BY <2>2, <3>1
    <3>3. QED
      BY <3>2 DEF MappedRegs, Maps
  <2>7. QED
    BY <2>1, <2>3, <2>4, <2>5, <2>6 DEF MapInv
<1>14. CheckInv'
  <2> SUFFICES ASSUME NEW k \in Ks', Restores(k)' PROVE Saved(k)'
    BY DEF CheckInv
  <2>1. k \in Ks /\ It(k)' = It(k) /\ k \in 0..j /\ k + 1 \in 0..(j + 1) /\ k \in Int
    BY <1>1
  <2>2. Restores(k) /\ Saved(k)
    BY <2>1 DEF Restores, Tables, CheckInv
  <2>3. Cp(k)' = Cp(k) /\ \A p : CpDist(p)' = CpDist(p)
    BY <2>1 DEF Cp, CpDist
  <2>4. \A i \in 0..(k - 1) : Cp(i)' = Cp(i) /\ Restores(i)' = Restores(i)
    <3>1. \A i \in 0..(k - 1) : i \in Ks'
      BY <1>1, <2>1
    <3>2. QED
      BY <3>1 DEF Cp, Restores
  <2>5. MappedRegs(k + 1)' = MappedRegs(k + 1)
    BY <1>11, <2>1
  <2>6. PICK q \in Span(cp_r, cp_w, CB) : It(k).cp_id = RingSlot(q, CB) /\ Cp(k).new_cp_w = RingNext(q, CB)
    BY <2>2 DEF Saved
  <2>7. PICK z \in Span(cp_r, cp_w, CB) : Cp(j).new_cp_w = RingNext(z, CB)
    BY <1>12 DEF Saved
  <2>8. /\ cp_r \in Positions(CB) /\ cp_w \in Positions(CB)
        /\ RingCount(cp_w, cp_r, CB) <= CB /\ RingCount(cp_w, cp_r, CB) \in Nat
    BY <1>0, Typed, RingType DEF PointerInv
  <2>9. \A x \in Span(cp_r, cp_w, CB) : /\ CpDist(x) \in Nat /\ CpDist(x) < CB
                                        /\ x \in Positions(CB)
                                        /\ CpDist(RingNext(x, CB)) = CpDist(x) + 1
    <3> SUFFICES ASSUME NEW x \in Span(cp_r, cp_w, CB)
                 PROVE  /\ CpDist(x) \in Nat /\ CpDist(x) < CB
                        /\ x \in Positions(CB)
                        /\ CpDist(RingNext(x, CB)) = CpDist(x) + 1
      OBVIOUS
    <3>1. x \in Positions(CB) /\ RingCount(x, cp_r, CB) < RingCount(cp_w, cp_r, CB)
      BY DEF Span
    <3>2. RingCount(x, cp_r, CB) \in Nat /\ RingCount(x, cp_r, CB) < CB
      BY <1>0, <2>8, <3>1, RingType
    <3>3. RingCount(x, cp_r, CB) + 1 < 2 * CB
      BY <1>0, <3>2
    <3>4. QED
      BY <1>0, <2>8, <3>1, <3>2, <3>3, RingType DEF CpDist
  <2>10. CpDist(Cp(k).new_cp_w) <= CpDist(Cp(j).new_cp_w)
    <3>1. CASE k = j
      BY <2>7, <2>9, <3>1
    <3>2. CASE k # j
      <4>1. k \in 0..(j - 1)
        BY <1>1, <2>1, <3>2
      <4>2. CpDist(Cp(k).new_cp_w) < CpDist(Cp(j).new_cp_w)
        BY <1>12, <2>2, <4>1 DEF Saved
      <4>3. QED
        BY <2>6, <2>7, <2>9, <4>2
    <3>3. QED
      BY <3>1, <3>2
  <2>11. q \in Span(cp_r, cp_w, CB)'
    <3>1. CpDist(q) < CpDist(Cp(j).new_cp_w)
      BY <2>6, <2>7, <2>9, <2>10
    <3>2. QED
      BY <2>9, <3>1 DEF Span, CpDist
  <2>12. \E x \in Span(cp_r, cp_w, CB)' : (It(k)').cp_id = RingSlot(x, CB)
                                          /\ (Cp(k)').new_cp_w = RingNext(x, CB)
    BY <2>1, <2>3, <2>6, <2>11
  <2>13. \A i \in 0..(k - 1) : Restores(i)' => CpDist(Cp(i).new_cp_w)' < CpDist(Cp(k).new_cp_w)'
    BY <2>2, <2>3, <2>4 DEF Saved, CpDist
  <2>14. (Cp(k)').valid = MappedRegs(k + 1)' /\ (Cp(k)').new_fl_r = (It(k)').new_fl_r
    BY <2>1, <2>2, <2>3, <2>5 DEF Saved
  <2>15. QED
    BY <2>12, <2>13, <2>14 DEF Saved
<1>15. QED
  BY <1>2, <1>3, <1>9, <1>10, <1>13, <1>14 DEF Tables


\* What a retirement does to the free list and to the retirement table.
LEMMA Retired ==
  ASSUME Tables, TypeOK, PointerInv, rob_r # rob_w, RetireMap, RetirePush,
         NEW h, h = It(0), NEW b, b = Base, NEW nb, nb = h.new_fl_r
  PROVE  /\ h \in Items /\ nb \in Positions(N) /\ b = h.old_fl_r /\ b \in Positions(N)
         /\ RingCount(nb, b, N) = (IF h.rd = 0 THEN 0 ELSE 1) /\ RingCount(nb, b, N) <= Dist(fl_r)
         /\ fl_buffer' \in [Slots(N) -> Phys] /\ fl_w' \in Positions(N)
         /\ RingCount(fl_w', nb, N) = Dist(fl_w)
         /\ Pool(nb, fl_w', fl_buffer', rrat_valid')
         /\ Table(rrat_valid', rrat_table') /\ rrat_valid' \in SUBSET Phys
         /\ rrat_table' \in [Phys -> Arch \cup {0}]
         /\ \A r \in Positions(N) : RingCount(r, b, N) <= RingCount(fl_w, b, N) =>
               Contents(fl_buffer', r, fl_w') =
                  Contents(fl_buffer, r, fl_w) \cup (IF h.rd = 0 THEN {} ELSE {h.old_phy})
         /\ \A p \in Span(b, fl_w, N) : (fl_buffer')[RingSlot(p, N)] = fl_buffer[RingSlot(p, N)]
         /\ \A a \in Arch, p \in Phys :
               (p \in rrat_valid' /\ (rrat_table')[p] = a)
                  <=> \/ h.rd = a /\ p = h.new_phy
                      \/ h.rd # a /\ p \in rrat_valid /\ rrat_table[p] = a
         /\ h.rd # 0 => /\ set_map_verified(rrat_valid, rrat_table, h.rd, h.new_phy)
                        /\ h.old_phy \in rrat_valid /\ h.new_phy \notin rrat_valid
                        /\ h.new_phy \in Phys
                        /\ rrat_valid' = (rrat_valid \ {h.old_phy}) \cup {h.new_phy}
                        /\ Dist(fl_w) < N
         /\ h.rd = 0 => UNCHANGED <<rrat_valid, rrat_table, fl_w, fl_buffer>>
         /\ retired_set = Contents(fl_buffer', fl_r, fl_w')
         /\ fl_w' = retired_w
<1>0. N \in Nat \ {0} /\ RobTyped /\ PHY_REG_NUM = N
  BY Sizes, Typed
<1>1. /\ 0 \in Ks /\ Head = h /\ RobCount # 0
  BY <1>0, RobIs DEF Ks
<1>2. ItemChain(0) /\ h \in Items /\ b = h.old_fl_r /\ b \in Positions(N) /\ nb \in Positions(N)
  BY <1>1, Typed DEF Tables, ChainInv, Base
<1>3. /\ fl_w \in Positions(N) /\ fl_r \in Positions(N)
      /\ fl_buffer \in [Slots(N) -> Phys] /\ h.rd \in Arch \cup {0}
  BY <1>1, Typed
<1>4. /\ nb = IF h.rd = 0 THEN b ELSE RingNext(b, N)
      /\ h.rd # 0 => h.new_phy = fl_buffer[RingSlot(b, N)]
  BY <1>2 DEF ItemChain, FlSlot
<1>5. /\ Dist(nb) <= Dist(fl_r) /\ Dist(fl_r) <= Dist(fl_w)
      /\ Dist(fl_w) + Cardinality(Arch) <= N
  BY <1>2 DEF ItemChain, Tables, ChainInv
<1>6. \A p : Dist(p) = RingCount(p, b, N)
  BY DEF Dist
<1>7. /\ RingCount(b, b, N) = 0 /\ RingCount(RingNext(b, N), b, N) = 1
      /\ RingCount(fl_w, b, N) \in Nat /\ RingCount(fl_r, b, N) \in Nat
  <2>1. RingCount(b, b, N) = 0 /\ 0 + 1 < 2 * N
    BY <1>0, <1>2, RingType
  <2>2. QED
    BY <1>0, <1>2, <1>3, <2>1, RingType
<1>8. /\ rrat_valid \in SUBSET Phys /\ rrat_table \in [Phys -> Arch \cup {0}]
      /\ Table(rrat_valid, rrat_table) /\ Pool(b, fl_w, fl_buffer, rrat_valid)
      /\ free_list_set = Contents(fl_buffer, fl_r, fl_w)
  BY DEF TypeOK, Tables, FreeInv
<1>9. RingCount(nb, b, N) = (IF h.rd = 0 THEN 0 ELSE 1) /\ RingCount(nb, b, N) <= Dist(fl_r)
  BY <1>4, <1>5, <1>6, <1>7
<1>10. CASE h.rd = 0
  <2>1. UNCHANGED <<rrat_valid, rrat_table, fl_w, fl_buffer>> /\ fl_w' = retired_w /\ nb = b
    BY <1>1, <1>4, <1>10 DEF RetireMap, RetirePush, retired_w
  <2>2. retired_set = Contents(fl_buffer', fl_r, fl_w')
    BY <1>1, <1>8, <1>10, <2>1 DEF retired_set
  <2>3. \A a \in Arch : h.rd # a
    BY <1>10, Sizes
  <2>4. QED
    BY <1>2, <1>3, <1>6, <1>8, <1>9, <1>10, <2>1, <2>2, <2>3
<1>11. CASE h.rd # 0
  <2>1. h.rd \in Arch /\ h.rd # 0
    BY <1>3, <1>11
  <2>2. Maps(0, h.rd, h.old_phy)
    BY <1>1, <1>11 DEF Tables, MapInv
  <2>3. h.old_phy \in rrat_valid /\ rrat_table[h.old_phy] = h.rd
    BY <2>2 DEF Maps
  <2>4. RingCount(fl_w, b, N) < N /\ b # fl_w /\ RingCount(fl_w, b, N) >= 1
    BY <1>0, <1>5, <1>6, <1>7, <1>9, <1>11, <2>1, Sizes
  <2>5. b \in Span(b, fl_w, N)
    BY <1>2, <1>7, <2>4 DEF Span
  <2>6. h.new_phy \notin rrat_valid /\ h.new_phy \in Phys
    <3>1. RingSlot(b, N) \in Slots(N)
      BY <1>0, <1>2, RingType DEF Slots
    <3>2. QED
      BY <1>3, <1>4, <1>8, <1>11, <2>5, <3>1 DEF Pool
  <2>7. /\ fl_w' = RingNext(fl_w, N) /\ fl_w' = retired_w
        /\ fl_buffer' = Freed(fl_buffer, fl_w, h.old_phy)
        /\ rrat_valid' = set_map_valid(rrat_valid, rrat_table, h.rd, h.new_phy)
        /\ rrat_table' = set_map_table(rrat_table, h.rd, h.new_phy)
        /\ retired_set = free_list_set \cup {h.old_phy}
    BY <1>0, <1>1, <1>11
       DEF RetireMap, RetirePush, retired_w, retired_set, Freed, fl_push_buffer
  <2>8. /\ \A p \in Span(b, fl_w, N) : (fl_buffer')[RingSlot(p, N)] = fl_buffer[RingSlot(p, N)]
        /\ Pool(nb, fl_w', fl_buffer', (rrat_valid \ {h.old_phy}) \cup {h.new_phy})
        /\ \A r \in Positions(N) : RingCount(r, b, N) <= RingCount(fl_w, b, N) =>
             Contents(fl_buffer', r, fl_w') = Contents(fl_buffer, r, fl_w) \cup {h.old_phy}
    <3>1. PICK w \in Positions(N), buf \in [Slots(N) -> Phys], rv \in {rrat_valid}, old \in {h.old_phy},
            new \in {h.new_phy} :
            w = fl_w /\ buf = fl_buffer /\ rv = rrat_valid /\ old = h.old_phy /\ new = h.new_phy
      BY <1>3
    <3>2. /\ b \in Positions(N) /\ RingCount(w, b, N) < N /\ b # w /\ Pool(b, w, buf, rv)
          /\ old \in rv /\ new = buf[RingSlot(b, N)]
      BY <1>2, <1>4, <1>8, <1>11, <2>3, <2>4, <3>1
    <3>3. /\ \A p \in Span(b, w, N) : Freed(buf, w, old)[RingSlot(p, N)] = buf[RingSlot(p, N)]
          /\ Pool(RingNext(b, N), RingNext(w, N), Freed(buf, w, old), (rv \ {old}) \cup {new})
          /\ \A r \in Positions(N) : RingCount(r, b, N) <= RingCount(w, b, N) =>
               Contents(Freed(buf, w, old), r, RingNext(w, N)) = Contents(buf, r, w) \cup {old}
      BY <3>2, PoolRetires
    <3>4. /\ fl_w' = RingNext(w, N) /\ fl_buffer' = Freed(buf, w, old) /\ nb = RingNext(b, N)
      BY <1>4, <1>11, <2>7, <3>1
    <3>5. QED
      BY <3>1, <3>3, <3>4
  <2>9. /\ \E old \in rrat_valid : /\ rrat_table[old] = h.rd
                                   /\ rrat_valid' = (rrat_valid \ {old}) \cup {h.new_phy}
        /\ Table(rrat_valid', rrat_table')
        /\ \A p \in Phys : p \in rrat_valid' <=>
               p = h.new_phy \/ (p \in rrat_valid /\ rrat_table[p] # h.rd)
        /\ \A p \in Phys : (rrat_table')[p] = IF p = h.new_phy THEN h.rd ELSE rrat_table[p]
        /\ Cardinality(Mapped(rrat_valid, rrat_table, h.rd)) = 1
    <3>1. PICK rv \in SUBSET Phys, rt \in [Phys -> Arch \cup {0}], a \in Arch, new \in Phys :
            rv = rrat_valid /\ rt = rrat_table /\ a = h.rd /\ new = h.new_phy
      BY <1>8, <2>1, <2>6
    <3>2. Table(rv, rt) /\ new \notin rv
      BY <1>8, <2>6, <3>1
    <3>3. Remapped(rv, rt, a, new)
      BY <3>2, TableRetires
    <3>4. /\ rrat_valid' = set_map_valid(rv, rt, a, new)
          /\ rrat_table' = set_map_table(rt, a, new)
      BY <2>7, <3>1
    <3>5. QED
      BY <3>1, <3>3, <3>4 DEF Remapped
  <2>10. rrat_valid' = (rrat_valid \ {h.old_phy}) \cup {h.new_phy}
    BY <1>8, <2>3, <2>9 DEF Table
  <2>11. /\ fl_w' \in Positions(N) /\ RingCount(fl_w', b, N) = RingCount(fl_w, b, N) + 1
    <3>1. RingCount(fl_w, b, N) + 1 < 2 * N
      BY <1>0, <1>7, <2>4
    <3>2. PICK w \in Positions(N) : w = fl_w
      BY <1>3
    <3>3. RingNext(w, N) \in Positions(N) /\ RingCount(RingNext(w, N), b, N) = RingCount(w, b, N) + 1
      BY <1>0, <1>2, <3>1, <3>2, RingType
    <3>4. QED
      BY <2>7, <3>2, <3>3
  <2>12. RingCount(fl_w', nb, N) = Dist(fl_w)
    BY <1>0, <1>2, <1>6, <1>7, <1>9, <1>11, <2>4, <2>11, RingRebase
  <2>13. fl_buffer' \in [Slots(N) -> Phys] /\ rrat_valid' \in SUBSET Phys
         /\ rrat_table' \in [Phys -> Arch \cup {0}]
    BY <1>3, <1>8, <2>1, <2>3, <2>6, <2>7, <2>10 DEF Freed, set_map_table
  <2>14. \A a \in Arch, p \in Phys :
               (p \in rrat_valid' /\ (rrat_table')[p] = a)
                  <=> \/ h.rd = a /\ p = h.new_phy
                      \/ h.rd # a /\ p \in rrat_valid /\ rrat_table[p] = a
    <3> SUFFICES ASSUME NEW a \in Arch, NEW p \in Phys
                 PROVE  (p \in rrat_valid' /\ (rrat_table')[p] = a)
                          <=> \/ h.rd = a /\ p = h.new_phy
                              \/ h.rd # a /\ p \in rrat_valid /\ rrat_table[p] = a
      OBVIOUS
    <3>1. CASE p = h.new_phy
      BY <2>6, <2>9, <3>1
    <3>2. CASE p # h.new_phy
      BY <2>9, <3>2
    <3>3. QED
      BY <3>1, <3>2
  <2>15. set_map_verified(rrat_valid, rrat_table, h.rd, h.new_phy)
    BY <2>6, <2>9 DEF set_map_verified, MapVerified
  <2>16. retired_set = Contents(fl_buffer', fl_r, fl_w')
    BY <1>3, <1>5, <1>6, <1>8, <2>7, <2>8
  <2>17. Dist(fl_w) < N
    BY <1>6, <2>4
  <2>18. QED
    BY <1>2, <1>9, <1>11, <2>3, <2>6, <2>7, <2>8, <2>9, <2>10, <2>11, <2>12, <2>13, <2>14, <2>15,
       <2>16, <2>17
<1>12. QED
  BY <1>10, <1>11


\* When the oldest instruction has retired, the mapping after the next k is the one
\* after the k + 1 before.
LEMMA ShiftMaps ==
  ASSUME NEW c \in Nat, c # 0, NEW h, h = It(0), NEW a \in Arch, NEW p \in Phys, NEW k \in 0..(c - 1),
         \A n \in 0..(c - 2) : /\ (It(n)').rd = It(n + 1).rd
                               /\ (It(n)').new_phy = It(n + 1).new_phy,
         (p \in rrat_valid' /\ (rrat_table')[p] = a)
            <=> \/ h.rd = a /\ p = h.new_phy
                \/ h.rd # a /\ p \in rrat_valid /\ rrat_table[p] = a
  PROVE  Maps(k, a, p)' <=> Maps(k + 1, a, p)
<1>1. /\ k + 1 - 1 = k /\ k \in Nat
      /\ \A n \in 0..(k - 1) : n \in 0..(c - 2) /\ n \in Nat /\ n + 1 \in 0..k
      /\ \A m \in 1..k : m - 1 \in 0..(k - 1) /\ (m - 1) + 1 = m
      /\ \A m \in 0..k : m = 0 \/ m \in 1..k
      /\ 0 \in 0..k
  OBVIOUS
<1>2. \A n \in 0..(k - 1) : (It(n)').rd = It(n + 1).rd /\ (It(n)').new_phy = It(n + 1).new_phy
  BY <1>1
<1>3. \A m \in 1..k : (It(m - 1)').rd = It(m).rd /\ (It(m - 1)').new_phy = It(m).new_phy
  BY <1>1, <1>2
<1>4. Maps(k + 1, a, p) <=>
        \/ \E n \in 0..k : /\ It(n).rd = a /\ It(n).new_phy = p
                           /\ \A m \in (n + 1)..k : It(m).rd # a
        \/ /\ \A n \in 0..k : It(n).rd # a
           /\ p \in rrat_valid /\ rrat_table[p] = a
  BY <1>1 DEF Maps
<1>5. Maps(k, a, p)' <=>
        \/ \E n \in 0..(k - 1) : /\ (It(n)').rd = a /\ (It(n)').new_phy = p
                                 /\ \A m \in (n + 1)..(k - 1) : (It(m)').rd # a
        \/ /\ \A n \in 0..(k - 1) : (It(n)').rd # a
           /\ p \in rrat_valid' /\ (rrat_table')[p] = a
  BY DEF Maps
<1>6. (\A n \in 0..(k - 1) : (It(n)').rd # a) <=> (\A m \in 1..k : It(m).rd # a)
  <2>1. ASSUME \A n \in 0..(k - 1) : (It(n)').rd # a, NEW m \in 1..k PROVE It(m).rd # a
    BY <1>1, <1>3, <2>1
  <2>2. ASSUME \A m \in 1..k : It(m).rd # a, NEW n \in 0..(k - 1) PROVE (It(n)').rd # a
    <3>1. n + 1 \in 1..k
      BY <1>1
    <3>2. QED
      BY <1>2, <2>2, <3>1
  <2>3. QED
    BY <2>1, <2>2
<1>7. ASSUME Maps(k, a, p)' PROVE Maps(k + 1, a, p)
  <2>1. ASSUME NEW n \in 0..(k - 1), (It(n)').rd = a, (It(n)').new_phy = p,
               \A m \in (n + 1)..(k - 1) : (It(m)').rd # a
        PROVE  Maps(k + 1, a, p)
    <3>1. n + 1 \in 0..k /\ It(n + 1).rd = a /\ It(n + 1).new_phy = p
      BY <1>1, <1>2, <2>1
    <3>2. ASSUME NEW m \in (n + 1 + 1)..k PROVE It(m).rd # a
      <4>1. m \in 1..k /\ m - 1 \in (n + 1)..(k - 1)
        BY <1>1
      <4>2. QED
        BY <1>3, <2>1, <4>1
    <3>3. QED
      BY <1>4, <3>1, <3>2
  <2>2. ASSUME \A n \in 0..(k - 1) : (It(n)').rd # a, p \in rrat_valid', (rrat_table')[p] = a
        PROVE  Maps(k + 1, a, p)
    <3>1. \A m \in 1..k : It(m).rd # a
      BY <1>6, <2>2
    <3>2. CASE h.rd = a /\ p = h.new_phy
      <4>1. \A m \in (0 + 1)..k : It(m).rd # a
        BY <3>1
      <4>2. QED
        BY <1>1, <1>4, <3>2, <4>1
    <3>3. CASE h.rd # a /\ p \in rrat_valid /\ rrat_table[p] = a
      BY <1>1, <1>4, <3>1, <3>3
    <3>4. QED
      BY <2>2, <3>2, <3>3
  <2>3. QED
    BY <1>5, <1>7, <2>1, <2>2
<1>8. ASSUME Maps(k + 1, a, p) PROVE Maps(k, a, p)'
  <2>1. ASSUME NEW n \in 0..k, It(n).rd = a, It(n).new_phy = p,
               \A m \in (n + 1)..k : It(m).rd # a
        PROVE  Maps(k, a, p)'
    <3>1. CASE n = 0
      <4>1. \A m \in 1..k : It(m).rd # a
        BY <2>1, <3>1
      <4>2. QED
        BY <1>5, <1>6, <2>1, <3>1, <4>1
    <3>2. CASE n # 0
      <4>1. n \in 1..k /\ n - 1 \in 0..(k - 1) /\ (It(n - 1)').rd = a /\ (It(n - 1)').new_phy = p
        BY <1>1, <1>3, <2>1, <3>2
      <4>2. ASSUME NEW m \in ((n - 1) + 1)..(k - 1) PROVE (It(m)').rd # a
        <5>1. m \in 0..(k - 1) /\ m + 1 \in (n + 1)..k
          BY <1>1
        <5>2. QED
          BY <1>2, <2>1, <5>1
      <4>3. QED
        BY <1>5, <4>1, <4>2
    <3>3. QED
      BY <3>1, <3>2
  <2>2. ASSUME \A n \in 0..k : It(n).rd # a, p \in rrat_valid, rrat_table[p] = a
        PROVE  Maps(k, a, p)'
    <3>1. h.rd # a /\ \A m \in 1..k : It(m).rd # a
      BY <1>1, <2>2
    <3>2. QED
      BY <1>5, <1>6, <2>2, <3>1
  <2>3. QED
    BY <1>4, <1>8, <2>1, <2>2
<1>9. QED
  BY <1>7, <1>8


\* The positions an instruction holds.
LEMMA ItemDists ==
  ASSUME Tables, TypeOK, PointerInv, NEW k \in Ks
  PROVE  /\ Dist(It(k).old_fl_r) \in Nat /\ Dist(It(k).new_fl_r) \in Nat
         /\ Dist(It(k).new_fl_r) = Dist(It(k).old_fl_r) + (IF It(k).rd = 0 THEN 0 ELSE 1)
         /\ Dist(fl_r) \in Nat /\ Dist(fl_w) \in Nat
         /\ Dist(It(k).new_fl_r) <= Dist(fl_r) /\ Dist(fl_r) <= Dist(fl_w) /\ Dist(fl_w) <= N
<1>0. N \in Nat \ {0} /\ RobTyped /\ RobCount \in Nat
  BY Sizes, Typed, RobIs
<1>1. /\ fl_w \in Positions(N) /\ fl_r \in Positions(N) /\ Base \in Positions(N)
      /\ It(k).old_fl_r \in Positions(N) /\ It(k).new_fl_r \in Positions(N)
  BY Typed
<1>2. \A p \in Positions(N) : Dist(p) \in Nat
  BY <1>0, <1>1, RingType DEF Dist
<1>3. ItemChain(k) /\ Dist(fl_r) <= Dist(fl_w) /\ Dist(fl_w) + Cardinality(Arch) <= N
  BY DEF Tables, ChainInv
<1>4. Dist(It(k).old_fl_r) <= k /\ k < N /\ k \in Nat
  BY <1>0, <1>3, Sizes, RobIs DEF ItemChain, Ks
<1>5. PICK o \in Positions(N) : o = It(k).old_fl_r
  BY <1>1
<1>6. Dist(RingNext(o, N)) = Dist(o) + 1
  <2>1. Dist(o) + 1 < 2 * N
    BY <1>0, <1>2, <1>4, <1>5
  <2>2. QED
    BY <1>0, <1>1, <2>1, RingType DEF Dist
<1>7. Dist(It(k).new_fl_r) = Dist(It(k).old_fl_r) + (IF It(k).rd = 0 THEN 0 ELSE 1)
  BY <1>2, <1>3, <1>5, <1>6 DEF ItemChain
<1>8. QED
  BY <1>0, <1>1, <1>2, <1>3, <1>7, Sizes DEF ItemChain

\* The oldest instruction retires: the part about the free list.
LEMMA ShiftChain ==
  ASSUME Tables, TypeOK, PointerInv, CommitRetire, NEW h, h = It(0), NEW b, b = Base,
         NEW nb, nb = h.new_fl_r
  PROVE  ChainInv' /\ FreeInv' /\ Base' = nb /\ Dist(fl_w)' = Dist(fl_w)
<1>0. N \in Nat \ {0} /\ RobTyped /\ RobCount \in Nat
  BY Sizes, Typed, RobIs
<1>1. /\ rob_r # rob_w /\ RetireMap /\ RetirePush /\ fl_r' = fl_r /\ free_list_set' = retired_set
      /\ rob_r' = RingNext(rob_r, ROB_SIZE) /\ rob_w' = rob_w /\ rob' = rob
  BY DEF CommitRetire, CanCommit
<1>2. /\ nb \in Positions(N) /\ b = h.old_fl_r /\ b \in Positions(N)
      /\ RingCount(nb, b, N) = (IF h.rd = 0 THEN 0 ELSE 1) /\ RingCount(nb, b, N) <= Dist(fl_r)
      /\ fl_w' \in Positions(N) /\ RingCount(fl_w', nb, N) = Dist(fl_w)
      /\ Pool(nb, fl_w', fl_buffer', rrat_valid')
      /\ \A p \in Span(b, fl_w, N) : (fl_buffer')[RingSlot(p, N)] = fl_buffer[RingSlot(p, N)]
      /\ retired_set = Contents(fl_buffer', fl_r, fl_w')
  BY <1>1, Retired
<1>3. /\ RobTyped' /\ RobCount' = RobCount - 1 /\ 0 \in Ks
      /\ \A k \in Ks' : k + 1 \in Ks /\ It(k)' = It(k + 1)
  BY <1>0, <1>1, RobShift
<1>4. \A k \in Ks : ItemChain(k)
  BY DEF Tables, ChainInv
<1>5. Base' = nb
  <2>1. CASE RobCount' = 0
    <3>1. 0 + 1 = RobCount
      BY <1>0, <1>3, <2>1
    <3>2. nb = fl_r
      BY <1>3, <1>4, <3>1 DEF ItemChain
    <3>3. QED
      BY <1>1, <2>1, <3>2 DEF Base
  <2>2. CASE RobCount' # 0
    <3>1. 0 \in Ks' /\ 0 + 1 \in Ks
      BY <1>0, <1>3, <2>2 DEF Ks
    <3>2. (It(0)').old_fl_r = It(0 + 1).old_fl_r
      BY <1>3, <3>1
    <3>3. It(0 + 1).old_fl_r = nb
      BY <1>3, <1>4, <3>1 DEF ItemChain
    <3>4. QED
      BY <2>2, <3>2, <3>3 DEF Base
  <2>3. QED
    BY <2>1, <2>2
<1>6. PICK e \in 0..1 : e = RingCount(nb, b, N)
  BY <1>2
<1>7. \A p : Dist(p) = RingCount(p, b, N) /\ Dist(p)' = RingCount(p, nb, N)
  BY <1>5 DEF Dist
<1>8. \A p \in Positions(N) : e <= Dist(p) => Dist(p)' = Dist(p) - e
  BY <1>0, <1>2, <1>6, <1>7, RingRebase
<1>9. /\ fl_w \in Positions(N) /\ fl_r \in Positions(N)
      /\ \A k \in Ks : It(k).old_fl_r \in Positions(N) /\ It(k).new_fl_r \in Positions(N)
  BY Typed
<1>10. \A k \in Ks : k # 0 => e <= Dist(It(k).old_fl_r) /\ e <= Dist(It(k).new_fl_r)
  <2> SUFFICES ASSUME NEW k \in Ks, k # 0
               PROVE  e <= Dist(It(k).old_fl_r) /\ e <= Dist(It(k).new_fl_r)
    OBVIOUS
  <2>1. 0 \in 0..(k - 1)
    BY DEF Ks
  <2>2. Dist(It(0).new_fl_r) <= Dist(It(k).old_fl_r)
    BY <1>4, <2>1 DEF ItemChain
  <2>3. e <= Dist(It(k).old_fl_r)
    BY <1>6, <1>7, <2>2
  <2>4. QED
    BY <1>6, <2>3, ItemDists
<1> DEFINE E(p) == RingCount(p, nb, N)
<1>11. \A k \in Ks : k # 0 => /\ E(It(k).old_fl_r) = Dist(It(k).old_fl_r) - e
                              /\ E(It(k).new_fl_r) = Dist(It(k).new_fl_r) - e
  BY <1>7, <1>8, <1>9, <1>10
<1>12. E(fl_r) = Dist(fl_r) - e /\ E(fl_w') = Dist(fl_w) /\ Dist(fl_r) \in Nat
  BY <1>2, <1>3, <1>6, <1>7, <1>8, <1>9, ItemDists
<1>13. \A k \in Ks' : k + 1 \in Ks /\ k + 1 # 0 /\ k \in Nat /\ k < RobCount - 1
  BY <1>0, <1>3 DEF Ks
<1> HIDE DEF E
<1>14. ASSUME NEW k \in Ks' PROVE ItemChain(k)'
  <2>0. PICK n \in Ks : n = k + 1
    BY <1>13
  <2>1. ItemChain(n) /\ It(k)' = It(n) /\ n # 0 /\ k \in Nat
    BY <1>3, <1>4, <1>13, <2>0
  <2>2. PICK x : x = It(n)
    OBVIOUS
  <2>3. /\ Dist(x.old_fl_r) \in Nat /\ Dist(x.new_fl_r) \in Nat
        /\ Dist(x.new_fl_r) = Dist(x.old_fl_r) + (IF x.rd = 0 THEN 0 ELSE 1)
        /\ Dist(fl_r) \in Nat /\ Dist(fl_w) \in Nat
        /\ Dist(x.new_fl_r) <= Dist(fl_r) /\ Dist(fl_r) <= Dist(fl_w)
        /\ x.old_fl_r \in Positions(N)
    BY <1>9, <2>2, ItemDists
  <2>4. E(x.old_fl_r) = Dist(x.old_fl_r) - e /\ E(x.new_fl_r) = Dist(x.new_fl_r) - e
    BY <1>11, <2>1, <2>2
  <2>5. x.new_fl_r = IF x.rd = 0 THEN x.old_fl_r ELSE RingNext(x.old_fl_r, N)
    BY <2>1, <2>2 DEF ItemChain
  <2>6. x.rd # 0 => x.new_phy = (fl_buffer')[RingSlot(x.old_fl_r, N)]
    <3> SUFFICES ASSUME x.rd # 0 PROVE x.new_phy = (fl_buffer')[RingSlot(x.old_fl_r, N)]
      OBVIOUS
    <3>1. Dist(x.old_fl_r) < Dist(fl_w)
      BY <2>3
    <3>2. x.old_fl_r \in Span(b, fl_w, N)
      BY <1>7, <2>3, <3>1 DEF Span
    <3>3. x.new_phy = fl_buffer[RingSlot(x.old_fl_r, N)]
      BY <2>1, <2>2 DEF ItemChain, FlSlot
    <3>4. QED
      BY <1>2, <3>2, <3>3
  <2>7. E(x.old_fl_r) <= k
    <3>1. 0 \in 0..(n - 1)
      BY <2>0, <2>1
    <3>2. Dist(x.old_fl_r) <= Dist(It(0).new_fl_r) + (n - 0 - 1)
      BY <2>1, <2>2, <3>1 DEF ItemChain
    <3>3. QED
      BY <1>6, <1>7, <2>0, <2>1, <2>3, <2>4, <3>2
  <2>8. E(x.new_fl_r) <= E(fl_r)
    BY <1>12, <2>3, <2>4
  <2>9. k + 1 \in Ks' => (It(k + 1)').old_fl_r = x.new_fl_r
    <3> SUFFICES ASSUME k + 1 \in Ks' PROVE (It(k + 1)').old_fl_r = x.new_fl_r
      OBVIOUS
    <3>1. n + 1 \in Ks /\ It(k + 1)' = It(n + 1)
      BY <1>3, <2>0
    <3>2. QED
      BY <2>1, <2>2, <3>1 DEF ItemChain
  <2>10. k + 1 = RobCount' => x.new_fl_r = fl_r
    <3>1. k + 1 = RobCount' => n + 1 = RobCount
      BY <1>0, <1>3, <2>0, <2>1
    <3>2. QED
      BY <2>1, <2>2, <3>1 DEF ItemChain
  <2>11. E(fl_r) <= E(x.new_fl_r) + (RobCount' - k - 1)
    <3>1. Dist(fl_r) <= Dist(x.new_fl_r) + (RobCount - n - 1)
      BY <2>1, <2>2 DEF ItemChain
    <3>2. QED
      BY <1>0, <1>3, <1>6, <1>12, <2>0, <2>1, <2>3, <2>4, <3>1
  <2>12. ASSUME NEW j \in 0..(k - 1)
         PROVE  /\ E((It(j)').new_fl_r) <= E(x.old_fl_r)
                /\ E(x.old_fl_r) <= E((It(j)').new_fl_r) + (k - j - 1)
    <3>1. j \in Ks' /\ j + 1 \in 0..(n - 1) /\ j \in Nat
      BY <1>0, <1>3, <1>13, <2>0, <2>1 DEF Ks
    <3>2. It(j)' = It(j + 1) /\ j + 1 \in Ks /\ j + 1 # 0
      BY <1>3, <1>13, <3>1
    <3>3. PICK y : y = It(j + 1)
      OBVIOUS
    <3>4. /\ Dist(y.new_fl_r) <= Dist(x.old_fl_r)
          /\ Dist(x.old_fl_r) <= Dist(y.new_fl_r) + (n - (j + 1) - 1)
      BY <2>1, <2>2, <3>1, <3>3 DEF ItemChain
    <3>5. Dist(y.new_fl_r) \in Nat /\ E(y.new_fl_r) = Dist(y.new_fl_r) - e
      BY <1>11, <3>2, <3>3, ItemDists
    <3>6. E(y.new_fl_r) <= E(x.old_fl_r) /\ E(x.old_fl_r) <= E(y.new_fl_r) + (k - j - 1)
      BY <1>6, <2>0, <2>1, <2>3, <2>4, <3>1, <3>4, <3>5
    <3>7. QED
      BY <3>2, <3>3, <3>6
  <2>13. It(k)' = x
    BY <2>1, <2>2
  <2>14. /\ \A p : Dist(p)' = E(p)
         /\ Dist(It(k).old_fl_r)' = E(x.old_fl_r) /\ Dist(It(k).new_fl_r)' = E(x.new_fl_r)
         /\ Dist(fl_r)' = E(fl_r) /\ \A j : Dist(It(j).new_fl_r)' = E((It(j)').new_fl_r)
    BY <1>1, <1>5, <2>13 DEF Dist, E
  <2>15. FlSlot(It(k).old_fl_r)' = (fl_buffer')[RingSlot(x.old_fl_r, N)]
    BY <2>13 DEF FlSlot
  <2>16. QED
    BY <1>1, <2>5, <2>6, <2>7, <2>8, <2>9, <2>10, <2>11, <2>12, <2>13, <2>14, <2>15
       DEF ItemChain
<1>15. ASSUME NEW p \in Span(nb, fl_r, N)
       PROVE  \E k \in Ks' : (It(k)').rd # 0 /\ (It(k)').old_fl_r = p
  <2>1. p \in Span(b, fl_r, N) /\ RingCount(nb, b, N) <= RingCount(p, b, N)
    BY <1>2, <1>7, <1>9, PoolShrinks
  <2>2. PICK n \in Ks : It(n).rd # 0 /\ It(n).old_fl_r = p
    BY <2>1 DEF Tables, ChainInv
  <2>3. n # 0
    <3>1. SUFFICES ASSUME n = 0 PROVE FALSE
      OBVIOUS
    <3>2. p = b /\ RingCount(nb, b, N) = 1
      BY <1>2, <2>2, <3>1
    <3>3. RingCount(b, b, N) = 0
      BY <1>0, <1>2, RingType
    <3>4. QED
      BY <2>1, <3>2, <3>3
  <2>4. n - 1 \in Ks' /\ (n - 1) + 1 = n
    BY <1>0, <1>3, <2>3 DEF Ks
  <2>5. It(n - 1)' = It(n)
    BY <1>3, <2>4
  <2>6. QED
    BY <2>2, <2>4, <2>5
<1>16. E(fl_r) <= RobCount'
  <2>1. Dist(fl_r) <= Dist(It(0).new_fl_r) + (RobCount - 0 - 1)
    BY <1>3, <1>4 DEF ItemChain
  <2>2. QED
    BY <1>0, <1>3, <1>6, <1>7, <1>12, <2>1
<1>17. E(fl_r) <= E(fl_w') /\ E(fl_w') + Cardinality(Arch) <= N
  <2>1. Dist(fl_r) <= Dist(fl_w) /\ Dist(fl_w) + Cardinality(Arch) <= N
    BY DEF Tables, ChainInv
  <2>2. QED
    BY <1>3, <1>6, <1>12, <2>1, ItemDists
<1>18. Dist(fl_r)' = E(fl_r) /\ Dist(fl_w)' = E(fl_w') /\ Span(Base, fl_r, N)' = Span(nb, fl_r, N)
  BY <1>1, <1>5 DEF Dist, E, Span
<1>19. ChainInv'
  BY <1>14, <1>15, <1>16, <1>17, <1>18 DEF ChainInv
<1>20. FreeInv'
  BY <1>1, <1>2, <1>5 DEF FreeInv
<1>21. QED
  BY <1>5, <1>12, <1>18, <1>19, <1>20


\* The positions of the checkpoint buffer in use.
LEMMA CpDists ==
  ASSUME TypeOK, PointerInv, NEW q \in Span(cp_r, cp_w, CB)
  PROVE  /\ q \in Positions(CB) /\ CpDist(q) \in Nat /\ CpDist(q) < CpDist(cp_w)
         /\ CpDist(cp_w) \in Nat /\ CpDist(cp_w) <= CB /\ CpDist(q) < CB
         /\ CpDist(RingNext(q, CB)) = CpDist(q) + 1 /\ RingNext(q, CB) \in Positions(CB)
<1>0. CB \in Nat \ {0}
  BY Sizes
<1>1. cp_w \in Positions(CB) /\ cp_r \in Positions(CB) /\ q \in Positions(CB)
  BY Typed DEF Span
<1>2. /\ CpDist(q) \in Nat /\ CpDist(cp_w) \in Nat /\ CpDist(q) < CpDist(cp_w)
      /\ CpDist(cp_w) <= CB
  BY <1>0, <1>1, RingType DEF CpDist, Span, PointerInv
<1>3. RingCount(q, cp_r, CB) + 1 < 2 * CB
  BY <1>0, <1>2 DEF CpDist
<1>4. QED
  BY <1>0, <1>1, <1>2, <1>3, RingType DEF CpDist

\* The oldest instruction retires: tables and checkpoints.
LEMMA ShiftTables ==
  ASSUME Tables, TypeOK, PointerInv, ShapeInv, CommitRetire, NEW h, h = It(0), NEW b, b = Base,
         NEW nb, nb = h.new_fl_r
  PROVE  Tables' /\ Base' = nb /\ Dist(fl_w)' = Dist(fl_w)
<1>0. RobTyped /\ RobCount \in Nat /\ CB \in Nat \ {0}
  BY Sizes, Typed, RobIs
<1>1. /\ rob_r # rob_w /\ RetireMap /\ RetirePush
      /\ rob_r' = RingNext(rob_r, ROB_SIZE) /\ rob_w' = rob_w /\ rob' = rob
      /\ cp_r' = IF Head.bp_cp_valid /\ cp_r # cp_w THEN RingNext(cp_r, CB) ELSE cp_r
      /\ UNCHANGED <<cpb, cp_w, srat_valid, srat_table>>
  BY DEF CommitRetire, CanCommit, CB
<1>2. /\ Table(rrat_valid', rrat_table') /\ rrat_valid' \in SUBSET Phys
      /\ \A a \in Arch, p \in Phys :
               (p \in rrat_valid' /\ (rrat_table')[p] = a)
                  <=> \/ h.rd = a /\ p = h.new_phy
                      \/ h.rd # a /\ p \in rrat_valid /\ rrat_table[p] = a
  BY <1>1, Retired
<1>3. /\ RobTyped' /\ RobCount' = RobCount - 1 /\ 0 \in Ks
      /\ \A k \in Ks' : k + 1 \in Ks /\ It(k)' = It(k + 1)
  BY <1>0, <1>1, RobShift
<1>4. PICK c \in Nat : c = RobCount /\ c # 0
  BY <1>0, <1>3 DEF Ks
<1>5. /\ Ks' = 0..(c - 2) /\ Ks = 0..(c - 1)
      /\ \A k \in Ks' : k \in 0..(c - 1) /\ k + 1 \in 0..(c - 1) /\ k \in Nat
  BY <1>3, <1>4 DEF Ks
<1>6. \A k \in 0..(c - 1), a \in Arch, p \in Phys : Maps(k, a, p)' <=> Maps(k + 1, a, p)
  <2> SUFFICES ASSUME NEW k \in 0..(c - 1), NEW a \in Arch, NEW p \in Phys
               PROVE  Maps(k, a, p)' <=> Maps(k + 1, a, p)
    OBVIOUS
  <2>1. \A n \in 0..(c - 2) : /\ (It(n)').rd = It(n + 1).rd
                              /\ (It(n)').new_phy = It(n + 1).new_phy
    BY <1>3, <1>5
  <2>2. (p \in rrat_valid' /\ (rrat_table')[p] = a)
            <=> \/ h.rd = a /\ p = h.new_phy
                \/ h.rd # a /\ p \in rrat_valid /\ rrat_table[p] = a
    BY <1>2
  <2>3. QED
    BY <1>4, <2>1, <2>2, ShiftMaps
<1>7. \A k \in 0..(c - 1) : MappedRegs(k)' = MappedRegs(k + 1)
  BY <1>6 DEF MappedRegs
<1>8. MapInv'
  <2>1. \A k \in Ks' : (It(k)').rd # 0 => (srat_table')[(It(k)').new_phy] = (It(k)').rd
    BY <1>1, <1>3 DEF Tables, MapInv
  <2>2. \A p \in rrat_valid' : (srat_table')[p] = (rrat_table')[p]
    <3> SUFFICES ASSUME NEW p \in rrat_valid' PROVE srat_table[p] = (rrat_table')[p]
      BY <1>1
    <3>1. p \in Phys /\ (rrat_table')[p] \in Arch
      BY <1>2 DEF Table
    <3>2. CASE h.rd = (rrat_table')[p] /\ p = h.new_phy
      BY <1>3, <3>1, <3>2, Sizes DEF Tables, MapInv
    <3>3. CASE p \in rrat_valid /\ rrat_table[p] = (rrat_table')[p]
      BY <3>3 DEF Tables, MapInv
    <3>4. QED
      BY <1>2, <3>1, <3>2, <3>3
  <2>3. srat_valid' = MappedRegs(RobCount)'
    <3>1. PICK d : d = c - 1
      OBVIOUS
    <3>2. srat_valid' = MappedRegs(d)' /\ RobCount' = d
      <4>1. d \in 0..(c - 1) /\ d + 1 = c /\ RobCount' = d
        BY <1>3, <1>4, <3>1
      <4>2. MappedRegs(d)' = MappedRegs(c)
        BY <1>7, <4>1
      <4>3. QED
        BY <1>1, <1>4, <4>1, <4>2 DEF Tables, MapInv
    <3>3. QED
      BY <3>2 DEF MappedRegs, Maps
  <2>4. ASSUME NEW k \in Ks', (It(k)').rd # 0
        PROVE  Maps(k, It(k).rd, It(k).old_phy)'
    <3>1. PICK a, p : a = It(k + 1).rd /\ p = It(k + 1).old_phy
      OBVIOUS
    <3>2. a = (It(k)').rd /\ p = (It(k)').old_phy /\ k + 1 \in Ks
      BY <1>3, <3>1
    <3>3. a \in Arch /\ p \in Phys
      BY <2>4, <3>1, <3>2, Typed DEF ShapeInv
    <3>4. Maps(k, a, p)'
      BY <1>5, <1>6, <2>4, <3>1, <3>2, <3>3 DEF Tables, MapInv
    <3>5. QED
      BY <3>2, <3>4 DEF Maps
  <2>5. \A k \in (0..RobCount)' : \A a \in Arch : \E p \in Phys : Maps(k, a, p)'
    <3>1. \A k \in (0..RobCount)' : k \in 0..(c - 1) /\ k + 1 \in 0..RobCount
      BY <1>3, <1>4
    <3>2. QED
      BY <1>6, <3>1 DEF Tables, MapInv
  <2>6. QED
    BY <2>1, <2>2, <2>3, <2>4, <2>5 DEF MapInv
<1>9. CheckInv'
  <2>0. cp_r \in Positions(CB) /\ cp_w \in Positions(CB)
    BY Typed
  <2>1. PICK e \in 0..1 : /\ e = 1 => Restores(0) /\ cp_r' = RingNext(cp_r, CB)
                          /\ e = 0 => cp_r' = cp_r
    <3>1. Head.bp_cp_valid => Restores(0)
      BY <1>0, <1>3, RobIs DEF ShapeInv, Restores
    <3>2. CASE Head.bp_cp_valid /\ cp_r # cp_w
      BY <1>1, <3>1, <3>2
    <3>3. CASE ~(Head.bp_cp_valid /\ cp_r # cp_w)
      BY <1>1, <3>3
    <3>4. QED
      BY <3>2, <3>3
  <2>2. \A p \in Positions(CB) : e <= CpDist(p) => RingCount(p, cp_r', CB) = CpDist(p) - e
    <3>1. CASE e = 0
      BY <1>0, <2>0, <2>1, <3>1, RingType DEF CpDist
    <3>2. CASE e = 1
      <4>1. RingCount(cp_r, cp_r, CB) = 0 /\ 0 + 1 < 2 * CB
        BY <1>0, <2>0, RingType
      <4>2. PICK r \in Positions(CB) : r = RingNext(cp_r, CB)
        BY <1>0, <2>0, RingType
      <4>3. RingCount(r, cp_r, CB) = 1
        BY <1>0, <2>0, <4>1, <4>2, RingType
      <4>4. \A p \in Positions(CB) : 1 <= RingCount(p, cp_r, CB) =>
               RingCount(p, r, CB) = RingCount(p, cp_r, CB) - 1
        BY <1>0, <2>0, <4>3, RingRebase
      <4>5. QED
        BY <2>1, <3>2, <4>2, <4>4 DEF CpDist
    <3>3. QED
      BY <3>1, <3>2
  <2>3. \A n \in Ks : Restores(n) => Saved(n)
    BY DEF Tables, CheckInv
  <2>4. ASSUME NEW n \in Ks, n # 0, Restores(n), NEW q \in Span(cp_r, cp_w, CB),
               Cp(n).new_cp_w = RingNext(q, CB)
        PROVE  e <= CpDist(q)
    <3>1. CASE e = 0
      BY <2>4, <3>1, CpDists
    <3>2. CASE e = 1
      <4>1. 0 \in 0..(n - 1)
        BY <2>4 DEF Ks
      <4>2. CpDist(Cp(0).new_cp_w) < CpDist(Cp(n).new_cp_w)
        BY <2>1, <2>3, <2>4, <3>2, <4>1 DEF Saved
      <4>3. PICK z \in Span(cp_r, cp_w, CB) : Cp(0).new_cp_w = RingNext(z, CB)
        BY <1>3, <2>1, <2>3, <3>2 DEF Saved
      <4>4. CpDist(z) + 1 < CpDist(q) + 1 /\ CpDist(z) \in Nat /\ CpDist(q) \in Nat
        BY <2>4, <4>2, <4>3, CpDists
      <4>5. QED
        BY <3>2, <4>4
    <3>3. QED
      BY <3>1, <3>2
  <2> SUFFICES ASSUME NEW k \in Ks', Restores(k)' PROVE Saved(k)'
    BY DEF CheckInv
  <2>5. PICK n \in Ks : n = k + 1 /\ n # 0 /\ It(k)' = It(n)
    BY <1>3, <1>5
  <2>6. Restores(n) /\ Saved(n) /\ Cp(k)' = Cp(n)
    BY <1>1, <2>3, <2>5 DEF Restores, Cp
  <2>7. PICK q \in Span(cp_r, cp_w, CB) : It(n).cp_id = RingSlot(q, CB) /\ Cp(n).new_cp_w = RingNext(q, CB)
    BY <2>6 DEF Saved
  <2>8. /\ q \in Positions(CB) /\ CpDist(q) \in Nat /\ CpDist(q) < CpDist(cp_w)
        /\ CpDist(cp_w) \in Nat /\ CpDist(RingNext(q, CB)) = CpDist(q) + 1
        /\ RingNext(q, CB) \in Positions(CB) /\ e <= CpDist(q)
    BY <2>4, <2>5, <2>6, <2>7, CpDists
  <2>9. q \in Span(cp_r, cp_w, CB)'
    <3>1. RingCount(q, cp_r', CB) = CpDist(q) - e /\ RingCount(cp_w, cp_r', CB) = CpDist(cp_w) - e
      BY <2>0, <2>2, <2>8
    <3>2. QED
      BY <1>1, <2>8, <3>1 DEF Span
  <2>10. ASSUME NEW i \in 0..(k - 1), Restores(i)'
         PROVE  CpDist(Cp(i).new_cp_w)' < CpDist(Cp(k).new_cp_w)'
    <3>1. i \in Ks' /\ i + 1 \in 0..(n - 1) /\ i \in Nat
      BY <1>5, <2>5
    <3>2. PICK m \in Ks : m = i + 1 /\ m # 0 /\ It(i)' = It(m)
      BY <1>3, <1>5, <3>1
    <3>3. Restores(m) /\ Saved(m) /\ Cp(i)' = Cp(m)
      BY <1>1, <2>3, <2>10, <3>2 DEF Restores, Cp
    <3>4. PICK z \in Span(cp_r, cp_w, CB) : Cp(m).new_cp_w = RingNext(z, CB)
      BY <3>3 DEF Saved
    <3>5. CpDist(Cp(m).new_cp_w) < CpDist(Cp(n).new_cp_w)
      BY <2>6, <3>1, <3>2, <3>3 DEF Saved
    <3>6. /\ CpDist(z) \in Nat /\ CpDist(RingNext(z, CB)) = CpDist(z) + 1
          /\ RingNext(z, CB) \in Positions(CB) /\ e <= CpDist(z)
      BY <2>4, <3>2, <3>3, <3>4, CpDists
    <3>7. /\ RingCount(RingNext(z, CB), cp_r', CB) = CpDist(z) + 1 - e
          /\ RingCount(RingNext(q, CB), cp_r', CB) = CpDist(q) + 1 - e
      BY <2>2, <2>8, <3>6
    <3>8. RingCount(RingNext(z, CB), cp_r', CB) < RingCount(RingNext(q, CB), cp_r', CB)
      BY <2>7, <2>8, <3>4, <3>5, <3>6, <3>7
    <3>9. QED
      BY <2>6, <2>7, <3>3, <3>4, <3>8 DEF CpDist
  <2>11. (Cp(k)').valid = MappedRegs(k + 1)'
    <3>1. PICK d \in 0..(c - 1) : d = k + 1
      BY <1>5
    <3>2. MappedRegs(d)' = MappedRegs(n + 1)
      BY <1>7, <2>5, <3>1
    <3>3. QED
      BY <2>5, <2>6, <3>1, <3>2 DEF Saved
  <2>12. QED
    BY <2>5, <2>6, <2>7, <2>9, <2>10, <2>11 DEF Saved
<1>10. ChainInv' /\ FreeInv' /\ Base' = nb /\ Dist(fl_w)' = Dist(fl_w)
  BY ShiftChain
<1>11. QED
  BY <1>2, <1>8, <1>9, <1>10 DEF Tables


-----------------------------------------------------------------------------
(***************************************************************************)
(* Renaming.                                                               *)
(***************************************************************************)

\* What rename does with instruction x when no verify() fails.
Renamed(x) ==
    /\ RobCount < ROB_SIZE
    /\ rob_r' = rob_r /\ rob_w' = RingNext(rob_w, ROB_SIZE)
    /\ rob' = [rob EXCEPT ![RingSlot(rob_w, ROB_SIZE)] = x]
    /\ x \in Items
    /\ x.old_fl_r = fl_r
    /\ x.new_fl_r = IF x.rd = 0 THEN fl_r ELSE RingNext(fl_r, N)
    /\ fl_r' = x.new_fl_r
    /\ x.rd = 0 => x.new_phy = NoReg
    /\ x.rd # 0 => /\ x.new_phy = FlAt(0) /\ x.new_phy \in free_list_set
                   /\ x.old_phy = get_phy_id(srat_valid, srat_table, x.rd)
    /\ free_list_set' = free_list_set \ {x.new_phy}
    /\ srat_valid' = IF x.rd = 0 THEN srat_valid
                     ELSE set_map_valid(srat_valid, srat_table, x.rd, x.new_phy)
    /\ srat_table' = IF x.rd = 0 THEN srat_table
                     ELSE set_map_table(srat_table, x.rd, x.new_phy)
    /\ UNCHANGED <<fl_buffer, fl_w, rrat_valid, rrat_table, cp_r>>
    /\ IF x.cp_valid
       THEN /\ RingCount(cp_w, cp_r, CB) < CB
            /\ x.cp_id = RingSlot(cp_w, CB)
            /\ cpb' = [cpb EXCEPT ![RingSlot(cp_w, CB)] =
                         [valid |-> srat_valid', new_fl_r |-> x.new_fl_r,
                          new_cp_w |-> RingNext(cp_w, CB)]]
            /\ cp_w' = RingNext(cp_w, CB)
       ELSE UNCHANGED <<cpb, cp_w>>

\* All but the first position.
LEMMA SpanTail ==
  ASSUME NEW n \in Nat \ {0}, NEW r \in Positions(n), NEW w \in Positions(n), r # w
  PROVE  /\ Span(RingNext(r, n), w, n) = Span(r, w, n) \ {r} /\ r \in Span(r, w, n)
         /\ RingCount(w, RingNext(r, n), n) = RingCount(w, r, n) - 1
<1>1. PICK s \in Positions(n) : s = RingNext(r, n)
  BY RingType
<1>2. RingCount(r, r, n) = 0 /\ RingCount(s, r, n) = 1
  <2>1. RingCount(r, r, n) = 0 /\ 0 + 1 < 2 * n
    BY RingType
  <2>2. QED
    BY <1>1, <2>1, RingType
<1>3. \A p \in Positions(n) : RingCount(p, r, n) \in Nat /\ (RingCount(p, r, n) = 0 <=> p = r)
                              /\ RingCount(p, r, n) < 2 * n
  BY RingType
<1>4. \A p \in Positions(n) : p # r => RingCount(p, s, n) = RingCount(p, r, n) - 1
  <2> SUFFICES ASSUME NEW p \in Positions(n), p # r
               PROVE  RingCount(p, s, n) = RingCount(p, r, n) - 1
    OBVIOUS
  <2>1. RingCount(s, r, n) <= RingCount(p, r, n)
    BY <1>2, <1>3
  <2>2. QED
    BY <1>2, <2>1, RingRebase
<1>5. RingCount(r, s, n) = 2 * n - 1
  BY <1>2, RingRebase
<1>6. \A p \in Positions(n) : RingCount(p, s, n) < RingCount(w, s, n) <=>
           RingCount(p, r, n) < RingCount(w, r, n) /\ p # r
  <2> SUFFICES ASSUME NEW p \in Positions(n)
               PROVE  RingCount(p, s, n) < RingCount(w, s, n) <=>
                        RingCount(p, r, n) < RingCount(w, r, n) /\ p # r
    OBVIOUS
  <2>1. RingCount(w, s, n) = RingCount(w, r, n) - 1
    BY <1>4
  <2>2. CASE p = r
    BY <1>3, <1>5, <2>1, <2>2
  <2>3. CASE p # r
    BY <1>3, <1>4, <2>1, <2>3
  <2>4. QED
    BY <2>2, <2>3
<1>7. QED
  BY <1>1, <1>2, <1>3, <1>4, <1>6 DEF Span

\* The register at the front of the free list.
LEMMA FrontUnused ==
  ASSUME Tables, TypeOK, PointerInv, Dist(fl_r) < Dist(fl_w)
  PROVE  /\ FlSlot(fl_r) \in Phys /\ fl_r \in Span(Base, fl_w, N)
         /\ FlSlot(fl_r) \notin rrat_valid
         /\ \A k \in Ks : It(k).rd # 0 => It(k).new_phy # FlSlot(fl_r)
<1>0. /\ N \in Nat \ {0} /\ fl_w \in Positions(N) /\ fl_r \in Positions(N)
      /\ Base \in Positions(N) /\ fl_buffer \in [Slots(N) -> Phys]
  BY Sizes, Typed
<1>1. fl_r \in Span(Base, fl_w, N)
  BY <1>0 DEF Span, Dist
<1>2. Pool(Base, fl_w, fl_buffer, rrat_valid)
  BY DEF Tables, FreeInv
<1>3. FlSlot(fl_r) \notin rrat_valid
  BY <1>1, <1>2 DEF Pool, FlSlot
<1>4. ASSUME NEW k \in Ks, It(k).rd # 0, It(k).new_phy = FlSlot(fl_r) PROVE FALSE
  <2>1. It(k).new_phy = FlSlot(It(k).old_fl_r) /\ It(k).old_fl_r \in Positions(N)
    BY <1>4, Typed DEF Tables, ChainInv, ItemChain
  <2>2. Dist(It(k).old_fl_r) < Dist(fl_r)
    BY <1>4, ItemDists
  <2>3. Dist(It(k).old_fl_r) < Dist(fl_w)
    BY <1>4, <2>2, ItemDists
  <2>4. It(k).old_fl_r \in Span(Base, fl_w, N)
    BY <2>1, <2>3 DEF Span, Dist
  <2>5. It(k).old_fl_r = fl_r
    BY <1>1, <1>2, <1>4, <2>1, <2>4 DEF Pool, FlSlot
  <2>6. QED
    BY <2>2, <2>5, ItemDists
<1>5. FlSlot(fl_r) \in Phys
  <2>1. RingSlot(fl_r, N) \in Slots(N)
    BY <1>0, RingType DEF Slots
  <2>2. QED
    BY <1>0, <2>1 DEF FlSlot
<1>6. QED
  BY <1>1, <1>3, <1>4, <1>5

\* The register taken.
LEMMA Taken ==
  ASSUME Tables, TypeOK, PointerInv, NEW x, Renamed(x), x.rd # 0
  PROVE  /\ fl_r # fl_w /\ x.new_phy = FlSlot(fl_r) /\ x.new_phy \in Phys
         /\ fl_r \in Span(Base, fl_w, N) /\ Dist(fl_r) < Dist(fl_w)
         /\ x.new_phy \notin rrat_valid
         /\ \A k \in Ks : It(k).rd # 0 => It(k).new_phy # x.new_phy
<1>0. /\ N \in Nat \ {0} /\ fl_w \in Positions(N) /\ fl_r \in Positions(N)
      /\ Base \in Positions(N) /\ PHY_REG_NUM = N /\ fl_buffer \in [Slots(N) -> Phys]
  BY Sizes, Typed
<1>1. x.new_phy = FlSlot(fl_r)
  BY <1>0, RingAddType DEF Renamed, FlAt, FlSlot
<1>2. x.new_phy \in Contents(fl_buffer, fl_r, fl_w)
  BY DEF Renamed, Tables, FreeInv
<1>3. PICK q \in Span(fl_r, fl_w, N) : TRUE
  BY <1>2 DEF Contents
<1>4. fl_r # fl_w
  <2>1. SUFFICES ASSUME fl_r = fl_w PROVE FALSE
    OBVIOUS
  <2>2. RingCount(fl_w, fl_r, N) = 0 /\ q \in Positions(N) /\ RingCount(q, fl_r, N) < 0
    BY <1>0, <2>1, RingType DEF Span
  <2>3. RingCount(q, fl_r, N) \in Nat
    BY <1>0, <2>2, RingType
  <2>4. QED
    BY <2>2, <2>3
<1>5. Dist(fl_r) < Dist(fl_w)
  <2>1. Dist(fl_r) \in Nat /\ Dist(fl_w) \in Nat /\ Dist(fl_r) # Dist(fl_w)
    BY <1>0, <1>4, RingType, RingSame DEF Dist
  <2>2. Dist(fl_r) <= Dist(fl_w)
    BY DEF Tables, ChainInv
  <2>3. QED
    BY <2>1, <2>2
<1>6. QED
  BY <1>1, <1>4, <1>5, FrontUnused


\* Rename adds an instruction: places.
LEMMA GrowPlaces ==
  ASSUME TypeOK, PointerInv, NEW x, Renamed(x), NEW c, c = RobCount
  PROVE  /\ RobTyped' /\ RobCount' = c + 1 /\ c \in Nat
         /\ Ks = 0..(c - 1) /\ Ks' = 0..c
         /\ \A k \in Ks : k \in Ks' /\ It(k)' = It(k) /\ k < c
         /\ It(c)' = x /\ (\A k \in Ks' : k \in Ks \/ k = c)
<1>1. RobTyped /\ DOMAIN rob = Slots(ROB_SIZE)
  BY Typed
<1>2. PICK w : w = rob_w
  OBVIOUS
<1>3. /\ RobTyped' /\ RobCount' = c + 1 /\ c \in Nat
      /\ \A k \in Ks : k \in Ks' /\ It(k)' = It(k) /\ k < c
      /\ It(c)' = x /\ (\A k \in Ks' : k \in Ks \/ k = c)
  BY <1>1, <1>2, RobGrow DEF Renamed
<1>4. Ks = 0..(c - 1) /\ Ks' = 0..c
  BY <1>3 DEF Ks
<1>5. QED
  BY <1>3, <1>4

\* Rename adds an instruction: the part about the free list.
LEMMA GrowChain ==
  ASSUME Tables, TypeOK, PointerInv, NEW x, Renamed(x), NEW c, c = RobCount
  PROVE  ChainInv' /\ FreeInv' /\ Base' = Base /\ Dist(fl_w)' = Dist(fl_w)
<1>0. /\ N \in Nat \ {0} /\ fl_w \in Positions(N) /\ fl_r \in Positions(N)
      /\ Base \in Positions(N)
      /\ \A k \in Ks : It(k).old_fl_r \in Positions(N) /\ It(k).new_fl_r \in Positions(N)
  BY Sizes, Typed
<1>1. /\ RobCount' = c + 1 /\ c \in Nat
      /\ Ks = 0..(c - 1) /\ Ks' = 0..c
      /\ \A k \in Ks : k \in Ks' /\ It(k)' = It(k) /\ k < c
      /\ It(c)' = x /\ (\A k \in Ks' : k \in Ks \/ k = c)
  BY GrowPlaces
<1>2. Base' = Base
  <2>1. CASE c = 0
    BY <1>1, <2>1 DEF Base, Renamed
  <2>2. CASE c # 0
    <3>1. 0 \in Ks /\ RobCount' # 0
      BY <1>1, <2>2
    <3>2. QED
      BY <1>1, <2>2, <3>1 DEF Base
  <2>3. QED
    BY <2>1, <2>2
<1>3. PICK b \in Positions(N) : b = Base
  BY <1>0
<1> DEFINE E(p) == RingCount(p, b, N)
<1>4. \A p \in Positions(N) : E(p) \in Nat /\ E(p) < 2 * N
  BY <1>0, RingType
<1>5. \A p : Dist(p) = E(p)
  BY <1>3 DEF Dist
<1>6. \A k \in Ks : ItemChain(k)
  BY DEF Tables, ChainInv
<1>7. /\ E(fl_r) <= c /\ E(fl_r) <= E(fl_w) /\ E(fl_w) + Cardinality(Arch) <= N
  BY <1>5 DEF Tables, ChainInv
<1>8. PICK g \in Positions(N) : g = x.new_fl_r
  BY <1>0, RingType DEF Renamed
<1>9. /\ E(g) = E(fl_r) + (IF x.rd = 0 THEN 0 ELSE 1) /\ E(g) <= E(fl_w)
  <2>1. CASE x.rd = 0
    BY <1>0, <1>4, <1>7, <1>8, <2>1 DEF Renamed
  <2>2. CASE x.rd # 0
    <3>1. E(fl_r) < E(fl_w)
      BY <1>5, <2>2, Taken
    <3>2. E(fl_r) + 1 < 2 * N
      BY <1>0, <1>4, <1>7, <3>1, Sizes
    <3>3. g = RingNext(fl_r, N)
      BY <1>8, <2>2 DEF Renamed
    <3>4. E(g) = E(fl_r) + 1
      BY <1>0, <3>2, <3>3, RingType
    <3> HIDE DEF E
    <3>5. QED
      BY <1>0, <1>4, <2>2, <3>1, <3>4
  <2>3. QED
    BY <2>1, <2>2
<1>10. /\ x.old_fl_r = fl_r /\ fl_r' = g /\ fl_w' = fl_w /\ fl_buffer' = fl_buffer
       /\ g = IF x.rd = 0 THEN fl_r ELSE RingNext(fl_r, N)
  BY <1>8 DEF Renamed
<1>11. x.rd # 0 => x.new_phy = FlSlot(fl_r)
  BY Taken
<1>12. /\ \A p : Dist(p)' = E(p) /\ FlSlot(p)' = FlSlot(p)
       /\ Dist(fl_r)' = E(g) /\ Dist(fl_w)' = E(fl_w)
       /\ \A k : Dist(It(k).new_fl_r)' = E((It(k)').new_fl_r)
       /\ \A k : Dist(It(k).old_fl_r)' = E((It(k)').old_fl_r)
       /\ \A k : FlSlot(It(k).old_fl_r)' = fl_buffer[RingSlot((It(k)').old_fl_r, N)]
  BY <1>2, <1>3, <1>10 DEF Dist, FlSlot
<1> HIDE DEF E
<1>13. ASSUME NEW k \in Ks PROVE ItemChain(k)'
  <2>1. PICK y : y = It(k)
    OBVIOUS
  <2>2. It(k)' = y /\ ItemChain(k) /\ k < c /\ k \in Nat
    BY <1>1, <1>6, <2>1
  <2>3. /\ y.new_fl_r = IF y.rd = 0 THEN y.old_fl_r ELSE RingNext(y.old_fl_r, N)
        /\ y.rd # 0 => y.new_phy = fl_buffer[RingSlot(y.old_fl_r, N)]
        /\ E(y.old_fl_r) <= k
        /\ E(y.new_fl_r) <= E(fl_r)
        /\ E(fl_r) <= E(y.new_fl_r) + (c - k - 1)
    BY <1>5, <2>1, <2>2 DEF ItemChain, FlSlot
  <2>4. E(y.new_fl_r) \in Nat /\ E(fl_r) \in Nat /\ E(g) \in Nat
    BY <1>0, <1>4, <2>1
  <2>5. E(y.new_fl_r) <= E(g) /\ E(g) <= E(y.new_fl_r) + ((c + 1) - k - 1)
    BY <1>1, <1>9, <2>2, <2>3, <2>4
  <2>6. k + 1 \in Ks' => (It(k + 1)').old_fl_r = y.new_fl_r
    <3>1. CASE k + 1 \in Ks
      BY <1>1, <2>1, <2>2, <3>1 DEF ItemChain
    <3>2. CASE k + 1 = c
      BY <1>1, <1>10, <2>1, <2>2, <3>2 DEF ItemChain
    <3>3. QED
      BY <1>1, <3>1, <3>2
  <2>7. k + 1 # RobCount'
    BY <1>1, <2>2
  <2>8. ASSUME NEW j \in 0..(k - 1)
        PROVE  /\ E((It(j)').new_fl_r) <= E(y.old_fl_r)
               /\ E(y.old_fl_r) <= E((It(j)').new_fl_r) + (k - j - 1)
    <3>1. j \in Ks
      BY <1>1, <2>2
    <3>2. It(j)' = It(j)
      BY <1>1, <3>1
    <3>3. QED
      BY <1>5, <2>1, <2>2, <3>2 DEF ItemChain
  <2>9. QED
    BY <1>1, <1>12, <2>2, <2>3, <2>5, <2>6, <2>7, <2>8 DEF ItemChain
<1>14. ItemChain(c)'
  <2>1. /\ c + 1 \notin Ks' /\ E(g) \in Nat
    BY <1>1, <1>4
  <2>2. ASSUME NEW j \in 0..(c - 1)
        PROVE  /\ E((It(j)').new_fl_r) <= E(fl_r)
               /\ E(fl_r) <= E((It(j)').new_fl_r) + (c - j - 1)
    <3>1. j \in Ks /\ It(j)' = It(j)
      BY <1>1
    <3>2. QED
      BY <1>5, <1>6, <3>1 DEF ItemChain
  <2>3. x.new_fl_r = IF x.rd = 0 THEN x.old_fl_r ELSE RingNext(x.old_fl_r, N)
    BY <1>8, <1>10
  <2>4. x.rd # 0 => x.new_phy = fl_buffer[RingSlot(x.old_fl_r, N)]
    BY <1>10, <1>11 DEF FlSlot
  <2>5. E(x.old_fl_r) <= c /\ E(x.new_fl_r) <= E(g) /\ E(g) <= E(x.new_fl_r) + ((c + 1) - c - 1)
    BY <1>1, <1>7, <1>8, <1>10, <2>1
  <2>6. QED
    BY <1>1, <1>8, <1>10, <1>12, <2>1, <2>2, <2>3, <2>4, <2>5 DEF ItemChain
<1>15. ASSUME NEW p \in Span(b, g, N)
       PROVE  \E k \in Ks' : (It(k)').rd # 0 /\ (It(k)').old_fl_r = p
  <2>1. p \in Positions(N) /\ E(p) < E(g) /\ E(p) \in Nat /\ E(fl_r) \in Nat
    BY <1>0, <1>4 DEF Span, E
  <2>2. CASE E(p) < E(fl_r)
    <3>1. p \in Span(Base, fl_r, N)
      BY <1>3, <2>1, <2>2 DEF Span, E
    <3>2. PICK k \in Ks : It(k).rd # 0 /\ It(k).old_fl_r = p
      BY <3>1 DEF Tables, ChainInv
    <3>3. QED
      BY <1>1, <3>2
  <2>3. CASE ~(E(p) < E(fl_r))
    <3>1. E(p) = E(fl_r) /\ x.rd # 0
      BY <1>9, <2>1, <2>3
    <3>2. p = fl_r
      BY <1>0, <2>1, <3>1, RingSame DEF E
    <3>3. c \in Ks'
      BY <1>1
    <3>4. QED
      BY <1>1, <1>10, <3>1, <3>2, <3>3
  <2>4. QED
    BY <2>2, <2>3
<1>16. E(g) <= c + 1
  BY <1>0, <1>1, <1>4, <1>7, <1>9
<1>17. Span(Base, fl_r, N)' = Span(b, g, N)
  BY <1>2, <1>3, <1>10 DEF Span
<1>18. ChainInv'
  <2>1. \A k \in Ks' : ItemChain(k)'
    BY <1>1, <1>13, <1>14
  <2>2. QED
    BY <1>1, <1>7, <1>9, <1>12, <1>15, <1>16, <1>17, <2>1 DEF ChainInv
<1>19. Contents(fl_buffer, g, fl_w) = Contents(fl_buffer, fl_r, fl_w) \ {x.new_phy}
  <2>0. Pool(b, fl_w, fl_buffer, rrat_valid) /\ free_list_set = Contents(fl_buffer, fl_r, fl_w)
    BY <1>3 DEF Tables, FreeInv
  <2>1. CASE x.rd = 0
    <3>1. x.new_phy \notin Phys
      BY <2>1, ConstAssumption DEF Renamed
    <3>2. x.new_phy \notin free_list_set
      BY <3>1 DEF TypeOK
    <3>3. QED
      BY <1>10, <2>0, <2>1, <3>2
  <2>2. CASE x.rd # 0
    <3>1. fl_r # fl_w /\ x.new_phy = fl_buffer[RingSlot(fl_r, N)]
      BY <2>2, Taken DEF FlSlot
    <3>2. Span(g, fl_w, N) = Span(fl_r, fl_w, N) \ {fl_r} /\ fl_r \in Span(fl_r, fl_w, N)
      BY <1>0, <1>10, <2>2, <3>1, SpanTail
    <3>3. Span(fl_r, fl_w, N) \subseteq Span(b, fl_w, N)
      BY <1>0, <1>3, <1>7, PoolShrinks DEF E
    <3>4. \A p \in Span(fl_r, fl_w, N) :
             fl_buffer[RingSlot(p, N)] = x.new_phy <=> p = fl_r
      BY <2>0, <3>1, <3>2, <3>3 DEF Pool
    <3>5. QED
      BY <3>2, <3>4 DEF Contents
  <2>3. QED
    BY <2>1, <2>2
<1>20. FreeInv'
  BY <1>2, <1>10, <1>19 DEF FreeInv, Tables, Renamed
<1>21. QED
  BY <1>2, <1>5, <1>12, <1>18, <1>20


\* Rename adds an instruction: the tables.
LEMMA GrowMaps ==
  ASSUME Tables, TypeOK, PointerInv, NEW x, Renamed(x), NEW c, c = RobCount
  PROVE  /\ MapInv'
         /\ \A k \in 0..c : MappedRegs(k)' = MappedRegs(k)
<1>0. /\ RobCount' = c + 1 /\ c \in Nat
      /\ Ks = 0..(c - 1) /\ Ks' = 0..c
      /\ \A k \in Ks : k \in Ks' /\ It(k)' = It(k) /\ k < c
      /\ It(c)' = x /\ (\A k \in Ks' : k \in Ks \/ k = c)
  BY GrowPlaces
<1>1. UNCHANGED <<rrat_valid, rrat_table>> /\ x.rd \in Arch \cup {0} /\ (x.rd \in Arch <=> x.rd # 0)
  BY Sizes DEF Renamed, Items
<1>2. /\ \A k \in 0..c : \A a, p : Maps(k, a, p)' <=> Maps(k, a, p)
      /\ \A k \in 0..c : MappedRegs(k)' = MappedRegs(k)
  <2>1. \A n \in 0..(c - 1) : (It(n)').rd = It(n).rd /\ (It(n)').new_phy = It(n).new_phy
    BY <1>0
  <2>2. QED
    BY <1>0, <1>1, <2>1, MapsSame
<1>3. /\ \A k \in Ks : It(k).rd # 0 => srat_table[It(k).new_phy] = It(k).rd
      /\ \A p \in rrat_valid : srat_table[p] = rrat_table[p]
      /\ srat_valid = MappedRegs(c)
      /\ \A k \in Ks : It(k).rd # 0 => Maps(k, It(k).rd, It(k).old_phy)
      /\ \A k \in 0..c : \A a \in Arch : \E p \in Phys : Maps(k, a, p)
  BY DEF Tables, MapInv
<1>4. \A a, p : Maps(c + 1, a, p)' <=> \/ x.rd = a /\ x.new_phy = p
                                       \/ x.rd # a /\ Maps(c, a, p)
  <2> SUFFICES ASSUME NEW a, NEW p
               PROVE  Maps(c + 1, a, p)' <=> \/ x.rd = a /\ x.new_phy = p
                                             \/ x.rd # a /\ Maps(c, a, p)'
    BY <1>0, <1>2
  <2>1. /\ c + 1 - 1 = c /\ c \in 0..c /\ (c + 1)..c = {}
        /\ \A n \in 0..c : n \in 0..(c - 1) \/ n = c
        /\ \A n \in 0..(c - 1) : /\ n \in 0..c /\ c \in (n + 1)..c
                                 /\ \A m \in (n + 1)..c : m \in (n + 1)..(c - 1) \/ m = c
                                 /\ \A m \in (n + 1)..(c - 1) : m \in (n + 1)..c
    BY <1>0
  <2>2. Maps(c + 1, a, p)' <=>
          \/ \E n \in 0..c : /\ (It(n)').rd = a /\ (It(n)').new_phy = p
                             /\ \A m \in (n + 1)..c : (It(m)').rd # a
          \/ /\ \A n \in 0..c : (It(n)').rd # a
             /\ p \in rrat_valid' /\ (rrat_table')[p] = a
    BY <2>1 DEF Maps
  <2>3. Maps(c, a, p)' <=>
          \/ \E n \in 0..(c - 1) : /\ (It(n)').rd = a /\ (It(n)').new_phy = p
                                   /\ \A m \in (n + 1)..(c - 1) : (It(m)').rd # a
          \/ /\ \A n \in 0..(c - 1) : (It(n)').rd # a
             /\ p \in rrat_valid' /\ (rrat_table')[p] = a
    BY DEF Maps
  <2>4. CASE x.rd = a
    <3>1. \A n \in 0..(c - 1) : ~\A m \in (n + 1)..c : (It(m)').rd # a
      BY <1>0, <2>1, <2>4
    <3>2. (\E n \in 0..c : /\ (It(n)').rd = a /\ (It(n)').new_phy = p
                           /\ \A m \in (n + 1)..c : (It(m)').rd # a)
           <=> x.new_phy = p
      BY <1>0, <2>1, <2>4, <3>1
    <3>3. ~\A n \in 0..c : (It(n)').rd # a
      BY <1>0, <2>1, <2>4
    <3>4. QED
      BY <2>2, <2>4, <3>2, <3>3
  <2>5. CASE x.rd # a
    <3>1. \A n \in 0..(c - 1) : (\A m \in (n + 1)..c : (It(m)').rd # a)
                                  <=> (\A m \in (n + 1)..(c - 1) : (It(m)').rd # a)
      BY <1>0, <2>1, <2>5
    <3>2. (\A n \in 0..c : (It(n)').rd # a) <=> (\A n \in 0..(c - 1) : (It(n)').rd # a)
      BY <1>0, <2>1, <2>5
    <3>3. (\E n \in 0..c : /\ (It(n)').rd = a /\ (It(n)').new_phy = p
                           /\ \A m \in (n + 1)..c : (It(m)').rd # a)
           <=> (\E n \in 0..(c - 1) : /\ (It(n)').rd = a /\ (It(n)').new_phy = p
                                      /\ \A m \in (n + 1)..(c - 1) : (It(m)').rd # a)
      BY <1>0, <2>1, <2>5, <3>1
    <3>4. QED
      BY <2>2, <2>3, <2>5, <3>2, <3>3
  <2>6. QED
    BY <2>4, <2>5
<1>5. \A a, p : Maps(c, a, p) /\ a \in Arch => srat_table[p] = a
  <2> SUFFICES ASSUME NEW a \in Arch, NEW p, Maps(c, a, p) PROVE srat_table[p] = a
    OBVIOUS
  <2>1. CASE \E n \in 0..(c - 1) : It(n).rd = a /\ It(n).new_phy = p
    BY <1>0, <1>3, <2>1, Sizes
  <2>2. CASE p \in rrat_valid /\ rrat_table[p] = a
    BY <1>3, <2>2
  <2>3. QED
    BY <2>1, <2>2 DEF Maps
<1>6. srat_table \in [Phys -> Arch \cup {0}] /\ rrat_valid \subseteq Phys
  BY DEF TypeOK
<1>7. x.rd # 0 => /\ \A p \in Phys : (srat_table')[p] = IF p = x.new_phy THEN x.rd ELSE srat_table[p]
                  /\ x.new_phy \in Phys /\ x.new_phy \notin rrat_valid
                  /\ \A k \in Ks : It(k).rd # 0 => It(k).new_phy # x.new_phy
  <2> SUFFICES ASSUME x.rd # 0
               PROVE  /\ \A p \in Phys : (srat_table')[p] = IF p = x.new_phy THEN x.rd ELSE srat_table[p]
                      /\ x.new_phy \in Phys /\ x.new_phy \notin rrat_valid
                      /\ \A k \in Ks : It(k).rd # 0 => It(k).new_phy # x.new_phy
    OBVIOUS
  <2>1. /\ x.new_phy \in Phys /\ x.new_phy \notin rrat_valid
        /\ \A k \in Ks : It(k).rd # 0 => It(k).new_phy # x.new_phy
    BY Taken
  <2>2. srat_table' = set_map_table(srat_table, x.rd, x.new_phy)
    BY DEF Renamed
  <2>3. QED
    BY <1>6, <2>1, <2>2 DEF set_map_table
<1>8. x.rd = 0 => srat_table' = srat_table /\ srat_valid' = srat_valid
  BY DEF Renamed
<1>9. \A k \in Ks : It(k).rd # 0 => It(k).new_phy \in Phys
  <2> SUFFICES ASSUME NEW k \in Ks, It(k).rd # 0 PROVE It(k).new_phy \in Phys
    OBVIOUS
  <2>1. It(k).new_phy = fl_buffer[RingSlot(It(k).old_fl_r, N)] /\ It(k).old_fl_r \in Positions(N)
        /\ fl_buffer \in [Slots(N) -> Phys] /\ N \in Nat \ {0}
    BY Typed, Sizes DEF Tables, ChainInv, ItemChain, FlSlot
  <2>2. RingSlot(It(k).old_fl_r, N) \in Slots(N)
    BY <2>1, RingType DEF Slots
  <2>3. QED
    BY <2>1, <2>2
<1>10. \A k \in Ks' : (It(k)').rd # 0 => (srat_table')[(It(k)').new_phy] = (It(k)').rd
  <2> SUFFICES ASSUME NEW k \in Ks', (It(k)').rd # 0
               PROVE  (srat_table')[(It(k)').new_phy] = (It(k)').rd
    OBVIOUS
  <2>1. CASE k \in Ks
    BY <1>0, <1>3, <1>7, <1>8, <1>9, <2>1
  <2>2. CASE k = c
    BY <1>0, <1>7, <2>2
  <2>3. QED
    BY <1>0, <2>1, <2>2
<1>11. \A p \in rrat_valid' : (srat_table')[p] = (rrat_table')[p]
  BY <1>1, <1>3, <1>6, <1>7, <1>8
<1>12. srat_valid' = MappedRegs(c + 1)'
  <2>1. MappedRegs(c + 1)' = {p \in Phys : \E a \in Arch : \/ x.rd = a /\ x.new_phy = p
                                                           \/ x.rd # a /\ Maps(c, a, p)}
    BY <1>4 DEF MappedRegs
  <2>2. CASE x.rd = 0
    <3>1. \A a \in Arch : x.rd # a
      BY <2>2, Sizes
    <3>2. QED
      BY <1>3, <1>8, <2>1, <2>2, <3>1 DEF MappedRegs
  <2>3. CASE x.rd # 0
    <3>1. srat_valid' = (srat_valid \ {p \in srat_valid : srat_table[p] = x.rd}) \cup {x.new_phy}
      BY <2>3 DEF Renamed, set_map_valid, Mapped
    <3>2. \A p : p \in srat_valid <=> p \in Phys /\ \E a \in Arch : Maps(c, a, p)
      BY <1>3 DEF MappedRegs
    <3>3. ASSUME NEW p \in Phys, NEW a \in Arch, Maps(c, a, p), p \in srat_valid, srat_table[p] # x.rd
          PROVE  x.rd # a
      BY <1>5, <3>3
    <3>4. ASSUME NEW p \in Phys, NEW a \in Arch, Maps(c, a, p), x.rd # a
          PROVE  p \in srat_valid /\ srat_table[p] # x.rd
      BY <1>5, <3>2, <3>4
    <3>5. QED
      BY <1>1, <1>7, <2>1, <2>3, <3>1, <3>2, <3>3, <3>4
  <2>4. QED
    BY <2>2, <2>3
<1>13. srat_valid' = MappedRegs(RobCount)'
  <2>1. PICK d : d = c + 1
    OBVIOUS
  <2>2. srat_valid' = MappedRegs(d)' /\ RobCount' = d
    BY <1>0, <1>12, <2>1
  <2>3. QED
    BY <2>2 DEF MappedRegs, Maps
<1>14. ASSUME NEW k \in Ks', (It(k)').rd # 0
       PROVE  Maps(k, It(k).rd, It(k).old_phy)'
  <2>1. PICK a, p : a = (It(k)').rd /\ p = (It(k)').old_phy
    OBVIOUS
  <2>2. Maps(k, a, p)
    <3>1. CASE k \in Ks
      BY <1>0, <1>3, <1>14, <2>1, <3>1
    <3>2. CASE k = c
      <4>1. a = x.rd /\ p = get_phy_id(srat_valid, srat_table, x.rd) /\ x.rd # 0 /\ x.rd \in Arch
        BY <1>0, <1>1, <1>14, <2>1, <3>2 DEF Renamed
      <4>2. PICK r \in Phys : Maps(c, a, r)
        BY <1>0, <1>3, <4>1
      <4>3. r \in Mapped(srat_valid, srat_table, a)
        BY <1>3, <1>5, <4>1, <4>2 DEF Mapped, MappedRegs
      <4>4. p \in Mapped(srat_valid, srat_table, a)
        BY <4>1, <4>3 DEF get_phy_id
      <4>5. PICK d \in Arch : Maps(c, d, p)
        BY <1>3, <4>4 DEF Mapped, MappedRegs
      <4>6. d = a
        BY <1>5, <4>4, <4>5 DEF Mapped
      <4>7. QED
        BY <3>2, <4>5, <4>6
    <3>3. QED
      BY <1>0, <3>1, <3>2
  <2>3. k \in 0..c
    BY <1>0
  <2>4. Maps(k, a, p)'
    BY <1>2, <2>2, <2>3
  <2>5. QED
    BY <2>1, <2>4 DEF Maps
<1>15. \A k \in (0..RobCount)' : \A a \in Arch : \E p \in Phys : Maps(k, a, p)'
  <2> SUFFICES ASSUME NEW k \in 0..(c + 1), NEW a \in Arch PROVE \E p \in Phys : Maps(k, a, p)'
    BY <1>0
  <2>1. CASE k \in 0..c
    BY <1>2, <1>3, <2>1
  <2>2. CASE k = c + 1
    <3>1. CASE x.rd = a
      <4>1. x.new_phy \in Phys
        BY <1>7, <3>1, Sizes
      <4>2. Maps(c + 1, a, x.new_phy)'
        <5>1. PICK p : p = x.new_phy
          OBVIOUS
        <5>2. Maps(c + 1, a, p)'
          BY <1>4, <3>1, <5>1
        <5>3. QED
          BY <5>1, <5>2
      <4>3. QED
        BY <2>2, <4>1, <4>2
    <3>2. CASE x.rd # a
      <4>1. PICK p \in Phys : Maps(c, a, p)
        BY <1>0, <1>3
      <4>2. Maps(c + 1, a, p)'
        BY <1>4, <3>2, <4>1
      <4>3. QED
        BY <2>2, <4>1, <4>2
    <3>3. QED
      BY <3>1, <3>2
  <2>3. QED
    BY <1>0, <2>1, <2>2
<1>16. MapInv'
  BY <1>10, <1>11, <1>13, <1>14, <1>15 DEF MapInv
<1>17. QED
  BY <1>2, <1>16


\* Rename adds an instruction: everything.
LEMMA GrowTables ==
  ASSUME Tables, TypeOK, PointerInv, NEW x, Renamed(x)
  PROVE  Tables' /\ Base' = Base /\ Dist(fl_w)' = Dist(fl_w)
<1>0. PICK c : c = RobCount
  OBVIOUS
<1>1. /\ RobCount' = c + 1 /\ c \in Nat
      /\ Ks = 0..(c - 1) /\ Ks' = 0..c
      /\ \A k \in Ks : k \in Ks' /\ It(k)' = It(k) /\ k < c
      /\ It(c)' = x /\ (\A k \in Ks' : k \in Ks \/ k = c)
  BY <1>0, GrowPlaces
<1>2. ChainInv' /\ FreeInv' /\ Base' = Base /\ Dist(fl_w)' = Dist(fl_w)
  BY <1>0, GrowChain
<1>3. MapInv' /\ \A k \in 0..c : MappedRegs(k)' = MappedRegs(k)
  BY <1>0, GrowMaps
<1>4. Table(rrat_valid, rrat_table)'
  BY DEF Renamed, Tables
<1>5. /\ CB \in Nat \ {0} /\ cp_w \in Positions(CB) /\ cp_r \in Positions(CB)
      /\ cpb \in [Slots(CB) -> [valid : SUBSET Phys, new_fl_r : Positions(N),
                                new_cp_w : Positions(CB)]]
      /\ RingSlot(cp_w, CB) \in Slots(CB)
  BY Sizes, Typed, RingType DEF Slots
<1>6. \A k \in Ks : Restores(k) => Saved(k)
  BY DEF Tables, CheckInv
<1>7. \A p : CpDist(p)' = CpDist(p)
  BY DEF CpDist, Renamed
<1>8. /\ x.cp_valid => /\ CpDist(cp_w) < CB /\ x.cp_id = RingSlot(cp_w, CB)
                       /\ cpb' = [cpb EXCEPT ![RingSlot(cp_w, CB)] =
                            [valid |-> srat_valid', new_fl_r |-> x.new_fl_r,
                             new_cp_w |-> RingNext(cp_w, CB)]]
                       /\ cp_w' = RingNext(cp_w, CB)
      /\ ~x.cp_valid => cpb' = cpb /\ cp_w' = cp_w
      /\ cp_r' = cp_r
  BY DEF Renamed, CpDist
<1>9. CpDist(cp_w) \in Nat /\ CpDist(cp_w) <= CB
      /\ (x.cp_valid => CpDist(cp_w') = CpDist(cp_w) + 1)
      /\ (~x.cp_valid => CpDist(cp_w') = CpDist(cp_w))
  <2>1. CpDist(cp_w) \in Nat /\ CpDist(cp_w) <= CB
    BY <1>5, RingType DEF CpDist, PointerInv
  <2>2. ASSUME x.cp_valid PROVE CpDist(cp_w') = CpDist(cp_w) + 1
    <3>1. RingCount(cp_w, cp_r, CB) + 1 < 2 * CB
      BY <1>5, <1>8, <2>1, <2>2 DEF CpDist
    <3>2. QED
      BY <1>5, <1>8, <2>2, <3>1, RingType DEF CpDist
  <2>3. QED
    BY <1>8, <2>1, <2>2
<1>10. Span(cp_r, cp_w, CB) \subseteq Span(cp_r, cp_w, CB)'
  <2> SUFFICES ASSUME NEW q \in Span(cp_r, cp_w, CB) PROVE q \in Span(cp_r, cp_w, CB)'
    OBVIOUS
  <2>1. q \in Positions(CB) /\ CpDist(q) \in Nat /\ CpDist(q) < CpDist(cp_w)
    BY CpDists
  <2>2. CpDist(q) < CpDist(cp_w')
    BY <1>9, <2>1
  <2>3. QED
    BY <1>8, <2>1, <2>2 DEF Span, CpDist
<1>11. ASSUME NEW k \in Ks, Restores(k) PROVE Cp(k)' = Cp(k)
  <2>1. PICK q \in Span(cp_r, cp_w, CB) : It(k).cp_id = RingSlot(q, CB)
    BY <1>6, <1>11 DEF Saved
  <2>2. q \in Positions(CB) /\ CpDist(q) < CpDist(cp_w) /\ CpDist(q) < CB /\ CpDist(q) \in Nat
    BY CpDists
  <2>3. It(k)' = It(k)
    BY <1>1
  <2>4. CASE x.cp_valid
    <3>1. RingSlot(q, CB) # RingSlot(cp_w, CB)
      <4>1. SUFFICES ASSUME RingSlot(q, CB) = RingSlot(cp_w, CB) PROVE FALSE
        OBVIOUS
      <4>2. q = cp_w
        BY <1>5, <1>8, <2>2, <2>4, <4>1, RingSame DEF CpDist
      <4>3. QED
        BY <1>9, <2>2, <4>2
    <3>2. RingSlot(q, CB) \in Slots(CB)
      BY <1>5, <2>2, RingType DEF Slots
    <3>3. QED
      BY <1>5, <1>8, <2>1, <2>3, <2>4, <3>1, <3>2 DEF Cp
  <2>5. CASE ~x.cp_valid
    BY <1>8, <2>3, <2>5 DEF Cp
  <2>6. QED
    BY <2>4, <2>5
<1>12. ASSUME NEW k \in Ks, Restores(k)' PROVE Saved(k)'
  <2>1. It(k)' = It(k) /\ Restores(k) /\ Saved(k)
    BY <1>1, <1>6, <1>12 DEF Restores
  <2>2. Cp(k)' = Cp(k)
    BY <1>11, <2>1
  <2>3. \E q \in Span(cp_r, cp_w, CB)' : (It(k)').cp_id = RingSlot(q, CB)
                                         /\ (Cp(k)').new_cp_w = RingNext(q, CB)
    BY <1>10, <2>1, <2>2 DEF Saved
  <2>4. ASSUME NEW j \in 0..(k - 1), Restores(j)'
        PROVE  CpDist(Cp(j).new_cp_w)' < CpDist(Cp(k).new_cp_w)'
    <3>1. j \in Ks
      BY <1>1
    <3>2. Restores(j) /\ Cp(j)' = Cp(j)
      BY <1>1, <1>11, <2>4, <3>1 DEF Restores
    <3>3. CpDist(Cp(j).new_cp_w) < CpDist(Cp(k).new_cp_w)
      BY <2>1, <3>2 DEF Saved
    <3>4. QED
      BY <1>8, <2>2, <3>2, <3>3 DEF CpDist
  <2>5. MappedRegs(k + 1)' = MappedRegs(k + 1)
    BY <1>1, <1>3
  <2>6. (Cp(k)').valid = MappedRegs(k + 1)' /\ (Cp(k)').new_fl_r = (It(k)').new_fl_r
    BY <2>1, <2>2, <2>5 DEF Saved
  <2>7. QED
    BY <2>3, <2>4, <2>6 DEF Saved
<1>13. ASSUME Restores(c)' PROVE Saved(c)'
  <2>1. x.cp_valid
    BY <1>1, <1>13 DEF Restores
  <2>2. PICK q \in Positions(CB) : q = cp_w
    BY <1>5
  <2>3. Cp(c)' = [valid |-> srat_valid', new_fl_r |-> x.new_fl_r, new_cp_w |-> RingNext(q, CB)]
    BY <1>1, <1>5, <1>8, <2>1, <2>2 DEF Cp
  <2>4. q \in Span(cp_r, cp_w, CB)'
    <3>1. CpDist(q) < CpDist(cp_w')
      BY <1>9, <2>1, <2>2
    <3>2. QED
      BY <1>8, <3>1 DEF Span, CpDist
  <2>5. (It(c)').cp_id = RingSlot(q, CB) /\ (Cp(c)').new_cp_w = RingNext(q, CB)
    BY <1>1, <1>8, <2>1, <2>2, <2>3
  <2>6. ASSUME NEW j \in 0..(c - 1), Restores(j)'
        PROVE  CpDist(Cp(j).new_cp_w)' < CpDist(Cp(c).new_cp_w)'
    <3>1. j \in Ks
      BY <1>1
    <3>2. Restores(j) /\ Cp(j)' = Cp(j) /\ Saved(j)
      BY <1>1, <1>6, <1>11, <2>6, <3>1 DEF Restores
    <3>3. PICK z \in Span(cp_r, cp_w, CB) : Cp(j).new_cp_w = RingNext(z, CB)
      BY <3>2 DEF Saved
    <3>4. /\ CpDist(RingNext(z, CB)) = CpDist(z) + 1 /\ CpDist(z) < CpDist(q)
          /\ CpDist(z) \in Nat
      BY <2>2, <3>3, CpDists
    <3>5. CpDist(RingNext(q, CB)) = CpDist(q) + 1 /\ CpDist(q) \in Nat
      BY <1>8, <1>9, <2>1, <2>2
    <3>6. CpDist(RingNext(z, CB)) < CpDist(RingNext(q, CB))
      BY <3>4, <3>5
    <3>7. QED
      BY <1>8, <2>5, <3>2, <3>3, <3>6 DEF CpDist
  <2>7. srat_valid' = MappedRegs(c + 1)'
    <3>1. PICK d : d = c + 1
      OBVIOUS
    <3>2. srat_valid' = MappedRegs(RobCount)' /\ RobCount' = d
      BY <1>1, <1>3, <3>1 DEF MapInv
    <3>3. srat_valid' = MappedRegs(d)'
      BY <3>2 DEF MappedRegs, Maps
    <3>4. QED
      BY <3>1, <3>3
  <2>8. (Cp(c)').valid = MappedRegs(c + 1)' /\ (Cp(c)').new_fl_r = (It(c)').new_fl_r
    BY <1>1, <2>3, <2>7
  <2>9. QED
    BY <2>4, <2>5, <2>6, <2>8 DEF Saved
<1>14. CheckInv'
  BY <1>1, <1>12, <1>13 DEF CheckInv
<1>15. QED
  BY <1>2, <1>3, <1>4, <1>14 DEF Tables


-----------------------------------------------------------------------------
(***************************************************************************)
(* Restoring the free list.                                                *)
(***************************************************************************)

\* The positions from r to w, counted.
LEMMA SpanIs ==
  ASSUME NEW n \in Nat \ {0}, NEW r \in Positions(n), NEW w \in Positions(n)
  PROVE  Span(r, w, n) = {RingAdd(r, k, n) : k \in 0..(RingCount(w, r, n) - 1)}
<1>0. RingCount(w, r, n) \in 0..(2 * n - 1)
  BY RingType
<1>1. ASSUME NEW p \in Span(r, w, n)
      PROVE  \E k \in 0..(RingCount(w, r, n) - 1) : p = RingAdd(r, k, n)
  <2>1. p \in Positions(n) /\ RingCount(p, r, n) < RingCount(w, r, n)
    BY DEF Span
  <2>2. RingCount(p, r, n) \in 0..(2 * n - 1) /\ RingAdd(r, RingCount(p, r, n), n) = p
    BY <2>1, RingType
  <2>3. RingCount(p, r, n) \in 0..(RingCount(w, r, n) - 1)
    BY <1>0, <2>1, <2>2
  <2>4. QED
    BY <2>2, <2>3
<1>2. ASSUME NEW k \in 0..(RingCount(w, r, n) - 1) PROVE RingAdd(r, k, n) \in Span(r, w, n)
  <2>1. k \in 0..(2 * n - 1) /\ k < RingCount(w, r, n)
    BY <1>0
  <2>2. QED
    BY <2>1, RingAddType DEF Span
<1>3. QED
  BY <1>1, <1>2

\* The positions from b to w by way of c.
LEMMA SpanSplit ==
  ASSUME NEW n \in Nat \ {0}, NEW b \in Positions(n), NEW c \in Positions(n),
         NEW w \in Positions(n), RingCount(c, b, n) <= RingCount(w, b, n)
  PROVE  /\ Span(b, w, n) = Span(b, c, n) \cup Span(c, w, n)
         /\ Span(b, c, n) \cap Span(c, w, n) = {}
<1>1. /\ RingCount(c, b, n) \in 0..(2 * n - 1) /\ RingCount(w, b, n) \in 0..(2 * n - 1)
      /\ RingCount(w, c, n) = RingCount(w, b, n) - RingCount(c, b, n)
  BY RingType, RingRebase
<1>2. ASSUME NEW p \in Positions(n)
      PROVE  RingCount(p, c, n) < RingCount(w, c, n) <=>
               RingCount(c, b, n) <= RingCount(p, b, n) /\ RingCount(p, b, n) < RingCount(w, b, n)
  <2>1. RingCount(p, b, n) \in 0..(2 * n - 1)
    BY RingType
  <2>2. CASE RingCount(c, b, n) <= RingCount(p, b, n)
    <3>1. RingCount(p, c, n) = RingCount(p, b, n) - RingCount(c, b, n)
      BY <2>2, RingRebase
    <3>2. QED
      BY <1>1, <2>1, <2>2, <3>1
  <2>3. CASE RingCount(p, b, n) < RingCount(c, b, n)
    <3>1. RingCount(p, c, n) = RingCount(p, b, n) - RingCount(c, b, n) + 2 * n
      BY <2>3, RingRebase
    <3>2. QED
      BY <1>1, <2>1, <2>3, <3>1
  <2>4. QED
    BY <1>1, <2>1, <2>2, <2>3
<1>3. \A p \in Positions(n) : RingCount(p, b, n) \in 0..(2 * n - 1)
  BY RingType
<1>4. Span(c, w, n) = {p \in Positions(n) : /\ RingCount(c, b, n) <= RingCount(p, b, n)
                                            /\ RingCount(p, b, n) < RingCount(w, b, n)}
  BY <1>2 DEF Span
<1>5. QED
  BY <1>1, <1>3, <1>4 DEF Span

\* How many registers lie between two positions.
LEMMA ContentsCard ==
  ASSUME NEW r \in Positions(N), NEW w \in Positions(N), NEW buf,
         \A p, q \in Span(r, w, N) : buf[RingSlot(p, N)] = buf[RingSlot(q, N)] => p = q
  PROVE  /\ IsFiniteSet(Contents(buf, r, w))
         /\ Cardinality(Contents(buf, r, w)) = RingCount(w, r, N)
<1>0. N \in Nat \ {0}
  BY Sizes
<1>1. PICK c \in Nat : c = RingCount(w, r, N) /\ c < 2 * N
  BY <1>0, RingType
<1>2. IsFiniteSet(0..(c - 1)) /\ Cardinality(0..(c - 1)) = c
  <2>1. PICK d \in Int : d = c - 1
    BY <1>1
  <2>2. IsFiniteSet(0..d) /\ Cardinality(0..d) = IF 0 > d THEN 0 ELSE d - 0 + 1
    BY FS_Interval
  <2>3. QED
    BY <1>1, <2>1, <2>2
<1> DEFINE F == [k \in 0..(c - 1) |-> buf[RingSlot(RingAdd(r, k, N), N)]]
<1>3. Span(r, w, N) = {RingAdd(r, k, N) : k \in 0..(c - 1)}
  BY <1>0, <1>1, SpanIs
<1>4. \A k \in 0..(c - 1) : RingCount(RingAdd(r, k, N), r, N) = k
  BY <1>0, <1>1, RingAddType
<1>5. \A j, k \in 0..(c - 1) : F[j] = F[k] => j = k
  <2> SUFFICES ASSUME NEW j \in 0..(c - 1), NEW k \in 0..(c - 1), F[j] = F[k] PROVE j = k
    OBVIOUS
  <2>1. RingAdd(r, j, N) \in Span(r, w, N) /\ RingAdd(r, k, N) \in Span(r, w, N)
    BY <1>3
  <2>2. RingAdd(r, j, N) = RingAdd(r, k, N)
    BY <2>1
  <2>3. QED
    BY <1>4, <2>2
<1>6. Contents(buf, r, w) = {F[k] : k \in 0..(c - 1)}
  BY <1>3 DEF Contents
<1> HIDE DEF F
<1>7. F \in [0..(c - 1) -> Contents(buf, r, w)]
  <2>1. F = [k \in 0..(c - 1) |-> F[k]]
    BY DEF F
  <2>2. QED
    BY <1>6, <2>1
<1>8. F \in Bijection(0..(c - 1), Contents(buf, r, w))
  BY <1>5, <1>6, <1>7 DEF Bijection, Injection, Surjection, IsInjective
<1>9. QED
  BY <1>1, <1>2, <1>8, FS_Bijection DEF ExistsBijection

\* Going back to an earlier position returns what lies between.
LEMMA Returned ==
  ASSUME NEW pos \in Positions(N), NEW b \in Positions(N), fl_r \in Positions(N), fl_r0 = fl_r,
         NEW w \in Positions(N), NEW buf, NEW rv, Pool(b, w, buf, rv),
         RingCount(pos, b, N) <= RingCount(fl_r, b, N),
         RingCount(fl_r, b, N) <= RingCount(w, b, N),
         \A p \in Span(b, fl_r, N) : buf[RingSlot(p, N)] = fl_buffer[RingSlot(p, N)],
         NEW s, s = Contents(buf, fl_r, w)
  PROVE  /\ s \cup fl_returned(pos) = Contents(buf, pos, w)
         /\ Pool(pos, w, buf, rv)
         /\ fl_restore_verified(pos, w, s)
<1>0. N \in Nat \ {0} /\ PHY_REG_NUM = N
  BY Sizes
<1>1. fl_returned(pos) = {fl_buffer[RingSlot(p, N)] : p \in Span(pos, fl_r, N)}
  <2>1. Span(pos, fl_r, N) = {RingAdd(pos, k, N) : k \in 0..(RingCount(fl_r, pos, N) - 1)}
    BY <1>0, SpanIs
  <2>2. QED
    BY <1>0, <2>1 DEF fl_returned
<1>2. Span(pos, fl_r, N) \subseteq Span(b, fl_r, N)
  BY PoolShrinks
<1>3. fl_returned(pos) = Contents(buf, pos, fl_r)
  BY <1>1, <1>2 DEF Contents
<1>4. /\ RingCount(pos, b, N) \in Nat /\ RingCount(fl_r, b, N) \in Nat /\ RingCount(w, b, N) \in Nat
  BY <1>0, RingType
<1>5. RingCount(fl_r, pos, N) <= RingCount(w, pos, N)
  BY <1>0, <1>4, RingRebase
<1>6. /\ Span(pos, w, N) = Span(pos, fl_r, N) \cup Span(fl_r, w, N)
      /\ Span(pos, fl_r, N) \cap Span(fl_r, w, N) = {}
  BY <1>0, <1>5, SpanSplit
<1>7. s \cup fl_returned(pos) = Contents(buf, pos, w)
  BY <1>3, <1>6 DEF Contents
<1>8. Span(pos, w, N) \subseteq Span(b, w, N)
  <2>1. RingCount(pos, b, N) <= RingCount(w, b, N)
    BY <1>4
  <2>2. QED
    BY <2>1, PoolShrinks
<1>9. Pool(pos, w, buf, rv)
  BY <1>8 DEF Pool
<1>10. fl_returned(pos) \cap s = {}
  <2>1. \A p \in Span(pos, fl_r, N), q \in Span(fl_r, w, N) :
           buf[RingSlot(p, N)] # buf[RingSlot(q, N)]
    BY <1>6, <1>9 DEF Pool
  <2>2. QED
    BY <1>3, <2>1 DEF Contents
<1>11. Cardinality(s) = RingCount(w, fl_r, N)
  <2>1. \A p, q \in Span(fl_r, w, N) : buf[RingSlot(p, N)] = buf[RingSlot(q, N)] => p = q
    BY <1>6, <1>9 DEF Pool
  <2>2. QED
    BY <2>1, ContentsCard
<1>12. Cardinality(s \cup fl_returned(pos)) = RingCount(w, pos, N)
  <2>1. \A p, q \in Span(pos, w, N) : buf[RingSlot(p, N)] = buf[RingSlot(q, N)] => p = q
    BY <1>9 DEF Pool
  <2>2. QED
    BY <1>7, <2>1, ContentsCard
<1>13. QED
  BY <1>0, <1>7, <1>9, <1>10, <1>11, <1>12 DEF fl_restore_verified


-----------------------------------------------------------------------------
(***************************************************************************)
(* The pointers of last cycle.                                             *)
(***************************************************************************)

\* A write position is cut back, grows; a read position grows; a cycle begins.
LEMMA NestedMoves ==
  ASSUME NEW n \in Nat \ {0}, NEW w \in Positions(n), NEW r \in Positions(n),
         NEW r0 \in Positions(n), Nested(w, r, r0, n)
  PROVE  /\ \A q \in Positions(n) : RingCount(q, r, n) <= RingCount(w, r, n) => Nested(q, r, r0, n)
         /\ RingCount(w, r0, n) # n =>
               /\ Nested(RingNext(w, n), r, r0, n) /\ RingCount(w, r, n) < n
               /\ RingCount(r, r0, n) + RingCount(w, r, n) < n
         /\ r # w => /\ Nested(w, RingNext(r, n), r0, n)
                     /\ RingCount(RingNext(r, n), r0, n) = RingCount(r, r0, n) + 1
                     /\ RingCount(r, r0, n) < n
<1>1. /\ RingCount(r, r0, n) \in Nat /\ RingCount(w, r, n) \in Nat /\ RingCount(w, r0, n) \in Nat
      /\ RingCount(r, r0, n) + RingCount(w, r, n) = RingCount(w, r0, n)
      /\ RingCount(w, r0, n) <= n
  BY RingType DEF Nested
<1>2. ASSUME NEW q \in Positions(n), RingCount(q, r, n) <= RingCount(w, r, n)
      PROVE  Nested(q, r, r0, n)
  <2>1. RingCount(q, r, n) \in Nat /\ RingCount(q, r0, n) \in 0..(2 * n - 1)
    BY RingType
  <2>2. RingCount(r, r0, n) <= RingCount(q, r0, n)
    <3>1. SUFFICES ASSUME RingCount(q, r0, n) < RingCount(r, r0, n) PROVE FALSE
      BY <1>1, <2>1
    <3>2. RingCount(q, r, n) = RingCount(q, r0, n) - RingCount(r, r0, n) + 2 * n
      BY <3>1, RingRebase
    <3>3. QED
      BY <1>1, <1>2, <2>1, <3>2
  <2>3. RingCount(q, r, n) = RingCount(q, r0, n) - RingCount(r, r0, n)
    BY <2>2, RingRebase
  <2>4. QED
    BY <1>1, <1>2, <2>1, <2>3 DEF Nested
<1>3. ASSUME RingCount(w, r0, n) # n
      PROVE  /\ Nested(RingNext(w, n), r, r0, n) /\ RingCount(w, r, n) < n
             /\ RingCount(r, r0, n) + RingCount(w, r, n) < n
  <2>1. RingCount(w, r, n) + 1 < 2 * n /\ RingCount(w, r0, n) + 1 < 2 * n
    BY <1>1, <1>3
  <2>2. /\ RingCount(RingNext(w, n), r, n) = RingCount(w, r, n) + 1
        /\ RingCount(RingNext(w, n), r0, n) = RingCount(w, r0, n) + 1
    BY <2>1, RingType
  <2>3. QED
    BY <1>1, <1>3, <2>2 DEF Nested
<1>4. ASSUME r # w
      PROVE  /\ Nested(w, RingNext(r, n), r0, n)
             /\ RingCount(RingNext(r, n), r0, n) = RingCount(r, r0, n) + 1
             /\ RingCount(r, r0, n) < n
  <2>1. RingCount(w, r, n) # 0
    BY <1>4, RingType
  <2>2. RingCount(r, r0, n) + 1 < 2 * n /\ RingCount(r, r0, n) < n
    BY <1>1, <2>1
  <2>3. RingCount(RingNext(r, n), r0, n) = RingCount(r, r0, n) + 1
    BY <2>2, RingType
  <2>4. RingCount(w, RingNext(r, n), n) = RingCount(w, r, n) - 1
    BY <1>4, SpanTail
  <2>5. QED
    BY <1>1, <2>2, <2>3, <2>4 DEF Nested
<1>5. QED
  BY <1>2, <1>3, <1>4

-----------------------------------------------------------------------------
(***************************************************************************)
(* The speculative table.                                                  *)
(***************************************************************************)

\* A mapping is unique.
LEMMA MapsUnique ==
  ASSUME Table(rrat_valid, rrat_table), NEW k \in Nat, NEW a, NEW p, NEW q,
         Maps(k, a, p), Maps(k, a, q)
  PROVE  p = q
<1>1. CASE \A n \in 0..(k - 1) : It(n).rd # a
  BY <1>1 DEF Maps, Table
<1>2. CASE \E n \in 0..(k - 1) : It(n).rd = a
  <2>1. PICK n \in 0..(k - 1) : /\ It(n).rd = a /\ It(n).new_phy = p
                                /\ \A m \in (n + 1)..(k - 1) : It(m).rd # a
    BY <1>2 DEF Maps
  <2>2. PICK l \in 0..(k - 1) : /\ It(l).rd = a /\ It(l).new_phy = q
                                /\ \A m \in (l + 1)..(k - 1) : It(m).rd # a
    BY <1>2 DEF Maps
  <2>3. ~(n < l)
    <3>1. n < l => l \in (n + 1)..(k - 1)
      OBVIOUS
    <3>2. QED
      BY <2>1, <2>2, <3>1
  <2>4. ~(l < n)
    <3>1. l < n => n \in (l + 1)..(k - 1)
      OBVIOUS
    <3>2. QED
      BY <2>1, <2>2, <3>1
  <2>5. n = l
    BY <2>3, <2>4
  <2>6. QED
    BY <2>1, <2>2, <2>5
<1>3. QED
  BY <1>1, <1>2

\* The speculative table maps as the instructions in flight say, and is a table.
LEMMA SpecTable ==
  ASSUME Tables, TypeOK, PointerInv
  PROVE  /\ Table(srat_valid, srat_table)
         /\ \A a \in Arch : get_phy_id(srat_valid, srat_table, a) \in srat_valid
         /\ \A a \in Arch : \A p : p \in Mapped(srat_valid, srat_table, a) <=>
                                  p \in Phys /\ Maps(RobCount, a, p)
         /\ \A a \in Arch : Cardinality(Mapped(srat_valid, srat_table, a)) = 1
<1>0. PICK c \in Nat : c = RobCount
  BY Typed, RobIs
<1>1. /\ srat_valid = MappedRegs(c) /\ Table(rrat_valid, rrat_table)
      /\ \A a \in Arch : \E p \in Phys : Maps(c, a, p)
  BY <1>0 DEF Tables, MapInv
<1>2. \A a \in Arch : \A p : Maps(c, a, p) => srat_table[p] = a
  <2> SUFFICES ASSUME NEW a \in Arch, NEW p, Maps(c, a, p) PROVE srat_table[p] = a
    OBVIOUS
  <2>1. \A n \in 0..(c - 1) : n \in Ks
    BY <1>0 DEF Ks
  <2>2. CASE \E n \in 0..(c - 1) : It(n).rd = a /\ It(n).new_phy = p
    BY <2>1, <2>2, Sizes DEF Tables, MapInv
  <2>3. CASE p \in rrat_valid /\ rrat_table[p] = a
    BY <2>3 DEF Tables, MapInv
  <2>4. QED
    BY <2>2, <2>3 DEF Maps
<1>3. \A a \in Arch : \A p : p \in Mapped(srat_valid, srat_table, a) <=> p \in Phys /\ Maps(c, a, p)
  BY <1>1, <1>2 DEF Mapped, MappedRegs
<1>4. \A a \in Arch : \A p, q : Maps(c, a, p) /\ Maps(c, a, q) => p = q
  BY <1>0, <1>1, MapsUnique
<1>5. \A a \in Arch : \E p : Mapped(srat_valid, srat_table, a) = {p}
  <2> SUFFICES ASSUME NEW a \in Arch PROVE \E p : Mapped(srat_valid, srat_table, a) = {p}
    OBVIOUS
  <2>1. PICK p \in Phys : Maps(c, a, p)
    BY <1>1
  <2>2. \A q : q \in Mapped(srat_valid, srat_table, a) <=> q = p
    BY <1>3, <1>4, <2>1
  <2>3. Mapped(srat_valid, srat_table, a) = {p}
    BY <2>2
  <2>4. QED
    BY <2>3
<1>6. \A a \in Arch : get_phy_id(srat_valid, srat_table, a) \in Mapped(srat_valid, srat_table, a)
  BY <1>5 DEF get_phy_id
<1>7. Table(srat_valid, srat_table)
  <2>1. \A p \in srat_valid : srat_table[p] \in Arch
    BY <1>1, <1>2 DEF MappedRegs
  <2>2. QED
    BY <1>5, <2>1 DEF Table, Mapped
<1>8. QED
  BY <1>0, <1>3, <1>5, <1>6, <1>7, FS_Singleton DEF Mapped

-----------------------------------------------------------------------------
(***************************************************************************)
(* The steps.                                                              *)
(***************************************************************************)

\* The reorder buffer does not change.
LEMMA RobSame ==
  ASSUME UNCHANGED <<rob, rob_w, rob_r>>
  PROVE  /\ RobCount' = RobCount /\ Ks' = Ks /\ RobLive' = RobLive
         /\ \A k : It(k)' = It(k) /\ RobAt(k)' = RobAt(k)
         /\ \A p : RobItem(p)' = RobItem(p) /\ BruFlush(p)' = BruFlush(p)
         /\ (RobTyped => RobTyped') /\ (ShapeInv => ShapeInv')
<1>1. /\ RobCount' = RobCount /\ \A k : RobAt(k)' = RobAt(k)
      /\ \A p : RobItem(p)' = RobItem(p)
  BY DEF RobCount, RobAt, RobItem
<1>2. \A k : It(k)' = It(k)
  BY <1>1 DEF It, RobItem
<1>3. Ks' = Ks /\ RobLive' = RobLive
  BY <1>1 DEF Ks, RobLive
<1>4. QED
  BY <1>1, <1>2, <1>3 DEF BruFlush, RobTyped, ShapeInv

\* Neither do the tables.
LEMMA QuietTables ==
  ASSUME Body, UNCHANGED <<rob, rob_w, rob_r>>, UNCHANGED table_vars
  PROVE  /\ Tables' /\ Base' = Base /\ Dist(fl_w)' = Dist(fl_w) /\ ShapeInv'
<1>1. /\ RobCount' = RobCount /\ \A k : It(k)' = It(k)
  BY RobSame
<1>2. Tables /\ RobCount \in Nat /\ ShapeInv
  BY Typed, RobIs DEF Body, Tables
<1>3. \A k \in Ks : AlikeItem(It(k)', It(k))
  BY <1>1 DEF AlikeItem
<1>4. Tables' /\ Base' = Base
  BY <1>1, <1>2, <1>3, AlikeTables
<1>5. Dist(fl_w)' = Dist(fl_w)
  BY <1>4 DEF Dist, table_vars
<1>6. QED
  BY <1>2, <1>4, <1>5, RobSame


\* The branch unit.
LEMMA StepBru ==
  ASSUME Body, BruFeedback
  PROVE  Body'
<1> USE DEF Body
<1>0. /\ phase = "bru" /\ phase' = "commit"
      /\ UNCHANGED <<slot, port, port_exception, fl_vars, rat_vars, rob_vars, cp_vars, reg_vars,
                     path_vars, aborted>>
  BY DEF BruFeedback
<1>1. PICK E \in SUBSET Waiting :
         /\ exec' = E
         /\ IF \E p \in E : BruFlush(p)
            THEN flush' = "bru" /\ flush_pos' = CHOOSE p \in E : BruFlush(p)
            ELSE UNCHANGED <<flush, flush_pos>>
  BY DEF BruFeedback
<1>2. UNCHANGED <<rob, rob_w, rob_r, rob_r0>> /\ UNCHANGED table_vars /\ cp_r0' = cp_r0
      /\ fl_w0' = fl_w0 /\ fl_r0' = fl_r0 /\ fl_r' = fl_r /\ fl_w' = fl_w /\ cp_w' = cp_w /\ cp_r' = cp_r
  BY <1>0 DEF rob_vars, fl_vars, rat_vars, cp_vars, table_vars
<1>3. /\ RobCount' = RobCount /\ Ks' = Ks /\ RobLive' = RobLive
      /\ \A p : RobItem(p)' = RobItem(p) /\ BruFlush(p)' = BruFlush(p)
  BY <1>2, RobSame
<1>4. /\ RobTyped /\ RobLive \subseteq Positions(ROB_SIZE)
  BY Typed, RobIs
<1>5. flush = "none"
  BY <1>0 DEF PipeInv
<1>6. /\ flush' \in {"none", "bru"} /\ flush_pos' \in Positions(ROB_SIZE)
      /\ flush' = "bru" => flush_pos' \in exec' /\ BruFlush(flush_pos)'
  <2>1. CASE \E p \in E : BruFlush(p)
    <3>1. flush' = "bru" /\ flush_pos' \in E /\ BruFlush(flush_pos')
      BY <1>1, <2>1
    <3>2. flush_pos' \in RobLive
      BY <3>1 DEF Waiting
    <3>3. BruFlush(flush_pos)'
      BY <1>2, <3>1 DEF BruFlush, RobItem
    <3>4. QED
      BY <1>1, <1>4, <3>1, <3>2, <3>3
  <2>2. CASE ~\E p \in E : BruFlush(p)
    BY <1>1, <1>5, <2>2 DEF TypeOK
  <2>3. QED
    BY <2>1, <2>2
<1>7. TypeOK'
  BY <1>0, <1>1, <1>4, <1>6
     DEF TypeOK, Waiting, fl_vars, rat_vars, rob_vars, cp_vars, reg_vars, path_vars
<1>8. PointerInv'
  BY <1>0, <1>2, <1>3, <1>5, <1>6 DEF PointerInv
<1>9. Tables' /\ ShapeInv' /\ Dist(fl_w)' = Dist(fl_w)
  BY <1>2, QuietTables
<1>10. PipeInv'
  <2>1. E \subseteq RobLive /\ E \cap port = {} /\ \A p \in E : ~RobItem(p).finish
    BY DEF Waiting
  <2>2. /\ port \subseteq RobLive /\ \A p \in port : ~RobItem(p).finish
        /\ \A p \in port_exception : RobItem(p).rd # 0 => FaultRd
    BY <1>0, <1>5 DEF PipeInv
  <2>3. QED
    BY <1>0, <1>1, <1>3, <1>6, <2>1, <2>2 DEF PipeInv
<1>11. LossInv'
  BY <1>2, <1>5, <1>9 DEF LossInv
<1>12. QED
  BY <1>7, <1>8, <1>9, <1>10, <1>11 DEF Tables

\* Commit pauses at a store.
LEMMA StepStorePause ==
  ASSUME Body, CommitStorePause
  PROVE  Body'
<1> USE DEF Body
<1>0. /\ slot' = COMMIT_WIDTH
      /\ UNCHANGED <<phase, flush, flush_pos, pipe_vars, fl_vars, rat_vars, rob_vars,
                     cp_vars, reg_vars, path_vars, aborted>>
  BY DEF CommitStorePause
<1>1. UNCHANGED <<rob, rob_w, rob_r, rob_r0>> /\ UNCHANGED table_vars /\ cp_r0' = cp_r0
      /\ fl_w0' = fl_w0 /\ fl_r0' = fl_r0 /\ fl_r' = fl_r /\ fl_w' = fl_w /\ cp_w' = cp_w /\ cp_r' = cp_r
      /\ UNCHANGED <<exec, port, port_exception>>
  BY <1>0 DEF rob_vars, fl_vars, rat_vars, cp_vars, table_vars, pipe_vars
<1>2. /\ RobCount' = RobCount /\ Ks' = Ks /\ RobLive' = RobLive
      /\ \A p : RobItem(p)' = RobItem(p) /\ BruFlush(p)' = BruFlush(p)
  BY <1>1, RobSame
<1>3. TypeOK'
  BY <1>0, ConstAssumption
     DEF TypeOK, pipe_vars, fl_vars, rat_vars, rob_vars, cp_vars, reg_vars, path_vars
<1>4. PointerInv'
  BY <1>0, <1>1, <1>2 DEF PointerInv
<1>5. Tables' /\ ShapeInv' /\ Dist(fl_w)' = Dist(fl_w)
  BY <1>1, QuietTables
<1>6. PipeInv'
  BY <1>0, <1>1, <1>2 DEF PipeInv, BruFlush
<1>7. LossInv'
  BY <1>0, <1>1, <1>5 DEF LossInv
<1>8. QED
  BY <1>3, <1>4, <1>5, <1>6, <1>7 DEF Tables

\* Commit takes an interrupt.
LEMMA StepInterrupt ==
  ASSUME Body, CommitInterrupt
  PROVE  Body'
<1> USE DEF Body
<1>0. /\ phase = "commit" /\ flush' = "commit" /\ rob_r = rob_w
      /\ UNCHANGED <<phase, slot, flush_pos, pipe_vars, fl_vars, rat_vars, rob_vars,
                     cp_vars, reg_vars, path_vars, aborted>>
  BY DEF CommitInterrupt
<1>1. UNCHANGED <<rob, rob_w, rob_r, rob_r0>> /\ UNCHANGED table_vars /\ cp_w' = cp_w /\ cp_r' = cp_r
      /\ UNCHANGED <<exec, port, port_exception>>
  BY <1>0 DEF rob_vars, fl_vars, rat_vars, cp_vars, table_vars, pipe_vars
<1>2. RobCount' = 0
  BY <1>0, <1>1, RobSame, Typed, RobIs
<1>3. TypeOK'
  BY <1>0 DEF TypeOK, pipe_vars, fl_vars, rat_vars, rob_vars, cp_vars, reg_vars, path_vars
<1>4. PointerInv'
  BY <1>0, <1>1, <1>2, Sizes DEF PointerInv
<1>5. Tables' /\ ShapeInv' /\ Dist(fl_w)' = Dist(fl_w)
  BY <1>1, QuietTables
<1>6. PipeInv'
  BY <1>0 DEF PipeInv
<1>7. LossInv'
  BY <1>0, <1>5 DEF LossInv
<1>8. QED
  BY <1>3, <1>4, <1>5, <1>6, <1>7 DEF Tables

\* The end of a cycle.
LEMMA StepSync ==
  ASSUME Body, Sync
  PROVE  Body'
<1> USE DEF Body
<1>0. /\ phase = "rename" /\ phase' = "bru" /\ flush' = "none" /\ flush_pos' = 0 /\ slot' = 0
      /\ fl_w0' = fl_w /\ fl_r0' = fl_r /\ rob_r0' = rob_r /\ cp_r0' = cp_r
      /\ UNCHANGED <<pipe_vars, fl_buffer, fl_w, fl_r, free_list_set, rat_vars, rob, rob_w,
                     rob_r, cpb, cp_w, cp_r, reg_vars, path_vars, aborted>>
  BY DEF Sync
<1>1. UNCHANGED <<rob, rob_w, rob_r>> /\ UNCHANGED table_vars
      /\ UNCHANGED <<exec, port, port_exception>>
  BY <1>0 DEF rat_vars, table_vars, pipe_vars
<1>2. /\ RobCount' = RobCount /\ Ks' = Ks /\ RobLive' = RobLive
      /\ \A p : RobItem(p)' = RobItem(p)
  BY <1>1, RobSame
<1>3. /\ N \in Nat \ {0} /\ ROB_SIZE \in Nat \ {0} /\ CB \in Nat \ {0}
      /\ rob_r \in Positions(ROB_SIZE) /\ cp_r \in Positions(CB) /\ fl_w \in Positions(N)
      /\ rob_w \in Positions(ROB_SIZE) /\ cp_w \in Positions(CB)
  BY Sizes, Typed DEF RobTyped
<1>4. TypeOK'
  <2>1. 0 \in Positions(ROB_SIZE)
    BY <1>3 DEF Positions
  <2>2. QED
    BY <1>0, <2>1 DEF TypeOK, pipe_vars, rat_vars, reg_vars, path_vars
<1>5. PointerInv'
  <2>1. /\ RingCount(rob_r, rob_r, ROB_SIZE) = 0 /\ RingCount(cp_r, cp_r, CB) = 0
        /\ RingCount(rob_w, rob_r, ROB_SIZE) \in Nat /\ RingCount(cp_w, cp_r, CB) \in Nat
    BY <1>3, RingType
  <2>2. /\ RingCount(rob_w, rob_r, ROB_SIZE) <= ROB_SIZE /\ RingCount(cp_w, cp_r, CB) <= CB
    BY DEF PointerInv, RobCount
  <2>3. Nested(rob_w, rob_r, rob_r, ROB_SIZE) /\ Nested(cp_w, cp_r, cp_r, CB)
    BY <2>1, <2>2 DEF Nested
  <2>4. Nested(rob_w, rob_r, rob_r0, ROB_SIZE)' /\ Nested(cp_w, cp_r, cp_r0, CB)'
    BY <1>0, <2>3
  <2>5. QED
    BY <1>0, <1>2, <2>2, <2>4 DEF PointerInv, RobCount
<1>6. Tables' /\ ShapeInv' /\ Dist(fl_w)' = Dist(fl_w)
  BY <1>1, QuietTables
<1>7. PipeInv'
  <2>1. exec = {} /\ port_exception \subseteq port
    BY <1>0 DEF PipeInv, TypeOK
  <2>2. CASE flush = "commit"
    <3>1. port = {}
      BY <1>0, <2>2 DEF PipeInv
    <3>2. QED
      BY <1>0, <1>1, <2>1, <3>1 DEF PipeInv
  <2>3. CASE flush # "commit"
    BY <1>0, <1>1, <1>2, <2>1, <2>3 DEF PipeInv
  <2>4. QED
    BY <2>2, <2>3
<1>8. LossInv'
  <2>1. RingCount(fl_w, fl_w0, N)' = 0 /\ RingCount(rob_r, rob_r0, ROB_SIZE)' = 0
    BY <1>0, <1>3, RingType
  <2>2. QED
    BY <1>6, <2>1 DEF LossInv
<1>9. QED
  BY <1>4, <1>5, <1>6, <1>7, <1>8 DEF Tables


\* Results are written.
LEMMA StepWb ==
  ASSUME Body, Wb
  PROVE  Body'
<1> USE DEF Body
<1> DEFINE writer(r) == CHOOSE p \in Written : RobItem(p).new_phy = r
           regs == {RobItem(p).new_phy : p \in Written}
<1>0. /\ phase = "wb" /\ phase' = "execute"
      /\ reg_valid' = reg_valid \cup regs
      /\ reg_oldest' = reg_oldest \ regs
      /\ reg_data' = [r \in Phys |-> IF r \in regs THEN RobItem(writer(r)).inst ELSE reg_data[r]]
      /\ reg_age' = [r \in Phys |-> IF r \in regs THEN writer(r) ELSE reg_age[r]]
      /\ UNCHANGED <<slot, flush, flush_pos, pipe_vars, fl_vars, rat_vars, rob_vars,
                     cp_vars, path_vars, aborted>>
  BY DEF Wb
<1>1. UNCHANGED <<rob, rob_w, rob_r, rob_r0>> /\ UNCHANGED table_vars /\ cp_r0' = cp_r0
      /\ fl_w0' = fl_w0 /\ fl_r0' = fl_r0 /\ fl_r' = fl_r /\ fl_w' = fl_w /\ cp_w' = cp_w /\ cp_r' = cp_r
      /\ UNCHANGED <<exec, port, port_exception>>
  BY <1>0 DEF rob_vars, fl_vars, rat_vars, cp_vars, table_vars, pipe_vars
<1>2. /\ RobCount' = RobCount /\ Ks' = Ks /\ RobLive' = RobLive
      /\ \A p : RobItem(p)' = RobItem(p) /\ BruFlush(p)' = BruFlush(p)
  BY <1>1, RobSame
<1>3. RobTyped /\ RobLive \subseteq Positions(ROB_SIZE)
  BY Typed, RobIs
<1>4. \A p \in Written : /\ p \in Positions(ROB_SIZE)
                         /\ RobItem(p).new_phy \in Phys /\ RobItem(p).inst \in Nat
  <2> SUFFICES ASSUME NEW p \in Written
               PROVE  /\ p \in Positions(ROB_SIZE)
                      /\ RobItem(p).new_phy \in Phys /\ RobItem(p).inst \in Nat
    OBVIOUS
  <2>1. p \in RobLive /\ RobItem(p).rd # 0
    BY DEF Written, PipeInv
  <2>2. PICK k \in Ks : p = RobAt(k)
    BY <1>3, <2>1, RobIs
  <2>3. RobItem(p).new_phy \in Phys
    BY <2>1, <2>2 DEF ShapeInv, It
  <2>4. RobItem(p) \in Items /\ p \in Positions(ROB_SIZE)
    BY <1>3, <2>1, Typed
  <2>5. QED
    BY <2>3, <2>4 DEF Items
<1>5. regs \subseteq Phys /\ \A r \in regs : writer(r) \in Written
  BY <1>4
<1> HIDE DEF writer, regs
<1>6. /\ reg_valid' \subseteq Phys /\ reg_oldest' \subseteq Phys
      /\ reg_data' \in [Phys -> Nat] /\ reg_age' \in [Phys -> Positions(ROB_SIZE)]
  BY <1>0, <1>4, <1>5 DEF TypeOK
<1>7. TypeOK'
  BY <1>0, <1>6 DEF TypeOK, pipe_vars, fl_vars, rat_vars, rob_vars, cp_vars, path_vars
<1>8. PointerInv'
  BY <1>0, <1>1, <1>2 DEF PointerInv
<1>9. Tables' /\ ShapeInv' /\ Dist(fl_w)' = Dist(fl_w)
  BY <1>1, QuietTables
<1>10. PipeInv'
  BY <1>0, <1>1, <1>2 DEF PipeInv, BruFlush
<1>11. LossInv'
  BY <1>0, <1>1, <1>9 DEF LossInv
<1>12. QED
  BY <1>7, <1>8, <1>9, <1>10, <1>11 DEF Tables

\* An entry of the reorder buffer with the result of its port.
FinishedItem(p) ==
    [RobItem(p) EXCEPT !.finish = TRUE,
                       !.exception = \E q \in port_exception :
                                        RingSlot(q, ROB_SIZE) = RingSlot(p, ROB_SIZE),
                       !.bp_cp_valid = RobItem(p).cp_valid /\ CarriesCheckpoint(RobItem(p).unit)]

\* What the end of commit does to the instructions in the reorder buffer.
LEMMA FinishItems ==
  ASSUME Body, CommitFinish, flush # "commit"
  PROVE  /\ \A p \in RobLive : RobItem(p)' = IF p \in port THEN FinishedItem(p) ELSE RobItem(p)
         /\ \A p \in RobLive : (\E q \in port_exception : RingSlot(q, ROB_SIZE) = RingSlot(p, ROB_SIZE))
                                  <=> p \in port_exception
         /\ rob' \in [Slots(ROB_SIZE) -> Items]
<1> USE DEF Body
<1>0. rob' = [i \in Slots(ROB_SIZE) |->
                IF \E p \in port : RingSlot(p, ROB_SIZE) = i
                THEN [rob[i] EXCEPT !.finish = TRUE,
                                    !.exception = \E p \in port_exception : RingSlot(p, ROB_SIZE) = i,
                                    !.bp_cp_valid = rob[i].cp_valid /\ CarriesCheckpoint(rob[i].unit)]
                ELSE rob[i]]
  BY DEF CommitFinish
<1>1. RobTyped /\ RobLive \subseteq Positions(ROB_SIZE) /\ ROB_SIZE \in Nat \ {0}
      /\ \A p, q \in RobLive : RingSlot(p, ROB_SIZE) = RingSlot(q, ROB_SIZE) => p = q
  BY Typed, RobIs, Sizes
<1>2. port \subseteq RobLive /\ port_exception \subseteq port
  BY DEF PipeInv, TypeOK
<1>3. ASSUME NEW p \in RobLive
      PROVE  RobItem(p)' = IF p \in port THEN FinishedItem(p) ELSE RobItem(p)
  <2>1. RingSlot(p, ROB_SIZE) \in Slots(ROB_SIZE)
    BY <1>1, RingType DEF Slots
  <2>2. (\E q \in port : RingSlot(q, ROB_SIZE) = RingSlot(p, ROB_SIZE)) <=> p \in port
    BY <1>1, <1>2
  <2>3. QED
    BY <1>0, <2>1, <2>2 DEF RobItem, FinishedItem
<1>4. rob' \in [Slots(ROB_SIZE) -> Items]
  <2> SUFFICES ASSUME NEW i \in Slots(ROB_SIZE) PROVE (rob')[i] \in Items
    BY <1>0
  <2>1. rob[i] \in Items
    BY DEF TypeOK
  <2>2. CASE \E p \in port : RingSlot(p, ROB_SIZE) = i
    <3> DEFINE e == \E p \in port_exception : RingSlot(p, ROB_SIZE) = i
               f == rob[i].cp_valid /\ CarriesCheckpoint(rob[i].unit)
    <3>1. (rob')[i] = [rob[i] EXCEPT !.finish = TRUE, !.exception = e, !.bp_cp_valid = f]
      BY <1>0, <2>2, Zenon
    <3>2. e \in BOOLEAN /\ f \in BOOLEAN
      BY Zenon
    <3> HIDE DEF e, f
    <3>3. QED
      BY <2>1, <3>1, <3>2 DEF Items
  <2>3. CASE ~\E p \in port : RingSlot(p, ROB_SIZE) = i
    BY <1>0, <2>1, <2>3
  <2>4. QED
    BY <2>2, <2>3
<1>5. \A p \in RobLive : (\E q \in port_exception : RingSlot(q, ROB_SIZE) = RingSlot(p, ROB_SIZE))
                           <=> p \in port_exception
  BY <1>1, <1>2
<1>6. QED
  BY <1>3, <1>4, <1>5


\* The end of commit.
LEMMA StepFinish ==
  ASSUME Body, CommitFinish
  PROVE  Body'
<1> USE DEF Body
<1>0. /\ phase = "commit" /\ phase' = "wb" /\ slot' = 0
      /\ UNCHANGED <<flush, flush_pos, pipe_vars, fl_vars, rat_vars, rob_w, rob_r, rob_r0,
                     cp_vars, reg_vars, path_vars, aborted>>
  BY DEF CommitFinish
<1>1. UNCHANGED <<rob_w, rob_r, rob_r0>> /\ UNCHANGED table_vars /\ cp_r0' = cp_r0
      /\ fl_w0' = fl_w0 /\ fl_r0' = fl_r0 /\ fl_r' = fl_r /\ fl_w' = fl_w /\ cp_w' = cp_w /\ cp_r' = cp_r
      /\ UNCHANGED <<exec, port, port_exception>>
  BY <1>0 DEF fl_vars, rat_vars, cp_vars, table_vars, pipe_vars
<1>2. CASE flush = "commit"
  <2>1. rob' = rob /\ RobCount' = RobCount
    BY <1>1, <1>2, RobSame DEF CommitFinish
  <2>2. Tables' /\ ShapeInv' /\ Dist(fl_w)' = Dist(fl_w)
    BY <1>1, <2>1, QuietTables
  <2>3. TypeOK'
    BY <1>0, <2>1 DEF TypeOK, pipe_vars, fl_vars, rat_vars, cp_vars, reg_vars, path_vars
  <2>4. PointerInv'
    BY <1>0, <1>1, <1>2, <2>1 DEF PointerInv
  <2>5. PipeInv'
    BY <1>0, <1>2 DEF PipeInv
  <2>6. LossInv'
    BY <1>0, <1>2, <2>2 DEF LossInv
  <2>7. QED
    BY <2>2, <2>3, <2>4, <2>5, <2>6 DEF Tables
<1>3. CASE flush # "commit"
  <2>1. /\ \A p \in RobLive : RobItem(p)' = IF p \in port THEN FinishedItem(p) ELSE RobItem(p)
        /\ \A p \in RobLive : (\E q \in port_exception : RingSlot(q, ROB_SIZE) = RingSlot(p, ROB_SIZE))
                                  <=> p \in port_exception
        /\ rob' \in [Slots(ROB_SIZE) -> Items]
    BY <1>3, FinishItems
  <2>2. /\ RobCount' = RobCount /\ Ks' = Ks /\ RobLive' = RobLive
        /\ \A k : RobAt(k)' = RobAt(k)
    BY <1>1 DEF RobCount, Ks, RobLive, RobAt
  <2>3. /\ RobTyped /\ RobCount \in Nat /\ \A k \in Ks : RobAt(k) \in RobLive
        /\ \A k \in Ks : It(k) \in Items
        /\ \A p \in RobLive : p \in Positions(ROB_SIZE) /\ RobItem(p) \in Items
    BY Typed, RobIs
  <2>4. \A k \in Ks : It(k)' = RobItem(RobAt(k))'
    BY DEF It
  <2>5. \A p \in RobLive :
          /\ AlikeItem(RobItem(p)', RobItem(p))
          /\ p \notin port => RobItem(p)' = RobItem(p)
          /\ p \in port => /\ (RobItem(p)').finish
                           /\ (RobItem(p)').exception <=> p \in port_exception
                           /\ (RobItem(p)').bp_cp_valid <=>
                                 RobItem(p).cp_valid /\ CarriesCheckpoint(RobItem(p).unit)
    <3> SUFFICES ASSUME NEW p \in RobLive
                 PROVE  /\ AlikeItem(RobItem(p)', RobItem(p))
                        /\ p \notin port => RobItem(p)' = RobItem(p)
                        /\ p \in port => /\ (RobItem(p)').finish
                                         /\ (RobItem(p)').exception <=> p \in port_exception
                                         /\ (RobItem(p)').bp_cp_valid <=>
                                               RobItem(p).cp_valid /\ CarriesCheckpoint(RobItem(p).unit)
      OBVIOUS
    <3>1. CASE p \notin port
      BY <2>1, <3>1 DEF AlikeItem
    <3>2. CASE p \in port
      <4>1. RobItem(p)' = FinishedItem(p) /\ RobItem(p) \in Items
        BY <2>1, <2>3, <3>2
      <4>2. /\ FinishedItem(p).finish
            /\ FinishedItem(p).exception <=> (\E q \in port_exception : RingSlot(q, ROB_SIZE) = RingSlot(p, ROB_SIZE))
            /\ FinishedItem(p).bp_cp_valid <=> RobItem(p).cp_valid /\ CarriesCheckpoint(RobItem(p).unit)
        BY <4>1 DEF FinishedItem, Items
      <4>3. AlikeItem(FinishedItem(p), RobItem(p))
        BY <4>1 DEF FinishedItem, Items, AlikeItem
      <4>4. QED
        BY <2>1, <3>2, <4>1, <4>2, <4>3
    <3>3. QED
      BY <3>1, <3>2
  <2>6. \A k \in Ks : \E p \in RobLive : p = RobAt(k) /\ It(k) = RobItem(p) /\ It(k)' = RobItem(p)'
    <3> SUFFICES ASSUME NEW k \in Ks
                 PROVE  \E p \in RobLive : p = RobAt(k) /\ It(k) = RobItem(p) /\ It(k)' = RobItem(p)'
      OBVIOUS
    <3>1. PICK p \in RobLive : p = RobAt(k)
      BY <2>3
    <3>2. It(k)' = RobItem(p)'
      BY <2>2, <3>1 DEF It, RobItem
    <3>3. QED
      BY <3>1, <3>2 DEF It
  <2>7. Tables' /\ Base' = Base
    <3>1. \A k \in Ks : AlikeItem(It(k)', It(k))
      BY <2>5, <2>6
    <3>2. QED
      BY <1>1, <2>2, <2>3, <3>1, AlikeTables DEF Tables
  <2>8. Dist(fl_w)' = Dist(fl_w)
    BY <1>1, <2>7 DEF Dist
  <2>9. TypeOK'
    BY <1>0, <2>1 DEF TypeOK, pipe_vars, fl_vars, rat_vars, cp_vars, reg_vars, path_vars
  <2>10. PointerInv'
    BY <1>0, <1>1, <1>3, <2>2 DEF PointerInv
  <2>11. /\ port \cup exec \subseteq RobLive /\ exec \cap port = {}
         /\ \A p \in exec : ~RobItem(p).finish
         /\ \A p \in port_exception : RobItem(p).rd # 0 => FaultRd
         /\ flush = "bru" => flush_pos \in exec /\ BruFlush(flush_pos)
    BY <1>0, <1>3 DEF PipeInv
  <2>12. PipeInv'
    <3>1. \A p \in exec : RobItem(p)' = RobItem(p)
      BY <2>5, <2>11
    <3>2. flush = "bru" => BruFlush(flush_pos)'
      BY <1>0, <2>11, <3>1 DEF BruFlush, RobItem
    <3>3. QED
      BY <1>0, <1>1, <1>3, <2>2, <2>5, <2>11, <3>1, <3>2 DEF PipeInv
  <2>13. ShapeInv'
    <3> SUFFICES ASSUME NEW k \in Ks
                 PROVE  /\ (It(k)').cp_valid => (It(k)').unit \in {"bru", "lu"}
                        /\ (It(k)').bp_cp_valid => (It(k)').cp_valid /\ (It(k)').unit = "bru"
                        /\ (It(k)').unit = "sdu" => (It(k)').rd = 0
                        /\ (It(k)').rd # 0 => (It(k)').new_phy \in Phys /\ (It(k)').old_phy \in Phys
                        /\ (It(k)').exception => ((It(k)').rd # 0 => FaultRd)
      BY <2>2 DEF ShapeInv
    <3>1. PICK p \in RobLive : It(k) = RobItem(p) /\ It(k)' = RobItem(p)'
      BY <2>6
    <3>2. /\ It(k).cp_valid => It(k).unit \in {"bru", "lu"}
          /\ It(k).bp_cp_valid => It(k).cp_valid /\ It(k).unit = "bru"
          /\ It(k).unit = "sdu" => It(k).rd = 0
          /\ It(k).rd # 0 => It(k).new_phy \in Phys /\ It(k).old_phy \in Phys
          /\ It(k).exception => (It(k).rd # 0 => FaultRd)
      BY DEF ShapeInv
    <3>3. CASE p \notin port
      BY <2>5, <3>1, <3>2, <3>3
    <3>4. CASE p \in port
      <4>1. AlikeItem(It(k)', It(k))
        BY <2>5, <3>1
      <4>2. (It(k)').exception => ((It(k)').rd # 0 => FaultRd)
        BY <2>5, <2>11, <3>1, <3>4, <4>1 DEF AlikeItem
      <4>3. (It(k)').bp_cp_valid => (It(k)').cp_valid /\ (It(k)').unit = "bru"
        BY <2>5, <3>1, <3>2, <3>4, <4>1 DEF AlikeItem, CarriesCheckpoint
      <4>4. QED
        BY <3>2, <4>1, <4>2, <4>3 DEF AlikeItem
    <3>5. QED
      BY <3>3, <3>4
  <2>14. LossInv'
    BY <1>0, <1>1, <1>3, <2>8 DEF LossInv
  <2>15. QED
    BY <2>7, <2>9, <2>10, <2>12, <2>13, <2>14 DEF Tables
<1>4. QED
  BY <1>2, <1>3


\* What all executions share.
LEMMA ExecuteCommon ==
  ASSUME Body, Execute
  PROVE  /\ phase = "execute" /\ phase' = "rename" /\ exec' = {} /\ port' = Executed
         /\ port_exception' \subseteq port' /\ Executed \subseteq exec /\ traps' \in Nat
         /\ \A p \in port_exception' : RobItem(p).rd # 0 => FaultRd
         /\ UNCHANGED <<slot, flush, flush_pos, fl_buffer, fl_w, fl_w0, fl_r0, srat_table,
                        rrat_valid, rrat_table, rob, rob_r, rob_r0, cpb, cp_r, cp_r0,
                        reg_data, reg_age, done>>
<1> USE DEF Body
<1>1. PICK X \in SUBSET {p \in Executed : MayTrap(p)} :
         /\ port_exception' = X
         /\ traps' = traps + Cardinality({p \in X : RobItem(p).inst # 0})
  BY DEF Execute
<1>2. Executed \subseteq exec
  BY DEF Executed, TypeOK
<1>3. Cardinality({p \in X : RobItem(p).inst # 0}) \in Nat
  <2>1. 2 * ROB_SIZE - 1 \in Int
    BY Sizes
  <2>2. IsFiniteSet(Positions(ROB_SIZE))
    BY <2>1, FS_Interval DEF Positions
  <2>3. {p \in X : RobItem(p).inst # 0} \in SUBSET Positions(ROB_SIZE)
    BY <1>2 DEF TypeOK
  <2>4. IsFiniteSet({p \in X : RobItem(p).inst # 0})
    BY <2>2, <2>3, FS_Subset
  <2>5. QED
    BY <2>4, FS_CardinalityType
<1>4. traps' \in Nat
  BY <1>1, <1>3 DEF TypeOK
<1>5. \A p \in port_exception' : RobItem(p).rd # 0 => FaultRd
  BY <1>1 DEF MayTrap
<1>6. QED
  BY <1>1, <1>2, <1>4, <1>5 DEF Execute

\* Execution without a misprediction.
LEMMA StepExecute ==
  ASSUME Body, Execute, flush # "bru"
  PROVE  Body'
<1> USE DEF Body
<1>0. /\ phase = "execute" /\ phase' = "rename" /\ exec' = {} /\ port' = Executed
      /\ port_exception' \subseteq port' /\ Executed \subseteq exec /\ traps' \in Nat
      /\ \A p \in port_exception' : RobItem(p).rd # 0 => FaultRd
      /\ UNCHANGED <<slot, flush, flush_pos, fl_buffer, fl_w, fl_w0, fl_r0, srat_table,
                     rrat_valid, rrat_table, rob, rob_r, rob_r0, cpb, cp_r, cp_r0,
                     reg_data, reg_age, done>>
  BY ExecuteCommon
<1>1. UNCHANGED <<srat_valid, rob_w, reg_valid, reg_oldest, cp_w, fl_r,
                  free_list_set, aborted, wrong_path, next_inst>>
  BY DEF Execute
<1>2. UNCHANGED <<rob, rob_w, rob_r>> /\ UNCHANGED table_vars
  BY <1>0, <1>1 DEF table_vars, rat_vars
<1>3. /\ RobCount' = RobCount /\ Ks' = Ks /\ RobLive' = RobLive
      /\ \A p : RobItem(p)' = RobItem(p)
  BY <1>2, RobSame
<1>4. TypeOK'
  BY <1>0, <1>1 DEF TypeOK
<1>5. PointerInv'
  BY <1>0, <1>1, <1>3 DEF PointerInv
<1>6. Tables' /\ ShapeInv' /\ Dist(fl_w)' = Dist(fl_w)
  BY <1>2, QuietTables
<1>7. PipeInv'
  <2>1. CASE flush = "commit"
    <3>1. port' = {}
      BY <1>0, <2>1 DEF Executed
    <3>2. QED
      BY <1>0, <2>1, <3>1 DEF PipeInv
  <2>2. CASE flush # "commit"
    BY <1>0, <1>3, <2>2 DEF PipeInv
  <2>3. QED
    BY <2>1, <2>2
<1>8. LossInv'
  BY <1>0, <1>6 DEF LossInv
<1>9. QED
  BY <1>4, <1>5, <1>6, <1>7, <1>8 DEF Tables

\* A misprediction with a checkpoint: the place of the branch, and what is restored.
LEMMA RestoreFacts ==
  ASSUME Body, Execute, flush = "bru", NEW j \in Ks, flush_pos = RobAt(j)
  PROVE  /\ Restores(j) /\ Saved(j)
         /\ rob_w' = RingNext(RobAt(j), ROB_SIZE) /\ srat_valid' = Cp(j).valid
         /\ cp_w' = Cp(j).new_cp_w /\ fl_r' = It(j).new_fl_r
         /\ free_list_set' = Contents(fl_buffer, fl_r, fl_w)'
         /\ fl_restore_verified(It(j).new_fl_r, fl_w, free_list_set)
         /\ aborted' = aborted
         /\ reg_valid' = reg_valid \ SquashedRegs /\ reg_oldest' = reg_oldest \cup SquashedRegs
         /\ wrong_path' \in BOOLEAN /\ next_inst' \in Nat
<1> USE DEF Body
<1>0. /\ phase = "execute" /\ UNCHANGED <<fl_buffer, fl_w, rob>>
  BY ExecuteCommon
<1>1. RestoreCheckpoint
  BY DEF Execute
<1>2. BruFlush(flush_pos)
  BY <1>0 DEF PipeInv
<1>3. Restores(j)
  BY <1>2 DEF BruFlush, Restores, It
<1>4. Saved(j)
  BY <1>3 DEF CheckInv
<1>5. RobItem(flush_pos) = It(j) /\ cpb[RobItem(flush_pos).cp_id] = Cp(j)
  BY DEF It, Cp
<1>6. Cp(j).new_fl_r = It(j).new_fl_r
  BY <1>4 DEF Saved
<1>7. /\ srat_valid' = Cp(j).valid /\ rob_w' = RingNext(RobAt(j), ROB_SIZE)
      /\ cp_w' = Cp(j).new_cp_w
      /\ reg_valid' = reg_valid \ SquashedRegs /\ reg_oldest' = reg_oldest \cup SquashedRegs
      /\ fl_r' = It(j).new_fl_r
      /\ free_list_set' = free_list_set \cup fl_returned(It(j).new_fl_r)
      /\ aborted' = (aborted \/ ~fl_restore_verified(It(j).new_fl_r, fl_w, free_list_set))
      /\ wrong_path' = (It(j).inst = 0)
      /\ next_inst' = IF It(j).inst = 0 THEN next_inst ELSE It(j).inst + 1
  BY <1>1, <1>5, <1>6 DEF RestoreCheckpoint, fl_restore
<1>8. PICK pos \in Positions(N), b \in Positions(N) : pos = It(j).new_fl_r /\ b = Base
  BY Typed
<1>9. fl_r \in Positions(N) /\ fl_w \in Positions(N) /\ fl_r0 = fl_r
  BY <1>0, Typed DEF PointerInv
<1>10. /\ RingCount(pos, b, N) <= RingCount(fl_r, b, N)
       /\ RingCount(fl_r, b, N) <= RingCount(fl_w, b, N)
       /\ Pool(b, fl_w, fl_buffer, rrat_valid)
       /\ free_list_set = Contents(fl_buffer, fl_r, fl_w)
  BY <1>8, ItemDists DEF Tables, FreeInv, Dist
<1>11. /\ free_list_set \cup fl_returned(pos) = Contents(fl_buffer, pos, fl_w)
       /\ fl_restore_verified(pos, fl_w, free_list_set)
  BY <1>9, <1>10, Returned
<1>12. free_list_set' = Contents(fl_buffer, fl_r, fl_w)'
  BY <1>0, <1>7, <1>8, <1>11
<1>13. It(j).inst \in Nat /\ next_inst \in Nat /\ aborted \in BOOLEAN
  BY Typed DEF Items, TypeOK
<1>14. aborted' = aborted
  <2>1. fl_restore_verified(It(j).new_fl_r, fl_w, free_list_set)
    BY <1>8, <1>11
  <2> HIDE DEF Body
  <2>2. QED
    BY <1>7, <1>13, <2>1, Zenon
<1>15. wrong_path' \in BOOLEAN /\ next_inst' \in Nat
  BY <1>7, <1>13
<1>16. QED
  BY <1>3, <1>4, <1>7, <1>8, <1>11, <1>12, <1>14, <1>15


\* Recovery from a misprediction.
LEMMA StepRestore ==
  ASSUME Body, Execute, flush = "bru"
  PROVE  Body' /\ aborted' = aborted
<1> USE DEF Body
<1>0. /\ phase = "execute" /\ phase' = "rename" /\ exec' = {} /\ port' = Executed
      /\ port_exception' \subseteq port' /\ Executed \subseteq exec /\ traps' \in Nat
      /\ \A p \in port_exception' : RobItem(p).rd # 0 => FaultRd
      /\ UNCHANGED <<slot, flush, flush_pos, fl_buffer, fl_w, fl_w0, fl_r0, srat_table,
                     rrat_valid, rrat_table, rob, rob_r, rob_r0, cpb, cp_r, cp_r0,
                     reg_data, reg_age, done>>
  BY ExecuteCommon
<1>1. PICK j \in Ks : flush_pos = RobAt(j)
  <2>1. flush_pos \in RobLive
    BY <1>0 DEF PipeInv
  <2>2. QED
    BY <2>1, Typed, RobIs
<1>2. /\ Restores(j) /\ Saved(j)
      /\ rob_w' = RingNext(RobAt(j), ROB_SIZE) /\ srat_valid' = Cp(j).valid
      /\ cp_w' = Cp(j).new_cp_w /\ fl_r' = It(j).new_fl_r
      /\ free_list_set' = Contents(fl_buffer, fl_r, fl_w)'
      /\ aborted' = aborted
      /\ reg_valid' = reg_valid \ SquashedRegs /\ reg_oldest' = reg_oldest \cup SquashedRegs
      /\ wrong_path' \in BOOLEAN /\ next_inst' \in Nat
  BY <1>1, RestoreFacts
<1>3. /\ RobTyped /\ N \in Nat \ {0} /\ ROB_SIZE \in Nat \ {0} /\ CB \in Nat \ {0}
      /\ rob_w \in Positions(ROB_SIZE) /\ rob_r \in Positions(ROB_SIZE)
      /\ rob_r0 \in Positions(ROB_SIZE)
      /\ cp_w \in Positions(CB) /\ cp_r \in Positions(CB) /\ cp_r0 \in Positions(CB)
      /\ fl_w \in Positions(N) /\ RobCount \in Nat
  BY Typed, Sizes, RobIs DEF RobTyped
<1>4. /\ RobTyped' /\ RobCount' = j + 1
      /\ \A k \in Ks' : k \in Ks /\ RobAt(k)' = RobAt(k) /\ It(k)' = It(k)
      /\ RobLive' = {p \in RobLive : ~RingYounger(p, RobAt(j), ROB_SIZE)}
      /\ \A p : RobItem(p)' = RobItem(p)
  BY <1>0, <1>2, <1>3, RobCut
<1>5. Tables' /\ Base' = Base /\ (\A p : Dist(p)' = Dist(p))
  <2>1. Tables
    BY DEF Tables
  <2>2. QED
    BY <1>0, <1>2, <1>4, <2>1, CutTables
<1>6. /\ cp_w' \in Positions(CB) /\ fl_r' \in Positions(N) /\ rob_w' \in Positions(ROB_SIZE)
      /\ srat_valid' \subseteq Phys
  <2>1. /\ Cp(j).new_cp_w \in Positions(CB) /\ Cp(j).valid \subseteq Phys
        /\ It(j).new_fl_r \in Positions(N)
    BY Typed
  <2>2. QED
    BY <1>2, <1>4, <2>1 DEF RobTyped
<1>7. free_list_set' \subseteq Phys
  <2>1. fl_buffer \in [Slots(N) -> Phys]
    BY Typed
  <2>2. \A p \in Positions(N) : fl_buffer[RingSlot(p, N)] \in Phys
    BY <1>3, <2>1, RingType DEF Slots
  <2>3. QED
    BY <1>0, <1>2, <2>2 DEF Contents, Span
<1>8. TypeOK'
  <2>1. /\ reg_valid' \subseteq Phys /\ reg_oldest' \subseteq Phys
    BY <1>2 DEF TypeOK, SquashedRegs
  <2>2. PHY_REG_NUM = N /\ CHECKPOINT_BUFFER_SIZE = CB
    BY Sizes DEF CB
  <2>3. Executed \subseteq Positions(ROB_SIZE)
    BY <1>0 DEF TypeOK
  <2>4. QED
    BY <1>0, <1>2, <1>6, <1>7, <2>1, <2>2, <2>3 DEF TypeOK
<1>9. PointerInv'
  <2>1. Nested(rob_w, rob_r, rob_r0, ROB_SIZE) /\ Nested(cp_w, cp_r, cp_r0, CB)
    BY DEF PointerInv
  <2>2. RingCount(rob_w', rob_r, ROB_SIZE) <= RingCount(rob_w, rob_r, ROB_SIZE)
    <3>1. RobCount' <= RobCount
      BY <1>3, <1>4 DEF Ks
    <3>2. QED
      BY <1>0, <3>1 DEF RobCount
  <2>3. Nested(rob_w', rob_r, rob_r0, ROB_SIZE)
    BY <1>3, <1>6, <2>1, <2>2, NestedMoves
  <2>4. RingCount(cp_w', cp_r, CB) <= RingCount(cp_w, cp_r, CB)
    <3>1. PICK q \in Span(cp_r, cp_w, CB) : Cp(j).new_cp_w = RingNext(q, CB)
      BY <1>2 DEF Saved
    <3>2. q \in Positions(CB) /\ RingCount(q, cp_r, CB) < RingCount(cp_w, cp_r, CB)
      BY <3>1 DEF Span
    <3>3. RingCount(q, cp_r, CB) \in Nat /\ RingCount(cp_w, cp_r, CB) \in 0..(2 * CB - 1)
      BY <1>3, <3>2, RingType
    <3>4. RingCount(q, cp_r, CB) + 1 < 2 * CB
      BY <1>3, <3>2, <3>3
    <3>5. RingCount(RingNext(q, CB), cp_r, CB) = RingCount(q, cp_r, CB) + 1
      BY <1>3, <3>2, <3>4, RingType
    <3>6. QED
      BY <1>2, <3>1, <3>2, <3>3, <3>5
  <2>5. Nested(cp_w', cp_r, cp_r0, CB)
    BY <1>3, <1>6, <2>1, <2>4, NestedMoves
  <2>6. RingCount(cp_w', cp_r, CB) <= CB
    <3>1. RingCount(cp_w, cp_r, CB) <= CB
      BY DEF PointerInv
    <3>2. RingCount(cp_w', cp_r, CB) \in Nat /\ RingCount(cp_w, cp_r, CB) \in Nat
      BY <1>3, <1>6, RingType
    <3>3. QED
      BY <1>3, <2>4, <3>1, <3>2
  <2>7. Nested(rob_w, rob_r, rob_r0, ROB_SIZE)' /\ Nested(cp_w, cp_r, cp_r0, CB)'
    BY <1>0, <2>3, <2>5
  <2>8. QED
    BY <1>0, <1>4, <2>6, <2>7 DEF PointerInv, RobTyped
<1>10. ShapeInv'
  BY <1>4 DEF ShapeInv
<1>11. PipeInv'
  <2>1. port' = {p \in exec : ~RingYounger(p, RobAt(j), ROB_SIZE)}
    BY <1>0, <1>1 DEF Executed
  <2>2. port' \subseteq RobLive'
    BY <1>0, <1>4, <2>1 DEF PipeInv
  <2>3. \A p \in port' : ~RobItem(p).finish
    BY <2>1 DEF PipeInv
  <2>4. QED
    BY <1>0, <1>4, <2>2, <2>3 DEF PipeInv
<1>12. LossInv'
  <2>1. Dist(fl_w)' = Dist(fl_w)
    BY <1>0, <1>5 DEF Dist
  <2>2. QED
    BY <1>0, <2>1 DEF LossInv
<1>13. QED
  BY <1>2, <1>5, <1>8, <1>9, <1>10, <1>11, <1>12 DEF Tables


-----------------------------------------------------------------------------
(***************************************************************************)
(* Commit.                                                                 *)
(***************************************************************************)

\* The state of free list, retirement table and registers a flush starts from.
FlushReady ==
    /\ fl_r' \in Positions(N) /\ fl_w' \in Positions(N) /\ fl_buffer' \in [Slots(N) -> Phys]
    /\ rrat_valid' \in SUBSET Phys /\ rrat_table' \in [Phys -> Arch \cup {0}]
    /\ Table(rrat_valid, rrat_table)'
    /\ Pool(fl_r, fl_w, fl_buffer, rrat_valid)'
    /\ free_list_set' = Contents(fl_buffer, fl_r, fl_w)'
    /\ RingCount(fl_w, fl_r, N)' + Cardinality(Arch) <= N
    /\ ~FaultRd => RingCount(fl_w, fl_r, N)' + Cardinality(Arch) = N
    /\ reg_oldest' \subseteq Phys
    /\ reg_data' \in [Phys -> Nat] /\ reg_age' \in [Phys -> Positions(ROB_SIZE)]
    /\ done' \in Nat /\ next_inst' \in Nat /\ traps' \in Nat
    /\ phase' = "commit" /\ UNCHANGED <<slot, flush_pos, pipe_vars, fl_w0, fl_r0>>

\* A flush establishes the invariant.
LEMMA StepFlush ==
  ASSUME Body, FlushAll, FlushReady, aborted' \in BOOLEAN
  PROVE  Body'
<1> USE DEF Body
<1>0. /\ N \in Nat \ {0} /\ ROB_SIZE \in Nat \ {0} /\ CB \in Nat \ {0} /\ PHY_REG_NUM = N
      /\ CHECKPOINT_BUFFER_SIZE = CB
  BY Sizes DEF CB
<1>1. /\ flush' = "commit" /\ srat_valid' = rrat_valid' /\ srat_table' = rrat_table'
      /\ reg_valid' = rrat_valid' /\ rob_w' = 0 /\ rob_r' = 0 /\ cp_w' = 0 /\ cp_r' = 0
      /\ wrong_path' = FALSE /\ UNCHANGED <<rob, rob_r0, cpb, cp_r0>>
  BY DEF FlushAll
<1>2. 0 \in Positions(ROB_SIZE) /\ 0 \in Positions(CB)
  BY <1>0 DEF Positions
<1>3. RobCount' = 0 /\ RingCount(cp_w, cp_r, CB)' = 0
  BY <1>0, <1>1, <1>2, RingType DEF RobCount
<1>4. Tables' /\ Base' = fl_r' /\ ShapeInv'
  BY <1>1, <1>3, ClearedTables DEF FlushReady, Clear, ClearInv
<1>5. free_list_set' \subseteq Phys
  <2>1. \A p \in Positions(N) : (fl_buffer')[RingSlot(p, N)] \in Phys
    BY <1>0, RingType DEF Slots, FlushReady
  <2>2. QED
    BY <2>1 DEF Contents, Span, FlushReady
<1>6. TypeOK'
  <2>1. /\ UNCHANGED <<exec, port, port_exception, slot, flush_pos>> /\ phase' = "commit"
        /\ fl_w0' \in Positions(N) /\ fl_r0' \in Positions(N)
    BY Typed DEF FlushReady, pipe_vars
  <2>2. QED
    BY <1>0, <1>1, <1>2, <1>5, <2>1 DEF TypeOK, FlushReady
<1>7. PointerInv'
  BY <1>0, <1>1, <1>3 DEF PointerInv, FlushReady
<1>8. PipeInv'
  BY <1>1 DEF PipeInv, FlushReady
<1>9. LossInv'
  BY <1>1, <1>4 DEF LossInv, Dist, FlushReady
<1>10. QED
  BY <1>4, <1>6, <1>7, <1>8, <1>9 DEF Tables

\* The oldest instruction when commit may look at it.
LEMMA HeadIs ==
  ASSUME Body, CanCommit
  PROVE  /\ phase = "commit" /\ flush # "commit" /\ rob_r # rob_w /\ Tables
         /\ fl_r0 = fl_r /\ 0 \in Ks /\ Head = It(0) /\ Head \in Items /\ Head.finish
         /\ Base = Head.old_fl_r /\ Head.inst \in Nat
         /\ (Head.exception \/ Head.unit = "sdu") /\ ~FaultRd => Head.rd = 0
         /\ Dist(Head.old_fl_r) = 0 /\ Dist(Head.new_fl_r) = (IF Head.rd = 0 THEN 0 ELSE 1)
         /\ Dist(Head.new_fl_r) <= Dist(fl_r) /\ Dist(fl_r) <= Dist(fl_w)
<1> USE DEF Body
<1>1. /\ phase = "commit" /\ flush # "commit" /\ rob_r # rob_w /\ Head.finish
  BY DEF CanCommit
<1>2. fl_r0 = fl_r
  BY <1>1 DEF PointerInv
<1>3. RobTyped /\ 0 \in Ks /\ Head = It(0) /\ RobCount # 0
  BY <1>1, Typed, RobIs DEF Ks
<1>4. Head \in Items /\ Base = Head.old_fl_r /\ Head.inst \in Nat /\ Base \in Positions(N)
  BY <1>3, Typed DEF Items, Base
<1>5. (Head.exception \/ Head.unit = "sdu") /\ ~FaultRd => Head.rd = 0
  BY <1>3 DEF ShapeInv
<1>6. Tables
  BY DEF Tables
<1>7. Dist(Head.old_fl_r) = 0
  BY <1>4, Sizes, RingType DEF Dist
<1>8. QED
  BY <1>1, <1>2, <1>3, <1>4, <1>5, <1>6, <1>7, ItemDists

\* The free list goes back to a position of the oldest instruction and the
\* retirement table stays.
LEMMA FlushBack ==
  ASSUME Body, CanCommit, NEW pos \in Positions(N), Dist(pos) <= Dist(fl_r),
         fl_restore(pos, free_list_set),
         UNCHANGED <<rrat_valid, rrat_table, fl_buffer, fl_w>>
  PROVE  /\ fl_r' \in Positions(N) /\ fl_w' \in Positions(N) /\ fl_buffer' \in [Slots(N) -> Phys]
         /\ rrat_valid' \in SUBSET Phys /\ rrat_table' \in [Phys -> Arch \cup {0}]
         /\ Table(rrat_valid, rrat_table)'
         /\ Pool(fl_r, fl_w, fl_buffer, rrat_valid)'
         /\ free_list_set' = Contents(fl_buffer, fl_r, fl_w)'
         /\ RingCount(fl_w, fl_r, N)' = Dist(fl_w) - Dist(pos)
         /\ Dist(fl_w) \in Nat /\ Dist(pos) \in Nat
         /\ fl_restore_verified(pos, fl_w, free_list_set)
<1> USE DEF Body
<1>1. /\ fl_r0 = fl_r /\ Dist(fl_r) <= Dist(fl_w)
  BY HeadIs
<1>2. /\ N \in Nat \ {0} /\ fl_r \in Positions(N) /\ fl_w \in Positions(N)
      /\ fl_buffer \in [Slots(N) -> Phys]
  BY Sizes, Typed
<1>3. PICK b \in Positions(N) : b = Base
  BY Typed
<1>4. /\ Dist(fl_r) \in Nat /\ Dist(fl_w) \in Nat /\ Dist(pos) \in Nat
  BY <1>2, <1>3, RingType DEF Dist
<1>5. /\ RingCount(pos, b, N) <= RingCount(fl_r, b, N)
      /\ RingCount(fl_r, b, N) <= RingCount(fl_w, b, N)
      /\ Pool(b, fl_w, fl_buffer, rrat_valid)
      /\ free_list_set = Contents(fl_buffer, fl_r, fl_w)
  BY <1>1, <1>3 DEF FreeInv, Dist
<1>6. /\ free_list_set \cup fl_returned(pos) = Contents(fl_buffer, pos, fl_w)
      /\ Pool(pos, fl_w, fl_buffer, rrat_valid)
      /\ fl_restore_verified(pos, fl_w, free_list_set)
  BY <1>1, <1>2, <1>5, Returned
<1>7. fl_r' = pos /\ free_list_set' = free_list_set \cup fl_returned(pos)
  BY DEF fl_restore
<1>8. RingCount(fl_w, pos, N) = Dist(fl_w) - Dist(pos)
  <2>1. RingCount(pos, b, N) <= RingCount(fl_w, b, N)
    BY <1>3, <1>4, <1>5 DEF Dist
  <2>2. RingCount(fl_w, pos, N) = RingCount(fl_w, b, N) - RingCount(pos, b, N)
    BY <1>2, <2>1, RingRebase
  <2>3. QED
    BY <1>3, <2>2 DEF Dist
<1>9. rrat_valid \in SUBSET Phys /\ rrat_table \in [Phys -> Arch \cup {0}]
  BY DEF TypeOK
<1>10. QED
  BY <1>2, <1>4, <1>6, <1>7, <1>8, <1>9


\* A trap.
LEMMA StepTrap ==
  ASSUME Body, CommitTrap
  PROVE  Body' /\ aborted' = aborted
<1> USE DEF Body
<1>0. /\ CanCommit /\ FlushAll /\ fl_restore(Head.new_fl_r, free_list_set)
      /\ Head.exception \/ Head.unit = "sdu"
      /\ traps' = IF Head.exception THEN traps ELSE traps + 1
      /\ UNCHANGED <<rrat_valid, rrat_table, fl_buffer, fl_w>>
      /\ aborted' = (aborted \/ ~fl_restore_verified(Head.new_fl_r, fl_w, free_list_set))
      /\ done' = Head.inst /\ next_inst' = Head.inst + 1 /\ phase' = "commit"
      /\ UNCHANGED <<slot, flush_pos, pipe_vars, fl_w0, fl_r0, reg_data, reg_oldest, reg_age>>
  BY DEF CommitTrap
<1>1. /\ Head \in Items /\ Head.inst \in Nat /\ (~FaultRd => Head.rd = 0)
      /\ Dist(Head.new_fl_r) = (IF Head.rd = 0 THEN 0 ELSE 1)
      /\ Dist(Head.new_fl_r) <= Dist(fl_r)
  BY <1>0, HeadIs
<1>2. PICK pos \in Positions(N) : pos = Head.new_fl_r
  BY <1>1, Sizes DEF Items
<1>3. /\ fl_r' \in Positions(N) /\ fl_w' \in Positions(N) /\ fl_buffer' \in [Slots(N) -> Phys]
      /\ rrat_valid' \in SUBSET Phys /\ rrat_table' \in [Phys -> Arch \cup {0}]
      /\ Table(rrat_valid, rrat_table)'
      /\ Pool(fl_r, fl_w, fl_buffer, rrat_valid)'
      /\ free_list_set' = Contents(fl_buffer, fl_r, fl_w)'
      /\ RingCount(fl_w, fl_r, N)' = Dist(fl_w) - Dist(pos)
      /\ Dist(fl_w) \in Nat /\ Dist(pos) \in Nat
      /\ fl_restore_verified(pos, fl_w, free_list_set)
  BY <1>0, <1>1, <1>2, FlushBack
<1>4. /\ Dist(fl_w) + Cardinality(Arch) <= N
      /\ ~FaultRd => Dist(fl_w) + Cardinality(Arch) = N /\ Dist(pos) = 0
  BY <1>1, <1>2 DEF ChainInv, LossInv
<1>5. /\ RingCount(fl_w, fl_r, N)' + Cardinality(Arch) <= N
      /\ ~FaultRd => RingCount(fl_w, fl_r, N)' + Cardinality(Arch) = N
  <2>1. Cardinality(Arch) \in Nat /\ N \in Nat
    BY Sizes
  <2>2. QED
    BY <1>3, <1>4, <2>1
<1>6. /\ traps' \in Nat /\ done' \in Nat /\ next_inst' \in Nat
  BY <1>0, <1>1 DEF TypeOK
<1>7. FlushReady
  BY <1>0, <1>3, <1>5, <1>6 DEF FlushReady, TypeOK
<1>8. aborted' = aborted
  <2>1. fl_restore_verified(Head.new_fl_r, fl_w, free_list_set) /\ aborted \in BOOLEAN
    BY <1>2, <1>3 DEF TypeOK
  <2> HIDE DEF Body
  <2>2. QED
    BY <1>0, <2>1, Zenon
<1>9. aborted' \in BOOLEAN
  BY <1>8 DEF TypeOK
<1>10. QED
  BY <1>0, <1>7, <1>8, <1>9, StepFlush

\* A load that must be done again.
LEMMA StepConflict ==
  ASSUME Body, CommitConflict
  PROVE  Body' /\ aborted' = aborted
<1> USE DEF Body
<1>0. /\ CanCommit /\ FlushAll /\ fl_restore(Head.old_fl_r, free_list_set)
      /\ UNCHANGED <<rrat_valid, rrat_table, fl_buffer, fl_w>>
      /\ aborted' = (aborted \/ ~fl_restore_verified(Head.old_fl_r, fl_w, free_list_set))
      /\ next_inst' = Head.inst
      /\ UNCHANGED <<phase, slot, flush_pos, pipe_vars, fl_w0, fl_r0, reg_data, reg_oldest,
                     reg_age, done, traps>>
  BY DEF CommitConflict
<1>1. /\ Head \in Items /\ Head.inst \in Nat /\ Dist(Head.old_fl_r) = 0
      /\ Base = Head.old_fl_r /\ phase = "commit"
  BY <1>0, HeadIs
<1>2. PICK pos \in Positions(N) : pos = Head.old_fl_r
  BY <1>1, Sizes DEF Items
<1>a. Dist(pos) <= Dist(fl_r)
  <2>1. fl_r \in Positions(N) /\ N \in Nat \ {0}
    BY Sizes, Typed
  <2>2. RingCount(fl_r, pos, N) \in Nat
    BY <2>1, RingType
  <2>3. QED
    BY <1>1, <1>2, <2>2 DEF Dist
<1>3. /\ fl_r' \in Positions(N) /\ fl_w' \in Positions(N) /\ fl_buffer' \in [Slots(N) -> Phys]
      /\ rrat_valid' \in SUBSET Phys /\ rrat_table' \in [Phys -> Arch \cup {0}]
      /\ Table(rrat_valid, rrat_table)'
      /\ Pool(fl_r, fl_w, fl_buffer, rrat_valid)'
      /\ free_list_set' = Contents(fl_buffer, fl_r, fl_w)'
      /\ RingCount(fl_w, fl_r, N)' = Dist(fl_w) - Dist(pos)
      /\ Dist(fl_w) \in Nat
      /\ fl_restore_verified(pos, fl_w, free_list_set)
  BY <1>0, <1>2, <1>a, FlushBack
<1>4. /\ Dist(fl_w) + Cardinality(Arch) <= N /\ Dist(pos) = 0
      /\ ~FaultRd => Dist(fl_w) + Cardinality(Arch) = N
  BY <1>1, <1>2 DEF ChainInv, LossInv
<1>5. /\ RingCount(fl_w, fl_r, N)' + Cardinality(Arch) <= N
      /\ ~FaultRd => RingCount(fl_w, fl_r, N)' + Cardinality(Arch) = N
  <2>1. Cardinality(Arch) \in Nat /\ N \in Nat
    BY Sizes
  <2>2. QED
    BY <1>3, <1>4, <2>1
<1>6. FlushReady
  BY <1>0, <1>1, <1>3, <1>5 DEF FlushReady, TypeOK
<1>7. aborted' = aborted
  <2>1. fl_restore_verified(Head.old_fl_r, fl_w, free_list_set) /\ aborted \in BOOLEAN
    BY <1>2, <1>3 DEF TypeOK
  <2> HIDE DEF Body
  <2>2. QED
    BY <1>0, <2>1, Zenon
<1>8. aborted' \in BOOLEAN
  BY <1>7 DEF TypeOK
<1>9. QED
  BY <1>0, <1>6, <1>7, <1>8, StepFlush

\* A retirement passes every verify().
LEMMA RetireVerifies ==
  ASSUME Body, CanCommit, RetireMap, RetirePush
  PROVE  RetireVerified
<1> USE DEF Body
<1>1. /\ rob_r # rob_w /\ Tables /\ fl_r0 = fl_r /\ 0 \in Ks /\ Head = It(0)
  BY HeadIs
<1>2. PICK h, b, nb : h = It(0) /\ b = Base /\ nb = h.new_fl_r
  OBVIOUS
<1>3. /\ N \in Nat \ {0} /\ PHY_REG_NUM = N /\ fl_r \in Positions(N) /\ fl_w \in Positions(N)
  BY Sizes, Typed
<1>4. /\ nb \in Positions(N) /\ b \in Positions(N)
      /\ RingCount(nb, b, N) <= RingCount(fl_r, b, N)
      /\ fl_w' \in Positions(N) /\ RingCount(fl_w', nb, N) = RingCount(fl_w, b, N)
      /\ Pool(nb, fl_w', fl_buffer', rrat_valid')
      /\ h.rd # 0 => /\ set_map_verified(rrat_valid, rrat_table, h.rd, h.new_phy)
                     /\ h.old_phy \in rrat_valid /\ RingCount(fl_w, b, N) < N
      /\ retired_set = Contents(fl_buffer', fl_r, fl_w')
      /\ fl_w' = retired_w
  BY <1>1, <1>2, Retired DEF Dist
<1>5. RingCount(fl_r, b, N) <= RingCount(fl_w, b, N)
  BY <1>1, <1>2, ItemDists DEF Dist
<1>6. /\ RingCount(fl_r, b, N) \in Nat /\ RingCount(fl_w, b, N) \in Nat
      /\ RingCount(nb, b, N) \in Nat
  BY <1>3, <1>4, RingType
<1>7. fl_push_verified(free_list_set, Head.old_phy) \/ h.rd = 0
  <2>1. SUFFICES ASSUME h.rd # 0, h.old_phy \in Contents(fl_buffer, fl_r, fl_w) PROVE FALSE
    BY <1>1, <1>2 DEF fl_push_verified, FreeInv
  <2>2. PICK q \in Span(fl_r, fl_w, N) : h.old_phy = fl_buffer[RingSlot(q, N)]
    BY <2>1 DEF Contents
  <2>3. q \in Span(b, fl_w, N)
    BY <1>3, <1>4, <1>5, PoolShrinks
  <2>4. QED
    BY <1>2, <1>4, <2>1, <2>2, <2>3 DEF FreeInv, Pool
<1>8. RingCount(fl_w, fl_r, N) = RingCount(fl_w, b, N) - RingCount(fl_r, b, N)
  BY <1>3, <1>4, <1>5, RingRebase
<1>9. ~RingFull(fl_w, fl_r0, PHY_REG_NUM) \/ h.rd = 0
  BY <1>1, <1>3, <1>4, <1>6, <1>8 DEF RingFull
<1>10. RingCount(retired_w, fl_r, PHY_REG_NUM) = Cardinality(retired_set)
  <2>1. RingCount(fl_r, nb, N) = RingCount(fl_r, b, N) - RingCount(nb, b, N)
    BY <1>3, <1>4, RingRebase
  <2>2. RingCount(fl_r, nb, N) <= RingCount(fl_w', nb, N)
    BY <1>4, <1>5, <1>6, <2>1
  <2>3. Span(fl_r, fl_w', N) \subseteq Span(nb, fl_w', N)
    BY <1>3, <1>4, <2>2, PoolShrinks
  <2>4. PICK buf : buf = fl_buffer'
    OBVIOUS
  <2>5. \A p, q \in Span(fl_r, fl_w', N) : buf[RingSlot(p, N)] = buf[RingSlot(q, N)] => p = q
    BY <1>4, <2>3, <2>4 DEF Pool
  <2>6. Cardinality(Contents(buf, fl_r, fl_w')) = RingCount(fl_w', fl_r, N)
    BY <1>3, <1>4, <2>5, ContentsCard
  <2>7. QED
    BY <1>3, <1>4, <2>4, <2>6
<1>11. QED
  BY <1>1, <1>2, <1>4, <1>7, <1>9, <1>10, Zenon DEF RetireVerified


\* A retirement resets registers.
LEMMA RetireRegs ==
  ASSUME Body, CanCommit, RetirePush
  PROVE  /\ reg_oldest' \subseteq Phys
         /\ reg_data' \in [Phys -> Nat] /\ reg_age' \in [Phys -> Positions(ROB_SIZE)]
<1> USE DEF Body
<1>1. 0 \in Ks /\ Head = It(0)
  BY HeadIs
<1>2. Head.rd # 0 => Head.old_phy \in Phys /\ Head.new_phy \in Phys
  BY <1>1 DEF ShapeInv
<1>3. 0 \in Positions(ROB_SIZE)
  BY Sizes DEF Positions
<1>4. QED
  BY <1>2, <1>3 DEF RetirePush, TypeOK

\* A mispredicted branch without a checkpoint.
LEMMA StepMispredict ==
  ASSUME Body, CommitMispredict
  PROVE  Body' /\ aborted' = aborted
<1> USE DEF Body
<1>0. /\ CanCommit /\ RetireMap /\ RetirePush /\ FlushAll
      /\ fl_restore(Head.new_fl_r, retired_set)
      /\ aborted' = (aborted \/ ~RetireVerified
                             \/ ~fl_restore_verified(Head.new_fl_r, retired_w, retired_set))
      /\ done' = Head.inst /\ next_inst' = Head.inst + 1
      /\ UNCHANGED <<phase, slot, flush_pos, pipe_vars, traps, fl_w0, fl_r0>>
  BY DEF CommitMispredict, RetirePush
<1>1. /\ rob_r # rob_w /\ Tables /\ fl_r0 = fl_r /\ 0 \in Ks /\ Head = It(0)
      /\ phase = "commit" /\ Head.inst \in Nat
  BY <1>0, HeadIs
<1>2. PICK h, b, nb : h = It(0) /\ b = Base /\ nb = h.new_fl_r
  OBVIOUS
<1>3. /\ N \in Nat \ {0} /\ PHY_REG_NUM = N /\ fl_r \in Positions(N) /\ fl_w \in Positions(N)
  BY Sizes, Typed
<1>4. /\ nb \in Positions(N) /\ b \in Positions(N)
      /\ RingCount(nb, b, N) <= RingCount(fl_r, b, N)
      /\ fl_buffer' \in [Slots(N) -> Phys]
      /\ fl_w' \in Positions(N) /\ RingCount(fl_w', nb, N) = RingCount(fl_w, b, N)
      /\ Pool(nb, fl_w', fl_buffer', rrat_valid')
      /\ Table(rrat_valid', rrat_table') /\ rrat_valid' \in SUBSET Phys
      /\ rrat_table' \in [Phys -> Arch \cup {0}]
      /\ \A p \in Span(b, fl_w, N) : (fl_buffer')[RingSlot(p, N)] = fl_buffer[RingSlot(p, N)]
      /\ retired_set = Contents(fl_buffer', fl_r, fl_w')
      /\ fl_w' = retired_w
  BY <1>0, <1>1, <1>2, Retired DEF Dist
<1>5. RingCount(fl_r, b, N) <= RingCount(fl_w, b, N)
  BY <1>1, <1>2, ItemDists DEF Dist
<1>6. /\ RingCount(fl_r, b, N) \in Nat /\ RingCount(fl_w, b, N) \in Nat
      /\ RingCount(nb, b, N) \in Nat /\ RingCount(nb, nb, N) = 0 /\ RingCount(fl_r, nb, N) \in Nat
  BY <1>3, <1>4, RingType
<1>7. RingCount(fl_r, nb, N) <= RingCount(fl_w', nb, N)
  <2>1. RingCount(fl_r, nb, N) = RingCount(fl_r, b, N) - RingCount(nb, b, N)
    BY <1>3, <1>4, RingRebase
  <2>2. QED
    BY <1>4, <1>5, <1>6, <2>1
<1>8. PICK w \in Positions(N), buf \in {fl_buffer'}, rv \in {rrat_valid'}, s \in {retired_set} :
         w = fl_w' /\ buf = fl_buffer' /\ rv = rrat_valid' /\ s = retired_set
  BY <1>4
<1>9. \A p \in Span(nb, fl_r, N) : buf[RingSlot(p, N)] = fl_buffer[RingSlot(p, N)]
  <2>1. Span(nb, fl_r, N) \subseteq Span(b, fl_r, N)
    BY <1>3, <1>4, PoolShrinks
  <2>2. Span(b, fl_r, N) \subseteq Span(b, fl_w, N)
    BY <1>3, <1>4, <1>5, SpanSplit
  <2>3. QED
    BY <1>4, <1>8, <2>1, <2>2
<1>10. /\ s \cup fl_returned(nb) = Contents(buf, nb, w)
       /\ Pool(nb, w, buf, rv) /\ fl_restore_verified(nb, w, s)
  <2>1. /\ Pool(nb, w, buf, rv) /\ s = Contents(buf, fl_r, w)
        /\ RingCount(nb, nb, N) <= RingCount(fl_r, nb, N)
        /\ RingCount(fl_r, nb, N) <= RingCount(w, nb, N)
    BY <1>4, <1>6, <1>7, <1>8
  <2>2. QED
    BY <1>1, <1>3, <1>4, <1>9, <2>1, Returned
<1>11. /\ fl_r' = nb /\ free_list_set' = Contents(fl_buffer, fl_r, fl_w)'
       /\ Pool(fl_r, fl_w, fl_buffer, rrat_valid)'
  BY <1>0, <1>1, <1>2, <1>8, <1>10 DEF fl_restore
<1>12. /\ RingCount(fl_w, fl_r, N)' + Cardinality(Arch) <= N
       /\ ~FaultRd => RingCount(fl_w, fl_r, N)' + Cardinality(Arch) = N
  <2>1. RingCount(fl_w, fl_r, N)' = Dist(fl_w)
    BY <1>2, <1>4, <1>11 DEF Dist
  <2>2. QED
    BY <2>1 DEF ChainInv, LossInv
<1>13. FlushReady
  <2>1. /\ reg_oldest' \subseteq Phys
        /\ reg_data' \in [Phys -> Nat] /\ reg_age' \in [Phys -> Positions(ROB_SIZE)]
    BY <1>0, RetireRegs
  <2>2. done' \in Nat /\ next_inst' \in Nat /\ traps' \in Nat
    BY <1>0, <1>1 DEF TypeOK
  <2>3. Table(rrat_valid, rrat_table)'
    BY <1>4
  <2>4. QED
    BY <1>0, <1>1, <1>4, <1>11, <1>12, <2>1, <2>2, <2>3 DEF FlushReady
<1>14. aborted' = aborted
  <2>1. RetireVerified
    BY <1>0, RetireVerifies
  <2>2. fl_restore_verified(Head.new_fl_r, retired_w, retired_set)
    BY <1>1, <1>2, <1>4, <1>8, <1>10
  <2>3. aborted \in BOOLEAN
    BY DEF TypeOK
  <2> HIDE DEF Body
  <2>4. QED
    BY <1>0, <2>1, <2>2, <2>3, Zenon
<1>15. aborted' \in BOOLEAN
  BY <1>14 DEF TypeOK
<1>16. QED
  BY <1>0, <1>13, <1>14, <1>15, StepFlush

\* A retirement.
LEMMA StepRetire ==
  ASSUME Body, CommitRetire
  PROVE  Body' /\ aborted' = aborted
<1> USE DEF Body
<1>0. /\ CanCommit /\ RetireMap /\ RetirePush
      /\ free_list_set' = retired_set
      /\ reg_valid' = IF Head.rd = 0 THEN reg_valid ELSE reg_valid \ {Head.old_phy}
      /\ rob_r' = RingNext(rob_r, ROB_SIZE)
      /\ cp_r' = IF Head.bp_cp_valid /\ cp_r # cp_w THEN RingNext(cp_r, CB) ELSE cp_r
      /\ slot' = IF Head.unit = "bru" THEN COMMIT_WIDTH ELSE slot + 1
      /\ aborted' = (aborted \/ ~RetireVerified)
      /\ done' = Head.inst
      /\ UNCHANGED <<phase, flush, flush_pos, pipe_vars, fl_r, srat_valid, srat_table,
                     rob, rob_w, rob_r0, cpb, cp_w, cp_r0, next_inst, wrong_path, traps>>
      /\ UNCHANGED <<fl_w0, fl_r0>> /\ UNCHANGED <<exec, port, port_exception>>
  BY DEF CommitRetire, RetirePush, CB, pipe_vars
<1>1. /\ rob_r # rob_w /\ Tables /\ fl_r0 = fl_r /\ 0 \in Ks /\ Head = It(0) /\ Head.finish
      /\ phase = "commit" /\ flush # "commit" /\ Head.inst \in Nat
  BY <1>0, HeadIs
<1>2. PICK h, b, nb : h = It(0) /\ b = Base /\ nb = h.new_fl_r
  OBVIOUS
<1>3. /\ N \in Nat \ {0} /\ ROB_SIZE \in Nat \ {0} /\ CB \in Nat \ {0} /\ PHY_REG_NUM = N
      /\ RobTyped /\ rob_w \in Positions(ROB_SIZE) /\ rob_r \in Positions(ROB_SIZE)
      /\ rob_r0 \in Positions(ROB_SIZE)
      /\ cp_w \in Positions(CB) /\ cp_r \in Positions(CB) /\ cp_r0 \in Positions(CB)
      /\ fl_w \in Positions(N) /\ fl_r \in Positions(N) /\ fl_w0 \in Positions(N)
      /\ CHECKPOINT_BUFFER_SIZE = CB
  BY Sizes, Typed DEF RobTyped, CB
<1>4. /\ fl_buffer' \in [Slots(N) -> Phys] /\ fl_w' \in Positions(N)
      /\ rrat_valid' \in SUBSET Phys /\ rrat_table' \in [Phys -> Arch \cup {0}]
      /\ retired_set = Contents(fl_buffer', fl_r, fl_w')
  BY <1>0, <1>1, <1>2, Retired
<1>5. Tables' /\ Base' = nb /\ Dist(fl_w)' = Dist(fl_w)
  BY <1>1, <1>2, ShiftTables
<1>6. /\ RobTyped' /\ RobCount' = RobCount - 1
      /\ \A k \in Ks' : k + 1 \in Ks /\ RobAt(k)' = RobAt(k + 1) /\ It(k)' = It(k + 1)
      /\ RobLive' = RobLive \ {rob_r}
      /\ \A p : RobItem(p)' = RobItem(p)
  BY <1>0, <1>1, <1>3, RobShift
<1>7. cp_r' \in Positions(CB) /\ rob_r' \in Positions(ROB_SIZE)
  BY <1>0, <1>3, RingType
<1>8. free_list_set' \subseteq Phys
  <2>1. \A p \in Positions(N) : (fl_buffer')[RingSlot(p, N)] \in Phys
    BY <1>3, <1>4, RingType DEF Slots
  <2>2. QED
    BY <1>0, <1>4, <2>1 DEF Contents, Span
<1>9. aborted' = aborted
  <2>1. RetireVerified
    BY <1>0, RetireVerifies
  <2>2. aborted \in BOOLEAN
    BY DEF TypeOK
  <2> HIDE DEF Body
  <2>3. QED
    BY <1>0, <2>1, <2>2, Zenon
<1>10. TypeOK'
  <2>1. /\ reg_oldest' \subseteq Phys
        /\ reg_data' \in [Phys -> Nat] /\ reg_age' \in [Phys -> Positions(ROB_SIZE)]
    BY <1>0, RetireRegs
  <2>2. slot' \in Nat
    BY <1>0, ConstAssumption DEF TypeOK
  <2>3. reg_valid' \subseteq Phys /\ done' \in Nat
    BY <1>0, <1>1 DEF TypeOK
  <2>4. QED
    BY <1>0, <1>3, <1>4, <1>7, <1>8, <1>9, <2>1, <2>2, <2>3 DEF TypeOK
<1>11. PointerInv'
  <2>1. Nested(rob_w, rob_r, rob_r0, ROB_SIZE) /\ Nested(cp_w, cp_r, cp_r0, CB)
    BY <1>1 DEF PointerInv
  <2>2. Nested(rob_w, RingNext(rob_r, ROB_SIZE), rob_r0, ROB_SIZE)
    BY <1>1, <1>3, <2>1, NestedMoves
  <2>3. cp_r # cp_w => Nested(cp_w, RingNext(cp_r, CB), cp_r0, CB)
    BY <1>3, <2>1, NestedMoves
  <2>4. Nested(rob_w, rob_r, rob_r0, ROB_SIZE)'
    BY <1>0, <2>2
  <2>5. Nested(cp_w, cp_r, cp_r0, CB)'
    BY <1>0, <2>1, <2>3
  <2>6. RingCount(cp_w, cp_r, CB)' <= CB
    <3>1. /\ RingCount(cp_r', cp_r0, CB) \in Nat /\ RingCount(cp_w, cp_r', CB) \in Nat
          /\ RingCount(cp_w, cp_r0, CB) \in Nat
      BY <1>3, <1>7, RingType
    <3>2. /\ RingCount(cp_r', cp_r0, CB) + RingCount(cp_w, cp_r', CB) = RingCount(cp_w, cp_r0, CB)
          /\ RingCount(cp_w, cp_r0, CB) <= CB
      BY <1>0, <2>5 DEF Nested
    <3>3. QED
      BY <1>0, <1>3, <3>1, <3>2
  <2>7. QED
    BY <1>0, <1>1, <1>6, <2>4, <2>5, <2>6 DEF PointerInv, RobTyped
<1>12. ShapeInv'
  BY <1>6 DEF ShapeInv
<1>13. PipeInv'
  <2>1. rob_r \notin port /\ rob_r \notin exec
    BY <1>1 DEF PipeInv, Head
  <2>2. port' \cup exec' \subseteq RobLive'
    BY <1>0, <1>1, <1>6, <2>1 DEF PipeInv
  <2>3. BruFlush(flush_pos)' = BruFlush(flush_pos)
    BY <1>0, <1>6 DEF BruFlush
  <2>4. QED
    BY <1>0, <1>1, <1>6, <2>2, <2>3 DEF PipeInv
<1>14. LossInv'
  <2>1. SUFFICES ASSUME ~FaultRd
                 PROVE  RingCount(fl_w', fl_w0, N) <= RingCount(rob_r', rob_r0, ROB_SIZE)
    BY <1>0, <1>5 DEF LossInv
  <2>2. /\ RingCount(rob_r', rob_r0, ROB_SIZE) = RingCount(rob_r, rob_r0, ROB_SIZE) + 1
        /\ RingCount(rob_r, rob_r0, ROB_SIZE) < ROB_SIZE
    <3>1. Nested(rob_w, rob_r, rob_r0, ROB_SIZE)
      BY <1>1 DEF PointerInv
    <3>2. QED
      BY <1>0, <1>1, <1>3, <3>1, NestedMoves
  <2>3. RingCount(fl_w, fl_w0, N) <= RingCount(rob_r, rob_r0, ROB_SIZE)
    BY <1>1, <2>1 DEF LossInv
  <2>4. /\ RingCount(fl_w, fl_w0, N) \in Nat /\ RingCount(rob_r, rob_r0, ROB_SIZE) \in Nat
        /\ N >= ROB_SIZE
    BY <1>3, RingType, Sizes
  <2>5. RingCount(fl_w, fl_w0, N) + 1 < 2 * N
    BY <1>3, <2>2, <2>3, <2>4
  <2>6. RingCount(RingNext(fl_w, N), fl_w0, N) = RingCount(fl_w, fl_w0, N) + 1
    BY <1>3, <2>5, RingType
  <2>7. fl_w' = fl_w \/ fl_w' = RingNext(fl_w, N)
    BY <1>0, <1>3 DEF RetirePush, retired_w
  <2>8. QED
    BY <2>2, <2>3, <2>4, <2>6, <2>7
<1>15. QED
  BY <1>5, <1>9, <1>10, <1>11, <1>12, <1>13, <1>14 DEF Tables


-----------------------------------------------------------------------------
(***************************************************************************)
(* Rename.                                                                 *)
(***************************************************************************)

\* What rename verifies of the decoded instruction d, and the instruction it
\* enters into the reorder buffer.
RenameChecks(d) ==
    /\ fl_r # fl_w0
    /\ FlAt(0) \in free_list_set
    /\ set_map_verified(srat_valid, srat_table, d.rd, FlAt(0))
RenameItem(d, cp, old) ==
    [unit |-> d.unit, rd |-> d.rd, old_phy |-> old,
     new_phy |-> IF d.rd = 0 THEN NoReg ELSE FlAt(0),
     old_fl_r |-> fl_r, new_fl_r |-> IF d.rd = 0 THEN fl_r ELSE RingNext(fl_r, N),
     cp_valid |-> cp, cp_id |-> IF cp THEN RingSlot(cp_w, CB) ELSE 0,
     finish |-> FALSE, exception |-> FALSE, bp_cp_valid |-> FALSE,
     missed |-> d.missed, inst |-> IF wrong_path THEN 0 ELSE next_inst]

\* The step of rename, read as an instruction added.
LEMMA RenameIs ==
  ASSUME Body, RenameOne
  PROVE  \E d \in FrontOfDecode : \E cp \in BOOLEAN : \E old \in Phys \cup {NoReg} :
           /\ aborted' = (aborted \/ (d.rd # 0 /\ ~RenameChecks(d)))
           /\ cp => d.unit \in {"bru", "lu"}
           /\ cp => ~RingFull(cp_w, cp_r0, CB)
           /\ d.rd # 0 => old \in Phys
           /\ (d.rd # 0 => FlAt(0) \in free_list_set) => Renamed(RenameItem(d, cp, old))
           /\ wrong_path' \in BOOLEAN /\ wrong_path' = (wrong_path \/ d.missed)
<1> USE DEF Body
<1>0. /\ N \in Nat \ {0} /\ ROB_SIZE \in Nat \ {0} /\ CB \in Nat \ {0} /\ PHY_REG_NUM = N
      /\ CHECKPOINT_BUFFER_SIZE = CB /\ 0 \in Slots(CB) /\ RingSlot(cp_w, CB) \in Slots(CB)
      /\ rob_w \in Positions(ROB_SIZE) /\ rob_r \in Positions(ROB_SIZE)
      /\ rob_r0 \in Positions(ROB_SIZE)
      /\ cp_w \in Positions(CB) /\ cp_r \in Positions(CB) /\ cp_r0 \in Positions(CB)
      /\ fl_r \in Positions(N)
  <2>1. CB \in Nat \ {0} /\ cp_w \in Positions(CB)
    BY Sizes, Typed
  <2>2. 0 \in Slots(CB) /\ RingSlot(cp_w, CB) \in Slots(CB)
    BY <2>1, RingType DEF Slots
  <2>3. QED
    BY <2>2, Sizes, Typed DEF RobTyped, CB
<1>1. PICK d \in FrontOfDecode :
         LET new_phy == IF d.rd = 0 THEN NoReg ELSE FlAt(0)
             old_phy == IF d.rd = 0 THEN NoReg ELSE get_phy_id(srat_valid, srat_table, d.rd)
             new_fl_r == IF d.rd = 0 THEN fl_r ELSE RingNext(fl_r, N)
             valid == IF d.rd = 0 THEN srat_valid
                      ELSE set_map_valid(srat_valid, srat_table, d.rd, new_phy)
             cp == TakesCheckpoint(d.unit)
         IN
         /\ aborted' = (aborted \/ (d.rd # 0 /\
                          ~( /\ fl_r # fl_w0
                             /\ new_phy \in free_list_set
                             /\ set_map_verified(srat_valid, srat_table, d.rd, new_phy))))
         /\ fl_r' = new_fl_r
         /\ free_list_set' = free_list_set \ {new_phy}
         /\ srat_valid' = valid
         /\ srat_table' = IF d.rd = 0 THEN srat_table
                          ELSE set_map_table(srat_table, d.rd, new_phy)
         /\ rob' = [rob EXCEPT ![RingSlot(rob_w, ROB_SIZE)] =
                      [unit |-> d.unit, rd |-> d.rd, old_phy |-> old_phy,
                       new_phy |-> new_phy, old_fl_r |-> fl_r, new_fl_r |-> new_fl_r,
                       cp_valid |-> cp,
                       cp_id |-> IF cp THEN RingSlot(cp_w, CB) ELSE 0,
                       finish |-> FALSE, exception |-> FALSE, bp_cp_valid |-> FALSE,
                       missed |-> d.missed, inst |-> IF wrong_path THEN 0 ELSE next_inst]]
         /\ rob_w' = RingNext(rob_w, ROB_SIZE)
         /\ IF cp
            THEN /\ cpb' = [cpb EXCEPT ![RingSlot(cp_w, CB)] =
                              [valid |-> valid, new_fl_r |-> new_fl_r,
                               new_cp_w |-> RingNext(cp_w, CB)]]
                 /\ cp_w' = RingNext(cp_w, CB)
            ELSE UNCHANGED <<cpb, cp_w>>
         /\ wrong_path' = (wrong_path \/ d.missed)
  BY <1>0, Zenon DEF RenameOne
<1>2. /\ d.unit \in Units /\ d.rd \in Arch \cup {0} /\ d.missed \in BOOLEAN
  BY DEF FrontOfDecode, Decoded
<1>3. PICK cp \in BOOLEAN : cp = TakesCheckpoint(d.unit)
  <2>1. TakesCheckpoint(d.unit) \in BOOLEAN
    BY Zenon DEF TakesCheckpoint
  <2>2. QED
    BY <2>1
<1>4. PICK old : old = IF d.rd = 0 THEN NoReg ELSE get_phy_id(srat_valid, srat_table, d.rd)
  OBVIOUS
<1>5. old \in Phys \cup {NoReg} /\ (d.rd # 0 => old \in Phys)
  <2>1. d.rd # 0 => get_phy_id(srat_valid, srat_table, d.rd) \in srat_valid
    BY <1>2, SpecTable DEF Tables
  <2>2. QED
    BY <1>4, <2>1 DEF TypeOK
<1>6. PICK x : x = RenameItem(d, cp, old)
  OBVIOUS
<1>7. /\ x.unit = d.unit /\ x.rd = d.rd /\ x.old_phy = old
      /\ x.new_phy = (IF d.rd = 0 THEN NoReg ELSE FlAt(0))
      /\ x.old_fl_r = fl_r /\ x.new_fl_r = (IF d.rd = 0 THEN fl_r ELSE RingNext(fl_r, N))
      /\ x.cp_valid = cp /\ x.cp_id = (IF cp THEN RingSlot(cp_w, CB) ELSE 0)
  BY <1>6 DEF RenameItem
<1>8. rob' = [rob EXCEPT ![RingSlot(rob_w, ROB_SIZE)] = x]
  BY <1>1, <1>3, <1>4, <1>6, Zenon DEF RenameItem
<1>9. /\ phase = "rename" /\ flush = "none" /\ ~RingFull(rob_w, rob_r0, ROB_SIZE)
      /\ UNCHANGED <<fl_buffer, fl_w, rrat_valid, rrat_table, rob_r, cp_r>>
  BY DEF RenameOne, CanRename
<1>10. RobCount < ROB_SIZE
  <2>1. Nested(rob_w, rob_r, rob_r0, ROB_SIZE) /\ RingCount(rob_w, rob_r0, ROB_SIZE) # ROB_SIZE
    BY <1>9 DEF PointerInv, RingFull
  <2>2. QED
    BY <1>0, <2>1, NestedMoves DEF RobCount
<1>11. /\ cp => d.unit \in {"bru", "lu"}
       /\ cp => ~RingFull(cp_w, cp_r0, CB)
  BY <1>0, <1>3 DEF TakesCheckpoint
<1>12. cp => RingCount(cp_w, cp_r, CB) < CB
  <2>1. Nested(cp_w, cp_r, cp_r0, CB)
    BY <1>9 DEF PointerInv
  <2>2. SUFFICES ASSUME cp PROVE RingCount(cp_w, cp_r, CB) < CB
    OBVIOUS
  <2>3. RingCount(cp_w, cp_r0, CB) # CB
    BY <1>11, <2>2 DEF RingFull
  <2>4. QED
    BY <1>0, <2>1, <2>3, NestedMoves
<1>13. FlAt(0) \in Phys
  <2>1. RingAdd(fl_r, 0, N) = fl_r /\ RingSlot(fl_r, N) \in Slots(N)
    BY <1>0, RingAddType, RingType DEF Slots
  <2>2. fl_buffer \in [Slots(N) -> Phys]
    BY Typed
  <2>3. QED
    BY <1>0, <2>1, <2>2 DEF FlAt
<1>14. x \in Items
  <2>1. RingNext(fl_r, N) \in Positions(N)
    BY <1>0, RingType
  <2>2. PICK i \in Nat : i = IF wrong_path THEN 0 ELSE next_inst
    BY DEF TypeOK
  <2>3. PICK id \in Slots(CB) : id = IF cp THEN RingSlot(cp_w, CB) ELSE 0
    BY <1>0
  <2>4. PICK np \in Phys \cup {NoReg}, nf \in Positions(N) :
           /\ np = IF d.rd = 0 THEN NoReg ELSE FlAt(0)
           /\ nf = IF d.rd = 0 THEN fl_r ELSE RingNext(fl_r, N)
    BY <1>0, <1>13, <2>1
  <2>5. x = [unit |-> d.unit, rd |-> d.rd, old_phy |-> old, new_phy |-> np,
             old_fl_r |-> fl_r, new_fl_r |-> nf, cp_valid |-> cp, cp_id |-> id,
             finish |-> FALSE, exception |-> FALSE, bp_cp_valid |-> FALSE,
             missed |-> d.missed, inst |-> i]
    BY <1>6, <2>2, <2>3, <2>4, Zenon DEF RenameItem
  <2>6. QED
    BY <1>0, <1>2, <1>5, <2>5 DEF Items
<1>15. /\ fl_r' = x.new_fl_r /\ free_list_set' = free_list_set \ {x.new_phy}
       /\ srat_valid' = (IF x.rd = 0 THEN srat_valid
                         ELSE set_map_valid(srat_valid, srat_table, x.rd, x.new_phy))
       /\ srat_table' = (IF x.rd = 0 THEN srat_table
                         ELSE set_map_table(srat_table, x.rd, x.new_phy))
       /\ rob_w' = RingNext(rob_w, ROB_SIZE)
  BY <1>1, <1>7
<1>16. IF x.cp_valid
       THEN /\ RingCount(cp_w, cp_r, CB) < CB
            /\ x.cp_id = RingSlot(cp_w, CB)
            /\ cpb' = [cpb EXCEPT ![RingSlot(cp_w, CB)] =
                         [valid |-> srat_valid', new_fl_r |-> x.new_fl_r,
                          new_cp_w |-> RingNext(cp_w, CB)]]
            /\ cp_w' = RingNext(cp_w, CB)
       ELSE UNCHANGED <<cpb, cp_w>>
  BY <1>1, <1>3, <1>7, <1>12
<1>17. (d.rd # 0 => FlAt(0) \in free_list_set) => Renamed(x)
  BY <1>4, <1>7, <1>8, <1>9, <1>10, <1>14, <1>15, <1>16 DEF Renamed
<1>18. aborted' = (aborted \/ (d.rd # 0 /\ ~RenameChecks(d)))
  <2>1. CASE d.rd = 0
    <3>1. aborted' = (aborted \/ (d.rd # 0 /\
                          ~( /\ fl_r # fl_w0
                             /\ NoReg \in free_list_set
                             /\ set_map_verified(srat_valid, srat_table, d.rd, NoReg))))
      BY <1>1, <2>1, Zenon
    <3> HIDE DEF Body
    <3>2. QED
      BY <2>1, <3>1, Zenon
  <2>2. CASE d.rd # 0
    <3>1. aborted' = (aborted \/ (d.rd # 0 /\
                          ~( /\ fl_r # fl_w0
                             /\ FlAt(0) \in free_list_set
                             /\ set_map_verified(srat_valid, srat_table, d.rd, FlAt(0)))))
      BY <1>1, <2>2, Zenon
    <3> HIDE DEF Body
    <3>2. QED
      BY <3>1, Zenon DEF RenameChecks
  <2>3. QED
    BY <2>1, <2>2
<1>19. wrong_path' \in BOOLEAN /\ wrong_path' = (wrong_path \/ d.missed)
  <2>1. wrong_path' \in BOOLEAN
    BY <1>1
  <2>2. wrong_path' = (wrong_path \/ d.missed)
    BY <1>1, Zenon
  <2>3. QED
    BY <2>1, <2>2, Zenon
<1>20. QED
  BY <1>5, <1>6, <1>11, <1>17, <1>18, <1>19, Zenon


\* Rename, when nothing it verifies fails.
LEMMA StepRename ==
  ASSUME Body, RenameOne, ~aborted'
  PROVE  Body'
<1> USE DEF Body
<1>0. PICK d \in FrontOfDecode, cp \in BOOLEAN, old \in Phys \cup {NoReg} :
         /\ aborted' = (aborted \/ (d.rd # 0 /\ ~RenameChecks(d)))
         /\ cp => d.unit \in {"bru", "lu"}
         /\ cp => ~RingFull(cp_w, cp_r0, CB)
         /\ d.rd # 0 => old \in Phys
         /\ (d.rd # 0 => FlAt(0) \in free_list_set) => Renamed(RenameItem(d, cp, old))
         /\ wrong_path' \in BOOLEAN
  <2> HIDE DEF Body
  <2>1. QED
    BY RenameIs, Zenon
<1>1. d.rd # 0 => RenameChecks(d)
  <2> HIDE DEF Body
  <2>1. QED
    BY <1>0, Zenon
<1>2. PICK x : x = RenameItem(d, cp, old)
  OBVIOUS
<1>3. Renamed(x)
  BY <1>0, <1>1, <1>2 DEF RenameChecks
<1>4. /\ phase = "rename" /\ flush = "none" /\ ~RingFull(rob_w, rob_r0, ROB_SIZE)
      /\ slot' = slot + 1
      /\ next_inst' = IF wrong_path THEN next_inst ELSE next_inst + 1
      /\ UNCHANGED <<phase, flush, flush_pos, fl_buffer, fl_w, fl_w0, fl_r0,
                     rrat_valid, rrat_table, rob_r, rob_r0, cp_r, cp_r0, done, traps>>
      /\ UNCHANGED <<exec, port, port_exception, reg_valid, reg_data, reg_oldest, reg_age>>
  BY DEF RenameOne, CanRename, pipe_vars, reg_vars
<1>5. /\ x.unit = d.unit /\ x.rd = d.rd /\ x.old_phy = old /\ x.cp_valid = cp
      /\ x.finish = FALSE /\ x.exception = FALSE /\ x.bp_cp_valid = FALSE
  BY <1>2 DEF RenameItem
<1>6. /\ N \in Nat \ {0} /\ ROB_SIZE \in Nat \ {0} /\ CB \in Nat \ {0} /\ PHY_REG_NUM = N
      /\ CHECKPOINT_BUFFER_SIZE = CB
      /\ rob_w \in Positions(ROB_SIZE) /\ rob_r \in Positions(ROB_SIZE)
      /\ rob_r0 \in Positions(ROB_SIZE) /\ RobTyped /\ DOMAIN rob = Slots(ROB_SIZE)
      /\ cp_w \in Positions(CB) /\ cp_r \in Positions(CB) /\ cp_r0 \in Positions(CB)
      /\ fl_r \in Positions(N) /\ RobLive \subseteq Positions(ROB_SIZE)
      /\ \A p \in RobLive : \E k \in Ks : p = RobAt(k)
  BY Sizes, Typed, RobIs DEF RobTyped, CB
<1>7. Tables
  BY DEF Tables
<1>8. Tables' /\ Dist(fl_w)' = Dist(fl_w)
  BY <1>3, <1>7, GrowTables
<1>9. x.rd # 0 => x.new_phy \in Phys /\ x.rd \in Arch
  <2>1. x.rd # 0 => x.new_phy \in Phys
    BY <1>3, <1>7, Taken
  <2>2. QED
    BY <1>3, <2>1 DEF Renamed, Items
<1>10. PICK w, c : w = rob_w /\ c = RobCount
  OBVIOUS
<1>11. /\ RobTyped' /\ RobCount' = c + 1 /\ c \in Nat
       /\ \A k \in Ks : k \in Ks' /\ RobAt(k)' = RobAt(k) /\ It(k)' = It(k) /\ k < c
       /\ (\A k \in Ks' : k \in Ks \/ k = c) /\ It(c)' = x
       /\ RobLive' = RobLive \cup {w}
       /\ \A p \in RobLive : RobItem(p)' = RobItem(p)
  BY <1>3, <1>6, <1>10, RobGrow DEF Renamed
<1>12. TypeOK'
  <2>1. free_list_set' \subseteq Phys
    BY <1>3 DEF Renamed, TypeOK
  <2>2. srat_valid' \subseteq Phys /\ srat_table' \in [Phys -> Arch \cup {0}]
    BY <1>3, <1>9 DEF Renamed, TypeOK, set_map_valid, set_map_table
  <2>3. rob' \in [Slots(ROB_SIZE) -> Items]
    BY <1>3 DEF Renamed, TypeOK
  <2>4. x.new_fl_r \in Positions(N) /\ RingNext(cp_w, CB) \in Positions(CB)
        /\ RingNext(rob_w, ROB_SIZE) \in Positions(ROB_SIZE)
    BY <1>3, <1>6, RingType DEF Renamed, Items
  <2>5. fl_r' \in Positions(N) /\ rob_w' \in Positions(ROB_SIZE) /\ cp_w' \in Positions(CB)
    BY <1>3, <1>6, <2>4 DEF Renamed
  <2>6. cpb' \in [Slots(CB) -> [valid : SUBSET Phys, new_fl_r : Positions(N),
                               new_cp_w : Positions(CB)]]
    BY <1>3, <1>6, <2>2, <2>4 DEF Renamed, TypeOK
  <2>7. slot' \in Nat /\ next_inst' \in Nat
    BY <1>4 DEF TypeOK
  <2>8. aborted' \in BOOLEAN
    BY <1>0
  <2>9. QED
    BY <1>0, <1>4, <1>6, <2>1, <2>2, <2>3, <2>5, <2>6, <2>7, <2>8 DEF TypeOK
<1>13. PointerInv'
  <2>1. Nested(rob_w, rob_r, rob_r0, ROB_SIZE) /\ Nested(cp_w, cp_r, cp_r0, CB)
        /\ RingCount(cp_w, cp_r, CB) <= CB
    BY <1>4 DEF PointerInv
  <2>2. RingCount(rob_w, rob_r0, ROB_SIZE) # ROB_SIZE
    BY <1>4 DEF RingFull
  <2>3. Nested(RingNext(rob_w, ROB_SIZE), rob_r, rob_r0, ROB_SIZE)
    BY <1>6, <2>1, <2>2, NestedMoves
  <2>4. Nested(rob_w, rob_r, rob_r0, ROB_SIZE)'
    BY <1>3, <1>4, <2>3 DEF Renamed
  <2>5. Nested(cp_w, cp_r, cp_r0, CB)' /\ RingCount(cp_w, cp_r, CB)' <= CB
    <3>1. CASE cp
      <4>1. RingCount(cp_w, cp_r0, CB) # CB
        BY <1>0, <3>1 DEF RingFull
      <4>2. Nested(RingNext(cp_w, CB), cp_r, cp_r0, CB) /\ RingCount(cp_w, cp_r, CB) < CB
        BY <1>6, <2>1, <4>1, NestedMoves
      <4>3. RingCount(cp_w, cp_r, CB) \in Nat
        BY <1>6, RingType
      <4>4. RingCount(cp_w, cp_r, CB) + 1 < 2 * CB
        BY <1>6, <4>2, <4>3
      <4>5. RingCount(RingNext(cp_w, CB), cp_r, CB) = RingCount(cp_w, cp_r, CB) + 1
        BY <1>6, <4>4, RingType
      <4>6. cp_w' = RingNext(cp_w, CB)
        BY <1>3, <1>5, <3>1 DEF Renamed
      <4>7. QED
        BY <1>4, <1>6, <4>2, <4>3, <4>5, <4>6
    <3>2. CASE ~cp
      <4>1. cp_w' = cp_w
        BY <1>3, <1>5, <3>2 DEF Renamed
      <4>2. QED
        BY <1>4, <2>1, <4>1
    <3>3. QED
      BY <3>1, <3>2
  <2>6. QED
    BY <1>4, <1>11, <2>4, <2>5 DEF PointerInv, RobTyped
<1>14. ShapeInv'
  <2>1. /\ x.cp_valid => x.unit \in {"bru", "lu"}
        /\ x.unit = "sdu" => x.rd = 0
        /\ x.rd # 0 => x.new_phy \in Phys /\ x.old_phy \in Phys
    BY <1>0, <1>5, <1>9 DEF FrontOfDecode
  <2>2. QED
    BY <1>5, <1>11, <2>1 DEF ShapeInv
<1>15. PipeInv'
  <2>1. port \subseteq RobLive /\ exec = {} /\ port_exception \subseteq port
    BY <1>4 DEF PipeInv, TypeOK
  <2>2. QED
    BY <1>4, <1>11, <2>1 DEF PipeInv
<1>16. LossInv'
  BY <1>4, <1>8 DEF LossInv
<1>17. QED
  BY <1>8, <1>12, <1>13, <1>14, <1>15, <1>16 DEF Tables

\* If no faulting instruction has a destination nothing fails: the reorder buffer
\* is full before the free list is empty.
LEMMA RenameVerifies ==
  ASSUME Body, RenameOne, ~FaultRd
  PROVE  aborted' = aborted
<1> USE DEF Body
<1>0. PICK d \in FrontOfDecode : aborted' = (aborted \/ (d.rd # 0 /\ ~RenameChecks(d)))
  <2> HIDE DEF Body
  <2>1. QED
    BY RenameIs, Zenon
<1>1. SUFFICES ASSUME d.rd # 0 PROVE RenameChecks(d)
  <2>1. aborted \in BOOLEAN
    BY DEF TypeOK
  <2> HIDE DEF Body
  <2>2. QED
    BY <1>0, <2>1, Zenon
<1>2. d.rd \in Arch
  BY <1>1 DEF FrontOfDecode, Decoded
<1>3. /\ N \in Nat \ {0} /\ PHY_REG_NUM = N /\ ROB_SIZE \in Nat \ {0}
      /\ rob_w \in Positions(ROB_SIZE) /\ rob_r \in Positions(ROB_SIZE)
      /\ rob_r0 \in Positions(ROB_SIZE) /\ N >= Cardinality(Arch) + ROB_SIZE
      /\ fl_r \in Positions(N) /\ fl_w \in Positions(N) /\ fl_w0 \in Positions(N)
      /\ Base \in Positions(N) /\ Cardinality(Arch) \in Nat
  BY Sizes, Typed DEF RobTyped
<1>4. flush = "none" /\ ~RingFull(rob_w, rob_r0, ROB_SIZE)
  BY DEF RenameOne, CanRename
<1>5. RingCount(rob_r, rob_r0, ROB_SIZE) + RobCount < ROB_SIZE
  <2>1. Nested(rob_w, rob_r, rob_r0, ROB_SIZE) /\ RingCount(rob_w, rob_r0, ROB_SIZE) # ROB_SIZE
    BY <1>4 DEF PointerInv, RingFull
  <2>2. QED
    BY <1>3, <2>1, NestedMoves DEF RobCount
<1>6. /\ Dist(fl_r) \in Nat /\ Dist(fl_w) \in Nat /\ RingCount(fl_w, fl_w0, N) \in Nat
      /\ RingCount(rob_r, rob_r0, ROB_SIZE) \in Nat /\ RobCount \in Nat
  BY <1>3, RingType DEF Dist, RobCount
<1>7. /\ Dist(fl_r) <= RobCount /\ Dist(fl_r) <= Dist(fl_w)
      /\ Dist(fl_w) + Cardinality(Arch) = N
      /\ RingCount(fl_w, fl_w0, N) <= RingCount(rob_r, rob_r0, ROB_SIZE)
  BY <1>4 DEF ChainInv, LossInv
<1>8. Dist(fl_r) + RingCount(fl_w, fl_w0, N) < Dist(fl_w)
  BY <1>3, <1>5, <1>6, <1>7
<1>9. RingCount(fl_w, fl_r, N) = Dist(fl_w) - Dist(fl_r)
  BY <1>3, <1>7, RingRebase DEF Dist
<1>10. fl_r # fl_w0
  <2>1. SUFFICES ASSUME fl_r = fl_w0 PROVE FALSE
    OBVIOUS
  <2>2. RingCount(fl_w, fl_w0, N) = Dist(fl_w) - Dist(fl_r)
    BY <1>9, <2>1
  <2>3. QED
    BY <1>6, <1>8, <2>2
<1>11. Dist(fl_r) < Dist(fl_w)
  BY <1>6, <1>8
<1>12. Tables
  BY DEF Tables
<1>13. /\ FlSlot(fl_r) \in Phys /\ FlSlot(fl_r) \notin rrat_valid
       /\ \A k \in Ks : It(k).rd # 0 => It(k).new_phy # FlSlot(fl_r)
  BY <1>11, <1>12, FrontUnused
<1>14. FlAt(0) = FlSlot(fl_r)
  BY <1>3, RingAddType DEF FlAt, FlSlot
<1>15. FlAt(0) \in free_list_set
  <2>1. RingCount(fl_r, fl_r, N) = 0 /\ 0 < RingCount(fl_w, fl_r, N)
    BY <1>3, <1>6, <1>9, <1>11, RingType
  <2>2. fl_r \in Span(fl_r, fl_w, N)
    BY <1>3, <2>1 DEF Span
  <2>3. QED
    BY <1>14, <2>2 DEF FreeInv, Contents, FlSlot
<1>16. FlAt(0) \notin srat_valid
  <2>1. SUFFICES ASSUME FlSlot(fl_r) \in MappedRegs(RobCount) PROVE FALSE
    BY <1>14 DEF MapInv
  <2>2. PICK a \in Arch : Maps(RobCount, a, FlSlot(fl_r))
    BY <2>1 DEF MappedRegs
  <2>3. a # 0 /\ Ks = 0..(RobCount - 1)
    BY <2>2, Sizes DEF Ks
  <2>4. QED
    BY <1>13, <2>2, <2>3 DEF Maps
<1>17. Cardinality(Mapped(srat_valid, srat_table, d.rd)) = 1
  BY <1>2, <1>12, SpecTable
<1>18. QED
  BY <1>10, <1>15, <1>16, <1>17 DEF RenameChecks, set_map_verified, MapVerified


-----------------------------------------------------------------------------
(***************************************************************************)
(* Reset, and the invariant.                                               *)
(***************************************************************************)

\* The tables after reset.
LEMMA ResetTable ==
  ASSUME Init
  PROVE  /\ srat_valid \in SUBSET Phys /\ srat_table \in [Phys -> Arch \cup {0}]
         /\ Table(srat_valid, srat_table)
         /\ \A p \in srat_valid : \E i \in 0..(Cardinality(Arch) - 1) : p = fl_buffer[i]
<1>0. /\ N \in Nat \ {0} /\ PHY_REG_NUM = N /\ Cardinality(Arch) \in Nat
      /\ N >= Cardinality(Arch) + ROB_SIZE /\ ROB_SIZE \in Nat \ {0}
  BY Sizes
<1>1. /\ fl_buffer \in [Slots(N) -> Phys]
      /\ \A i, j \in Slots(N) : i # j => fl_buffer[i] # fl_buffer[j]
  BY <1>0 DEF Init
<1>2. PICK idx \in [Arch -> 0..(Cardinality(Arch) - 1)] :
          /\ \A a, b \in Arch : a < b => idx[a] < idx[b]
          /\ srat_valid = {fl_buffer[idx[a]] : a \in Arch}
          /\ srat_table = [p \in Phys |->
                             IF \E a \in Arch : p = fl_buffer[idx[a]]
                             THEN CHOOSE a \in Arch : p = fl_buffer[idx[a]] ELSE 0]
  BY DEF Init
<1>3. \A a \in Arch : idx[a] \in Slots(N) /\ idx[a] \in 0..(Cardinality(Arch) - 1)
  BY <1>0 DEF Slots
<1>4. \A a, b \in Arch : idx[a] = idx[b] => a = b
  <2> SUFFICES ASSUME NEW a \in Arch, NEW b \in Arch, idx[a] = idx[b] PROVE a = b
    OBVIOUS
  <2>1. a \in Nat /\ b \in Nat
    BY ConstAssumption
  <2>2. ~(idx[a] < idx[b]) /\ ~(idx[b] < idx[a])
    BY <1>3
  <2>3. QED
    BY <1>2, <2>1, <2>2
<1>5. \A a, b \in Arch : fl_buffer[idx[a]] = fl_buffer[idx[b]] => a = b
  BY <1>1, <1>3, <1>4
<1>6. \A a \in Arch : fl_buffer[idx[a]] \in Phys
  BY <1>1, <1>3
<1>7. ASSUME NEW a \in Arch PROVE srat_table[fl_buffer[idx[a]]] = a
  <2>1. PICK p \in Phys : p = fl_buffer[idx[a]]
    BY <1>6
  <2>2. srat_table[p] = CHOOSE b \in Arch : p = fl_buffer[idx[b]]
    BY <1>2, <2>1
  <2>3. \E b \in Arch : p = fl_buffer[idx[b]]
    BY <2>1
  <2>4. srat_table[p] \in Arch /\ p = fl_buffer[idx[srat_table[p]]]
    BY <2>2, <2>3
  <2>5. QED
    BY <1>5, <2>1, <2>4
<1>8. srat_table \in [Phys -> Arch \cup {0}]
  <2>1. \A p \in Phys : (\E a \in Arch : p = fl_buffer[idx[a]]) =>
                            (CHOOSE a \in Arch : p = fl_buffer[idx[a]]) \in Arch
    OBVIOUS
  <2>2. QED
    BY <1>2, <2>1
<1>9. Table(srat_valid, srat_table)
  <2>1. \A p \in srat_valid : \E a \in Arch : p = fl_buffer[idx[a]] /\ srat_table[p] = a
    BY <1>2, <1>7
  <2>2. \A p \in srat_valid : srat_table[p] \in Arch
    BY <2>1
  <2>3. \A p, q \in srat_valid : srat_table[p] = srat_table[q] => p = q
    BY <2>1
  <2>4. \A a \in Arch : fl_buffer[idx[a]] \in srat_valid
    BY <1>2
  <2>5. QED
    BY <1>7, <2>2, <2>3, <2>4, Zenon DEF Table
<1>10. QED
  BY <1>2, <1>3, <1>6, <1>8, <1>9

\* The invariant holds after reset.
LEMMA InitIInv == Init => IInv
<1> SUFFICES ASSUME Init PROVE IInv
  OBVIOUS
<1>0. /\ N \in Nat \ {0} /\ PHY_REG_NUM = N /\ Cardinality(Arch) \in Nat
      /\ N >= Cardinality(Arch) + ROB_SIZE /\ ROB_SIZE \in Nat \ {0} /\ CB \in Nat \ {0}
      /\ CHECKPOINT_BUFFER_SIZE = CB
  BY Sizes DEF CB
<1>1. /\ fl_buffer \in [Slots(N) -> Phys]
      /\ \A i, j \in Slots(N) : i # j => fl_buffer[i] # fl_buffer[j]
      /\ fl_r = Cardinality(Arch) /\ fl_r0 = fl_r /\ fl_w = N /\ fl_w0 = fl_w
      /\ free_list_set = {fl_buffer[i] : i \in fl_r..(N - 1)}
  BY <1>0 DEF Init
<1>2. /\ rrat_valid = srat_valid /\ rrat_table = srat_table
      /\ rob_w = 0 /\ rob_r = 0 /\ rob_r0 = 0 /\ cp_w = 0 /\ cp_r = 0 /\ cp_r0 = 0
  BY DEF Init
<1>3. /\ 0 \in Positions(ROB_SIZE) /\ 0 \in Positions(CB)
      /\ fl_r \in Positions(N) /\ fl_w \in Positions(N) /\ 0 \in Positions(N)
  BY <1>0, <1>1 DEF Positions
<1>4. /\ RobCount = 0 /\ RingCount(0, 0, ROB_SIZE) = 0 /\ RingCount(0, 0, CB) = 0
      /\ RingCount(fl_w, fl_w, N) = 0
  BY <1>0, <1>2, <1>3, RingType DEF RobCount
<1>5. Span(fl_r, fl_w, N) = fl_r..(N - 1) /\ RingCount(fl_w, fl_r, N) = N - Cardinality(Arch)
  BY <1>0, <1>1 DEF Span, Positions, RingCount
<1>6. \A p \in fl_r..(N - 1) : RingSlot(p, N) = p /\ p \in Slots(N)
  BY <1>0, <1>1 DEF RingSlot, Slots
<1>7. /\ srat_valid \in SUBSET Phys /\ srat_table \in [Phys -> Arch \cup {0}]
      /\ Table(srat_valid, srat_table)
      /\ \A p \in srat_valid : \E i \in 0..(Cardinality(Arch) - 1) : p = fl_buffer[i]
  BY ResetTable
<1>8. Pool(fl_r, fl_w, fl_buffer, rrat_valid)
  <2>1. \A p, q \in Span(fl_r, fl_w, N) :
           fl_buffer[RingSlot(p, N)] = fl_buffer[RingSlot(q, N)] => p = q
    BY <1>1, <1>5, <1>6
  <2>2. ASSUME NEW p \in Span(fl_r, fl_w, N), fl_buffer[RingSlot(p, N)] \in rrat_valid PROVE FALSE
    <3>1. PICK i \in 0..(Cardinality(Arch) - 1) : fl_buffer[p] = fl_buffer[i]
      BY <1>2, <1>5, <1>6, <1>7, <2>2
    <3>2. i \in Slots(N) /\ p \in Slots(N) /\ i # p
      BY <1>0, <1>1, <1>5, <1>6, <3>1 DEF Slots
    <3>3. QED
      BY <1>1, <3>1, <3>2
  <2>3. QED
    BY <2>1, <2>2 DEF Pool
<1>9. free_list_set = Contents(fl_buffer, fl_r, fl_w)
  BY <1>1, <1>5, <1>6 DEF Contents
<1>10. Clear
  BY <1>0, <1>2, <1>3, <1>4, <1>5, <1>7, <1>8, <1>9 DEF Clear
<1>11. Tables /\ Base = fl_r /\ ShapeInv
  BY <1>10, ClearTables DEF ClearInv
<1>12. TypeOK
  <2>1. EmptyItem \in Items
    <3>1. 0 \in Slots(CB)
      BY <1>0 DEF Slots
    <3>2. QED
      BY <1>0, <1>3, <3>1 DEF EmptyItem, Items
  <2>2. EmptyCheckpoint \in [valid : SUBSET Phys, new_fl_r : Positions(N),
                             new_cp_w : Positions(CB)]
    BY <1>3 DEF EmptyCheckpoint
  <2>3. free_list_set \subseteq Phys
    BY <1>1, <1>6
  <2>4. /\ rob \in [Slots(ROB_SIZE) -> Items]
        /\ cpb \in [Slots(CB) -> [valid : SUBSET Phys, new_fl_r : Positions(N),
                                  new_cp_w : Positions(CB)]]
    BY <1>0, <2>1, <2>2 DEF Init
  <2>5. /\ reg_valid \subseteq Phys /\ reg_oldest \subseteq Phys
        /\ reg_data \in [Phys -> Nat] /\ reg_age \in [Phys -> Positions(ROB_SIZE)]
    BY <1>3, <1>7 DEF Init
  <2>6. /\ phase = "bru" /\ slot = 0 /\ flush = "none" /\ flush_pos = 0
        /\ exec = {} /\ port = {} /\ port_exception = {}
        /\ next_inst = 1 /\ wrong_path = FALSE /\ done = 0 /\ traps = 0 /\ aborted = FALSE
    BY DEF Init
  <2>7. /\ {fl_w, fl_w0, fl_r, fl_r0} \subseteq Positions(N)
        /\ {rob_w, rob_r, rob_r0} \subseteq Positions(ROB_SIZE)
        /\ {cp_w, cp_r, cp_r0} \subseteq Positions(CB) /\ flush_pos \in Positions(ROB_SIZE)
    BY <1>1, <1>2, <1>3, <2>6
  <2>8. {next_inst, done, traps} \subseteq Nat
    BY <2>6
  <2>9. wrong_path \in BOOLEAN /\ aborted \in BOOLEAN
    BY <2>6
  <2> HIDE DEF Init
  <2>10. QED
    BY <1>0, <1>1, <1>2, <1>7, <2>3, <2>4, <2>5, <2>6, <2>7, <2>8, <2>9 DEF TypeOK
<1>13. PointerInv
  BY <1>0, <1>1, <1>2, <1>4 DEF PointerInv, Nested, Init
<1>14. PipeInv
  BY DEF PipeInv, Init
<1>15. LossInv
  <2>1. Dist(fl_w) + Cardinality(Arch) = N
    BY <1>0, <1>5, <1>11 DEF Dist
  <2>2. RingCount(fl_w, fl_w0, N) <= RingCount(rob_r, rob_r0, ROB_SIZE)
    BY <1>1, <1>2, <1>4
  <2>3. QED
    BY <2>1, <2>2 DEF LossInv
<1>16. ~aborted
  BY DEF Init
<1>17. QED
  BY <1>11, <1>12, <1>13, <1>14, <1>15, <1>16 DEF IInv, Body, Tables

\* A step without a failing verify() preserves it.
LEMMA BodyStep ==
  ASSUME Body, Next, ~aborted'
  PROVE  Body'
<1>1. CASE BruFeedback
  BY <1>1, StepBru
<1>2. CASE Commit
  BY <1>2, StepTrap, StepStorePause, StepConflict, StepMispredict, StepRetire, StepInterrupt,
     StepFinish DEF Commit
<1>3. CASE Wb
  BY <1>3, StepWb
<1>4. CASE Execute
  BY <1>4, StepExecute, StepRestore
<1>5. CASE RenameOne
  BY <1>5, StepRename
<1>6. CASE Sync
  BY <1>6, StepSync
<1>7. QED
  BY <1>1, <1>2, <1>3, <1>4, <1>5, <1>6 DEF Next

\* A verify() can only fail in rename, and not if no faulting instruction has a
\* destination.
LEMMA NoFailure ==
  ASSUME Body, Next, ~FaultRd
  PROVE  aborted' = aborted
<1>1. CASE BruFeedback
  BY <1>1 DEF BruFeedback
<1>2. CASE Commit
  <2>1. CASE CommitStorePause
    BY <2>1 DEF CommitStorePause
  <2>2. CASE CommitInterrupt
    BY <2>2 DEF CommitInterrupt
  <2>3. CASE CommitFinish
    BY <2>3, Zenon DEF CommitFinish
  <2>4. QED
    BY <1>2, <2>1, <2>2, <2>3, StepTrap, StepConflict, StepMispredict, StepRetire DEF Commit
<1>3. CASE Wb
  BY <1>3 DEF Wb
<1>4. CASE Execute
  BY <1>4, StepRestore DEF Execute
<1>5. CASE RenameOne
  BY <1>5, RenameVerifies
<1>6. CASE Sync
  BY <1>6 DEF Sync
<1>7. QED
  BY <1>1, <1>2, <1>3, <1>4, <1>5, <1>6 DEF Next

\* Once a verify() has failed it stays so.
LEMMA AbortStays ==
  ASSUME aborted, Next
  PROVE  aborted'
<1>1. CASE CommitTrap
  BY <1>1, Zenon DEF CommitTrap
<1>2. CASE CommitConflict
  BY <1>2, Zenon DEF CommitConflict
<1>3. CASE CommitMispredict
  BY <1>3, Zenon DEF CommitMispredict
<1>4. CASE CommitRetire
  BY <1>4, Zenon DEF CommitRetire
<1>5. CASE CommitStorePause \/ CommitInterrupt \/ CommitFinish
  BY <1>5, Zenon DEF CommitStorePause, CommitInterrupt, CommitFinish
<1>6. CASE BruFeedback \/ Wb \/ Sync
  BY <1>6, Zenon DEF BruFeedback, Wb, Sync
<1>7. CASE Execute
  <2>1. CASE flush = "bru"
    BY <1>7, <2>1, Zenon DEF Execute, RestoreCheckpoint
  <2>2. CASE flush # "bru"
    BY <1>7, <2>2, Zenon DEF Execute
  <2>3. QED
    BY <2>1, <2>2
<1>8. CASE RenameOne
  BY <1>8, Zenon DEF RenameOne
<1>9. QED
  BY <1>1, <1>2, <1>3, <1>4, <1>5, <1>6, <1>7, <1>8 DEF Next, Commit


\* Nothing moves.
LEMMA Stutter ==
  ASSUME Body, UNCHANGED vars
  PROVE  Body'
<1> USE DEF Body
<1>0. UNCHANGED <<phase, slot, flush, flush_pos, pipe_vars, fl_vars, rat_vars, rob_vars,
                  cp_vars, reg_vars, path_vars, aborted>>
  BY DEF vars
<1>1. UNCHANGED <<rob, rob_w, rob_r>> /\ UNCHANGED table_vars
  BY <1>0 DEF rob_vars, fl_vars, rat_vars, cp_vars, table_vars
<1>2. /\ RobCount' = RobCount /\ RobLive' = RobLive
      /\ \A p : RobItem(p)' = RobItem(p) /\ BruFlush(p)' = BruFlush(p)
  BY <1>1, RobSame
<1>3. Tables' /\ ShapeInv' /\ Dist(fl_w)' = Dist(fl_w)
  BY <1>1, QuietTables
<1>4. TypeOK'
  BY <1>0 DEF TypeOK, pipe_vars, fl_vars, rat_vars, rob_vars, cp_vars, reg_vars, path_vars
<1>5. PointerInv'
  BY <1>0, <1>2 DEF PointerInv, rob_vars, cp_vars, fl_vars
<1>6. PipeInv'
  BY <1>0, <1>2 DEF PipeInv, BruFlush, pipe_vars
<1>7. LossInv'
  BY <1>0, <1>3 DEF LossInv, fl_vars, rob_vars
<1>8. QED
  BY <1>3, <1>4, <1>5, <1>6, <1>7 DEF Tables

\* The inductive invariant: reset establishes it and every stage of every cycle
\* preserves it, whatever the instructions, their latencies and their branches.
THEOREM Invariance == Spec => []IInv
<1>1. Init => IInv
  BY InitIInv
<1>2. IInv /\ [Next]_vars => IInv'
  <2> SUFFICES ASSUME IInv, [Next]_vars PROVE IInv'
    OBVIOUS
  <2>1. CASE Next
    <3>1. ~FaultRd => ~aborted'
      BY <2>1, NoFailure DEF IInv
    <3>2. ~aborted' => Body'
      BY <2>1, BodyStep, AbortStays DEF IInv
    <3>3. QED
      BY <3>1, <3>2 DEF IInv
  <2>2. CASE UNCHANGED vars
    <3>1. aborted' = aborted
      BY <2>2 DEF vars
    <3>2. Body => Body'
      BY <2>2, Stutter
    <3>3. QED
      BY <3>1, <3>2 DEF IInv
  <2>3. QED
    BY <2>1, <2>2
<1>3. QED
  BY <1>1, <1>2, PTL DEF Spec

-----------------------------------------------------------------------------
(***************************************************************************)
(* What the invariant says about the program.                              *)
(***************************************************************************)

\* The registers of the instructions in flight, by their places.
LEMMA Flight ==
  ASSUME Body
  PROVE  /\ InFlight = Contents(fl_buffer, Base, fl_r)
         /\ \A k \in Ks : It(k).rd # 0 => /\ It(k).old_fl_r \in Span(Base, fl_r, N)
                                          /\ It(k).new_phy = fl_buffer[RingSlot(It(k).old_fl_r, N)]
         /\ Span(Base, fl_w, N) = Span(Base, fl_r, N) \cup Span(fl_r, fl_w, N)
         /\ Span(Base, fl_r, N) \cap Span(fl_r, fl_w, N) = {}
         /\ Free = Contents(fl_buffer, fl_r, fl_w)
<1> USE DEF Body
<1>0. /\ N \in Nat \ {0} /\ PHY_REG_NUM = N /\ fl_r \in Positions(N) /\ fl_w \in Positions(N)
      /\ Base \in Positions(N) /\ RobTyped /\ Tables
  BY Sizes, Typed DEF Tables
<1>1. ASSUME NEW k \in Ks, It(k).rd # 0
      PROVE  /\ It(k).old_fl_r \in Span(Base, fl_r, N)
             /\ It(k).new_phy = fl_buffer[RingSlot(It(k).old_fl_r, N)]
  <2>1. It(k).old_fl_r \in Positions(N) /\ ItemChain(k)
    BY Typed DEF ChainInv
  <2>2. Dist(It(k).old_fl_r) < Dist(fl_r)
    BY <1>0, <1>1, ItemDists
  <2>3. QED
    BY <1>1, <2>1, <2>2 DEF Span, Dist, ItemChain, FlSlot
<1>2. InFlight = {It(k).new_phy : k \in {j \in Ks : It(j).rd # 0}}
  <2>1. RobLive = {RobAt(k) : k \in Ks}
    BY DEF RobLive, Ks
  <2>2. QED
    BY <2>1 DEF InFlight, It
<1>3. InFlight = Contents(fl_buffer, Base, fl_r)
  <2>1. ASSUME NEW r \in InFlight PROVE r \in Contents(fl_buffer, Base, fl_r)
    BY <1>1, <1>2, <2>1 DEF Contents
  <2>2. ASSUME NEW r \in Contents(fl_buffer, Base, fl_r) PROVE r \in InFlight
    <3>1. PICK p \in Span(Base, fl_r, N) : r = fl_buffer[RingSlot(p, N)]
      BY <2>2 DEF Contents
    <3>2. PICK k \in Ks : It(k).rd # 0 /\ It(k).old_fl_r = p
      BY DEF ChainInv
    <3>3. QED
      BY <1>1, <1>2, <3>1, <3>2
  <2>3. QED
    BY <2>1, <2>2
<1>4. Free = Contents(fl_buffer, fl_r, fl_w)
  <2>1. Span(fl_r, fl_w, N) = {RingAdd(fl_r, k, N) : k \in 0..(RingCount(fl_w, fl_r, N) - 1)}
    BY <1>0, SpanIs
  <2>2. QED
    BY <1>0, <2>1 DEF Free, FlAt, FlCount, Contents
<1>5. RingCount(fl_r, Base, N) <= RingCount(fl_w, Base, N)
  BY DEF ChainInv, Dist
<1>6. QED
  BY <1>0, <1>1, <1>3, <1>4, <1>5, SpanSplit

\* One role.
LEMMA OneRoleIs == Body => OneRole
<1> SUFFICES ASSUME Body PROVE OneRole
  OBVIOUS
<1> USE DEF Body
<1>0. /\ N \in Nat \ {0} /\ PHY_REG_NUM = N /\ fl_r \in Positions(N) /\ fl_w \in Positions(N)
      /\ Base \in Positions(N) /\ RobTyped /\ Tables
  BY Sizes, Typed DEF Tables
<1>1. /\ InFlight = Contents(fl_buffer, Base, fl_r)
      /\ \A k \in Ks : It(k).rd # 0 => /\ It(k).old_fl_r \in Span(Base, fl_r, N)
                                       /\ It(k).new_phy = fl_buffer[RingSlot(It(k).old_fl_r, N)]
      /\ Span(Base, fl_w, N) = Span(Base, fl_r, N) \cup Span(fl_r, fl_w, N)
      /\ Span(Base, fl_r, N) \cap Span(fl_r, fl_w, N) = {}
      /\ Free = Contents(fl_buffer, fl_r, fl_w)
  BY Flight
<1>2. /\ \A p, q \in Span(Base, fl_w, N) :
            fl_buffer[RingSlot(p, N)] = fl_buffer[RingSlot(q, N)] => p = q
      /\ \A p \in Span(Base, fl_w, N) : fl_buffer[RingSlot(p, N)] \notin rrat_valid
  BY DEF FreeInv, Pool
<1>3. Cardinality(Free) = FlCount
  <2>1. \A p, q \in Span(fl_r, fl_w, N) :
            fl_buffer[RingSlot(p, N)] = fl_buffer[RingSlot(q, N)] => p = q
    BY <1>1, <1>2
  <2>2. QED
    BY <1>0, <1>1, <2>1, ContentsCard DEF FlCount
<1>4. Free \cap rrat_valid = {} /\ rrat_valid \cap InFlight = {}
  BY <1>1, <1>2 DEF Contents
<1>5. Free \cap InFlight = {}
  BY <1>1, <1>2 DEF Contents
<1>6. ASSUME NEW j \in Ks, NEW k \in Ks, It(j).rd # 0, It(k).rd # 0, j < k
      PROVE  It(j).new_phy # It(k).new_phy
  <2>1. j \in 0..(k - 1)
    BY <1>6 DEF Ks
  <2>2. Dist(It(j).new_fl_r) <= Dist(It(k).old_fl_r)
    BY <2>1 DEF ChainInv, ItemChain
  <2>3. Dist(It(j).old_fl_r) < Dist(It(k).old_fl_r)
    BY <1>0, <1>6, <2>2, ItemDists
  <2>4. It(j).old_fl_r # It(k).old_fl_r
    BY <1>0, <2>3, ItemDists
  <2>5. QED
    BY <1>1, <1>2, <1>6, <2>4
<1>7. ASSUME NEW p \in RobLive, NEW q \in RobLive, RobItem(p).rd # 0, RobItem(q).rd # 0, p # q
      PROVE  RobItem(p).new_phy # RobItem(q).new_phy
  <2>1. PICK j \in Ks, k \in Ks : p = RobAt(j) /\ q = RobAt(k)
    BY <1>0, RobIs
  <2>2. j < k \/ k < j
    BY <1>7, <2>1 DEF Ks
  <2>3. QED
    BY <1>6, <1>7, <2>1, <2>2 DEF It
<1>8. QED
  BY <1>3, <1>4, <1>5, <1>7 DEF OneRole


\* The mapping after the k oldest instructions, as a set.
LEMMA MapAfterIs ==
  ASSUME Body, NEW k \in 0..RobCount, NEW a \in Arch, NEW p
  PROVE  p \in MapAfter(k, a) <=> Maps(k, a, p)
<1> USE DEF Body
<1> DEFINE writers == {n \in 0..(k - 1) : It(n).rd = a}
           youngest == CHOOSE n \in writers : \A m \in writers : m <= n
<1>0. k \in Nat
  BY Typed, RobIs
<1>1. MapAfter(k, a) = IF writers = {} THEN Mapped(rrat_valid, rrat_table, a)
                       ELSE {It(youngest).new_phy}
  BY DEF MapAfter, It
<1>2. CASE writers = {}
  <2>1. \A n \in 0..(k - 1) : It(n).rd # a
    BY <1>2
  <2>2. Maps(k, a, p) <=> p \in rrat_valid /\ rrat_table[p] = a
    BY <2>1, Zenon DEF Maps
  <2>3. QED
    BY <1>1, <1>2, <2>2 DEF Mapped
<1>3. CASE writers # {}
  <2>1. PICK q : Maps(k, a, q)
    BY DEF MapInv
  <2>2. PICK n \in 0..(k - 1) : /\ It(n).rd = a /\ It(n).new_phy = q
                                /\ \A m \in (n + 1)..(k - 1) : It(m).rd # a
    BY <1>3, <2>1 DEF Maps
  <2>3. n \in writers /\ \A m \in writers : m <= n
    <3>1. ASSUME NEW m \in writers PROVE m <= n
      <4>1. m \in 0..(k - 1) /\ ~(m \in (n + 1)..(k - 1))
        BY <2>2, <3>1
      <4>2. QED
        BY <1>0, <2>2, <4>1
    <3>2. QED
      BY <2>2, <3>1
  <2>4. youngest \in writers /\ \A m \in writers : m <= youngest
    BY <2>3
  <2>5. youngest = n
    <3>1. PICK y : y = youngest
      OBVIOUS
    <3>2. y <= n /\ n <= y /\ y \in 0..(k - 1)
      BY <2>3, <2>4, <3>1
    <3>3. QED
      BY <2>2, <3>1, <3>2
  <2>6. MapAfter(k, a) = {q}
    BY <1>1, <1>3, <2>2, <2>5
  <2>7. Maps(k, a, p) => p = q
    BY <1>0, <2>1, MapsUnique
  <2>8. QED
    BY <2>1, <2>6, <2>7
<1>4. QED
  BY <1>2, <1>3

\* A set of mapped registers, read with the table of today.
LEMMA ReadToday ==
  ASSUME Body, NEW k \in 0..RobCount, NEW a \in Arch
  PROVE  Mapped(MappedRegs(k), srat_table, a) = MapAfter(k, a)
<1> USE DEF Body
<1>0. k \in Nat /\ RobCount \in Nat /\ \A n \in 0..(k - 1) : n \in Ks
  BY Typed, RobIs DEF Ks
<1>1. ASSUME NEW b \in Arch, NEW p, Maps(k, b, p) PROVE srat_table[p] = b /\ p \in Phys
  <2>1. b # 0
    BY Sizes
  <2>2. CASE \E n \in 0..(k - 1) : It(n).rd = b /\ It(n).new_phy = p
    BY <1>0, <2>1, <2>2 DEF MapInv, ShapeInv
  <2>3. CASE p \in rrat_valid /\ rrat_table[p] = b
    BY <2>3 DEF MapInv, TypeOK
  <2>4. QED
    BY <1>1, <2>2, <2>3 DEF Maps
<1>2. \A p : p \in Mapped(MappedRegs(k), srat_table, a) <=> Maps(k, a, p)
  BY <1>1 DEF Mapped, MappedRegs
<1>3. \A p : p \in MapAfter(k, a) <=> Maps(k, a, p)
  BY MapAfterIs
<1>4. QED
  BY <1>2, <1>3

\* The speculative table.
LEMMA SpeculativeIs == Body => SpeculativeMapExact
<1> SUFFICES ASSUME Body, NEW a \in Arch
             PROVE  /\ Mapped(srat_valid, srat_table, a) = MapAfter(RobCount, a)
                    /\ Cardinality(Mapped(rrat_valid, rrat_table, a)) = 1
  BY DEF SpeculativeMapExact
<1> USE DEF Body
<1>1. RobCount \in 0..RobCount
  BY Typed, RobIs
<1>2. Mapped(srat_valid, srat_table, a) = MapAfter(RobCount, a)
  BY <1>1, ReadToday DEF MapInv
<1>3. PICK p \in rrat_valid : Mapped(rrat_valid, rrat_table, a) = {p}
  BY DEF Table, Mapped
<1>4. QED
  BY <1>2, <1>3, FS_Singleton

\* The checkpoints.
LEMMA CheckpointIs == Body => CheckpointExact
<1> SUFFICES ASSUME Body, NEW k \in Ks, It(k).unit = "bru", It(k).cp_valid
             PROVE  /\ \E n \in 0..(RingCount(cp_w, cp_r, CB) - 1) :
                          /\ It(k).cp_id = RingSlot(RingAdd(cp_r, n, CB), CB)
                          /\ Cp(k).new_cp_w = RingAdd(cp_r, n + 1, CB)
                    /\ \A a \in Arch : Mapped(Cp(k).valid, srat_table, a) = MapAfter(k + 1, a)
                    /\ Cp(k).new_fl_r = It(k).new_fl_r
  BY DEF CheckpointExact, It, Cp, Ks, CB
<1> USE DEF Body
<1>1. Saved(k)
  BY DEF CheckInv, Restores
<1>2. PICK q \in Span(cp_r, cp_w, CB) : /\ It(k).cp_id = RingSlot(q, CB)
                                        /\ Cp(k).new_cp_w = RingNext(q, CB)
  BY <1>1 DEF Saved
<1>3. CB \in Nat \ {0} /\ cp_r \in Positions(CB) /\ cp_w \in Positions(CB)
  BY Sizes, Typed
<1>4. q \in Positions(CB) /\ RingCount(q, cp_r, CB) < RingCount(cp_w, cp_r, CB)
  BY <1>2 DEF Span
<1>5. PICK n \in Nat : n = RingCount(q, cp_r, CB)
  BY <1>3, <1>4, RingType
<1>6. RingCount(cp_w, cp_r, CB) \in 0..(2 * CB - 1)
  BY <1>3, RingType
<1>7. n \in 0..(RingCount(cp_w, cp_r, CB) - 1) /\ n \in 0..(2 * CB - 1) /\ n + 1 < 2 * CB
  BY <1>3, <1>4, <1>5, <1>6
<1>8. q = RingAdd(cp_r, n, CB)
  BY <1>3, <1>4, <1>5, RingType
<1>9. RingNext(q, CB) = RingAdd(cp_r, n + 1, CB)
  BY <1>3, <1>7, <1>8, RingAddType
<1>10. k + 1 \in 0..RobCount
  BY Typed, RobIs DEF Ks
<1>11. \A a \in Arch : Mapped(Cp(k).valid, srat_table, a) = MapAfter(k + 1, a)
  BY <1>1, <1>10, ReadToday DEF Saved
<1>12. QED
  BY <1>1, <1>2, <1>7, <1>8, <1>9, <1>11 DEF Saved

\* The ports.
LEMMA ResultsIs == Body => ResultsLive
BY DEF Body, PipeInv, ResultsLive

\* As many registers as architectural ones are retired.
LEMMA TableCard ==
  ASSUME NEW rv, NEW rt, Table(rv, rt)
  PROVE  IsFiniteSet(rv) /\ Cardinality(rv) = Cardinality(Arch)
<1> DEFINE F == [a \in Arch |-> CHOOSE p \in rv : rt[p] = a]
<1>1. \A a \in Arch : F[a] \in rv /\ rt[F[a]] = a
  BY DEF Table
<1>2. F \in [Arch -> rv]
  BY <1>1
<1> HIDE DEF F
<1>3. \A a, b \in Arch : F[a] = F[b] => a = b
  BY <1>1
<1>4. \A p \in rv : \E a \in Arch : F[a] = p
  <2> SUFFICES ASSUME NEW p \in rv PROVE F[rt[p]] = p /\ rt[p] \in Arch
    OBVIOUS
  <2>1. rt[p] \in Arch
    BY DEF Table
  <2>2. QED
    BY <1>1, <2>1 DEF Table
<1>5. F \in Bijection(Arch, rv)
  BY <1>2, <1>3, <1>4 DEF Bijection, Injection, Surjection, IsInjective
<1>6. QED
  BY <1>5, FS_Bijection, ConstAssumption DEF ExistsBijection

\* None lost.
LEMMA NoneLostIs == Body /\ ~FaultRd => NoneLost
<1> SUFFICES ASSUME Body, ~FaultRd PROVE Free \cup rrat_valid \cup InFlight = Phys
  BY DEF NoneLost
<1> USE DEF Body
<1>0. /\ N \in Nat \ {0} /\ PHY_REG_NUM = N /\ fl_r \in Positions(N) /\ fl_w \in Positions(N)
      /\ Base \in Positions(N) /\ Cardinality(Arch) \in Nat /\ N = Cardinality(Phys)
      /\ fl_buffer \in [Slots(N) -> Phys]
  BY Sizes, Typed DEF N, PHY_REG_NUM
<1>1. /\ InFlight = Contents(fl_buffer, Base, fl_r)
      /\ Span(Base, fl_w, N) = Span(Base, fl_r, N) \cup Span(fl_r, fl_w, N)
      /\ Free = Contents(fl_buffer, fl_r, fl_w)
  BY Flight
<1>2. PICK C : C = Contents(fl_buffer, Base, fl_w)
  OBVIOUS
<1>3. Free \cup InFlight = C
  BY <1>1, <1>2 DEF Contents
<1>4. IsFiniteSet(C) /\ Cardinality(C) = Dist(fl_w)
  <2>1. \A p, q \in Span(Base, fl_w, N) :
            fl_buffer[RingSlot(p, N)] = fl_buffer[RingSlot(q, N)] => p = q
    BY DEF FreeInv, Pool
  <2>2. QED
    BY <1>0, <1>2, <2>1, ContentsCard DEF Dist
<1>5. IsFiniteSet(rrat_valid) /\ Cardinality(rrat_valid) = Cardinality(Arch)
  BY TableCard
<1>6. C \cap rrat_valid = {}
  BY <1>2 DEF Contents, FreeInv, Pool
<1>7. Cardinality(C \cup rrat_valid) = Dist(fl_w) + Cardinality(Arch)
  <2>1. Dist(fl_w) \in Nat
    BY <1>0, RingType DEF Dist
  <2>2. Cardinality(C \cap rrat_valid) = 0
    BY <1>6, FS_EmptySet
  <2>3. Cardinality(C \cup rrat_valid) =
          Cardinality(C) + Cardinality(rrat_valid) - Cardinality(C \cap rrat_valid)
    BY <1>4, <1>5, FS_Union
  <2>4. QED
    BY <1>0, <1>4, <1>5, <2>1, <2>2, <2>3
<1>8. Cardinality(C \cup rrat_valid) = Cardinality(Phys)
  BY <1>0, <1>7 DEF LossInv
<1>9. C \cup rrat_valid \in SUBSET Phys
  <2>1. \A p \in Positions(N) : fl_buffer[RingSlot(p, N)] \in Phys
    BY <1>0, RingType DEF Slots
  <2>2. QED
    BY <1>2, <2>1 DEF Contents, Span, TypeOK
<1>10. Phys = C \cup rrat_valid
  BY <1>8, <1>9, FS_Subset, ConstAssumption
<1>11. QED
  BY <1>3, <1>10


\* The types: every pointer, table entry and reorder buffer entry stays in range as
\* long as no verify() fails.
THEOREM TypeCorrect == Spec => [](NoAbort => TypeOK)
<1>1. IInv => (NoAbort => TypeOK)
  BY DEF IInv, Body, NoAbort
<1>2. QED
  BY <1>1, Invariance, PTL

\* A physical register is free, architectural or the destination of one instruction
\* in flight, never two of these: neither retirement, nor a restored free list, nor
\* a flush hands out a register that is in use.
THEOREM RolesCorrect == Spec => [](NoAbort => OneRole)
<1>1. IInv => (NoAbort => OneRole)
  BY OneRoleIs DEF IInv, NoAbort
<1>2. QED
  BY <1>1, Invariance, PTL

\* The speculative table is the retired one followed by the instructions in flight,
\* after any number of nested mispredictions, flushes and retirements.
THEOREM SpeculativeCorrect == Spec => [](NoAbort => SpeculativeMapExact)
<1>1. IInv => (NoAbort => SpeculativeMapExact)
  BY SpeculativeIs DEF IInv, NoAbort
<1>2. QED
  BY <1>1, Invariance, PTL

\* The checkpoint of a branch that may still be found mispredicted is in the buffer
\* and, although it holds valid bits only, restores the mapping right after the
\* branch with the table as it is by then.
THEOREM CheckpointCorrect == Spec => [](NoAbort => CheckpointExact)
<1>1. IInv => (NoAbort => CheckpointExact)
  BY CheckpointIs DEF IInv, NoAbort
<1>2. QED
  BY <1>1, Invariance, PTL

\* A result on a port belongs to an instruction that is still in the reorder buffer
\* and has not finished, so that commit may enter it by index.
THEOREM ResultsCorrect == Spec => [](NoAbort => ResultsLive)
<1>1. IInv => (NoAbort => ResultsLive)
  BY ResultsIs DEF IInv, NoAbort
<1>2. QED
  BY <1>1, Invariance, PTL

\* If no instruction with a destination faults, no verify() of rename, rat, free
\* list or commit ever fails, with PHY_REG_NUM >= 31 + ROB_SIZE registers.
THEOREM NoAbortCorrect ==
  ASSUME ~FaultRd
  PROVE  Spec => []NoAbort
<1>1. IInv => NoAbort
  BY DEF IInv, NoAbort
<1>2. QED
  BY <1>1, Invariance, PTL

\* If no instruction with a destination faults, every register has a role for ever.
THEOREM NoneLostCorrect ==
  ASSUME ~FaultRd
  PROVE  Spec => []NoneLost
<1>1. IInv => NoneLost
  BY NoneLostIs DEF IInv
<1>2. QED
  BY <1>1, Invariance, PTL
-----------------------------------------------------------------------------
(***************************************************************************)
(* The register file, the path of the program and the checkpoint buffer:   *)
(* that the core looks in-order.                                           *)
(*                                                                         *)
(* The invariant Body says where every register is; the parts here say     *)
(* which instruction's result it holds, which instructions of the reorder  *)
(* buffer are on the path the program takes, and whose checkpoints are in  *)
(* the buffer.                                                             *)
(***************************************************************************)
\* A result that wb withheld because its instruction is about to be removed.
Late(p) == /\ flush = "bru" /\ phase = "execute" /\ p \in port
           /\ RingYounger(p, flush_pos, ROB_SIZE)
\* Has the result of p reached the register file?
Resulted(p) ==
    /\ RobItem(p).finish /\ ~RobItem(p).exception
    /\ phase = "wb" => p \notin port
    /\ ~Late(p)

\* The register of p holds the result of p, or is not readable.
RegOf(p) ==
    /\ RobItem(p).new_phy \in reg_valid <=> Resulted(p)
    /\ Resulted(p) => /\ RobItem(p).new_phy \notin reg_oldest
                      /\ reg_age[RobItem(p).new_phy] = p
                      /\ reg_data[RobItem(p).new_phy] = RobItem(p).inst
RegInv ==
    /\ rrat_valid \subseteq reg_valid /\ rrat_valid \subseteq reg_oldest
    /\ reg_valid \subseteq rrat_valid \cup InFlight
    /\ \A p \in RobLive : RobItem(p).rd # 0 => RegOf(p)

\* Has the misprediction of the branch at place k, if there is one, been repaired?
Recovered(k) == Restores(k) /\ (It(k).finish \/ RobAt(k) \in port)
\* Is what follows place k off the path of the program?
OffPath(k) == It(k).inst = 0 \/ (It(k).missed /\ ~Recovered(k))
\* The instruction at place k, the last place being the front of the decode queue.
Front == IF wrong_path THEN 0 ELSE next_inst
InstAt(k) == IF k \in Ks THEN It(k).inst ELSE Front
MissInv ==
    /\ \A k \in Ks : It(k).missed => It(k).unit = "bru"
    /\ \A k \in Ks : It(k).finish /\ Restores(k) => It(k).bp_cp_valid
    /\ flush # "commit" => \A p \in exec : BruFlush(p) => flush = "bru" /\ p = flush_pos
PathInv ==
    /\ next_inst # 0
    /\ InstAt(0) = done + 1
    /\ \A k \in Ks : InstAt(k + 1) = IF OffPath(k) THEN 0 ELSE It(k).inst + 1

\* The instructions with a checkpoint, up to place k.
Holders == {p \in RobLive : RobItem(p).cp_valid}
HoldersTo(k) == {p \in Holders : \E i \in 0..k : p = RobAt(i)}
OwnInv ==
    "lu" \notin Units =>
        /\ RingCount(cp_w, cp_r, CB) = Cardinality(Holders)
        /\ \A k \in Ks : It(k).cp_valid => CpDist(Cp(k).new_cp_w) = Cardinality(HoldersTo(k))

Body2 == RegInv /\ MissInv /\ PathInv /\ OwnInv
IInv2 == ~aborted => Body2

-----------------------------------------------------------------------------
(***************************************************************************)
(* The register file.                                                      *)
(***************************************************************************)

\* Each instruction in flight has its register for itself.
LEMMA OwnReg ==
  ASSUME Body
  PROVE  /\ RobTyped
         /\ \A p \in RobLive : /\ p \in Positions(ROB_SIZE) /\ RobItem(p) \in Items
                               /\ RobItem(p).rd # 0 => /\ RobItem(p).new_phy \in Phys
                                                       /\ RobItem(p).new_phy \in InFlight
                                                       /\ RobItem(p).new_phy \notin rrat_valid
         /\ \A r \in InFlight : \E p \in RobLive : RobItem(p).rd # 0 /\ r = RobItem(p).new_phy
         /\ \A p, q \in RobLive : RobItem(p).rd # 0 /\ RobItem(q).rd # 0 /\ p # q =>
               RobItem(p).new_phy # RobItem(q).new_phy
         /\ rrat_valid \subseteq Phys /\ reg_valid \subseteq Phys /\ reg_oldest \subseteq Phys
         /\ reg_data \in [Phys -> Nat] /\ reg_age \in [Phys -> Positions(ROB_SIZE)]
<1> USE DEF Body
<1>1. RobTyped /\ (\A p \in Positions(ROB_SIZE) : RobItem(p) \in Items)
      /\ RobLive \subseteq Positions(ROB_SIZE)
  BY Typed, RobIs
<1>2. OneRole
  BY OneRoleIs
<1>3. InFlight = {RobItem(p).new_phy : p \in {q \in RobLive : RobItem(q).rd # 0}}
  BY DEF InFlight
<1>4. ASSUME NEW p \in RobLive, RobItem(p).rd # 0 PROVE RobItem(p).new_phy \in Phys
  <2>1. PICK k \in Ks : p = RobAt(k)
    BY <1>1, RobIs
  <2>2. QED
    BY <1>4, <2>1 DEF ShapeInv, It
<1>5. \A p \in RobLive : RobItem(p).rd # 0 => RobItem(p).new_phy \in InFlight
  BY <1>3
<1>6. \A r \in InFlight : \E p \in RobLive : RobItem(p).rd # 0 /\ r = RobItem(p).new_phy
  BY <1>3
<1>7. rrat_valid \cap InFlight = {}
  BY <1>2 DEF OneRole
<1>8. \A p, q \in RobLive : RobItem(p).rd # 0 /\ RobItem(q).rd # 0 /\ p # q =>
               RobItem(p).new_phy # RobItem(q).new_phy
  BY <1>2 DEF OneRole
<1>9. /\ rrat_valid \subseteq Phys /\ reg_valid \subseteq Phys /\ reg_oldest \subseteq Phys
      /\ reg_data \in [Phys -> Nat] /\ reg_age \in [Phys -> Positions(ROB_SIZE)]
  BY DEF TypeOK
<1>10. QED
  BY <1>1, <1>4, <1>5, <1>6, <1>7, <1>8, <1>9

\* Steps that leave the register file and the instructions alone.
LEMMA RegKept ==
  ASSUME RegInv, UNCHANGED <<reg_valid, reg_data, reg_oldest, reg_age, rrat_valid>>,
         RobLive' = RobLive,
         \A p \in RobLive : /\ (RobItem(p)').rd = RobItem(p).rd
                            /\ (RobItem(p)').new_phy = RobItem(p).new_phy
                            /\ (RobItem(p)').inst = RobItem(p).inst
                            /\ Resulted(p)' <=> Resulted(p)
  PROVE  RegInv'
<1>1. InFlight' = InFlight
  BY DEF InFlight
<1>2. ASSUME NEW p \in RobLive, RobItem(p).rd # 0 PROVE RegOf(p)'
  <2>1. RegOf(p)
    BY <1>2 DEF RegInv
  <2>2. RegOf(p)' = (/\ RobItem(p)'.new_phy \in reg_valid' <=> Resulted(p)'
                     /\ Resulted(p)' => /\ RobItem(p)'.new_phy \notin reg_oldest'
                                        /\ reg_age'[RobItem(p)'.new_phy] = p
                                        /\ reg_data'[RobItem(p)'.new_phy] = RobItem(p)'.inst)
    BY DEF RegOf
  <2>3. QED
    BY <2>1, <2>2 DEF RegOf
<1>3. QED
  BY <1>1, <1>2 DEF RegInv

\* When a result counts as written, at the stages where nothing is withheld.
LEMMA ResultedIs ==
  ASSUME NEW p, phase # "wb", phase # "execute" \/ flush # "bru"
  PROVE  Resulted(p) <=> RobItem(p).finish /\ ~RobItem(p).exception
BY DEF Resulted, Late

\* The same for the next state.
LEMMA ResultedNext ==
  ASSUME NEW p, phase' # "wb", phase' # "execute" \/ flush' # "bru"
  PROVE  Resulted(p)' <=> (RobItem(p)').finish /\ ~(RobItem(p)').exception
BY DEF Resulted, Late

\* Everything is flushed.
LEMMA RegFlush ==
  ASSUME FlushAll, rrat_valid' \subseteq reg_oldest'
  PROVE  RegInv'
<1>1. rob_w' = 0 /\ rob_r' = 0 /\ reg_valid' = rrat_valid'
  BY DEF FlushAll
<1>2. RobLive' = {}
  <2>1. RobCount' = 0
    BY <1>1 DEF RobCount, RingCount
  <2>2. QED
    BY <2>1 DEF RobLive
<1>3. QED
  BY <1>1, <1>2 DEF RegInv

\* Stages that only change the phase, or only the reorder buffer's bits.
LEMMA RegQuiet ==
  ASSUME Body, RegInv, BruFeedback \/ CommitStorePause \/ CommitInterrupt \/ Sync
  PROVE  RegInv'
<1>1. /\ UNCHANGED <<rob, rob_w, rob_r>>
      /\ UNCHANGED <<reg_valid, reg_data, reg_oldest, reg_age, rrat_valid>>
  BY DEF BruFeedback, CommitStorePause, CommitInterrupt, Sync, rob_vars, reg_vars, rat_vars
<1>2. /\ phase # "wb" /\ phase # "execute" /\ phase' # "wb" /\ phase' # "execute"
  BY DEF BruFeedback, CommitStorePause, CommitInterrupt, Sync, CanCommit
<1>3. RobLive' = RobLive /\ \A p : RobItem(p)' = RobItem(p)
  BY <1>1, RobSame
<1>4. \A p \in RobLive : Resulted(p)' <=> Resulted(p)
  BY <1>2, <1>3, ResultedIs, ResultedNext
<1>5. QED
  BY <1>1, <1>3, <1>4, RegKept

\* Results enter the reorder buffer one stage before the register file.
LEMMA RegFinish ==
  ASSUME Body, RegInv, CommitFinish
  PROVE  RegInv'
<1> USE DEF Body
<1>1. /\ phase = "commit" /\ phase' = "wb" /\ flush' = flush /\ port' = port
      /\ UNCHANGED <<reg_valid, reg_data, reg_oldest, reg_age, rrat_valid, rob_w, rob_r>>
  BY DEF CommitFinish, reg_vars, rat_vars, pipe_vars
<1>2. RobLive' = RobLive
  BY <1>1 DEF RobLive, RobCount, RobAt
<1>3. CASE flush = "commit"
  <2>1. RobCount = 0
    BY <1>3 DEF PointerInv
  <2>2. RobLive = {}
    BY <2>1 DEF RobLive
  <2>3. QED
    BY <1>1, <1>2, <2>2, RegKept
<1>4. CASE flush # "commit"
  <2>1. \A p \in RobLive : RobItem(p)' = IF p \in port THEN FinishedItem(p) ELSE RobItem(p)
    BY <1>4, FinishItems
  <2>2. \A p \in RobLive : RobItem(p) \in Items
    BY OwnReg
  <2>3. \A p \in port : ~RobItem(p).finish
    BY <1>1, <1>4 DEF PipeInv
  <2>4. ASSUME NEW p \in RobLive
        PROVE  /\ (RobItem(p)').rd = RobItem(p).rd
               /\ (RobItem(p)').new_phy = RobItem(p).new_phy
               /\ (RobItem(p)').inst = RobItem(p).inst
               /\ Resulted(p)' <=> Resulted(p)
    <3>1. CASE p \in port
      <4>1. RobItem(p)' = FinishedItem(p) /\ RobItem(p) \in Items
        BY <2>1, <2>2, <3>1
      <4>2. ~Resulted(p)
        BY <2>3, <3>1 DEF Resulted
      <4>3. ~Resulted(p)'
        BY <1>1, <3>1 DEF Resulted
      <4>4. QED
        BY <4>1, <4>2, <4>3 DEF FinishedItem, Items
    <3>2. CASE p \notin port
      <4>1. RobItem(p)' = RobItem(p)
        BY <2>1, <3>2
      <4>2. Resulted(p) <=> RobItem(p).finish /\ ~RobItem(p).exception
        BY <1>1, ResultedIs
      <4>3. Resulted(p)' <=> RobItem(p).finish /\ ~RobItem(p).exception
        BY <1>1, <3>2, <4>1 DEF Resulted, Late
      <4>4. QED
        BY <4>1, <4>2, <4>3
    <3>3. QED
      BY <3>1, <3>2
  <2>5. QED
    BY <1>1, <1>2, <2>4, RegKept
<1>5. QED
  BY <1>3, <1>4


\* Write back: every result of the ports but the withheld ones.
LEMMA RegWb ==
  ASSUME Body, RegInv, Wb
  PROVE  RegInv'
<1> USE DEF Body
<1> DEFINE regs == {RobItem(p).new_phy : p \in Written}
           writer(r) == CHOOSE p \in Written : RobItem(p).new_phy = r
<1>1. /\ phase = "wb" /\ phase' = "execute"
      /\ reg_valid' = reg_valid \cup regs
      /\ reg_oldest' = reg_oldest \ regs
      /\ reg_data' = [r \in Phys |-> IF r \in regs THEN RobItem(writer(r)).inst ELSE reg_data[r]]
      /\ reg_age' = [r \in Phys |-> IF r \in regs THEN writer(r) ELSE reg_age[r]]
      /\ UNCHANGED <<flush, flush_pos, port, rrat_valid, rob, rob_w, rob_r>>
  BY DEF Wb, pipe_vars, rat_vars, rob_vars
<1>2. RobLive' = RobLive /\ \A p : RobItem(p)' = RobItem(p)
  BY <1>1, RobSame
<1>3. flush = "commit" => RobLive = {}
  BY DEF PointerInv, RobLive
<1>4. Written \subseteq RobLive /\ \A p \in Written : RobItem(p).rd # 0 /\ p \in port
  BY DEF Written, PipeInv
<1>5. \A p \in RobLive : /\ RobItem(p).rd # 0 => /\ RobItem(p).new_phy \in Phys
                                                 /\ RobItem(p).new_phy \in InFlight
                                                 /\ RobItem(p).new_phy \notin rrat_valid
  BY OwnReg
<1>6. \A p, q \in RobLive : RobItem(p).rd # 0 /\ RobItem(q).rd # 0 /\ p # q =>
               RobItem(p).new_phy # RobItem(q).new_phy
  BY OwnReg
<1>7. InFlight' = InFlight
  BY <1>2 DEF InFlight
<1>8. regs \subseteq InFlight /\ regs \cap rrat_valid = {}
  BY <1>4, <1>5
<1>9. ASSUME NEW p \in RobLive, RobItem(p).rd # 0, NEW r, r = RobItem(p).new_phy
      PROVE  /\ r \in regs <=> p \in Written
             /\ p \in Written => writer(r) = p
  <2>1. r \in regs <=> p \in Written
    BY <1>4, <1>6, <1>9
  <2>2. ASSUME p \in Written PROVE writer(r) = p
    <3>1. writer(r) \in Written /\ RobItem(writer(r)).new_phy = r
      BY <1>9, <2>2
    <3>2. QED
      BY <1>4, <1>6, <1>9, <3>1
  <2>3. QED
    BY <2>1, <2>2
<1>10. ASSUME NEW p \in RobLive, RobItem(p).rd # 0 PROVE RegOf(p)'
  <2>1. PICK r \in Phys : r = RobItem(p).new_phy
    BY <1>5, <1>10
  <2>2. RegOf(p)
    BY <1>10 DEF RegInv
  <2>3. flush # "commit"
    BY <1>3
  <2>4. CASE p \in Written
    <3>1. Resulted(p)'
      <4>1. RobItem(p).finish /\ (RobItem(p).exception <=> p \in port_exception)
        BY <1>1, <1>4, <2>3, <2>4 DEF PipeInv
      <4>2. p \notin port_exception /\ (flush = "bru" => ~RingYounger(p, flush_pos, ROB_SIZE))
        BY <2>4 DEF Written
      <4>3. ~Late(p)'
        BY <1>1, <4>2 DEF Late
      <4>4. QED
        BY <1>1, <1>2, <4>1, <4>2, <4>3 DEF Resulted
    <3>2. r \in regs /\ writer(r) = p
      BY <1>9, <1>10, <2>1, <2>4
    <3>3. /\ r \in reg_valid' /\ r \notin reg_oldest'
          /\ reg_age'[r] = p /\ reg_data'[r] = RobItem(p).inst
      BY <1>1, <3>2
    <3>4. QED
      BY <1>2, <2>1, <3>1, <3>3 DEF RegOf
  <2>5. CASE p \notin Written
    <3>1. Resulted(p)' <=> Resulted(p)
      <4>1. CASE p \notin port
        BY <1>1, <1>2, <4>1 DEF Resulted, Late
      <4>2. CASE p \in port
        <5>1. ~Resulted(p)
          BY <1>1, <4>2 DEF Resulted
        <5>2. RobItem(p).exception <=> p \in port_exception
          BY <1>1, <2>3, <4>2 DEF PipeInv
        <5>3. p \in port_exception \/ (flush = "bru" /\ RingYounger(p, flush_pos, ROB_SIZE))
          BY <1>10, <2>3, <2>5, <4>2 DEF Written
        <5>4. ~Resulted(p)'
          BY <1>1, <1>2, <4>2, <5>2, <5>3 DEF Resulted, Late
        <5>5. QED
          BY <5>1, <5>4
      <4>3. QED
        BY <4>1, <4>2
    <3>2. r \notin regs
      BY <1>9, <1>10, <2>1, <2>5
    <3>3. /\ r \in reg_valid' <=> r \in reg_valid
          /\ r \in reg_oldest' <=> r \in reg_oldest
          /\ reg_age'[r] = reg_age[r] /\ reg_data'[r] = reg_data[r]
      BY <1>1, <3>2
    <3>4. QED
      BY <1>2, <2>1, <2>2, <3>1, <3>3 DEF RegOf
  <2>6. QED
    BY <2>4, <2>5
<1>11. /\ rrat_valid' \subseteq reg_valid' /\ rrat_valid' \subseteq reg_oldest'
       /\ reg_valid' \subseteq rrat_valid' \cup InFlight'
  BY <1>1, <1>7, <1>8 DEF RegInv
<1>12. QED
  BY <1>2, <1>10, <1>11 DEF RegInv

\* Execution without a recovery: nothing was withheld.
LEMMA RegExecute ==
  ASSUME Body, RegInv, Execute, flush # "bru"
  PROVE  RegInv'
<1>1. /\ phase = "execute" /\ phase' = "rename"
      /\ UNCHANGED <<flush, rob, rob_r, reg_data, reg_age, rrat_valid>>
  BY ExecuteCommon
<1>2. UNCHANGED <<rob_w, reg_valid, reg_oldest>>
  BY DEF Execute
<1>3. RobLive' = RobLive /\ \A p : RobItem(p)' = RobItem(p)
  BY <1>1, <1>2, RobSame
<1>4. \A p \in RobLive : Resulted(p)' <=> Resulted(p)
  BY <1>1, <1>3, ResultedIs, ResultedNext
<1>5. QED
  BY <1>1, <1>2, <1>3, <1>4, RegKept

\* A recovery: the registers restore(rob_id) invalidates are those of the
\* instructions it removes.  The withheld results are not readable anyway.
LEMMA RegRestore ==
  ASSUME Body, RegInv, Execute, flush = "bru"
  PROVE  RegInv'
<1> USE DEF Body
<1>1. /\ phase = "execute" /\ phase' = "rename"
      /\ UNCHANGED <<flush, rob, rob_r, reg_data, reg_age, rrat_valid>>
  BY ExecuteCommon
<1>2. PICK j \in Ks : flush_pos = RobAt(j)
  <2>1. flush_pos \in RobLive
    BY <1>1 DEF PipeInv
  <2>2. QED
    BY <2>1, Typed, RobIs
<1>3. /\ rob_w' = RingNext(RobAt(j), ROB_SIZE)
      /\ reg_valid' = reg_valid \ SquashedRegs /\ reg_oldest' = reg_oldest \cup SquashedRegs
  BY <1>2, RestoreFacts
<1>4. RobTyped
  BY Typed
<1>5. /\ RobLive' = {p \in RobLive : ~RingYounger(p, flush_pos, ROB_SIZE)}
      /\ \A p : RobItem(p)' = RobItem(p)
  BY <1>1, <1>2, <1>3, <1>4, RobCut
<1>6. \A p \in RobLive : RobItem(p).rd # 0 => /\ RobItem(p).new_phy \in InFlight
                                              /\ RobItem(p).new_phy \notin rrat_valid
                                              /\ RegOf(p)
  BY OwnReg DEF RegInv
<1>7. SquashedRegs \cap rrat_valid = {}
  BY DEF SquashedRegs, RegInv
<1>8. \A p \in RobLive : ~RingYounger(p, flush_pos, ROB_SIZE) =>
          (Resulted(p)' <=> Resulted(p))
  <2> SUFFICES ASSUME NEW p \in RobLive, ~RingYounger(p, flush_pos, ROB_SIZE)
               PROVE  Resulted(p)' <=> Resulted(p)
    OBVIOUS
  <2>1. Resulted(p) <=> RobItem(p).finish /\ ~RobItem(p).exception
    BY <1>1 DEF Resulted, Late
  <2>2. QED
    BY <1>1, <1>5, <2>1, ResultedNext
<1>9. ASSUME NEW p \in RobLive, RobItem(p).rd # 0, RobItem(p).new_phy \in SquashedRegs
      PROVE  RingYounger(p, flush_pos, ROB_SIZE)
  <2>1. RobItem(p).new_phy \in reg_valid /\ RingYounger(reg_age[RobItem(p).new_phy], flush_pos, ROB_SIZE)
    BY <1>9 DEF SquashedRegs
  <2>2. reg_age[RobItem(p).new_phy] = p
    BY <1>6, <1>9, <2>1 DEF RegOf
  <2>3. QED
    BY <2>1, <2>2
<1>10. ASSUME NEW p \in RobLive, RobItem(p).rd # 0, ~RingYounger(p, flush_pos, ROB_SIZE)
       PROVE  RegOf(p)'
  <2>1. PICK r : r = RobItem(p).new_phy
    OBVIOUS
  <2>2. r \notin SquashedRegs
    BY <1>9, <1>10, <2>1
  <2>3. (r \in reg_valid' <=> r \in reg_valid) /\ (r \in reg_oldest' <=> r \in reg_oldest)
    BY <1>3, <2>2
  <2>4. RegOf(p) /\ (Resulted(p)' <=> Resulted(p))
    BY <1>6, <1>8, <1>10
  <2>5. QED
    BY <1>1, <1>5, <2>1, <2>3, <2>4 DEF RegOf
<1>11. ASSUME NEW r \in reg_valid', r \notin rrat_valid PROVE r \in InFlight'
  <2>1. r \in InFlight /\ r \in reg_valid /\ r \notin SquashedRegs
    BY <1>3, <1>11 DEF RegInv
  <2>2. PICK p \in RobLive : RobItem(p).rd # 0 /\ r = RobItem(p).new_phy
    BY <2>1, OwnReg
  <2>3. Resulted(p) /\ r \notin reg_oldest /\ reg_age[r] = p
    BY <1>6, <2>1, <2>2 DEF RegOf
  <2>4. ~RingYounger(p, flush_pos, ROB_SIZE)
    BY <2>1, <2>3 DEF SquashedRegs
  <2>5. p \in RobLive'
    BY <1>5, <2>4
  <2>6. QED
    BY <1>5, <2>2, <2>5 DEF InFlight
<1>12. rrat_valid' \subseteq reg_valid' /\ rrat_valid' \subseteq reg_oldest'
  BY <1>1, <1>3, <1>7 DEF RegInv
<1>13. QED
  BY <1>1, <1>5, <1>10, <1>11, <1>12 DEF RegInv


\* Retirement: the register of the oldest instruction becomes architectural, and
\* the one it replaces is neither readable nor young any more.
LEMMA RegRetire ==
  ASSUME Body, RegInv, CommitRetire
  PROVE  RegInv'
<1> USE DEF Body
<1>1. PICK h : h = It(0)
  OBVIOUS
<1>2. /\ phase = "commit" /\ flush # "commit" /\ rob_r # rob_w /\ Tables /\ Head = h
      /\ h.finish /\ 0 \in Ks /\ h \in Items
  BY <1>1, HeadIs DEF CommitRetire
<1>3. /\ ~h.exception /\ RetireMap /\ RetirePush
      /\ reg_valid' = (IF h.rd = 0 THEN reg_valid ELSE reg_valid \ {h.old_phy})
      /\ rob_r' = RingNext(rob_r, ROB_SIZE)
      /\ UNCHANGED <<phase, flush, flush_pos, rob, rob_w, port>>
  BY <1>2 DEF CommitRetire, pipe_vars
<1>4. /\ h.rd # 0 => /\ h.old_phy \in rrat_valid /\ h.new_phy \notin rrat_valid
                     /\ rrat_valid' = (rrat_valid \ {h.old_phy}) \cup {h.new_phy}
      /\ h.rd = 0 => UNCHANGED <<rrat_valid, rrat_table>>
  BY <1>1, <1>2, <1>3, Retired
<1>5. /\ RobLive' = RobLive \ {rob_r} /\ \A p : RobItem(p)' = RobItem(p)
      /\ rob_r \in RobLive /\ RobItem(rob_r) = h
  <2>1. RobTyped /\ RobAt(0) = rob_r /\ RobAt(0) \in RobLive
    BY <1>2, Typed, RobIs
  <2>2. RobLive' = RobLive \ {rob_r} /\ \A p : RobItem(p)' = RobItem(p)
    BY <1>2, <1>3, <2>1, RobShift
  <2>3. QED
    BY <1>1, <2>1, <2>2 DEF It
<1>6. \A p : Resulted(p)' <=> Resulted(p)
  BY <1>2, <1>3, <1>5, ResultedIs, ResultedNext
<1>7. Resulted(rob_r)
  BY <1>2, <1>3, <1>5, ResultedIs
<1>8. CASE h.rd = 0
  <2>1. /\ UNCHANGED <<reg_valid, reg_data, reg_oldest, reg_age, rrat_valid>>
    BY <1>2, <1>3, <1>4, <1>8 DEF RetirePush
  <2>2. InFlight' = InFlight
    BY <1>5, <1>8 DEF InFlight
  <2>3. \A p \in RobLive' : RobItem(p).rd # 0 => RegOf(p)
    BY <1>5 DEF RegInv
  <2>4. \A p \in RobLive' : RobItem(p).rd # 0 => RegOf(p)'
    BY <1>5, <1>6, <2>1, <2>3 DEF RegOf
  <2>5. QED
    BY <1>5, <2>1, <2>2, <2>4 DEF RegInv
<1>9. CASE h.rd # 0
  <2>0. PICK old, new : old = h.old_phy /\ new = h.new_phy
    OBVIOUS
  <2>1. /\ reg_valid' = reg_valid \ {old} /\ reg_oldest' = reg_oldest \cup {old, new}
        /\ rrat_valid' = (rrat_valid \ {old}) \cup {new}
        /\ old \in rrat_valid /\ new \notin rrat_valid
        /\ \A r \in Phys : r # old /\ r # new => /\ reg_data'[r] = reg_data[r]
                                                 /\ reg_age'[r] = reg_age[r]
    BY <1>2, <1>3, <1>4, <1>9, <2>0, OwnReg DEF RetirePush
  <2>2. new \in reg_valid
    BY <1>5, <1>7, <1>9, <2>0 DEF RegInv, RegOf
  <2>3. ASSUME NEW p \in RobLive', RobItem(p).rd # 0
        PROVE  RobItem(p).new_phy # old /\ RobItem(p).new_phy # new /\ RobItem(p).new_phy \in Phys
    BY <1>5, <1>9, <2>0, <2>1, <2>3, OwnReg
  <2>4. ASSUME NEW p \in RobLive', RobItem(p).rd # 0 PROVE RegOf(p)'
    <3>1. PICK r \in Phys : r = RobItem(p).new_phy /\ r # old /\ r # new
      BY <2>3, <2>4
    <3>2. /\ r \in reg_valid' <=> r \in reg_valid
          /\ r \in reg_oldest' <=> r \in reg_oldest
          /\ reg_age'[r] = reg_age[r] /\ reg_data'[r] = reg_data[r]
      BY <2>1, <3>1
    <3>3. RegOf(p)
      BY <1>5, <2>4 DEF RegInv
    <3>4. QED
      BY <1>5, <1>6, <3>1, <3>2, <3>3 DEF RegOf
  <2>5. ASSUME NEW r \in InFlight, r # new PROVE r \in InFlight'
    <3>1. PICK p \in RobLive : RobItem(p).rd # 0 /\ r = RobItem(p).new_phy
      BY OwnReg
    <3>2. p \in RobLive'
      BY <1>5, <2>0, <2>5, <3>1
    <3>3. QED
      BY <1>5, <3>1, <3>2 DEF InFlight
  <2>6. /\ rrat_valid' \subseteq reg_valid' /\ rrat_valid' \subseteq reg_oldest'
        /\ reg_valid' \subseteq rrat_valid' \cup InFlight'
    BY <2>1, <2>2, <2>5 DEF RegInv
  <2>7. QED
    BY <1>5, <2>4, <2>6 DEF RegInv
<1>10. QED
  BY <1>8, <1>9

\* The flushes of commit.
LEMMA RegFlushes ==
  ASSUME Body, RegInv, CommitTrap \/ CommitConflict \/ CommitMispredict
  PROVE  RegInv'
<1> USE DEF Body
<1>1. CASE CommitTrap
  <2>1. FlushAll /\ UNCHANGED <<rrat_valid, reg_oldest>>
    BY <1>1 DEF CommitTrap
  <2>2. QED
    BY <2>1, RegFlush DEF RegInv
<1>2. CASE CommitConflict
  <2>1. FlushAll /\ UNCHANGED <<rrat_valid, reg_oldest>>
    BY <1>2 DEF CommitConflict
  <2>2. QED
    BY <2>1, RegFlush DEF RegInv
<1>3. CASE CommitMispredict
  <2>1. PICK h : h = It(0)
    OBVIOUS
  <2>2. FlushAll /\ RetireMap /\ RetirePush /\ CanCommit
    BY <1>3 DEF CommitMispredict
  <2>3. Head = h /\ rob_r # rob_w /\ Tables
    BY <2>1, <2>2, HeadIs
  <2>4. /\ h.rd # 0 => rrat_valid' = (rrat_valid \ {h.old_phy}) \cup {h.new_phy}
        /\ h.rd = 0 => rrat_valid' = rrat_valid
    BY <2>1, <2>2, <2>3, Retired
  <2>5. reg_oldest' = IF h.rd = 0 THEN reg_oldest ELSE reg_oldest \cup {h.old_phy, h.new_phy}
    BY <2>2, <2>3 DEF RetirePush
  <2>6. rrat_valid' \subseteq reg_oldest'
    BY <2>4, <2>5 DEF RegInv
  <2>7. QED
    BY <2>2, <2>6, RegFlush
<1>4. QED
  BY <1>1, <1>2, <1>3

\* The step of rename: the instruction it adds, and the path.
Added(x) ==
    /\ Renamed(x) /\ ~x.finish /\ ~x.exception /\ ~x.bp_cp_valid
    /\ x.missed => x.unit = "bru"
    /\ x.cp_valid => x.unit \in {"bru", "lu"}
    /\ x.inst = Front
    /\ wrong_path' = (wrong_path \/ x.missed)

\* When nothing that rename verifies fails, it adds an instruction.
LEMMA RenameAdds ==
  ASSUME Body, RenameOne, ~aborted'
  PROVE  /\ \E x \in Items : Added(x)
         /\ phase = "rename" /\ flush = "none"
         /\ next_inst' = IF wrong_path THEN next_inst ELSE next_inst + 1
         /\ UNCHANGED <<phase, flush, flush_pos, exec, port, rrat_valid, rrat_table, cp_r,
                        reg_valid, reg_data, reg_oldest, reg_age, done>>
<1>0. PICK d \in FrontOfDecode, cp \in BOOLEAN, old \in Phys \cup {NoReg} :
         /\ aborted' = (aborted \/ (d.rd # 0 /\ ~RenameChecks(d)))
         /\ cp => d.unit \in {"bru", "lu"}
         /\ (d.rd # 0 => FlAt(0) \in free_list_set) => Renamed(RenameItem(d, cp, old))
         /\ wrong_path' = (wrong_path \/ d.missed)
  BY RenameIs, Zenon
<1>1. d.rd # 0 => RenameChecks(d)
  BY <1>0, Zenon
<1>2. PICK x : x = RenameItem(d, cp, old)
  OBVIOUS
<1>3. Renamed(x)
  BY <1>0, <1>1, <1>2 DEF RenameChecks
<1>4. /\ x.unit = d.unit /\ x.finish = FALSE /\ x.exception = FALSE /\ x.bp_cp_valid = FALSE
      /\ x.cp_valid = cp /\ x.inst = Front
  BY <1>2 DEF RenameItem, Front
<1>5. x.missed = d.missed
  BY <1>2 DEF RenameItem
<1>6. d.missed => d.unit = "bru"
  BY DEF FrontOfDecode
<1>7. wrong_path' = (wrong_path \/ x.missed)
  BY <1>0, <1>5, Zenon
<1>8. Added(x) /\ x \in Items
  <2>1. x.missed => x.unit = "bru"
    BY <1>4, <1>5, <1>6
  <2>2. x.cp_valid => x.unit \in {"bru", "lu"}
    BY <1>0, <1>4
  <2>3. ~x.finish /\ ~x.exception /\ ~x.bp_cp_valid /\ x.inst = Front
    BY <1>4
  <2>4. x \in Items
    BY <1>3 DEF Renamed
  <2>5. QED
    BY <1>3, <1>7, <2>1, <2>2, <2>3, <2>4, Zenon DEF Added
<1>9. /\ phase = "rename" /\ flush = "none"
      /\ next_inst' = IF wrong_path THEN next_inst ELSE next_inst + 1
      /\ UNCHANGED <<phase, flush, flush_pos, exec, port, rrat_valid, rrat_table, cp_r,
                     reg_valid, reg_data, reg_oldest, reg_age, done>>
  BY DEF RenameOne, CanRename, pipe_vars, reg_vars
<1>10. QED
  BY <1>8, <1>9

\* Rename: the register it takes was free, so it is not readable.
LEMMA RegRename ==
  ASSUME Body, RegInv, RenameOne, ~aborted'
  PROVE  RegInv'
<1> USE DEF Body
<1>1. PICK x \in Items : Added(x)
  BY RenameAdds
<1>2. /\ phase = "rename" /\ flush = "none"
      /\ UNCHANGED <<phase, flush, flush_pos, port, rrat_valid, reg_valid, reg_data,
                     reg_oldest, reg_age>>
  BY RenameAdds
<1>3. Renamed(x) /\ ~x.finish
  BY <1>1 DEF Added
<1>4. PICK w, c : w = rob_w /\ c = RobCount
  OBVIOUS
<1>5. /\ RobLive' = RobLive \cup {w} /\ RobItem(w)' = x
      /\ \A p \in RobLive : RobItem(p)' = RobItem(p)
  BY <1>3, <1>4, Typed, RobGrow DEF Renamed
<1>6. x.rd # 0 => x.new_phy \notin rrat_valid \cup InFlight
  <2>1. SUFFICES ASSUME x.rd # 0 PROVE x.new_phy \notin rrat_valid \cup InFlight
    OBVIOUS
  <2>2. /\ x.new_phy \notin rrat_valid
        /\ \A k \in Ks : It(k).rd # 0 => It(k).new_phy # x.new_phy
    BY <1>3, <2>1, Taken DEF Tables
  <2>3. x.new_phy \notin InFlight
    <3>1. SUFFICES ASSUME x.new_phy \in InFlight PROVE FALSE
      OBVIOUS
    <3>2. PICK p \in RobLive : RobItem(p).rd # 0 /\ x.new_phy = RobItem(p).new_phy
      BY <3>1, OwnReg
    <3>3. PICK k \in Ks : p = RobAt(k)
      BY Typed, RobIs
    <3>4. QED
      BY <2>2, <3>2, <3>3 DEF It
  <2>4. QED
    BY <2>2, <2>3
<1>7. \A p : Resulted(p)' <=> (RobItem(p)').finish /\ ~(RobItem(p)').exception
  BY <1>2, ResultedNext
<1>8. \A p \in RobLive : Resulted(p)' <=> Resulted(p)
  BY <1>2, <1>5, <1>7, ResultedIs
<1>9. InFlight \subseteq InFlight'
  BY <1>5 DEF InFlight
<1>10. ASSUME NEW p \in RobLive, RobItem(p).rd # 0 PROVE RegOf(p)'
  <2>1. RegOf(p)
    BY <1>10 DEF RegInv
  <2>2. QED
    BY <1>2, <1>5, <1>8, <2>1 DEF RegOf
<1>11. ASSUME x.rd # 0 PROVE RegOf(w)'
  <2>1. ~Resulted(w)'
    BY <1>3, <1>5, <1>7
  <2>2. x.new_phy \notin reg_valid'
    BY <1>2, <1>6, <1>11 DEF RegInv
  <2>3. QED
    BY <1>5, <2>1, <2>2 DEF RegOf
<1>12. QED
  BY <1>2, <1>5, <1>9, <1>10, <1>11 DEF RegInv

\* The register file after any step.
LEMMA RegStep ==
  ASSUME Body, RegInv, Next, ~aborted'
  PROVE  RegInv'
<1>1. CASE BruFeedback \/ CommitStorePause \/ CommitInterrupt \/ Sync
  BY <1>1, RegQuiet
<1>2. CASE CommitTrap \/ CommitConflict \/ CommitMispredict
  BY <1>2, RegFlushes
<1>3. CASE CommitRetire
  BY <1>3, RegRetire
<1>4. CASE CommitFinish
  BY <1>4, RegFinish
<1>5. CASE Wb
  BY <1>5, RegWb
<1>6. CASE Execute
  BY <1>6, RegExecute, RegRestore
<1>7. CASE RenameOne
  BY <1>7, RegRename
<1>8. QED
  BY <1>1, <1>2, <1>3, <1>4, <1>5, <1>6, <1>7 DEF Next, Commit

-----------------------------------------------------------------------------
(***************************************************************************)
(* Mispredictions and the path of the program.                             *)
(***************************************************************************)

\* An instruction is at the same place after a step that keeps positions.
LEMMA Placed ==
  ASSUME RobTyped, NEW k \in Ks, RobAt(k)' = RobAt(k)
  PROVE  \E p \in RobLive : p = RobAt(k) /\ It(k) = RobItem(p) /\ It(k)' = RobItem(p)'
<1>1. PICK p \in RobLive : p = RobAt(k)
  BY RobIs
<1>2. It(k) = RobItem(p) /\ It(k)' = RobItem(p)'
  BY <1>1 DEF It, RobItem
<1>3. QED
  BY <1>1, <1>2

\* The end of commit, by places: what is on a port gets its result.
LEMMA FinishPlaces ==
  ASSUME Body, CommitFinish
  PROVE  /\ phase = "commit" /\ phase' = "wb"
         /\ UNCHANGED <<flush, flush_pos, exec, port, next_inst, wrong_path, done, cpb, cp_w, cp_r>>
         /\ RobCount' = RobCount /\ Ks' = Ks /\ RobLive' = RobLive /\ RobCount \in Nat
         /\ \A p \in RobLive :
               /\ AlikeItem(RobItem(p)', RobItem(p))
               /\ (RobItem(p)').inst = RobItem(p).inst
               /\ (RobItem(p)').missed = RobItem(p).missed
               /\ p \notin port => RobItem(p)' = RobItem(p)
               /\ p \in port => /\ (RobItem(p)').finish
                                /\ (RobItem(p)').bp_cp_valid <=>
                                      RobItem(p).cp_valid /\ CarriesCheckpoint(RobItem(p).unit)
         /\ \A k \in Ks : /\ RobAt(k)' = RobAt(k)
                          /\ \E p \in RobLive : p = RobAt(k) /\ It(k) = RobItem(p)
                                                /\ It(k)' = RobItem(p)'
<1> USE DEF Body
<1>1. /\ phase = "commit" /\ phase' = "wb"
      /\ UNCHANGED <<flush, flush_pos, exec, port, next_inst, wrong_path, done, cpb, cp_w, cp_r, rob_w, rob_r>>
  BY DEF CommitFinish, pipe_vars, path_vars, cp_vars
<1>2. RobCount' = RobCount /\ Ks' = Ks /\ RobLive' = RobLive /\ \A k : RobAt(k)' = RobAt(k)
  BY <1>1 DEF RobCount, Ks, RobLive, RobAt
<1>3. RobTyped /\ RobCount \in Nat
  BY Typed, RobIs
<1>4. flush = "commit" => RobLive = {}
  BY DEF PointerInv, RobLive
<1>5. ASSUME NEW p \in RobLive
      PROVE  /\ AlikeItem(RobItem(p)', RobItem(p))
             /\ (RobItem(p)').inst = RobItem(p).inst
             /\ (RobItem(p)').missed = RobItem(p).missed
             /\ p \notin port => RobItem(p)' = RobItem(p)
             /\ p \in port => /\ (RobItem(p)').finish
                              /\ (RobItem(p)').bp_cp_valid <=>
                                    RobItem(p).cp_valid /\ CarriesCheckpoint(RobItem(p).unit)
  <2>1. RobItem(p)' = IF p \in port THEN FinishedItem(p) ELSE RobItem(p)
    BY <1>4, FinishItems
  <2>2. RobItem(p) \in Items
    BY OwnReg
  <2>3. CASE p \notin port
    BY <2>1, <2>3 DEF AlikeItem
  <2>4. CASE p \in port
    <3>1. /\ FinishedItem(p).finish
          /\ FinishedItem(p).bp_cp_valid <=> RobItem(p).cp_valid /\ CarriesCheckpoint(RobItem(p).unit)
      BY <2>2 DEF FinishedItem, Items
    <3>2. /\ AlikeItem(FinishedItem(p), RobItem(p))
          /\ FinishedItem(p).inst = RobItem(p).inst /\ FinishedItem(p).missed = RobItem(p).missed
      BY <2>2 DEF FinishedItem, Items, AlikeItem
    <3>3. QED
      BY <2>1, <2>4, <3>1, <3>2
  <2>5. QED
    BY <2>3, <2>4
<1>6. \A k \in Ks : \E p \in RobLive : p = RobAt(k) /\ It(k) = RobItem(p) /\ It(k)' = RobItem(p)'
  BY <1>2, <1>3, Placed
<1>7. QED
  BY <1>1, <1>2, <1>3, <1>5, <1>6

\* The mispredictions after each stage.
LEMMA MissQuiet ==
  ASSUME Body, MissInv, CommitStorePause \/ CommitInterrupt \/ Sync \/ Wb
  PROVE  MissInv'
<1> USE DEF Body
<1>1. UNCHANGED <<rob, rob_w, rob_r, exec>>
  BY DEF CommitStorePause, CommitInterrupt, Sync, Wb, rob_vars, pipe_vars
<1>2. flush' = "commit" \/ exec = {} \/ UNCHANGED <<flush, flush_pos>>
  <2>1. Sync => exec = {}
    BY DEF Sync, PipeInv
  <2>2. QED
    BY <2>1 DEF CommitStorePause, CommitInterrupt, Wb
<1>3. /\ Ks' = Ks /\ (\A k : It(k)' = It(k)) /\ (\A p : BruFlush(p)' = BruFlush(p))
      /\ (\A k : Restores(k)' = Restores(k))
  BY <1>1, RobSame DEF Restores
<1>4. \A k \in Ks' : (It(k)').missed => (It(k)').unit = "bru"
  BY <1>3 DEF MissInv
<1>5. \A k \in Ks' : (It(k)').finish /\ Restores(k)' => (It(k)').bp_cp_valid
  BY <1>3 DEF MissInv
<1>6. flush' # "commit" => \A p \in exec' : BruFlush(p)' => flush' = "bru" /\ p = flush_pos'
  <2>1. SUFFICES ASSUME flush' # "commit", NEW p \in exec', BruFlush(p)'
                 PROVE  flush' = "bru" /\ p = flush_pos'
    OBVIOUS
  <2>2. p \in exec /\ BruFlush(p) /\ flush' = flush /\ flush_pos' = flush_pos
    BY <1>1, <1>2, <1>3, <2>1
  <2>3. QED
    BY <2>1, <2>2 DEF MissInv
<1>7. QED
  BY <1>4, <1>5, <1>6 DEF MissInv

\* One branch executes in a cycle, so there is one to recover from.
LEMMA MissBru ==
  ASSUME Body, MissInv, BruFeedback
  PROVE  MissInv'
<1> USE DEF Body
<1>1. UNCHANGED <<rob, rob_w, rob_r>> /\ phase = "bru"
  BY DEF BruFeedback, rob_vars
<1>2. PICK E \in SUBSET Waiting :
         /\ \A p, q \in E : RobItem(p).unit = "bru" /\ RobItem(q).unit = "bru" => p = q
         /\ exec' = E
         /\ IF \E p \in E : BruFlush(p)
            THEN flush' = "bru" /\ flush_pos' = CHOOSE p \in E : BruFlush(p)
            ELSE UNCHANGED <<flush, flush_pos>>
  BY DEF BruFeedback
<1>3. /\ Ks' = Ks /\ (\A k : It(k)' = It(k)) /\ (\A p : BruFlush(p)' = BruFlush(p))
      /\ (\A k : Restores(k)' = Restores(k))
  BY <1>1, RobSame DEF Restores
<1>4. ASSUME NEW p \in exec', BruFlush(p)' PROVE flush' = "bru" /\ p = flush_pos'
  <2>1. p \in E /\ BruFlush(p)
    BY <1>2, <1>3, <1>4
  <2>2. flush' = "bru" /\ flush_pos' = CHOOSE q \in E : BruFlush(q)
    BY <1>2, <2>1
  <2>3. flush_pos' \in E /\ BruFlush(flush_pos')
    BY <2>1, <2>2
  <2>4. p = flush_pos'
    BY <1>2, <2>1, <2>3 DEF BruFlush
  <2>5. QED
    BY <2>2, <2>4
<1>5. \A k \in Ks' : (It(k)').missed => (It(k)').unit = "bru"
  BY <1>3 DEF MissInv
<1>6. \A k \in Ks' : (It(k)').finish /\ Restores(k)' => (It(k)').bp_cp_valid
  BY <1>3 DEF MissInv
<1>7. QED
  BY <1>4, <1>5, <1>6 DEF MissInv

\* The result of a branch with a checkpoint says so.
LEMMA MissFinish ==
  ASSUME Body, MissInv, CommitFinish
  PROVE  MissInv'
<1>1. /\ UNCHANGED <<flush, flush_pos, exec, port>> /\ Ks' = Ks
      /\ \A p \in RobLive :
               /\ AlikeItem(RobItem(p)', RobItem(p))
               /\ (RobItem(p)').missed = RobItem(p).missed
               /\ p \notin port => RobItem(p)' = RobItem(p)
               /\ p \in port => /\ (RobItem(p)').finish
                                /\ (RobItem(p)').bp_cp_valid <=>
                                      RobItem(p).cp_valid /\ CarriesCheckpoint(RobItem(p).unit)
      /\ \A k \in Ks : /\ RobAt(k)' = RobAt(k)
                       /\ \E p \in RobLive : p = RobAt(k) /\ It(k) = RobItem(p)
                                             /\ It(k)' = RobItem(p)'
  BY FinishPlaces
<1>2. ASSUME NEW k \in Ks
      PROVE  /\ (It(k)').missed => (It(k)').unit = "bru"
             /\ (It(k)').finish /\ Restores(k)' => (It(k)').bp_cp_valid
  <2>1. PICK p \in RobLive : p = RobAt(k) /\ It(k) = RobItem(p) /\ It(k)' = RobItem(p)'
    BY <1>1
  <2>2. /\ It(k).missed => It(k).unit = "bru"
        /\ It(k).finish /\ Restores(k) => It(k).bp_cp_valid
    BY DEF MissInv
  <2>3. (It(k)').missed = It(k).missed /\ (It(k)').unit = It(k).unit
        /\ (It(k)').cp_valid = It(k).cp_valid
    BY <1>1, <2>1 DEF AlikeItem
  <2>4. ASSUME (It(k)').finish, Restores(k)' PROVE (It(k)').bp_cp_valid
    <3>1. It(k).unit = "bru" /\ It(k).cp_valid
      BY <2>3, <2>4 DEF Restores
    <3>2. CASE p \in port
      BY <1>1, <2>1, <3>1, <3>2 DEF CarriesCheckpoint
    <3>3. CASE p \notin port
      BY <1>1, <2>1, <2>2, <2>4, <3>1, <3>3 DEF Restores
    <3>4. QED
      BY <3>2, <3>3
  <2>5. QED
    BY <2>2, <2>3, <2>4
<1>3. ASSUME flush' # "commit", NEW p \in exec', BruFlush(p)'
      PROVE  flush' = "bru" /\ p = flush_pos'
  <2>1. p \in RobLive /\ p \in exec
    BY <1>1, <1>3 DEF Body, PipeInv
  <2>2. AlikeItem(RobItem(p)', RobItem(p)) /\ (RobItem(p)').missed = RobItem(p).missed
    BY <1>1, <2>1
  <2>3. BruFlush(p)
    BY <1>3, <2>2 DEF AlikeItem, BruFlush
  <2>4. QED
    BY <1>1, <1>3, <2>1, <2>3 DEF MissInv
<1>4. QED
  BY <1>1, <1>2, <1>3 DEF MissInv

\* Recoveries, flushes and retirement only take instructions away.
LEMMA MissFewer ==
  ASSUME MissInv, \A k \in Ks' : \E j \in Ks : It(k)' = It(j),
         \/ exec' = {} \/ flush' = "commit"
         \/ UNCHANGED <<flush, flush_pos, exec>> /\ \A p : BruFlush(p)' = BruFlush(p)
  PROVE  MissInv'
<1>1. ASSUME NEW k \in Ks'
      PROVE  /\ (It(k)').missed => (It(k)').unit = "bru"
             /\ (It(k)').finish /\ Restores(k)' => (It(k)').bp_cp_valid
  <2>1. PICK j \in Ks : It(k)' = It(j)
    OBVIOUS
  <2>2. /\ It(j).missed => It(j).unit = "bru"
        /\ It(j).finish /\ Restores(j) => It(j).bp_cp_valid
    BY DEF MissInv
  <2>3. QED
    BY <2>1, <2>2 DEF Restores
<1>2. ASSUME flush' # "commit", NEW p \in exec', BruFlush(p)'
      PROVE  flush' = "bru" /\ p = flush_pos'
  BY <1>2 DEF MissInv
<1>3. QED
  BY <1>1, <1>2 DEF MissInv


\* A flush, by places.
LEMMA FlushPlaces ==
  ASSUME FlushAll
  PROVE  /\ RobCount' = 0 /\ Ks' = {} /\ RobLive' = {} /\ flush' = "commit" /\ ~wrong_path'
         /\ cp_w' = 0 /\ cp_r' = 0
<1>1. rob_w' = 0 /\ rob_r' = 0 /\ flush' = "commit" /\ wrong_path' = FALSE /\ cp_w' = 0 /\ cp_r' = 0
  BY DEF FlushAll
<1>2. RobCount' = 0
  BY <1>1 DEF RobCount, RingCount
<1>3. QED
  BY <1>1, <1>2 DEF Ks, RobLive

\* Retirement, by places.
LEMMA RetirePlaces ==
  ASSUME Body, CommitRetire
  PROVE  /\ RobTyped /\ RobCount \in Nat /\ RobCount' = RobCount - 1 /\ 0 \in Ks
         /\ \A k \in Ks' : k + 1 \in Ks /\ RobAt(k)' = RobAt(k + 1) /\ It(k)' = It(k + 1)
         /\ RobLive' = RobLive \ {rob_r} /\ rob_r \in RobLive /\ RobAt(0) = rob_r
         /\ \A p : RobItem(p)' = RobItem(p)
         /\ UNCHANGED <<flush, flush_pos, exec, port, next_inst, wrong_path, cpb, cp_w>>
         /\ It(0) = Head /\ RobItem(rob_r) = Head /\ Head \in Items
         /\ done' = It(0).inst /\ It(0).finish /\ ~It(0).exception
         /\ It(0).unit = "bru" => ~It(0).missed \/ It(0).bp_cp_valid
         /\ cp_r' = IF It(0).bp_cp_valid /\ cp_r # cp_w THEN RingNext(cp_r, CB) ELSE cp_r
<1> USE DEF Body
<1>1. rob_r # rob_w /\ 0 \in Ks /\ Head = It(0) /\ Head.finish /\ Head \in Items
  BY HeadIs DEF CommitRetire
<1>2. /\ rob_r' = RingNext(rob_r, ROB_SIZE) /\ ~Head.exception
      /\ UNCHANGED <<flush, flush_pos, exec, port, next_inst, wrong_path, cpb, cp_w, rob, rob_w>>
      /\ done' = Head.inst
      /\ Head.unit = "bru" => ~Head.missed \/ Head.bp_cp_valid
      /\ cp_r' = IF Head.bp_cp_valid /\ cp_r # cp_w THEN RingNext(cp_r, CB) ELSE cp_r
  BY DEF CommitRetire, pipe_vars, CB
<1>3. RobTyped
  BY Typed
<1>4. /\ RobCount' = RobCount - 1
      /\ \A k \in Ks' : k + 1 \in Ks /\ RobAt(k)' = RobAt(k + 1) /\ It(k)' = It(k + 1)
      /\ RobLive' = RobLive \ {rob_r} /\ \A p : RobItem(p)' = RobItem(p)
  BY <1>1, <1>2, <1>3, RobShift
<1>5. RobCount \in Nat /\ RobAt(0) = rob_r /\ rob_r \in RobLive
  BY <1>1, <1>3, RobIs
<1>6. RobItem(rob_r) = Head
  BY DEF Head
<1>7. QED
  BY <1>1, <1>2, <1>3, <1>4, <1>5, <1>6

\* A recovery, by places: what follows the branch at place j goes.
Cut(j) ==
    /\ flush_pos = RobAt(j) /\ BruFlush(flush_pos) /\ flush_pos \in exec
    /\ RobCount' = j + 1
    /\ \A k \in Ks' : k \in Ks /\ RobAt(k)' = RobAt(k) /\ It(k)' = It(k)
    /\ RobLive' = {p \in RobLive : ~RingYounger(p, flush_pos, ROB_SIZE)}
    /\ \A p : RobItem(p)' = RobItem(p)
    /\ Restores(j) /\ Saved(j) /\ cp_w' = Cp(j).new_cp_w
    /\ wrong_path' = (It(j).inst = 0)
    /\ next_inst' = IF It(j).inst = 0 THEN next_inst ELSE It(j).inst + 1
    /\ port' = {p \in exec : ~RingYounger(p, flush_pos, ROB_SIZE)}
    /\ exec' = {}

\* The recovery of the branch unit is a cut.
LEMMA RestorePlaces ==
  ASSUME Body, Execute, flush = "bru"
  PROVE  RobTyped /\ RobCount \in Nat /\ UNCHANGED <<cpb, cp_r, done>> /\ \E j \in Ks : Cut(j)
<1> USE DEF Body
<1>1. /\ phase = "execute" /\ exec' = {} /\ port' = Executed
      /\ UNCHANGED <<rob, rob_r, cpb, cp_r, done>>
  BY ExecuteCommon
<1>2. RobTyped /\ RobCount \in Nat
  BY Typed, RobIs
<1>3. flush_pos \in exec /\ BruFlush(flush_pos) /\ flush_pos \in RobLive
  BY <1>1 DEF PipeInv
<1>4. PICK j \in Ks : flush_pos = RobAt(j)
  BY <1>2, <1>3, RobIs
<1>5. /\ Restores(j) /\ Saved(j) /\ cp_w' = Cp(j).new_cp_w
      /\ rob_w' = RingNext(RobAt(j), ROB_SIZE)
  BY <1>4, RestoreFacts
<1>6. /\ RobCount' = j + 1
      /\ \A k \in Ks' : k \in Ks /\ RobAt(k)' = RobAt(k) /\ It(k)' = It(k)
      /\ RobLive' = {p \in RobLive : ~RingYounger(p, RobAt(j), ROB_SIZE)}
      /\ \A p : RobItem(p)' = RobItem(p)
  BY <1>1, <1>2, <1>5, RobCut
<1>7. RobItem(flush_pos) = It(j)
  BY <1>4 DEF It
<1>8. /\ wrong_path' = (It(j).inst = 0)
      /\ next_inst' = IF It(j).inst = 0 THEN next_inst ELSE It(j).inst + 1
  BY <1>7 DEF Execute, RestoreCheckpoint
<1>9. port' = {p \in exec : ~RingYounger(p, flush_pos, ROB_SIZE)}
  BY <1>1 DEF Executed
<1>10. Cut(j)
  BY <1>1, <1>3, <1>4, <1>5, <1>6, <1>8, <1>9 DEF Cut
<1>11. QED
  BY <1>1, <1>2, <1>10

\* Rename, by places.
Grown(x) ==
    /\ RobCount' = RobCount + 1
    /\ \A k \in Ks : k \in Ks' /\ RobAt(k)' = RobAt(k) /\ It(k)' = It(k) /\ k < RobCount
    /\ RobCount \in Ks' /\ (\A k \in Ks' : k \in Ks \/ k = RobCount)
    /\ \A c : c = RobCount => It(c)' = x /\ RobAt(c)' = rob_w
    /\ RobLive' = RobLive \cup {rob_w} /\ rob_w \notin RobLive
    /\ \A p : p = rob_w => RobItem(p)' = x
    /\ \A p \in RobLive : RobItem(p)' = RobItem(p)

\* The instruction that rename adds is the youngest.
LEMMA RenamePlaces ==
  ASSUME Body, NEW x, Renamed(x)
  PROVE  RobTyped /\ RobCount \in Nat /\ Grown(x)
<1> USE DEF Body
<1>1. RobTyped /\ RobCount \in Nat /\ DOMAIN rob = Slots(ROB_SIZE)
  BY Typed, RobIs
<1>2. PICK w, c : w = rob_w /\ c = RobCount
  OBVIOUS
<1>3. /\ RobTyped' /\ RobCount' = c + 1 /\ c \in Nat
      /\ \A k \in Ks : k \in Ks' /\ RobAt(k)' = RobAt(k) /\ It(k)' = It(k) /\ k < c
      /\ c \in Ks' /\ (\A k \in Ks' : k \in Ks \/ k = c)
      /\ RobAt(c)' = w /\ RobItem(w)' = x /\ It(c)' = x
      /\ RobLive' = RobLive \cup {w}
      /\ \A p \in RobLive : RobItem(p)' = RobItem(p)
  BY <1>1, <1>2, RobGrow DEF Renamed
<1>4. w \notin RobLive
  <2>1. SUFFICES ASSUME w \in RobLive PROVE FALSE
    OBVIOUS
  <2>2. PICK k \in Ks : w = RobAt(k)
    BY <1>1, <2>1, RobIs
  <2>3. RingCount(w, rob_r, ROB_SIZE) = k /\ k < c
    BY <1>1, <1>3, <2>2, RobIs
  <2>4. RingCount(w, rob_r, ROB_SIZE) = c
    BY <1>2 DEF RobCount
  <2>5. QED
    BY <1>3, <2>3, <2>4
<1>5. QED
  BY <1>1, <1>2, <1>3, <1>4 DEF Grown

\* The mispredictions after any step.
LEMMA MissStep ==
  ASSUME Body, MissInv, Next, ~aborted'
  PROVE  MissInv'
<1> USE DEF Body
<1>1. CASE CommitStorePause \/ CommitInterrupt \/ Sync \/ Wb
  BY <1>1, MissQuiet
<1>2. CASE BruFeedback
  BY <1>2, MissBru
<1>3. CASE CommitTrap \/ CommitConflict \/ CommitMispredict
  <2>1. FlushAll
    BY <1>3 DEF CommitTrap, CommitConflict, CommitMispredict
  <2>2. Ks' = {} /\ flush' = "commit"
    BY <2>1, FlushPlaces
  <2>3. QED
    BY <2>2, MissFewer
<1>4. CASE CommitRetire
  <2>1. /\ UNCHANGED <<flush, flush_pos, exec>> /\ \A p : RobItem(p)' = RobItem(p)
        /\ \A k \in Ks' : k + 1 \in Ks /\ It(k)' = It(k + 1)
    BY <1>4, RetirePlaces
  <2>2. \A p : BruFlush(p)' = BruFlush(p)
    BY <2>1 DEF BruFlush
  <2>3. \A k \in Ks' : \E j \in Ks : It(k)' = It(j)
    BY <2>1
  <2>4. QED
    BY <2>1, <2>2, <2>3, MissFewer
<1>5. CASE CommitFinish
  BY <1>5, MissFinish
<1>6. CASE Execute
  <2>1. exec' = {} /\ UNCHANGED <<rob, rob_r>>
    BY <1>6, ExecuteCommon
  <2>2. CASE flush = "bru"
    <3>1. PICK j \in Ks : Cut(j)
      BY <1>6, <2>2, RestorePlaces
    <3>2. \A k \in Ks' : k \in Ks /\ It(k)' = It(k)
      BY <3>1 DEF Cut
    <3>3. QED
      BY <2>1, <3>2, MissFewer
  <2>3. CASE flush # "bru"
    <3>1. rob_w' = rob_w
      BY <1>6, <2>3 DEF Execute
    <3>2. Ks' = Ks /\ \A k : It(k)' = It(k)
      BY <2>1, <3>1, RobSame
    <3>3. QED
      BY <2>1, <3>2, MissFewer
  <2>4. QED
    BY <2>2, <2>3
<1>7. CASE RenameOne
  <2>1. PICK x \in Items : Added(x)
    BY <1>7, RenameAdds
  <2>2. phase = "rename" /\ UNCHANGED <<flush, exec>>
    BY <1>7, RenameAdds
  <2>3. exec' = {}
    BY <2>2 DEF PipeInv
  <2>4. Renamed(x) /\ ~x.finish /\ (x.missed => x.unit = "bru")
    BY <2>1 DEF Added
  <2>5. Grown(x)
    BY <2>4, RenamePlaces
  <2>6. ASSUME NEW k \in Ks'
        PROVE  /\ (It(k)').missed => (It(k)').unit = "bru"
               /\ (It(k)').finish /\ Restores(k)' => (It(k)').bp_cp_valid
    <3>1. CASE k \in Ks
      <4>1. It(k)' = It(k)
        BY <2>5, <3>1 DEF Grown
      <4>2. /\ It(k).missed => It(k).unit = "bru"
            /\ It(k).finish /\ Restores(k) => It(k).bp_cp_valid
        BY <3>1 DEF MissInv
      <4>3. QED
        BY <4>1, <4>2 DEF Restores
    <3>2. CASE k = RobCount
      <4>1. It(k)' = x
        BY <2>5, <3>2 DEF Grown
      <4>2. QED
        BY <2>4, <4>1
    <3>3. QED
      BY <2>5, <3>1, <3>2 DEF Grown
  <2>7. QED
    BY <2>3, <2>6 DEF MissInv
<1>8. QED
  BY <1>1, <1>2, <1>3, <1>4, <1>5, <1>6, <1>7 DEF Next, Commit


\* Steps that leave the instructions and their standing alone.
LEMMA PathKept ==
  ASSUME PathInv, Ks' = Ks, UNCHANGED <<next_inst, wrong_path, done>>,
         \A k \in Ks : (It(k)').inst = It(k).inst /\ (OffPath(k)' <=> OffPath(k))
  PROVE  PathInv'
<1>1. \A k : InstAt(k)' = InstAt(k)
  BY DEF InstAt, Front
<1>2. ASSUME NEW k \in Ks'
      PROVE  InstAt(k + 1)' = IF OffPath(k)' THEN 0 ELSE (It(k)').inst + 1
  <2>1. InstAt(k + 1) = IF OffPath(k) THEN 0 ELSE It(k).inst + 1
    BY DEF PathInv
  <2>2. InstAt(k + 1)' = InstAt(k + 1)
    BY <1>1
  <2>3. QED
    BY <2>1, <2>2
<1>3. QED
  BY <1>1, <1>2 DEF PathInv

\* Instructions are numbered from 1.
LEMMA Successor == \A n \in Nat : n + 1 # 0
OBVIOUS

\* A flush restarts the front end behind the instruction completed last.
LEMMA PathFlush ==
  ASSUME FlushAll, done' \in Nat, next_inst' = done' + 1
  PROVE  PathInv'
<1>1. Ks' = {} /\ ~wrong_path'
  BY FlushPlaces
<1>2. InstAt(0)' = next_inst'
  BY <1>1 DEF InstAt, Front
<1>3. next_inst' # 0
  BY Successor
<1>4. InstAt(0)' = done' + 1
  BY <1>2
<1>5. QED
  BY <1>1, <1>3, <1>4 DEF PathInv

\* The oldest instruction is on the path, and is the next one of it.
LEMMA HeadOnPath ==
  ASSUME Body, PathInv, 0 \in Ks
  PROVE  It(0).inst = done + 1 /\ done \in Nat /\ It(0).inst \in Nat
<1>1. InstAt(0) = It(0).inst
  BY DEF InstAt
<1>2. done \in Nat
  BY DEF Body, TypeOK
<1>3. QED
  BY <1>1, <1>2 DEF PathInv

\* Execution makes no instruction leave or join the path, but for the branch that
\* recovers.
LEMMA OffPathExecute ==
  ASSUME Body, MissInv, Execute, NEW k \in Ks, RobAt(k)' = RobAt(k), It(k)' = It(k),
         RobAt(k) \in port' <=> RobAt(k) \in exec,
         flush = "bru" => RobAt(k) # flush_pos
  PROVE  OffPath(k)' <=> OffPath(k)
<1> USE DEF Body
<1>1. phase = "execute"
  BY ExecuteCommon
<1>2. flush # "commit"
  BY DEF PointerInv, Ks
<1>3. Restores(k)' <=> Restores(k)
  BY DEF Restores
<1>4. ASSUME It(k).missed, Restores(k)
      PROVE  Recovered(k)' <=> Recovered(k)
  <2>1. BruFlush(RobAt(k))
    BY <1>4 DEF BruFlush, Restores, It
  <2>2. RobAt(k) \notin exec
    BY <1>2, <2>1 DEF MissInv
  <2>3. RobAt(k) \in port => It(k).finish
    BY <1>1, <1>2 DEF PipeInv, It
  <2>4. (RobAt(k) \in port)' <=> FALSE
    BY <2>2
  <2>5. QED
    BY <1>3, <1>4, <2>3, <2>4 DEF Recovered
<1>5. QED
  BY <1>3, <1>4 DEF OffPath, Recovered

\* The path after each stage.
LEMMA PathQuiet ==
  ASSUME Body, PathInv, BruFeedback \/ CommitStorePause \/ CommitInterrupt \/ Sync \/ Wb
  PROVE  PathInv'
<1>1. UNCHANGED <<rob, rob_w, rob_r, port, next_inst, wrong_path, done>>
  BY DEF BruFeedback, CommitStorePause, CommitInterrupt, Sync, Wb, rob_vars, pipe_vars, path_vars
<1>2. Ks' = Ks /\ (\A k : It(k)' = It(k) /\ RobAt(k)' = RobAt(k))
  BY <1>1, RobSame
<1>3. \A k \in Ks : OffPath(k)' <=> OffPath(k)
  BY <1>1, <1>2 DEF OffPath, Recovered, Restores
<1>4. QED
  BY <1>1, <1>2, <1>3, PathKept

\* A result makes a branch finished that was on the port.
LEMMA PathFinish ==
  ASSUME Body, PathInv, CommitFinish
  PROVE  PathInv'
<1>1. /\ UNCHANGED <<port, next_inst, wrong_path, done>> /\ Ks' = Ks
      /\ \A p \in RobLive :
               /\ AlikeItem(RobItem(p)', RobItem(p))
               /\ (RobItem(p)').inst = RobItem(p).inst
               /\ (RobItem(p)').missed = RobItem(p).missed
               /\ p \notin port => RobItem(p)' = RobItem(p)
      /\ \A k \in Ks : /\ RobAt(k)' = RobAt(k)
                       /\ \E p \in RobLive : p = RobAt(k) /\ It(k) = RobItem(p)
                                             /\ It(k)' = RobItem(p)'
  BY FinishPlaces
<1>2. ASSUME NEW k \in Ks
      PROVE  (It(k)').inst = It(k).inst /\ (OffPath(k)' <=> OffPath(k))
  <2>1. PICK p \in RobLive : p = RobAt(k) /\ It(k) = RobItem(p) /\ It(k)' = RobItem(p)'
    BY <1>1
  <2>2. /\ (It(k)').inst = It(k).inst /\ (It(k)').missed = It(k).missed
        /\ (It(k)').unit = It(k).unit /\ (It(k)').cp_valid = It(k).cp_valid
    BY <1>1, <2>1 DEF AlikeItem
  <2>3. p \notin port => It(k)' = It(k)
    BY <1>1, <2>1
  <2>4. (RobAt(k) \in port)' <=> p \in port
    BY <1>1, <2>1
  <2>5. Recovered(k)' <=> Recovered(k)
    <3>1. CASE p \in port
      BY <2>1, <2>2, <2>4, <3>1 DEF Recovered, Restores
    <3>2. CASE p \notin port
      BY <2>1, <2>3, <2>4, <3>2 DEF Recovered, Restores
    <3>3. QED
      BY <3>1, <3>2
  <2>6. QED
    BY <2>2, <2>5 DEF OffPath
<1>3. QED
  BY <1>1, <1>2, PathKept

\* Execution without a recovery.
LEMMA PathExecute ==
  ASSUME Body, MissInv, PathInv, Execute, flush # "bru"
  PROVE  PathInv'
<1> USE DEF Body
<1>1. port' = Executed /\ UNCHANGED <<rob, rob_r, done>>
  BY ExecuteCommon
<1>2. UNCHANGED <<rob_w, wrong_path, next_inst>>
  BY DEF Execute
<1>3. Ks' = Ks /\ (\A k : It(k)' = It(k) /\ RobAt(k)' = RobAt(k))
  BY <1>1, <1>2, RobSame
<1>4. flush = "commit" => Ks = {}
  BY DEF PointerInv, Ks
<1>5. flush # "commit" => port' = exec
  BY <1>1 DEF Executed
<1>6. \A k \in Ks : OffPath(k)' <=> OffPath(k)
  BY <1>3, <1>4, <1>5, OffPathExecute
<1>7. QED
  BY <1>1, <1>2, <1>3, <1>6, PathKept

\* A recovery: the front end goes on behind the branch.
LEMMA PathRestore ==
  ASSUME Body, MissInv, PathInv, Execute, flush = "bru"
  PROVE  PathInv'
<1> USE DEF Body
<1>1. RobTyped /\ RobCount \in Nat /\ done' = done
  BY RestorePlaces
<1>2. PICK j \in Ks : Cut(j)
  BY RestorePlaces
<1>3. /\ flush_pos = RobAt(j) /\ flush_pos \in exec /\ RobCount' = j + 1
      /\ \A k \in Ks' : k \in Ks /\ RobAt(k)' = RobAt(k) /\ It(k)' = It(k)
      /\ wrong_path' = (It(j).inst = 0)
      /\ next_inst' = IF It(j).inst = 0 THEN next_inst ELSE It(j).inst + 1
      /\ port' = {p \in exec : ~RingYounger(p, flush_pos, ROB_SIZE)}
      /\ Restores(j)
  BY <1>2 DEF Cut
<1>4. j \in Nat /\ Ks' = 0..j /\ 0 \in Ks' /\ j \in Ks' /\ It(j).inst \in Nat
  <2>1. It(j) \in Items
    BY Typed
  <2>2. QED
    BY <1>1, <1>3, <2>1 DEF Ks, Items
<1>5. ASSUME NEW k \in Ks' PROVE RobAt(k) \in port' <=> RobAt(k) \in exec
  <2>1. ~(k > j) /\ k \in Ks
    BY <1>3, <1>4
  <2>2. ~RingYounger(RobAt(k), RobAt(j), ROB_SIZE)
    BY <1>1, <2>1, RobIs
  <2>3. QED
    BY <1>3, <2>2
<1>6. ASSUME NEW k \in Ks', k # j PROVE OffPath(k)' <=> OffPath(k)
  <2>1. k \in Ks /\ RobAt(k)' = RobAt(k) /\ It(k)' = It(k)
    BY <1>3
  <2>2. RobAt(k) # RobAt(j)
    BY <1>1, <1>6, <2>1, RobIs
  <2>3. QED
    BY <1>3, <1>5, <2>1, <2>2, OffPathExecute
<1>7. OffPath(j)' <=> It(j).inst = 0
  <2>1. RobAt(j)' = RobAt(j) /\ It(j)' = It(j)
    BY <1>3, <1>4
  <2>2. (RobAt(j) \in port)'
    BY <1>3, <1>4, <1>5, <2>1
  <2>3. Recovered(j)'
    BY <1>3, <2>1, <2>2 DEF Recovered, Restores
  <2>4. QED
    BY <2>1, <2>3 DEF OffPath
<1>8. \A k \in Ks' : InstAt(k)' = InstAt(k)
  BY <1>3 DEF InstAt
<1>9. next_inst' # 0 /\ InstAt(0)' = done' + 1
  BY <1>1, <1>3, <1>4, <1>8 DEF PathInv
<1>10. ASSUME NEW k \in Ks'
       PROVE  InstAt(k + 1)' = IF OffPath(k)' THEN 0 ELSE (It(k)').inst + 1
  <2>1. CASE k = j
    <3>1. j + 1 \notin Ks'
      BY <1>4
    <3>2. InstAt(j + 1)' = IF wrong_path' THEN 0 ELSE next_inst'
      BY <3>1 DEF InstAt, Front
    <3>3. It(j)' = It(j)
      BY <1>3, <1>4
    <3>4. CASE It(j).inst = 0
      BY <1>3, <1>7, <2>1, <3>2, <3>3, <3>4
    <3>5. CASE It(j).inst # 0
      BY <1>3, <1>7, <2>1, <3>2, <3>3, <3>5
    <3>6. QED
      BY <3>4, <3>5
  <2>2. CASE k # j
    <3>1. k + 1 \in Ks' /\ k \in Ks
      BY <1>3, <1>4, <2>2
    <3>2. InstAt(k + 1) = IF OffPath(k) THEN 0 ELSE It(k).inst + 1
      BY <3>1 DEF PathInv
    <3>3. InstAt(k + 1)' = InstAt(k + 1) /\ It(k)' = It(k)
      BY <1>3, <1>8, <3>1
    <3>4. QED
      BY <1>6, <2>2, <3>2, <3>3
  <2>3. QED
    BY <2>1, <2>2
<1>11. QED
  BY <1>9, <1>10 DEF PathInv

\* Retirement: a mispredicted branch that gets here has been recovered from, so
\* the next instruction is on the path.
LEMMA PathRetire ==
  ASSUME Body, MissInv, PathInv, CommitRetire
  PROVE  PathInv'
<1> USE DEF Body
<1>1. /\ RobTyped /\ RobCount \in Nat /\ RobCount' = RobCount - 1 /\ 0 \in Ks
      /\ \A k \in Ks' : k + 1 \in Ks /\ RobAt(k)' = RobAt(k + 1) /\ It(k)' = It(k + 1)
      /\ UNCHANGED <<port, next_inst, wrong_path>>
      /\ done' = It(0).inst /\ It(0).finish
      /\ It(0).unit = "bru" => ~It(0).missed \/ It(0).bp_cp_valid
  BY RetirePlaces
<1>2. ~OffPath(0)
  <2>1. It(0).inst # 0
    BY <1>1, HeadOnPath
  <2>2. ASSUME It(0).missed PROVE Recovered(0)
    <3>1. It(0).unit = "bru"
      BY <1>1, <2>2 DEF MissInv
    <3>2. It(0).cp_valid
      BY <1>1, <2>2, <3>1 DEF ShapeInv
    <3>3. QED
      BY <1>1, <3>1, <3>2 DEF Recovered, Restores
  <2>3. QED
    BY <2>1, <2>2 DEF OffPath
<1>3. \A k \in Nat : InstAt(k)' = InstAt(k + 1)
  <2> SUFFICES ASSUME NEW k \in Nat PROVE InstAt(k)' = InstAt(k + 1)
    OBVIOUS
  <2>1. k \in Ks' <=> k + 1 \in Ks
    BY <1>1 DEF Ks
  <2>2. CASE k \in Ks'
    BY <1>1, <2>1, <2>2 DEF InstAt
  <2>3. CASE k \notin Ks'
    BY <1>1, <2>1, <2>3 DEF InstAt, Front
  <2>4. QED
    BY <2>2, <2>3
<1>4. InstAt(0)' = done' + 1
  <2>1. InstAt(0 + 1) = IF OffPath(0) THEN 0 ELSE It(0).inst + 1
    BY <1>1 DEF PathInv
  <2>2. QED
    BY <1>1, <1>2, <1>3, <2>1
<1>5. ASSUME NEW k \in Ks'
      PROVE  InstAt(k + 1)' = IF OffPath(k)' THEN 0 ELSE (It(k)').inst + 1
  <2>1. k \in Nat /\ k + 1 \in Nat /\ k + 1 \in Ks
    BY <1>1 DEF Ks
  <2>2. PICK j \in Ks : j = k + 1
    BY <2>1
  <2>3. InstAt(j + 1) = IF OffPath(j) THEN 0 ELSE It(j).inst + 1
    BY DEF PathInv
  <2>4. InstAt(k + 1)' = InstAt(j + 1)
    BY <1>3, <2>1, <2>2
  <2>5. RobAt(k)' = RobAt(j) /\ It(k)' = It(j)
    BY <1>1, <2>2
  <2>6. OffPath(k)' <=> OffPath(j)
    BY <1>1, <2>5 DEF OffPath, Recovered, Restores
  <2>7. QED
    BY <2>3, <2>4, <2>5, <2>6
<1>6. QED
  BY <1>1, <1>4, <1>5 DEF PathInv

\* Rename takes the front of the decode queue.
LEMMA PathRename ==
  ASSUME Body, PathInv, RenameOne, ~aborted'
  PROVE  PathInv'
<1> USE DEF Body
<1>1. PICK x \in Items : Added(x)
  BY RenameAdds
<1>2. /\ phase = "rename" /\ flush = "none" /\ UNCHANGED <<port, done>>
      /\ next_inst' = IF wrong_path THEN next_inst ELSE next_inst + 1
  BY RenameAdds
<1>3. Renamed(x) /\ ~x.finish /\ x.inst = Front /\ x.inst \in Nat
  BY <1>1 DEF Added, Items
<1>4. RobTyped /\ RobCount \in Nat /\ Grown(x)
  BY <1>3, RenamePlaces
<1>5. PICK c \in Nat : c = RobCount
  BY <1>4
<1>6. /\ RobCount' = c + 1
      /\ \A k \in Ks : k \in Ks' /\ RobAt(k)' = RobAt(k) /\ It(k)' = It(k) /\ k < c
      /\ \A k \in Ks' : k \in Ks \/ k = c
      /\ c \in Ks' /\ It(c)' = x /\ RobAt(c)' = rob_w /\ rob_w \notin RobLive
  BY <1>4, <1>5 DEF Grown
<1>7. port \subseteq RobLive
  BY <1>2 DEF PipeInv
<1>8. c \notin Ks /\ c + 1 \notin Ks'
  BY <1>5, <1>6 DEF Ks
<1>9. \A k \in Ks' : InstAt(k)' = InstAt(k)
  <2> SUFFICES ASSUME NEW k \in Ks' PROVE InstAt(k)' = InstAt(k)
    OBVIOUS
  <2>1. CASE k \in Ks
    BY <1>6, <2>1 DEF InstAt
  <2>2. CASE k = c
    BY <1>3, <1>6, <1>8, <2>2 DEF InstAt
  <2>3. QED
    BY <1>6, <2>1, <2>2
<1>10. next_inst' # 0 /\ next_inst # 0 /\ next_inst \in Nat
  BY <1>2 DEF PathInv, TypeOK
<1>11. InstAt(0)' = done' + 1
  <2>1. 0 \in Ks'
    BY <1>5, <1>6 DEF Ks
  <2>2. QED
    BY <1>2, <1>9, <2>1 DEF PathInv
<1>12. ASSUME NEW k \in Ks PROVE OffPath(k)' <=> OffPath(k)
  BY <1>2, <1>6 DEF OffPath, Recovered, Restores
<1>13. OffPath(c)' <=> wrong_path'
  <2>1. ~Recovered(c)'
    <3>1. (RobAt(c) \in port)' <=> FALSE
      BY <1>2, <1>6, <1>7
    <3>2. ~(It(c)').finish
      BY <1>3, <1>6
    <3>3. QED
      BY <3>1, <3>2 DEF Recovered
  <2>2. OffPath(c)' <=> x.inst = 0 \/ x.missed
    BY <1>6, <2>1 DEF OffPath
  <2>3. x.inst = 0 <=> wrong_path
    BY <1>3, <1>10 DEF Front
  <2>4. wrong_path' <=> wrong_path \/ x.missed
    BY <1>1, Zenon DEF Added
  <2>5. QED
    BY <2>2, <2>3, <2>4
<1>14. InstAt(c + 1)' = IF wrong_path' THEN 0 ELSE x.inst + 1
  <2>1. InstAt(c + 1)' = IF wrong_path' THEN 0 ELSE next_inst'
    BY <1>8 DEF InstAt, Front
  <2>2. ~wrong_path' => ~wrong_path
    BY <1>1, Zenon DEF Added
  <2>3. ~wrong_path => next_inst' = x.inst + 1
    BY <1>2, <1>3 DEF Front
  <2>4. QED
    BY <2>1, <2>2, <2>3
<1>15. ASSUME NEW k \in Ks'
       PROVE  InstAt(k + 1)' = IF OffPath(k)' THEN 0 ELSE (It(k)').inst + 1
  <2>1. CASE k = c
    BY <1>6, <1>13, <1>14, <2>1
  <2>2. CASE k \in Ks
    <3>1. k + 1 \in Ks'
      BY <1>5, <1>6, <2>2 DEF Ks
    <3>2. InstAt(k + 1) = IF OffPath(k) THEN 0 ELSE It(k).inst + 1
      BY <2>2 DEF PathInv
    <3>3. InstAt(k + 1)' = InstAt(k + 1) /\ It(k)' = It(k)
      BY <1>6, <1>9, <2>2, <3>1
    <3>4. QED
      BY <1>12, <2>2, <3>2, <3>3
  <2>3. QED
    BY <1>6, <2>1, <2>2
<1>16. QED
  BY <1>10, <1>11, <1>15 DEF PathInv

\* The path after any step.
LEMMA PathStep ==
  ASSUME Body, MissInv, PathInv, Next, ~aborted'
  PROVE  PathInv'
<1>1. CASE BruFeedback \/ CommitStorePause \/ CommitInterrupt \/ Sync \/ Wb
  BY <1>1, PathQuiet
<1>2. CASE CommitTrap \/ CommitConflict \/ CommitMispredict
  <2>1. FlushAll /\ CanCommit
    BY <1>2 DEF CommitTrap, CommitConflict, CommitMispredict
  <2>2. Head = It(0) /\ 0 \in Ks
    BY <2>1, HeadIs
  <2>3. Head.inst = done + 1 /\ done \in Nat
    BY <2>2, HeadOnPath
  <2>4. \/ done' = Head.inst /\ next_inst' = Head.inst + 1
        \/ done' = done /\ next_inst' = Head.inst
    BY <1>2 DEF CommitTrap, CommitConflict, CommitMispredict
  <2>5. QED
    BY <2>1, <2>3, <2>4, PathFlush
<1>3. CASE CommitRetire
  BY <1>3, PathRetire
<1>4. CASE CommitFinish
  BY <1>4, PathFinish
<1>5. CASE Execute
  BY <1>5, PathExecute, PathRestore
<1>6. CASE RenameOne
  BY <1>6, PathRename
<1>7. QED
  BY <1>1, <1>2, <1>3, <1>4, <1>5, <1>6 DEF Next, Commit

-----------------------------------------------------------------------------
(***************************************************************************)
(* The checkpoint buffer.                                                  *)
(***************************************************************************)

\* Without loads only branches hold checkpoints.
LEMMA HolderBranch ==
  ASSUME Body, "lu" \notin Units, NEW k \in Ks, It(k).cp_valid
  PROVE  /\ Restores(k) /\ Saved(k) /\ Cp(k).new_cp_w \in Positions(CB)
         /\ It(k).cp_id \in Slots(CB)
<1> USE DEF Body
<1>1. It(k) \in Items /\ Cp(k) \in [valid : SUBSET Phys, new_fl_r : Positions(N),
                                    new_cp_w : Positions(CB)]
      /\ It(k).cp_id \in Slots(CB)
  BY Typed
<1>2. It(k).unit = "bru"
  BY <1>1 DEF ShapeInv, Items
<1>3. Restores(k)
  BY <1>2 DEF Restores
<1>4. QED
  BY <1>1, <1>3 DEF CheckInv

\* The holders are finitely many, and those of a retired or added place count one.
LEMMA HoldersFinite ==
  ASSUME Body
  PROVE  /\ IsFiniteSet(Holders) /\ Cardinality(Holders) \in Nat
         /\ \A k : /\ IsFiniteSet(HoldersTo(k)) /\ Cardinality(HoldersTo(k)) \in Nat
                   /\ HoldersTo(k) \subseteq Holders
<1>1. PICK d \in Int : d = 2 * ROB_SIZE - 1
  BY Sizes
<1>2. IsFiniteSet(0..d)
  BY <1>1, FS_Interval
<1>3. RobLive \subseteq 0..d
  <2>1. RobLive \subseteq Positions(ROB_SIZE)
    BY Typed, RobIs DEF Body
  <2>2. QED
    BY <1>1, <2>1 DEF Positions
<1>4. Holders \subseteq 0..d /\ \A k : HoldersTo(k) \subseteq Holders
  BY <1>3 DEF Holders, HoldersTo
<1>5. IsFiniteSet(Holders) /\ \A k : IsFiniteSet(HoldersTo(k))
  BY <1>2, <1>4, FS_Subset
<1>6. QED
  BY <1>4, <1>5, FS_CardinalityType

\* One element less, one element more.
LEMMA CountOne ==
  ASSUME NEW S, IsFiniteSet(S), NEW e
  PROVE  /\ e \in S => Cardinality(S \ {e}) = Cardinality(S) - 1 /\ Cardinality(S) >= 1
         /\ e \notin S => Cardinality(S \cup {e}) = Cardinality(S) + 1
         /\ Cardinality(S) \in Nat
<1>1. Cardinality(S) \in Nat
  BY FS_CardinalityType
<1>2. e \in S => Cardinality(S \ {e}) = Cardinality(S) - 1
  BY FS_RemoveElement
<1>3. e \in S => IsFiniteSet(S \ {e}) /\ Cardinality(S \ {e}) \in Nat
  BY FS_RemoveElement, FS_CardinalityType
<1>4. e \notin S => Cardinality(S \cup {e}) = Cardinality(S) + 1
  BY FS_AddElement
<1>5. QED
  BY <1>1, <1>2, <1>3, <1>4

\* Steps that move nothing.
LEMMA OwnKept ==
  ASSUME Body, OwnInv, UNCHANGED <<rob_w, rob_r, cpb, cp_w, cp_r>>,
         \A p \in RobLive : /\ (RobItem(p)').cp_valid = RobItem(p).cp_valid
                            /\ (RobItem(p)').cp_id = RobItem(p).cp_id
  PROVE  OwnInv'
<1>1. Ks' = Ks /\ RobLive' = RobLive /\ \A k : RobAt(k)' = RobAt(k)
  BY DEF RobCount, Ks, RobLive, RobAt
<1>2. Holders' = Holders
  BY <1>1 DEF Holders
<1>3. \A k : HoldersTo(k)' = HoldersTo(k)
  BY <1>1, <1>2 DEF HoldersTo
<1>4. RobTyped
  BY Typed DEF Body
<1>5. ASSUME "lu" \notin Units, NEW k \in Ks, (It(k)').cp_valid
      PROVE  CpDist(Cp(k).new_cp_w)' = Cardinality(HoldersTo(k)')
  <2>1. PICK p \in RobLive : p = RobAt(k) /\ It(k) = RobItem(p) /\ It(k)' = RobItem(p)'
    BY <1>1, <1>4, Placed
  <2>2. It(k).cp_valid /\ (It(k)').cp_id = It(k).cp_id
    BY <1>5, <2>1
  <2>3. CpDist(Cp(k).new_cp_w) = Cardinality(HoldersTo(k))
    BY <1>5, <2>2 DEF OwnInv
  <2>4. CpDist(Cp(k).new_cp_w)' = CpDist(Cp(k).new_cp_w)
    BY <2>2 DEF CpDist, Cp
  <2>5. QED
    BY <1>3, <2>3, <2>4
<1>6. "lu" \notin Units => RingCount(cp_w', cp_r', CB) = Cardinality(Holders')
  BY <1>2 DEF OwnInv
<1>7. QED
  BY <1>1, <1>5, <1>6 DEF OwnInv

\* A flush empties both buffers.
LEMMA OwnFlush ==
  ASSUME FlushAll
  PROVE  OwnInv'
<1>1. Ks' = {} /\ RobLive' = {} /\ cp_w' = 0 /\ cp_r' = 0
  BY FlushPlaces
<1>2. Holders' = {}
  BY <1>1 DEF Holders
<1>3. Cardinality(Holders') = 0
  BY <1>2, FS_EmptySet
<1>4. RingCount(cp_w', cp_r', CB) = 0
  BY <1>1 DEF RingCount
<1>5. QED
  BY <1>1, <1>3, <1>4 DEF OwnInv

\* Retirement takes the oldest checkpoint exactly when the instruction holds one.
LEMMA OwnRetire ==
  ASSUME Body, MissInv, OwnInv, CommitRetire
  PROVE  OwnInv'
<1> SUFFICES ASSUME "lu" \notin Units PROVE OwnInv'
  BY DEF OwnInv
<1> USE DEF Body
<1>1. /\ RobTyped /\ RobCount \in Nat /\ RobCount' = RobCount - 1 /\ 0 \in Ks
      /\ \A k \in Ks' : k + 1 \in Ks /\ RobAt(k)' = RobAt(k + 1) /\ It(k)' = It(k + 1)
      /\ RobLive' = RobLive \ {rob_r} /\ rob_r \in RobLive /\ RobAt(0) = rob_r
      /\ \A p : RobItem(p)' = RobItem(p)
      /\ UNCHANGED <<cpb, cp_w>>
      /\ It(0) = Head /\ RobItem(rob_r) = Head /\ It(0).finish
      /\ cp_r' = IF It(0).bp_cp_valid /\ cp_r # cp_w THEN RingNext(cp_r, CB) ELSE cp_r
  BY RetirePlaces
<1>2. Holders' = Holders \ {rob_r} /\ (rob_r \in Holders <=> It(0).cp_valid)
  BY <1>1 DEF Holders
<1>3. ASSUME NEW k \in Ks' PROVE HoldersTo(k)' = HoldersTo(k + 1) \ {rob_r}
  <2>1. k \in Nat /\ \A i \in 0..k : i \in Ks'
    BY <1>1 DEF Ks
  <2>2. \A i \in 0..k : RobAt(i)' = RobAt(i + 1) /\ i + 1 \in 0..(k + 1)
    BY <1>1, <2>1
  <2>3. HoldersTo(k)' = {p \in Holders' : \E i \in 0..k : p = RobAt(i)'}
    BY DEF HoldersTo
  <2>4. ASSUME NEW p \in HoldersTo(k)' PROVE p \in HoldersTo(k + 1) \ {rob_r}
    <3>1. p \in Holders' /\ \E i \in 0..k : p = RobAt(i)'
      BY <2>3, <2>4
    <3>2. PICK i \in 0..k : p = RobAt(i + 1)
      BY <2>2, <3>1
    <3>3. i + 1 \in 0..(k + 1)
      BY <2>2
    <3>4. QED
      BY <1>2, <3>1, <3>2, <3>3 DEF HoldersTo
  <2>5. ASSUME NEW p \in HoldersTo(k + 1), p # rob_r PROVE p \in HoldersTo(k)'
    <3>1. p \in Holders /\ \E i \in 0..(k + 1) : p = RobAt(i)
      BY <2>5 DEF HoldersTo
    <3>2. PICK i \in 0..(k + 1) : p = RobAt(i)
      BY <3>1
    <3>3. i # 0
      BY <1>1, <2>5, <3>2
    <3>4. PICK m \in 0..k : m + 1 = i
      <4>1. i - 1 \in 0..k /\ (i - 1) + 1 = i
        BY <2>1, <3>3
      <4>2. QED
        BY <4>1
    <3>5. p = RobAt(m)'
      BY <2>2, <3>2, <3>4
    <3>6. QED
      BY <1>2, <2>3, <2>5, <3>1, <3>5
  <2>6. QED
    BY <2>4, <2>5
<1>4. ASSUME NEW k \in Ks', (It(k)').cp_valid
      PROVE  /\ k + 1 \in Ks /\ Cp(k)' = Cp(k + 1) /\ Cp(k + 1).new_cp_w \in Positions(CB)
             /\ CpDist(Cp(k + 1).new_cp_w) = Cardinality(HoldersTo(k + 1))
  <2>1. k + 1 \in Ks /\ It(k)' = It(k + 1) /\ It(k + 1).cp_valid
    BY <1>1, <1>4
  <2>2. Cp(k)' = Cp(k + 1)
    BY <1>1, <2>1 DEF Cp
  <2>3. QED
    BY <2>1, <2>2, HolderBranch DEF OwnInv
<1>5. It(0).cp_valid <=> It(0).bp_cp_valid
  <2>1. It(0).bp_cp_valid => It(0).cp_valid
    BY <1>1 DEF ShapeInv
  <2>2. It(0).cp_valid => It(0).bp_cp_valid
    BY <1>1, HolderBranch DEF MissInv
  <2>3. QED
    BY <2>1, <2>2
<1>6. RingCount(cp_w, cp_r, CB) = Cardinality(Holders)
  BY DEF OwnInv
<1>7. CB \in Nat \ {0} /\ cp_w \in Positions(CB) /\ cp_r \in Positions(CB)
  BY Sizes, Typed
<1>8. CASE ~It(0).cp_valid
  <2>1. cp_r' = cp_r
    BY <1>1, <1>5, <1>8
  <2>2. rob_r \notin Holders /\ Holders' = Holders
    BY <1>2, <1>8
  <2>3. ASSUME NEW k \in Ks', (It(k)').cp_valid
        PROVE  CpDist(Cp(k).new_cp_w)' = Cardinality(HoldersTo(k)')
    <3>1. rob_r \notin HoldersTo(k + 1)
      BY <2>2 DEF HoldersTo
    <3>2. HoldersTo(k)' = HoldersTo(k + 1)
      BY <1>3, <3>1
    <3>3. CpDist(Cp(k).new_cp_w)' = CpDist(Cp(k + 1).new_cp_w)
      BY <1>4, <2>1, <2>3 DEF CpDist
    <3>4. QED
      BY <1>4, <2>3, <3>2, <3>3
  <2>4. RingCount(cp_w', cp_r', CB) = Cardinality(Holders')
    BY <1>1, <1>6, <2>1, <2>2
  <2>5. QED
    BY <2>3, <2>4 DEF OwnInv
<1>9. CASE It(0).cp_valid
  <2>1. rob_r \in Holders
    BY <1>2, <1>9
  <2>2. Cardinality(Holders') = Cardinality(Holders) - 1 /\ Cardinality(Holders) >= 1
    BY <1>2, <2>1, HoldersFinite, CountOne
  <2>3. cp_r # cp_w
    BY <1>6, <1>7, <2>2, RingType
  <2>4. cp_r' = RingNext(cp_r, CB)
    BY <1>1, <1>5, <1>9, <2>3
  <2>5. /\ RingNext(cp_r, CB) \in Positions(CB) /\ RingCount(RingNext(cp_r, CB), cp_r, CB) = 1
    <3>1. RingCount(cp_r, cp_r, CB) = 0 /\ 0 + 1 < 2 * CB
      BY <1>7, RingType
    <3>2. QED
      BY <1>7, <3>1, RingType
  <2>6. \A x \in Positions(CB) : RingCount(x, cp_r, CB) >= 1 =>
            RingCount(x, RingNext(cp_r, CB), CB) = RingCount(x, cp_r, CB) - 1
    BY <1>7, <2>5, RingRebase
  <2>7. RingCount(cp_w', cp_r', CB) = Cardinality(Holders')
    BY <1>1, <1>6, <1>7, <2>2, <2>4, <2>6
  <2>8. ASSUME NEW k \in Ks', (It(k)').cp_valid
        PROVE  CpDist(Cp(k).new_cp_w)' = Cardinality(HoldersTo(k)')
    <3>1. rob_r \in HoldersTo(k + 1)
      <4>1. 0 \in 0..(k + 1)
        BY <1>1 DEF Ks
      <4>2. QED
        BY <1>1, <2>1, <4>1 DEF HoldersTo
    <3>2. /\ Cardinality(HoldersTo(k)') = Cardinality(HoldersTo(k + 1)) - 1
          /\ Cardinality(HoldersTo(k + 1)) >= 1
      BY <1>3, <3>1, HoldersFinite, CountOne
    <3>3. CpDist(Cp(k).new_cp_w)' = RingCount(Cp(k + 1).new_cp_w, RingNext(cp_r, CB), CB)
      BY <1>4, <2>4, <2>8 DEF CpDist
    <3>4. CpDist(Cp(k + 1).new_cp_w) = RingCount(Cp(k + 1).new_cp_w, cp_r, CB)
      BY DEF CpDist
    <3>5. QED
      BY <1>4, <2>6, <2>8, <3>2, <3>3, <3>4
  <2>9. QED
    BY <2>7, <2>8 DEF OwnInv
<1>10. QED
  BY <1>8, <1>9

\* A recovery keeps the checkpoints up to that of the branch.
LEMMA OwnRestore ==
  ASSUME Body, OwnInv, Execute, flush = "bru"
  PROVE  OwnInv'
<1> SUFFICES ASSUME "lu" \notin Units PROVE OwnInv'
  BY DEF OwnInv
<1> USE DEF Body
<1>1. RobTyped /\ RobCount \in Nat /\ UNCHANGED <<cpb, cp_r>>
  BY RestorePlaces
<1>2. PICK j \in Ks : Cut(j)
  BY RestorePlaces
<1>3. /\ flush_pos = RobAt(j) /\ RobCount' = j + 1
      /\ \A k \in Ks' : k \in Ks /\ RobAt(k)' = RobAt(k) /\ It(k)' = It(k)
      /\ RobLive' = {p \in RobLive : ~RingYounger(p, flush_pos, ROB_SIZE)}
      /\ \A p : RobItem(p)' = RobItem(p)
      /\ Restores(j) /\ cp_w' = Cp(j).new_cp_w
  BY <1>2 DEF Cut
<1>4. j \in Nat /\ Ks' = 0..j
  BY <1>1, <1>3 DEF Ks
<1>5. RobLive' = {p \in RobLive : \E i \in 0..j : p = RobAt(i)}
  <2>1. ASSUME NEW p \in RobLive, NEW i \in 0..j, p = RobAt(i)
        PROVE  ~RingYounger(p, flush_pos, ROB_SIZE)
    <3>1. i \in Ks /\ ~(i > j)
      BY <1>3, <1>4
    <3>2. QED
      BY <1>1, <1>3, <2>1, <3>1, RobIs
  <2>2. ASSUME NEW p \in RobLive, ~RingYounger(p, flush_pos, ROB_SIZE)
        PROVE  \E i \in 0..j : p = RobAt(i)
    <3>1. PICK i \in Ks : p = RobAt(i)
      BY <1>1, RobIs
    <3>2. ~(i > j)
      BY <1>1, <1>3, <2>2, <3>1, RobIs
    <3>3. i \in 0..j
      BY <1>1, <1>4, <3>2 DEF Ks
    <3>4. QED
      BY <3>1, <3>3
  <2>3. QED
    BY <1>3, <2>1, <2>2
<1>6. Holders' = HoldersTo(j)
  BY <1>3, <1>5 DEF Holders, HoldersTo
<1>7. RingCount(cp_w', cp_r', CB) = Cardinality(Holders')
  BY <1>1, <1>3, <1>6 DEF OwnInv, CpDist, Restores
<1>8. ASSUME NEW k \in Ks', (It(k)').cp_valid
      PROVE  CpDist(Cp(k).new_cp_w)' = Cardinality(HoldersTo(k)')
  <2>1. k \in Ks /\ It(k)' = It(k) /\ It(k).cp_valid
    BY <1>3, <1>8
  <2>2. CpDist(Cp(k).new_cp_w) = Cardinality(HoldersTo(k))
    BY <2>1 DEF OwnInv
  <2>3. \A i \in 0..k : i \in 0..j /\ RobAt(i)' = RobAt(i)
    BY <1>3, <1>4
  <2>4. HoldersTo(k)' = {p \in Holders' : \E i \in 0..k : p = RobAt(i)'}
    BY DEF HoldersTo
  <2>5. HoldersTo(k)' = HoldersTo(k)
    BY <1>6, <2>3, <2>4 DEF HoldersTo
  <2>6. CpDist(Cp(k).new_cp_w)' = CpDist(Cp(k).new_cp_w)
    BY <1>1, <2>1 DEF CpDist, Cp
  <2>7. QED
    BY <2>2, <2>5, <2>6
<1>9. QED
  BY <1>7, <1>8 DEF OwnInv

\* Rename writes a checkpoint behind those that are held.
LEMMA OwnRename ==
  ASSUME Body, OwnInv, RenameOne, ~aborted'
  PROVE  OwnInv'
<1> SUFFICES ASSUME "lu" \notin Units PROVE OwnInv'
  BY DEF OwnInv
<1> USE DEF Body
<1>1. PICK x \in Items : Added(x)
  BY RenameAdds
<1>2. Renamed(x) /\ cp_r' = cp_r
  BY <1>1, RenameAdds DEF Added
<1>3. RobTyped /\ RobCount \in Nat /\ Grown(x)
  BY <1>2, RenamePlaces
<1>4. PICK c \in Nat, w \in {rob_w} : c = RobCount
  BY <1>3
<1>5. /\ RobCount' = c + 1
      /\ \A k \in Ks : k \in Ks' /\ RobAt(k)' = RobAt(k) /\ It(k)' = It(k) /\ k < c
      /\ \A k \in Ks' : k \in Ks \/ k = c
      /\ c \in Ks' /\ It(c)' = x /\ RobAt(c)' = w
      /\ RobLive' = RobLive \cup {w} /\ w \notin RobLive /\ RobItem(w)' = x
      /\ \A p \in RobLive : RobItem(p)' = RobItem(p)
  BY <1>3, <1>4 DEF Grown
<1>6. CB \in Nat \ {0} /\ cp_w \in Positions(CB) /\ cp_r \in Positions(CB)
      /\ DOMAIN cpb = Slots(CB)
  BY Sizes, Typed
<1>7. Holders' = IF x.cp_valid THEN Holders \cup {w} ELSE Holders
  BY <1>5 DEF Holders
<1>8. w \notin Holders
  BY <1>5 DEF Holders
<1>9. ASSUME NEW k \in Ks PROVE HoldersTo(k)' = HoldersTo(k)
  <2>1. \A i \in 0..k : i \in Ks
    BY <1>3 DEF Ks
  <2>2. \A i \in 0..k : RobAt(i)' = RobAt(i) /\ RobAt(i) # w
    BY <1>3, <1>5, <2>1, RobIs
  <2>3. HoldersTo(k)' = {p \in Holders' : \E i \in 0..k : p = RobAt(i)'}
    BY DEF HoldersTo
  <2>4. QED
    BY <1>7, <2>2, <2>3 DEF HoldersTo
<1>10. ASSUME NEW k \in Ks, It(k).cp_valid PROVE Cp(k)' = Cp(k)
  <2>1. CASE ~x.cp_valid
    BY <1>2, <1>5, <2>1 DEF Renamed, Cp
  <2>2. CASE x.cp_valid
    <3>1. PICK q \in Span(cp_r, cp_w, CB) : It(k).cp_id = RingSlot(q, CB)
      BY <1>10, HolderBranch DEF Saved
    <3>2. /\ q \in Positions(CB) /\ RingCount(q, cp_r, CB) < RingCount(cp_w, cp_r, CB)
          /\ RingCount(q, cp_r, CB) < CB
      BY <3>1, CpDists DEF CpDist
    <3>3. /\ RingCount(cp_w, cp_r, CB) < CB /\ RingCount(q, cp_r, CB) \in Nat
          /\ RingCount(cp_w, cp_r, CB) \in Nat
      <4>1. RingCount(cp_w, cp_r, CB) < CB
        BY <1>2, <2>2 DEF Renamed
      <4>2. QED
        BY <1>6, <3>2, <4>1, RingType
    <3>4. q # cp_w
      BY <3>2, <3>3
    <3>5. RingSlot(q, CB) # RingSlot(cp_w, CB)
      BY <1>6, <3>2, <3>3, <3>4, RingSame
    <3>6. PICK y : cpb' = [cpb EXCEPT ![RingSlot(cp_w, CB)] = y]
      BY <1>2, <2>2 DEF Renamed
    <3>7. It(k)' = It(k) /\ It(k).cp_id \in Slots(CB)
      BY <1>5, <1>10, HolderBranch
    <3>8. QED
      BY <1>6, <3>1, <3>5, <3>6, <3>7 DEF Cp
  <2>3. QED
    BY <2>1, <2>2
<1>11. ASSUME NEW k \in Ks, (It(k)').cp_valid
       PROVE  CpDist(Cp(k).new_cp_w)' = Cardinality(HoldersTo(k)')
  <2>1. It(k).cp_valid
    BY <1>5, <1>11
  <2>2. CpDist(Cp(k).new_cp_w) = Cardinality(HoldersTo(k))
    BY <2>1 DEF OwnInv
  <2>3. CpDist(Cp(k).new_cp_w)' = CpDist(Cp(k).new_cp_w)
    BY <1>2, <1>10, <2>1 DEF CpDist
  <2>4. QED
    BY <1>9, <2>2, <2>3
<1>12. RingCount(cp_w, cp_r, CB) = Cardinality(Holders)
  BY DEF OwnInv
<1>13. RingCount(cp_w', cp_r', CB) = Cardinality(Holders')
  <2>1. CASE ~x.cp_valid
    BY <1>2, <1>7, <1>12, <2>1 DEF Renamed
  <2>2. CASE x.cp_valid
    <3>1. cp_w' = RingNext(cp_w, CB) /\ RingCount(cp_w, cp_r, CB) < CB
      BY <1>2, <2>2 DEF Renamed
    <3>2. RingCount(cp_w, cp_r, CB) \in Nat /\ RingCount(cp_w, cp_r, CB) + 1 < 2 * CB
      BY <1>6, <3>1, RingType
    <3>3. RingCount(RingNext(cp_w, CB), cp_r, CB) = RingCount(cp_w, cp_r, CB) + 1
      BY <1>6, <3>2, RingType
    <3>4. Cardinality(Holders') = Cardinality(Holders) + 1
      BY <1>7, <1>8, <2>2, HoldersFinite, CountOne
    <3>5. QED
      BY <1>2, <1>12, <3>1, <3>3, <3>4
  <2>3. QED
    BY <2>1, <2>2
<1>14. ASSUME x.cp_valid PROVE CpDist(Cp(c).new_cp_w)' = Cardinality(HoldersTo(c)')
  <2>1. HoldersTo(c)' = Holders'
    <3>1. HoldersTo(c)' = {p \in Holders' : \E i \in 0..c : p = RobAt(i)'}
      BY DEF HoldersTo
    <3>2. ASSUME NEW p \in Holders' PROVE \E i \in 0..c : p = RobAt(i)'
      <4>1. p \in RobLive'
        BY DEF Holders
      <4>2. CASE p = w
        <5>1. c \in 0..c
          BY <1>4
        <5>2. QED
          BY <1>5, <4>2, <5>1
      <4>3. CASE p \in RobLive
        <5>1. PICK k \in Ks : p = RobAt(k)
          BY <1>3, <4>3, RobIs
        <5>2. k \in 0..c /\ p = RobAt(k)'
          BY <1>4, <1>5, <5>1 DEF Ks
        <5>3. QED
          BY <5>2
      <4>4. QED
        BY <1>5, <4>1, <4>2, <4>3
    <3>3. QED
      BY <3>1, <3>2
  <2>2. PICK v, f, n, i : /\ x.cp_id = RingSlot(cp_w, CB) /\ n = RingNext(cp_w, CB) /\ i = RingSlot(cp_w, CB)
                       /\ cpb' = [cpb EXCEPT ![i] = [valid |-> v, new_fl_r |-> f, new_cp_w |-> n]]
                       /\ cp_w' = n
    BY <1>2, <1>14 DEF Renamed
  <2>3. i \in DOMAIN cpb
    BY <1>6, <2>2, RingType DEF Slots
  <2>4. Cp(c)' = [valid |-> v, new_fl_r |-> f, new_cp_w |-> n]
    BY <1>5, <2>2, <2>3 DEF Cp
  <2>5. CpDist(Cp(c).new_cp_w)' = RingCount(cp_w', cp_r', CB)
    BY <2>2, <2>4 DEF CpDist
  <2>6. QED
    BY <1>13, <2>1, <2>5
<1>15. ASSUME NEW k \in Ks', (It(k)').cp_valid
       PROVE  CpDist(Cp(k).new_cp_w)' = Cardinality(HoldersTo(k)')
  <2>1. CASE k \in Ks
    BY <1>11, <1>15, <2>1
  <2>2. CASE k = c
    <3>1. x.cp_valid
      BY <1>5, <1>15, <2>2
    <3>2. QED
      BY <1>14, <2>2, <3>1
  <2>3. QED
    BY <1>5, <2>1, <2>2
<1>16. QED
  BY <1>13, <1>15 DEF OwnInv

\* The checkpoint buffer after any step.
LEMMA OwnStep ==
  ASSUME Body, MissInv, OwnInv, Next, ~aborted'
  PROVE  OwnInv'
<1>1. CASE BruFeedback \/ CommitStorePause \/ CommitInterrupt \/ Sync \/ Wb
  <2>1. UNCHANGED <<rob, rob_w, rob_r, cpb, cp_w, cp_r>>
    BY <1>1 DEF BruFeedback, CommitStorePause, CommitInterrupt, Sync, Wb, rob_vars, cp_vars
  <2>2. \A p : RobItem(p)' = RobItem(p)
    BY <2>1, RobSame
  <2>3. QED
    BY <2>1, <2>2, OwnKept
<1>2. CASE CommitTrap \/ CommitConflict \/ CommitMispredict
  <2>1. FlushAll
    BY <1>2 DEF CommitTrap, CommitConflict, CommitMispredict
  <2>2. QED
    BY <2>1, OwnFlush
<1>3. CASE CommitRetire
  BY <1>3, OwnRetire
<1>4. CASE CommitFinish
  <2>1. UNCHANGED <<rob_w, rob_r, cpb, cp_w, cp_r>>
    BY <1>4 DEF CommitFinish, cp_vars
  <2>2. \A p \in RobLive : AlikeItem(RobItem(p)', RobItem(p))
    BY <1>4, FinishPlaces
  <2>3. QED
    BY <2>1, <2>2, OwnKept DEF AlikeItem
<1>5. CASE Execute /\ flush # "bru"
  <2>1. UNCHANGED <<rob, rob_w, rob_r, cpb, cp_w, cp_r>>
    BY <1>5 DEF Execute
  <2>2. \A p : RobItem(p)' = RobItem(p)
    BY <2>1, RobSame
  <2>3. QED
    BY <2>1, <2>2, OwnKept
<1>6. CASE Execute /\ flush = "bru"
  BY <1>6, OwnRestore
<1>7. CASE RenameOne
  BY <1>7, OwnRename
<1>8. QED
  BY <1>1, <1>2, <1>3, <1>4, <1>5, <1>6, <1>7 DEF Next, Commit

-----------------------------------------------------------------------------
(***************************************************************************)
(* The invariants of this module together.                                 *)
(***************************************************************************)

\* Reset.
LEMMA InitBody2 == Init => Body2
<1> SUFFICES ASSUME Init PROVE Body2
  OBVIOUS
<1>1. /\ phase = "bru" /\ flush = "none" /\ exec = {} /\ port = {}
      /\ rob_w = 0 /\ rob_r = 0 /\ cp_w = 0 /\ cp_r = 0
      /\ reg_valid = srat_valid /\ rrat_valid = srat_valid /\ reg_oldest = Phys
      /\ next_inst = 1 /\ wrong_path = FALSE /\ done = 0
  BY DEF Init
<1>2. rrat_valid \subseteq Phys
  BY InitIInv DEF Init, IInv, Body, TypeOK
<1>3. RobCount = 0
  BY <1>1 DEF RobCount, RingCount
<1>4. Ks = {} /\ RobLive = {}
  BY <1>3 DEF Ks, RobLive
<1>5. RegInv
  BY <1>1, <1>2, <1>4 DEF RegInv
<1>6. MissInv
  BY <1>1, <1>4 DEF MissInv
<1>7. PathInv
  <2>1. InstAt(0) = 1
    BY <1>1, <1>4 DEF InstAt, Front
  <2>2. QED
    BY <1>1, <1>4, <2>1 DEF PathInv
<1>8. OwnInv
  <2>1. Holders = {}
    BY <1>4 DEF Holders
  <2>2. Cardinality(Holders) = 0
    BY <2>1, FS_EmptySet
  <2>3. RingCount(cp_w, cp_r, CB) = 0
    BY <1>1 DEF RingCount
  <2>4. QED
    BY <1>4, <2>2, <2>3 DEF OwnInv
<1>9. QED
  BY <1>5, <1>6, <1>7, <1>8 DEF Body2

\* A step that changes nothing.
LEMMA Stutter2 == Body2 /\ UNCHANGED vars => Body2'
<1> SUFFICES ASSUME Body2, UNCHANGED vars PROVE Body2'
  OBVIOUS
<1>1. /\ UNCHANGED <<phase, flush, flush_pos, exec, port, rrat_valid, rob, rob_w, rob_r>>
      /\ UNCHANGED <<cpb, cp_w, cp_r, reg_valid, reg_data, reg_oldest, reg_age>>
      /\ UNCHANGED <<next_inst, wrong_path, done>>
  BY DEF vars, pipe_vars, rat_vars, rob_vars, cp_vars, reg_vars, path_vars
<1>2. /\ RobCount' = RobCount /\ Ks' = Ks /\ RobLive' = RobLive
      /\ (\A k : It(k)' = It(k) /\ RobAt(k)' = RobAt(k))
      /\ (\A p : RobItem(p)' = RobItem(p) /\ BruFlush(p)' = BruFlush(p))
  BY <1>1, RobSame
<1>3. RegInv'
  <2>1. \A p \in RobLive : Resulted(p)' <=> Resulted(p)
    BY <1>1, <1>2 DEF Resulted, Late
  <2>2. QED
    BY <1>1, <1>2, <2>1, RegKept DEF Body2
<1>4. MissInv'
  BY <1>1, <1>2, MissFewer DEF Body2
<1>5. PathInv'
  <2>1. \A k \in Ks : OffPath(k)' <=> OffPath(k)
    BY <1>1, <1>2 DEF OffPath, Recovered, Restores
  <2>2. QED
    BY <1>1, <1>2, <2>1, PathKept DEF Body2
<1>6. OwnInv'
  <2>1. Holders' = Holders
    BY <1>2 DEF Holders
  <2>2. \A k : HoldersTo(k)' = HoldersTo(k)
    BY <1>2, <2>1 DEF HoldersTo
  <2>3. \A k : CpDist(Cp(k).new_cp_w)' = CpDist(Cp(k).new_cp_w)
    BY <1>1, <1>2 DEF CpDist, Cp
  <2>4. QED
    BY <1>1, <1>2, <2>1, <2>2, <2>3 DEF Body2, OwnInv
<1>7. QED
  BY <1>3, <1>4, <1>5, <1>6 DEF Body2

\* Every step of the processor.
LEMMA Body2Step ==
  ASSUME Body, Body2, Next, ~aborted'
  PROVE  Body2'
BY RegStep, MissStep, PathStep, OwnStep DEF Body2

\* The second inductive invariant, on top of the first: whose result each readable
\* register holds, which instructions are on the path, whose checkpoints are kept.
THEOREM Invariance2 == Spec => []IInv2
<1>1. Init => IInv2
  BY InitBody2 DEF IInv2
<1>2. IInv /\ IInv2 /\ [Next]_vars => IInv2'
  <2> SUFFICES ASSUME IInv, IInv2, [Next]_vars PROVE IInv2'
    OBVIOUS
  <2>1. CASE Next
    <3>1. ~aborted' => ~aborted
      BY <2>1, AbortStays
    <3>2. ~aborted' => Body /\ Body2
      BY <3>1 DEF IInv, IInv2
    <3>3. QED
      BY <2>1, <3>2, Body2Step DEF IInv2
  <2>2. CASE UNCHANGED vars
    <3>1. aborted' = aborted
      BY <2>2 DEF vars
    <3>2. QED
      BY <2>2, <3>1, Stutter2 DEF IInv2
  <2>3. QED
    BY <2>1, <2>2
<1>3. QED
  BY <1>1, <1>2, Invariance, PTL DEF Spec

-----------------------------------------------------------------------------
(***************************************************************************)
(* What follows for the program.                                           *)
(***************************************************************************)

\* Between cycles the readable registers are the architectural ones and those of
\* the instructions in flight that have finished.
LEMMA ReadableIs == Body /\ RegInv => ReadableExact
<1> SUFFICES ASSUME Body, RegInv, phase = "bru"
             PROVE  reg_valid = rrat_valid \cup
                      {RobItem(p).new_phy : p \in {q \in RobLive : /\ RobItem(q).rd # 0
                                                                   /\ RobItem(q).finish
                                                                   /\ ~RobItem(q).exception}}
  BY DEF ReadableExact
<1> DEFINE results == {RobItem(p).new_phy : p \in {q \in RobLive : /\ RobItem(q).rd # 0
                                                                   /\ RobItem(q).finish
                                                                   /\ ~RobItem(q).exception}}
<1>1. \A p : Resulted(p) <=> RobItem(p).finish /\ ~RobItem(p).exception
  BY ResultedIs
<1>2. ASSUME NEW r \in reg_valid, r \notin rrat_valid PROVE r \in results
  <2>1. r \in InFlight
    BY <1>2 DEF RegInv
  <2>2. PICK p \in RobLive : RobItem(p).rd # 0 /\ r = RobItem(p).new_phy
    BY <2>1, OwnReg
  <2>3. Resulted(p)
    BY <2>2 DEF RegInv, RegOf
  <2>4. QED
    BY <1>1, <2>2, <2>3
<1>3. ASSUME NEW r \in results PROVE r \in reg_valid
  <2>1. PICK p \in RobLive : /\ RobItem(p).rd # 0 /\ r = RobItem(p).new_phy
                             /\ RobItem(p).finish /\ ~RobItem(p).exception
    OBVIOUS
  <2>2. QED
    BY <1>1, <2>1 DEF RegInv, RegOf
<1>4. rrat_valid \subseteq reg_valid
  BY DEF RegInv
<1>5. QED
  BY <1>2, <1>3, <1>4

\* A register is readable exactly when it holds an architectural value or the
\* result of a finished instruction in flight: neither the recovery by age, nor a
\* result that arrives in the cycle of a misprediction, nor retirement leaves a
\* register readable that an instruction still waits for.
THEOREM ReadableCorrect == Spec => [](NoAbort => ReadableExact)
<1>1. IInv /\ IInv2 => (NoAbort => ReadableExact)
  BY ReadableIs DEF IInv, IInv2, Body2, NoAbort
<1>2. QED
  BY <1>1, Invariance, Invariance2, PTL

\* Without loads, which keep theirs, every checkpoint in the buffer belongs to a
\* branch in flight: neither commit nor a recovery leaves one behind or takes one
\* too many.
THEOREM OwnedCorrect ==
  ASSUME "lu" \notin Units
  PROVE  Spec => [](NoAbort => CheckpointsOwned)
<1>1. IInv2 => (NoAbort => CheckpointsOwned)
  BY DEF IInv2, Body2, NoAbort, OwnInv, CheckpointsOwned, Holders, CB
<1>2. QED
  BY <1>1, Invariance2, PTL


-----------------------------------------------------------------------------
(***************************************************************************)
(* The core looks in-order: each step of it is a step of InOrder or none.  *)
(***************************************************************************)

\* The architectural registers: what the retirement table says of the file.
Regs == [a \in Arch |-> reg_data[get_phy_id(rrat_valid, rrat_table, a)]]

\* A table is read through the one register that is mapped.
LEMMA ReadPhy ==
  ASSUME NEW rv, NEW rt, Table(rv, rt), NEW a \in Arch, NEW p \in rv, rt[p] = a
  PROVE  get_phy_id(rv, rt, a) = p
<1>1. Mapped(rv, rt, a) = {p}
  BY DEF Mapped, Table
<1>2. QED
  BY <1>1 DEF get_phy_id

\* Every architectural register is mapped.
LEMMA ReadMapped ==
  ASSUME NEW rv, NEW rt, Table(rv, rt), NEW a \in Arch
  PROVE  get_phy_id(rv, rt, a) \in rv /\ rt[get_phy_id(rv, rt, a)] = a
<1>1. PICK p \in rv : rt[p] = a
  BY DEF Table
<1>2. QED
  BY <1>1, ReadPhy

\* Steps that do not write an architectural register.
LEMMA RegsKept ==
  ASSUME Table(rrat_valid, rrat_table), UNCHANGED <<rrat_valid, rrat_table>>,
         \A p \in rrat_valid : reg_data'[p] = reg_data[p]
  PROVE  Regs' = Regs
<1>1. \A a \in Arch : get_phy_id(rrat_valid, rrat_table, a) \in rrat_valid
  BY ReadMapped
<1>2. Regs' = [a \in Arch |-> reg_data'[get_phy_id(rrat_valid, rrat_table, a)]]
  BY DEF Regs
<1>3. QED
  BY <1>1, <1>2 DEF Regs

\* Write back reaches registers of instructions in flight only.
LEMMA RegsWb ==
  ASSUME Body, Wb
  PROVE  Regs' = Regs
<1> DEFINE regs == {RobItem(p).new_phy : p \in Written}
           writer(r) == CHOOSE p \in Written : RobItem(p).new_phy = r
<1>1. /\ reg_data' = [r \in Phys |-> IF r \in regs THEN RobItem(writer(r)).inst ELSE reg_data[r]]
      /\ UNCHANGED <<rrat_valid, rrat_table>>
  BY DEF Wb, rat_vars
<1>2. flush = "commit" => RobLive = {}
  BY DEF Body, PointerInv, RobLive
<1>3. phase = "wb"
  BY DEF Wb
<1>4. Written \subseteq RobLive /\ \A p \in Written : RobItem(p).rd # 0
  BY <1>3 DEF Written, Body, PipeInv
<1>5. regs \cap rrat_valid = {} /\ rrat_valid \subseteq Phys
  BY <1>4, OwnReg
<1>6. \A p \in rrat_valid : reg_data'[p] = reg_data[p]
  BY <1>1, <1>5
<1>7. Table(rrat_valid, rrat_table)
  BY DEF Body, Tables
<1>8. QED
  BY <1>1, <1>6, <1>7, RegsKept

\* Retirement of the oldest instruction: its own destination gets its result.
LEMMA RegsRetire ==
  ASSUME Body, RegInv, CanCommit, ~Head.exception, RetireMap, RetirePush
  PROVE  /\ Head.rd = 0 => Regs' = Regs
         /\ Head.rd # 0 => Head.rd \in Arch /\ Regs' = [Regs EXCEPT ![Head.rd] = Head.inst]
<1> USE DEF Body
<1>1. PICK h : h = It(0)
  OBVIOUS
<1>2. /\ phase = "commit" /\ flush # "commit" /\ rob_r # rob_w /\ Tables /\ Head = h
      /\ h.finish /\ ~h.exception /\ 0 \in Ks /\ h \in Items
  BY <1>1, HeadIs
<1>3. Table(rrat_valid, rrat_table)
  BY <1>2 DEF Tables
<1>4. /\ h.rd # 0 => /\ h.old_phy \in rrat_valid /\ h.new_phy \notin rrat_valid
                     /\ h.new_phy \in Phys
      /\ h.rd = 0 => UNCHANGED <<rrat_valid, rrat_table>>
      /\ Table(rrat_valid', rrat_table') /\ rrat_valid' \in SUBSET Phys
      /\ \A a \in Arch, p \in Phys :
               (p \in rrat_valid' /\ (rrat_table')[p] = a)
                  <=> \/ h.rd = a /\ p = h.new_phy
                      \/ h.rd # a /\ p \in rrat_valid /\ rrat_table[p] = a
  BY <1>1, <1>2, Retired
<1>5. CASE h.rd = 0
  <2>1. UNCHANGED <<rrat_valid, rrat_table, reg_data>>
    BY <1>2, <1>4, <1>5 DEF RetirePush
  <2>2. QED
    BY <1>2, <1>3, <1>5, <2>1, RegsKept
<1>6. CASE h.rd # 0
  <2>1. PICK old, new, d : old = h.old_phy /\ new = h.new_phy /\ d = h.rd
    OBVIOUS
  <2>2. d \in Arch
    BY <1>2, <1>6, <2>1 DEF Items
  <2>3. reg_data[new] = h.inst
    <3>1. RobTyped /\ RobAt(0) = rob_r /\ RobAt(0) \in RobLive
      BY <1>2, Typed, RobIs
    <3>2. RobItem(rob_r) = h
      BY <1>1, <3>1 DEF It
    <3>3. Resulted(rob_r)
      BY <1>2, <3>2, ResultedIs
    <3>4. RegOf(rob_r)
      BY <1>6, <3>1, <3>2 DEF RegInv
    <3>5. QED
      BY <2>1, <3>2, <3>3, <3>4 DEF RegOf
  <2>4. /\ reg_data' = [reg_data EXCEPT ![old] = 0] /\ reg_data \in [Phys -> Nat]
        /\ rrat_valid \subseteq Phys
    BY <1>2, <1>6, <2>1, OwnReg DEF RetirePush
  <2>5. old \in rrat_valid /\ new \notin rrat_valid /\ new \in Phys
    BY <1>4, <1>6, <2>1
  <2>6. \A a \in Arch, p \in Phys :
               (p \in rrat_valid' /\ (rrat_table')[p] = a)
                  <=> \/ d = a /\ p = new
                      \/ d # a /\ p \in rrat_valid /\ rrat_table[p] = a
    BY <1>4, <2>1
  <2>7. old \in rrat_valid /\ rrat_table[old] = d
    <3>1. Maps(0, h.rd, h.old_phy)
      BY <1>1, <1>2, <1>6 DEF Tables, MapInv
    <3>2. QED
      BY <2>1, <3>1 DEF Maps
  <2>8. get_phy_id(rrat_valid', rrat_table', d) = new
    <3>1. new \in rrat_valid' /\ (rrat_table')[new] = d
      BY <2>2, <2>5, <2>6
    <3>2. QED
      BY <1>4, <2>2, <3>1, ReadPhy
  <2>9. ASSUME NEW a \in Arch, a # d
        PROVE  /\ get_phy_id(rrat_valid', rrat_table', a) = get_phy_id(rrat_valid, rrat_table, a)
               /\ get_phy_id(rrat_valid, rrat_table, a) \in Phys
               /\ get_phy_id(rrat_valid, rrat_table, a) # old
    <3>1. PICK p \in rrat_valid : p = get_phy_id(rrat_valid, rrat_table, a) /\ rrat_table[p] = a
      BY <1>3, ReadMapped
    <3>2. p \in Phys /\ p # old
      BY <2>4, <2>7, <2>9, <3>1
    <3>3. p \in rrat_valid' /\ (rrat_table')[p] = a
      BY <2>6, <2>9, <3>1, <3>2
    <3>4. get_phy_id(rrat_valid', rrat_table', a) = p
      BY <1>4, <3>3, ReadPhy
    <3>5. QED
      BY <3>1, <3>2, <3>4
  <2>10. Regs' = [a \in Arch |-> reg_data'[get_phy_id(rrat_valid', rrat_table', a)]]
    BY DEF Regs
  <2>11. \A a \in Arch : Regs'[a] = IF a = d THEN h.inst ELSE Regs[a]
    <3> SUFFICES ASSUME NEW a \in Arch PROVE Regs'[a] = IF a = d THEN h.inst ELSE Regs[a]
      OBVIOUS
    <3>1. Regs'[a] = reg_data'[get_phy_id(rrat_valid', rrat_table', a)]
      BY <2>10
    <3>2. Regs[a] = reg_data[get_phy_id(rrat_valid, rrat_table, a)]
      BY DEF Regs
    <3>3. CASE a = d
      BY <2>3, <2>4, <2>5, <2>8, <3>1, <3>3
    <3>4. CASE a # d
      <4>1. PICK p \in Phys : /\ p = get_phy_id(rrat_valid, rrat_table, a) /\ p # old
                              /\ p = get_phy_id(rrat_valid', rrat_table', a)
        BY <2>9, <3>4
      <4>2. reg_data'[p] = reg_data[p]
        BY <2>4, <4>1
      <4>3. QED
        BY <3>1, <3>2, <3>4, <4>1, <4>2
    <3>5. QED
      BY <3>3, <3>4
  <2>12. Regs' = [Regs EXCEPT ![d] = h.inst]
    <3>1. Regs' = [a \in Arch |-> Regs'[a]] /\ Regs = [a \in Arch |-> Regs[a]]
      BY <2>10 DEF Regs
    <3>2. QED
      BY <2>11, <3>1
  <2>13. QED
    BY <1>2, <1>6, <2>1, <2>2, <2>12
<1>7. QED
  BY <1>2, <1>5, <1>6


\* The commits of instructions, and the registers they leave.
LEMMA AbstractCommit ==
  ASSUME Body, RegInv, PathInv, CommitTrap \/ CommitMispredict \/ CommitRetire
  PROVE  /\ done' = done + 1
         /\ Regs' = Regs \/ \E a \in Arch : Regs' = [Regs EXCEPT ![a] = done + 1]
<1>1. CanCommit /\ done' = Head.inst
  BY DEF CommitTrap, CommitMispredict, CommitRetire
<1>2. Head = It(0) /\ 0 \in Ks
  BY <1>1, HeadIs DEF Body
<1>3. Head.inst = done + 1
  BY <1>2, HeadOnPath
<1>4. CASE CommitTrap
  <2>1. UNCHANGED <<rrat_valid, rrat_table, reg_data>>
    BY <1>4 DEF CommitTrap
  <2>2. Regs' = Regs
    BY <2>1, RegsKept DEF Body
  <2>3. QED
    BY <1>1, <1>3, <2>2
<1>5. CASE CommitMispredict \/ CommitRetire
  <2>1. ~Head.exception /\ RetireMap /\ RetirePush
    BY <1>5 DEF CommitMispredict, CommitRetire
  <2>2. /\ Head.rd = 0 => Regs' = Regs
        /\ Head.rd # 0 => Head.rd \in Arch /\ Regs' = [Regs EXCEPT ![Head.rd] = Head.inst]
    BY <1>1, <2>1, RegsRetire
  <2>3. QED
    BY <1>1, <1>3, <2>2
<1>6. QED
  BY <1>4, <1>5

\* All other steps leave the architectural state alone.
LEMMA AbstractStutter ==
  ASSUME Body,
         \/ BruFeedback \/ CommitStorePause \/ CommitConflict \/ CommitInterrupt
         \/ CommitFinish \/ Wb \/ Execute \/ RenameOne \/ Sync
  PROVE  done' = done /\ Regs' = Regs
<1>1. CASE Wb
  <2>1. done' = done
    BY <1>1 DEF Wb, path_vars
  <2>2. QED
    BY <1>1, <2>1, RegsWb
<1>2. CASE \/ BruFeedback \/ CommitStorePause \/ CommitConflict \/ CommitInterrupt
           \/ CommitFinish \/ Execute \/ RenameOne \/ Sync
  <2>1. UNCHANGED <<rrat_valid, rrat_table, reg_data, done>>
    <3>1. CASE RenameOne
      BY <3>1 DEF RenameOne, reg_vars
    <3>2. CASE Execute
      BY <3>2, ExecuteCommon
    <3>3. CASE CommitConflict
      BY <3>3 DEF CommitConflict
    <3>4. CASE CommitFinish
      <4>1. UNCHANGED rat_vars
        BY <3>4, Zenon DEF CommitFinish
      <4>2. UNCHANGED reg_vars
        BY <3>4, Zenon DEF CommitFinish
      <4>3. UNCHANGED path_vars
        BY <3>4, Zenon DEF CommitFinish
      <4>4. QED
        BY <4>1, <4>2, <4>3 DEF rat_vars, reg_vars, path_vars
    <3>5. CASE BruFeedback \/ CommitStorePause \/ CommitInterrupt \/ Sync
      BY <3>5 DEF BruFeedback, CommitStorePause, CommitInterrupt, Sync,
                  rat_vars, reg_vars, path_vars
    <3>6. QED
      BY <1>2, <3>1, <3>2, <3>3, <3>4, <3>5
  <2>2. QED
    BY <2>1, RegsKept DEF Body
<1>3. QED
  BY <1>1, <1>2

\* Reset is the initial state of the machine in order.
LEMMA InitAbstract == Init => Architectural!Init
<1> SUFFICES ASSUME Init PROVE Architectural!Init
  OBVIOUS
<1>1. done = 0 /\ reg_data = [p \in Phys |-> 0] /\ aborted = FALSE
  BY DEF Init
<1>2. Table(rrat_valid, rrat_table) /\ rrat_valid \subseteq Phys
  BY <1>1, InitIInv DEF IInv, Body, TypeOK
<1>3. \A a \in Arch : reg_data[get_phy_id(rrat_valid, rrat_table, a)] = 0
  BY <1>1, <1>2, ReadMapped
<1>4. QED
  BY <1>1, <1>3 DEF Architectural!Init

\* Every step of the core is a step of the machine in order, or none of it.
LEMMA StepAbstract ==
  IInv /\ IInv2 /\ NoAbort /\ [Next]_vars => [Architectural!Next]_(Architectural!vars)
<1> SUFFICES ASSUME IInv, IInv2, NoAbort, [Next]_vars
             PROVE  [Architectural!Next]_(Architectural!vars)
  OBVIOUS
<1>1. Body /\ RegInv /\ PathInv
  BY DEF IInv, IInv2, Body2, NoAbort
<1>2. ASSUME done' = done, Regs' = Regs PROVE UNCHANGED Architectural!vars
  BY <1>2 DEF Architectural!vars, Regs
<1>3. CASE CommitTrap \/ CommitMispredict \/ CommitRetire
  <2>1. done' = done + 1
    BY <1>1, <1>3, AbstractCommit
  <2>2. CASE Regs' = Regs
    <3>1. Architectural!NoWrite
      BY <2>1, <2>2 DEF Architectural!NoWrite, Regs
    <3>2. QED
      BY <3>1 DEF Architectural!Next
  <2>3. CASE \E a \in Arch : Regs' = [Regs EXCEPT ![a] = done + 1]
    <3>1. PICK a \in Arch : Regs' = [Regs EXCEPT ![a] = done + 1]
      BY <2>3
    <3>2. Architectural!Write(a)
      BY <2>1, <3>1 DEF Architectural!Write, Regs
    <3>3. QED
      BY <3>2 DEF Architectural!Next
  <2>4. QED
    BY <1>1, <1>3, <2>2, <2>3, AbstractCommit
<1>4. CASE \/ BruFeedback \/ CommitStorePause \/ CommitConflict \/ CommitInterrupt
           \/ CommitFinish \/ Wb \/ Execute \/ RenameOne \/ Sync
  BY <1>1, <1>2, <1>4, AbstractStutter
<1>5. CASE UNCHANGED vars
  <2>1. UNCHANGED <<rrat_valid, rrat_table, reg_data, done>>
    BY <1>5 DEF vars, rat_vars, reg_vars, path_vars
  <2>2. QED
    BY <1>2, <2>1 DEF Regs
<1>6. QED
  BY <1>3, <1>4, <1>5 DEF Next, Commit

\* As long as no verify() fails the core looks like a machine that executes in
\* order: whatever is renamed, executed, mispredicted, recovered from, fetched
\* again or trapped, instructions complete in program order, none of a wrong path
\* does, and the retired registers hold the results of the right ones.
THEOREM InOrderUntilAbort == Spec /\ []NoAbort => LooksInOrder
BY InitAbstract, StepAbstract, Invariance, Invariance2, PTL
DEF Spec, LooksInOrder, Architectural!Spec

\* If only instructions without a destination trap, no verify() ever fails, and
\* the core looks in-order without further conditions.
THEOREM InOrderCorrect ==
  ASSUME ~FaultRd
  PROVE  Spec => LooksInOrder
BY NoAbortCorrect, InOrderUntilAbort, PTL
=============================================================================
