--------------------------- MODULE DispatchProofs ---------------------------
(***************************************************************************)
(* Theorems about Dispatch, for every size and width: PlacedOnce,          *)
(* DispatchOrder, FenceBarrier and CsrIsolated.                            *)
(*                                                                         *)
(* The inductive invariant follows an instruction through the cycle.  The  *)
(* pipeline is a line of packs; between the stages of a cycle a port that   *)
(* has been read still holds its old pack, which LivePort and LiveFront     *)
(* leave out.  Younger does not depend on the state, so that what is said   *)
(* about the order of two packs survives every step that leaves them alone. *)
(***************************************************************************)
EXTENDS Dispatch, Integers, SequenceTheorems, FiniteSetTheorems,
        WellFoundedInduction, TLAPS

AllKinds == {"int", "bru", "csr", "fence", "load", "store"}
Packs == Seq(Pos)

\* The positions from r up to, but without, w.
Span(r, w) == {p \in Pos : RingCount(p, r, ROB_SIZE) < RingCount(w, r, ROB_SIZE)}

\* What has been committed in this cycle is still in the way of rename.
Live0 == Span(rob_r0, rob_w)

Sorted(s) == \A i, j \in DOMAIN s : i < j => Younger(s[j], s[i])
Behind(B, A) == \A a \in A, b \in B : Younger(b, a)

-----------------------------------------------------------------------------
(***************************************************************************)
(* The inductive invariant.                                                *)
(***************************************************************************)
TypeInv ==
    /\ phase \in {"execute", "commit", "issue", "dispatch", "rename"}
    /\ slot \in Nat
    /\ rob \in [0..(ROB_SIZE - 1) -> [kind : AllKinds, finish : BOOLEAN]]
    /\ rob_w \in Pos /\ rob_r \in Pos /\ rob_r0 \in Pos
    /\ exec \subseteq Pos
    /\ flush \in {"none", "bru", "commit"} /\ flush_pos \in Pos
    /\ committed \subseteq 0..(ROB_SIZE - 1)
    /\ next_handle \in 0..(ROB_SIZE - 1) \cup {NoPos}
    /\ inst_waiting \in Pos \cup {NoPos} /\ stbuf_waiting \in Pos \cup {NoPos}
    /\ rename_dispatch_port \in Packs /\ send_pack \in Packs /\ rev_pack \in Packs
    /\ hold_integer \in Packs /\ integer_port \in Packs /\ integer_rev \in Packs
    /\ hold_lsu \in Packs /\ lsu_port \in Packs /\ lsu_rev \in Packs
    /\ busy \in BOOLEAN /\ stall \in BOOLEAN
    /\ integer_stall \in BOOLEAN /\ lsu_stall \in BOOLEAN
    /\ integer_queue \subseteq Pos /\ lsu_queue \subseteq Pos

\* The reorder buffer never overflows, with what was committed in this cycle.
RingInv ==
    /\ RingCount(rob_r, rob_r0, ROB_SIZE) + RingCount(rob_w, rob_r, ROB_SIZE)
         = RingCount(rob_w, rob_r0, ROB_SIZE)
    /\ RingCount(rob_w, rob_r0, ROB_SIZE) <= ROB_SIZE

\* No pack is wider than the ports, no queue larger than its size.
Fits(s) == Len(s) <= DISPATCH_WIDTH
RoomInv ==
    /\ Fits(rename_dispatch_port) /\ Fits(rev_pack)
    /\ Fits(hold_integer) /\ Fits(integer_port) /\ Fits(integer_rev)
    /\ Fits(hold_lsu) /\ Fits(lsu_port) /\ Fits(lsu_rev)
    /\ Cardinality(integer_queue) <= ISSUE_QUEUE_SIZE
    /\ Cardinality(lsu_queue) <= ISSUE_QUEUE_SIZE
    /\ phase = "rename" => Len(send_pack) <= slot /\ slot <= DISPATCH_WIDTH

\* What the phase says about the rest of the state.
PhaseInv ==
    /\ phase = "execute" => /\ flush = "none" /\ rob_r = rob_r0 /\ exec = {}
                            /\ committed = {} /\ slot = 0
    /\ phase \in {"dispatch", "rename"} => exec = {}
    /\ phase \in {"issue", "dispatch"} => slot = 0
    /\ phase # "rename" \/ flush # "none" \/ stall => send_pack = <<>>
    /\ exec \subseteq integer_queue \cup lsu_queue
    /\ ~busy => rev_pack = <<>>
    /\ busy => /\ hold_integer = <<>> /\ hold_lsu = <<>> /\ inst_waiting = NoPos
               /\ stbuf_waiting = NoPos

\* What a flush from commit has cleared so far.
ClearedInv ==
    flush = "commit" =>
        /\ phase \in {"dispatch", "rename"} =>
              /\ integer_queue = {} /\ lsu_queue = {}
              /\ integer_rev = <<>> /\ lsu_rev = <<>>
        /\ phase = "rename" =>
              /\ integer_port = <<>> /\ lsu_port = <<>>
              /\ hold_integer = <<>> /\ hold_lsu = <<>>
              /\ rev_pack = <<>> /\ ~busy
              /\ inst_waiting = NoPos /\ stbuf_waiting = NoPos

\* The ports without what has been taken from them.
LivePort(port, held) == IF phase = "dispatch" /\ ~held THEN <<>> ELSE port
LiveInteger == LivePort(integer_port, integer_stall)
LiveLsu == LivePort(lsu_port, lsu_stall)
LiveFront == IF phase = "rename" /\ ~stall THEN <<>> ELSE rename_dispatch_port

\* The line of packs of one side, each behind the one before.
Line(queue, rev, port, hold) ==
    /\ Sorted(rev) /\ Sorted(port) /\ Sorted(hold)
    /\ Behind(Elements(rev), queue)
    /\ Behind(Elements(port), queue) /\ Behind(Elements(port), Elements(rev))
    /\ Behind(Elements(hold), queue) /\ Behind(Elements(hold), Elements(rev))
    /\ Behind(Elements(hold), Elements(port))
Placed(queue, rev, port, hold) ==
    queue \cup Elements(rev) \cup Elements(port) \cup Elements(hold)

IntegerPlaced == Placed(integer_queue, integer_rev, LiveInteger, hold_integer)
LsuPlaced == Placed(lsu_queue, lsu_rev, LiveLsu, hold_lsu)

\* What dispatch has not sent, and what it has.
Front == Elements(rev_pack) \cup Elements(LiveFront) \cup Elements(send_pack)
Sent == RobLive \ Front

Open == {p \in RobLive : ~Item(p).finish}

\* A pack of rename: consecutive, a csr or mret alone, nothing for the load/store
\* side behind a fence.
Shaped(s) ==
    \A i, j \in DOMAIN s : i < j =>
        /\ s[j] = RingAdd(s[i], j - i, ROB_SIZE)
        /\ Younger(s[j], s[i])
        /\ Kind(s[i]) # "csr" /\ Kind(s[j]) # "csr"
        /\ IsFence(s[i]) => ~IsLsu(s[j])

FrontInv ==
    /\ Shaped(rev_pack) /\ Shaped(LiveFront) /\ Shaped(send_pack)
    /\ Behind(Elements(LiveFront), Elements(rev_pack))
    /\ Behind(Elements(send_pack), Elements(rev_pack))
    /\ Behind(Elements(send_pack), Elements(LiveFront))
    /\ Front \subseteq Open
    /\ Behind(Front, Sent)
    /\ \A i \in DOMAIN send_pack :
          /\ RingCount(rob_w, send_pack[i], ROB_SIZE) = Len(send_pack) - i + 1
          /\ Kind(send_pack[i]) = "csr" => slot = DISPATCH_WIDTH

LineInv ==
    /\ Line(integer_queue, integer_rev, LiveInteger, hold_integer)
    /\ Line(lsu_queue, lsu_rev, LiveLsu, hold_lsu)
    /\ IntegerPlaced \subseteq Open \cap Sent
    /\ LsuPlaced \subseteq Open \cap Sent
    /\ \A p \in IntegerPlaced : IsInteger(p)
    /\ \A p \in LsuPlaced : IsLsu(p)

\* Nothing is lost.
CompleteInv ==
    \A p \in Open \cap Kept : p \in IntegerPlaced \/ p \in LsuPlaced \/ p \in Front

\* The recovery from a misprediction, as far as it has come.
BruInv ==
    flush = "bru" =>
        /\ flush_pos \in Sent /\ Kind(flush_pos) = "bru"
        /\ phase \in {"commit", "issue"} => flush_pos \in exec
        /\ phase \in {"dispatch", "rename"} =>
              /\ Item(flush_pos).finish
              /\ integer_queue \subseteq Kept /\ lsu_queue \subseteq Kept
              /\ Elements(integer_rev) \subseteq Kept /\ Elements(lsu_rev) \subseteq Kept
              /\ \A p \in Elements(LiveInteger) \cup Elements(hold_integer) : p \notin Kept
        /\ phase = "rename" =>
              /\ integer_port = <<>> /\ hold_integer = <<>>
              /\ Elements(lsu_port) \subseteq Kept /\ Elements(hold_lsu) \subseteq Kept
              /\ rev_pack = <<>> /\ ~busy

\* What commit reports has retired, except for a store that waits.
CommittedInv ==
    /\ \A p \in Live0 : /\ RingSlot(p, ROB_SIZE) \in committed =>
                              p \notin RobLive \/ Kind(p) = "store"
                        /\ p \notin RobLive => RingSlot(p, ROB_SIZE) \in committed
    /\ \A s \in committed : \E p \in Live0 : s = RingSlot(p, ROB_SIZE)
    /\ next_handle # NoPos => \E n \in RobLive :
          /\ next_handle = RingSlot(n, ROB_SIZE)
          /\ \A q \in RobLive : Younger(n, q) => Item(q).finish

\* The wait of dispatch is for something that it has sent.
WaitInv ==
    inst_waiting # NoPos =>
        /\ inst_waiting \in Live0 \ Front
        /\ Kind(inst_waiting) \in {"csr", "fence"}
        /\ phase = "rename" => inst_waiting \in RobLive \cap Kept

\* A fence that was sent holds up the loads and stores behind it, as long as
\* dispatch waits for it or for a later one of its pack; otherwise it was a
\* misprediction that ended the wait.
WaitedFor(f) ==
    /\ inst_waiting \in RobLive
    /\ ~Younger(f, inst_waiting)
    /\ RingCount(inst_waiting, f, ROB_SIZE) < DISPATCH_WIDTH
    /\ \A p \in Sent : IsLsu(p) => ~Younger(p, f)
Uncovered(f) ==
    \E b \in Sent : /\ BranchBehind(f, b)
                    /\ \A p \in Sent : IsLsu(p) /\ Younger(p, f) => Younger(p, b)
FenceInv == \A f \in Sent \cap Kept : IsFence(f) => WaitedFor(f) \/ Uncovered(f)

\* A csr or mret that was sent is what dispatch waits for, and alone.
CsrInv ==
    \A c \in Sent \cap Kept : Kind(c) = "csr" =>
        /\ inst_waiting = c
        /\ \A p \in Sent \ {c} : Younger(c, p) /\ Item(p).finish

PlaceInv == /\ FrontInv /\ LineInv /\ CompleteInv /\ BruInv /\ CommittedInv
            /\ WaitInv /\ FenceInv /\ CsrInv

IInv == /\ TypeInv /\ RingInv /\ RoomInv /\ PhaseInv /\ ClearedInv
        /\ flush # "commit" => PlaceInv

-----------------------------------------------------------------------------
(***************************************************************************)
(* Filtering a pack.                                                       *)
(***************************************************************************)

\* Every nonempty set of naturals has a least element.
LEMMA Least ==
  ASSUME NEW T \in SUBSET Nat, T # {}
  PROVE  \E x \in T : \A y \in T : x <= y
<1> DEFINE R == OpToRel(<, Nat)
<1>1. IsWellFoundedOn(R, Nat)
  BY NatLessThanWellFounded
<1>2. \A a, b \in Nat : a < b => <<a, b>> \in R
  BY DEF OpToRel
<1> HIDE DEF R
<1>3. PICK x \in T : \A y \in T : ~ (<<y, x>> \in R)
  BY <1>1, WFMin
<1>4. \A y \in T : x <= y
  <2> TAKE y \in T
  <2>1. x \in Nat /\ y \in Nat
    OBVIOUS
  <2>2. y < x => <<y, x>> \in R
    BY <1>2, <2>1, Zenon
  <2>3. ~(<<y, x>> \in R)
    BY <1>3, Zenon
  <2>4. ~(y < x)
    BY <2>2, <2>3, Zenon
  <2>5. QED
    BY <2>1, <2>4
<1>5. QED
  BY <1>4

\* Induction, for a set given as such.
LEMMA Induction ==
  ASSUME NEW T, 0 \in T, \A n \in Nat : n \in T => n + 1 \in T
  PROVE  Nat \subseteq T
<1> SUFFICES ASSUME Nat \ T # {} PROVE FALSE
  OBVIOUS
<1>1. PICK x \in Nat \ T : \A y \in Nat \ T : x <= y
  BY Least
<1>2. x # 0 /\ x - 1 \in Nat /\ x - 1 \in T
  BY <1>1
<1>3. QED
  BY <1>1, <1>2

\* The recursive function inside Filter exists.
Filtering(F, s, S, m) ==
    F = [i \in 0..m |-> IF i = 0 THEN <<>>
                        ELSE IF s[i] \in S THEN Append(F[i - 1], s[i]) ELSE F[i - 1]]
LEMMA FilterDefined ==
  ASSUME NEW s, NEW S, NEW m \in Nat
  PROVE  \E F : Filtering(F, s, S, m)
<1> DEFINE Step(F, i) == IF i = 0 THEN <<>>
                         ELSE IF s[i] \in S THEN Append(F[i - 1], s[i]) ELSE F[i - 1]
           Good == {n \in Nat : \E F : F = [i \in 0..n |-> Step(F, i)]}
<1>1. 0 \in Good
  <2> DEFINE F == [i \in 0..0 |-> <<>>]
  <2>1. F = [i \in 0..0 |-> Step(F, i)]
    OBVIOUS
  <2>2. QED
    BY <2>1
<1>2. ASSUME NEW n \in Nat, n \in Good PROVE n + 1 \in Good
  <2>1. PICK F : F = [i \in 0..n |-> Step(F, i)]
    BY <1>2
  <2> DEFINE G == [i \in 0..(n + 1) |-> IF i = n + 1 THEN Step(F, n + 1) ELSE F[i]]
  <2>2. ASSUME NEW i \in 0..(n + 1) PROVE G[i] = Step(G, i)
    <3>1. CASE i = 0
      BY <2>1, <3>1
    <3>2. CASE i \in 1..n
      <4>1. i - 1 \in 0..n /\ i \in 0..n /\ i # 0 /\ i # n + 1 /\ i - 1 # n + 1
        BY <3>2
      <4>2. G[i] = F[i] /\ G[i - 1] = F[i - 1]
        BY <4>1
      <4>3. F[i] = Step(F, i)
        BY <2>1, <4>1
      <4>4. QED
        BY <4>1, <4>2, <4>3
    <3>3. CASE i = n + 1
      <4>1. i - 1 = n /\ n \in 0..n /\ n \in 0..(n + 1) /\ n # n + 1 /\ i # 0
        BY <3>3
      <4>2. G[i] = Step(F, i) /\ G[i - 1] = F[i - 1]
        BY <4>1, <3>3
      <4>3. QED
        BY <4>1, <4>2
    <3>4. QED
      BY <3>1, <3>2, <3>3
  <2>3. G = [i \in 0..(n + 1) |-> Step(G, i)]
    BY <2>2
  <2> HIDE DEF G
  <2>4. \E H : H = [i \in 0..(n + 1) |-> Step(H, i)]
    BY <2>3, Zenon
  <2>5. n + 1 \in Nat
    OBVIOUS
  <2>6. QED
    BY <2>4, <2>5, Zenon
<1> HIDE DEF Good
<1>3. Nat \subseteq Good
  BY <1>1, <1>2, Induction
<1>4. m \in Good
  BY <1>3
<1>5. QED
  BY <1>4 DEF Good, Filtering

\* g is what the filter has kept of the first n elements of s.
Picks(g, s, n, S, T) ==
    /\ g \in Seq(T) /\ Len(g) <= n
    /\ \A k \in 1..Len(g) : \E i \in 1..n : s[i] \in S /\ g[k] = s[i]
    /\ \A i \in 1..n : s[i] \in S => \E k \in 1..Len(g) : g[k] = s[i]
    /\ \A k, l \in 1..Len(g) : k < l =>
          \E i, j \in 1..n : i < j /\ g[k] = s[i] /\ g[l] = s[j]

\* An element that is left out.
LEMMA PicksSkip ==
  ASSUME NEW T, NEW S, NEW s, NEW g, NEW n \in Nat, Picks(g, s, n, S, T), s[n + 1] \notin S
  PROVE  Picks(g, s, n + 1, S, T)
<1>1. g \in Seq(T) /\ Len(g) <= n + 1
  BY DEF Picks
<1>2. 1..n \subseteq 1..(n + 1)
  OBVIOUS
<1>3. \A k \in 1..Len(g) : \E i \in 1..(n + 1) : s[i] \in S /\ g[k] = s[i]
  BY <1>2, Zenon DEF Picks
<1>4. \A i \in 1..(n + 1) : s[i] \in S => \E k \in 1..Len(g) : g[k] = s[i]
  <2>1. \A i \in 1..(n + 1) : i = n + 1 \/ i \in 1..n
    OBVIOUS
  <2>2. QED
    BY <2>1, Zenon DEF Picks
<1>5. \A k, l \in 1..Len(g) : k < l =>
         \E i, j \in 1..(n + 1) : i < j /\ g[k] = s[i] /\ g[l] = s[j]
  <2> SUFFICES ASSUME NEW k \in 1..Len(g), NEW l \in 1..Len(g), k < l
               PROVE  \E i, j \in 1..(n + 1) : i < j /\ g[k] = s[i] /\ g[l] = s[j]
    OBVIOUS
  <2>1. PICK i \in 1..n, j \in 1..n : i < j /\ g[k] = s[i] /\ g[l] = s[j]
    BY Zenon DEF Picks
  <2>2. QED
    BY <1>2, <2>1, Zenon
<1>6. QED
  BY <1>1, <1>3, <1>4, <1>5, Zenon DEF Picks

\* An element that is kept.
LEMMA PicksAppend ==
  ASSUME NEW T, NEW S, NEW s, NEW g, NEW n \in Nat, Picks(g, s, n, S, T),
         s[n + 1] \in S, s[n + 1] \in T
  PROVE  Picks(Append(g, s[n + 1]), s, n + 1, S, T)
<1> DEFINE h == Append(g, s[n + 1])
<1>1. /\ g \in Seq(T) /\ Len(g) <= n /\ Len(g) \in Nat
  BY DEF Picks
<1>2. /\ h \in Seq(T) /\ Len(h) = Len(g) + 1
      /\ \A k \in 1..Len(g) : h[k] = g[k]
      /\ h[Len(g) + 1] = s[n + 1]
  BY <1>1
<1> HIDE DEF h
<1>3. 1..n \subseteq 1..(n + 1) /\ n + 1 \in 1..(n + 1) /\ \A i \in 1..n : i < n + 1
  OBVIOUS
<1>4. /\ 1..Len(g) \subseteq 1..Len(h) /\ Len(g) + 1 \in 1..Len(h)
      /\ \A k \in 1..Len(h) : k = Len(g) + 1 \/ k \in 1..Len(g)
      /\ \A k, l \in 1..Len(h) : k < l => k \in 1..Len(g)
  BY <1>1, <1>2
<1>5. \A k \in 1..Len(h) : \E i \in 1..(n + 1) : s[i] \in S /\ h[k] = s[i]
  <2> SUFFICES ASSUME NEW k \in 1..Len(h)
               PROVE  \E i \in 1..(n + 1) : s[i] \in S /\ h[k] = s[i]
    OBVIOUS
  <2>1. CASE k = Len(g) + 1
    BY <1>2, <1>3, <2>1, Zenon
  <2>2. CASE k \in 1..Len(g)
    <3>1. PICK i \in 1..n : s[i] \in S /\ g[k] = s[i]
      BY <2>2, Zenon DEF Picks
    <3>2. QED
      BY <1>2, <1>3, <2>2, <3>1, Zenon
  <2>3. QED
    BY <1>4, <2>1, <2>2, Zenon
<1>6. \A i \in 1..(n + 1) : s[i] \in S => \E k \in 1..Len(h) : h[k] = s[i]
  <2>1. \A i \in 1..(n + 1) : i = n + 1 \/ i \in 1..n
    OBVIOUS
  <2>2. QED
    <3> SUFFICES ASSUME NEW i \in 1..(n + 1), s[i] \in S
                 PROVE  \E k \in 1..Len(h) : h[k] = s[i]
      OBVIOUS
    <3>1. CASE i = n + 1
      BY <1>2, <1>4, <3>1, Zenon
    <3>2. CASE i \in 1..n
      <4>1. PICK k \in 1..Len(g) : g[k] = s[i]
        BY <3>2, Zenon DEF Picks
      <4>2. QED
        BY <1>2, <1>4, <4>1, Zenon
    <3>3. QED
      BY <2>1, <3>1, <3>2, Zenon
<1>7. \A k, l \in 1..Len(h) : k < l =>
         \E i, j \in 1..(n + 1) : i < j /\ h[k] = s[i] /\ h[l] = s[j]
  <2> SUFFICES ASSUME NEW k \in 1..Len(h), NEW l \in 1..Len(h), k < l
               PROVE  \E i, j \in 1..(n + 1) : i < j /\ h[k] = s[i] /\ h[l] = s[j]
    OBVIOUS
  <2>1. k \in 1..Len(g) /\ h[k] = g[k]
    BY <1>2, <1>4
  <2>2. CASE l = Len(g) + 1
    <3>1. PICK i \in 1..n : g[k] = s[i]
      BY <2>1, Zenon DEF Picks
    <3>2. QED
      BY <1>2, <1>3, <2>1, <2>2, <3>1, Zenon
  <2>3. CASE l \in 1..Len(g)
    <3>1. PICK i \in 1..n, j \in 1..n : i < j /\ g[k] = s[i] /\ g[l] = s[j]
      BY <2>1, <2>3, Zenon DEF Picks
    <3>2. QED
      BY <1>2, <1>3, <2>1, <2>3, <3>1, Zenon
  <2>4. QED
    BY <1>4, <2>2, <2>3
<1>8. Len(h) <= n + 1
  BY <1>1, <1>2
<1>9. Picks(h, s, n + 1, S, T)
  BY <1>2, <1>5, <1>6, <1>7, <1>8, Zenon DEF Picks
<1>10. QED
  BY <1>9 DEF h

\* Filter keeps exactly the members of S, in their order.
LEMMA FilterPicks ==
  ASSUME NEW T, NEW s \in Seq(T), NEW S
  PROVE  Picks(Filter(s, S), s, Len(s), S, T)
<1> DEFINE Step(F, i) == IF i = 0 THEN <<>>
                         ELSE IF s[i] \in S THEN Append(F[i - 1], s[i]) ELSE F[i - 1]
           f == CHOOSE F : Filtering(F, s, S, Len(s))
<1>0. Len(s) \in Nat
  OBVIOUS
<1>1. f = [i \in 0..Len(s) |-> Step(f, i)]
  <2>1. \E F : Filtering(F, s, S, Len(s))
    BY <1>0, FilterDefined, Zenon
  <2>2. Filtering(f, s, S, Len(s))
    BY <2>1, Zenon
  <2>3. QED
    BY <2>2 DEF Filtering
<1>2. Filter(s, S) = f[Len(s)]
  BY DEF Filter, Filtering
<1> HIDE DEF f
<1> DEFINE Good == {n \in Nat : n <= Len(s) => Picks(f[n], s, n, S, T)}
<1>3. 0 \in Good
  <2>1. f[0] = <<>>
    BY <1>0, <1>1
  <2>2. Picks(<<>>, s, 0, S, T)
    BY DEF Picks
  <2>3. QED
    BY <2>1, <2>2
<1>4. ASSUME NEW n \in Nat, n \in Good PROVE n + 1 \in Good
  <2> SUFFICES ASSUME n + 1 <= Len(s) PROVE Picks(f[n + 1], s, n + 1, S, T)
    OBVIOUS
  <2>1. n <= Len(s) /\ n + 1 \in 1..Len(s) /\ n + 1 \in 0..Len(s)
        /\ n + 1 # 0 /\ (n + 1) - 1 = n /\ s[n + 1] \in T
    BY <1>0
  <2>2. Picks(f[n], s, n, S, T)
    BY <1>4, <2>1
  <2>3. f[n + 1] = Step(f, n + 1)
    BY <1>1, <2>1
  <2>4. f[n + 1] = IF s[n + 1] \in S THEN Append(f[n], s[n + 1]) ELSE f[n]
    BY <2>1, <2>3
  <2>5. CASE s[n + 1] \notin S
    BY <2>2, <2>4, <2>5, PicksSkip
  <2>6. CASE s[n + 1] \in S
    BY <2>1, <2>2, <2>4, <2>6, PicksAppend
  <2>7. QED
    BY <2>5, <2>6
<1> HIDE DEF Good
<1>5. Nat \subseteq Good
  BY <1>3, <1>4, Induction
<1>6. Picks(f[Len(s)], s, Len(s), S, T)
  BY <1>0, <1>5 DEF Good
<1>7. QED
  BY <1>2, <1>6

\* The same in terms of elements; a sorted pack stays sorted.
LEMMA FilterFacts ==
  ASSUME NEW s \in Packs, NEW S
  PROVE  /\ Filter(s, S) \in Packs
         /\ Len(Filter(s, S)) <= Len(s)
         /\ Elements(Filter(s, S)) = Elements(s) \cap S
         /\ Sorted(s) => Sorted(Filter(s, S))
<1> DEFINE g == Filter(s, S)
<1>0. s \in Seq(Pos)
  BY DEF Packs
<1>1. Picks(g, s, Len(s), S, Pos)
  BY <1>0, FilterPicks
<1> HIDE DEF g
<1>2. g \in Seq(Pos) /\ Len(g) <= Len(s) /\ DOMAIN g = 1..Len(g) /\ DOMAIN s = 1..Len(s)
  BY <1>0, <1>1 DEF Picks
<1>3. Elements(g) = Elements(s) \cap S
  <2>1. \A x : x \in Elements(g) => x \in Elements(s) \cap S
    BY <1>1, <1>2, Zenon DEF Picks, Elements
  <2>2. ASSUME NEW x, x \in Elements(s) \cap S PROVE x \in Elements(g)
    <3>1. PICK i \in 1..Len(s) : x = s[i]
      BY <1>2, <2>2, Zenon DEF Elements
    <3>2. PICK k \in 1..Len(g) : g[k] = x
      BY <1>1, <2>2, <3>1, Zenon DEF Picks
    <3>3. QED
      BY <1>2, <3>2, Zenon DEF Elements
  <2>3. QED
    BY <2>1, <2>2, Zenon
<1>4. ASSUME Sorted(s) PROVE Sorted(g)
  <2> SUFFICES ASSUME NEW k \in 1..Len(g), NEW l \in 1..Len(g), k < l
               PROVE  Younger(g[l], g[k])
    BY <1>2, Zenon DEF Sorted
  <2>1. PICK i \in 1..Len(s), j \in 1..Len(s) : i < j /\ g[k] = s[i] /\ g[l] = s[j]
    BY <1>1, Zenon DEF Picks
  <2>2. Younger(s[j], s[i])
    BY <1>2, <1>4, <2>1, Zenon DEF Sorted
  <2>3. QED
    BY <2>1, <2>2, Zenon
<1>5. QED
  BY <1>2, <1>3, <1>4 DEF g, Packs

-----------------------------------------------------------------------------
(***************************************************************************)
(* Positions of the reorder buffer.                                        *)
(***************************************************************************)

\* Within one lap behind r, age is the distance from r and slots differ.
LEMMA AgeIsCount ==
  ASSUME NEW r \in Pos, NEW p \in Pos, NEW q \in Pos,
         RingCount(p, r, ROB_SIZE) < ROB_SIZE, RingCount(q, r, ROB_SIZE) < ROB_SIZE
  PROVE  /\ Younger(p, q) <=> RingCount(p, r, ROB_SIZE) > RingCount(q, r, ROB_SIZE)
         /\ RingSlot(p, ROB_SIZE) = RingSlot(q, ROB_SIZE) => p = q
         /\ RingCount(p, r, ROB_SIZE) = RingCount(q, r, ROB_SIZE) => p = q
         /\ RingCount(p, r, ROB_SIZE) \in Nat
BY ConstAssumption DEF Pos, Positions, Younger, RingYounger, RingCount, RingSlot

\* Nothing is younger than itself.
LEMMA NotYounger ==
  ASSUME NEW p \in Pos
  PROVE  ~Younger(p, p)
BY ConstAssumption DEF Pos, Positions, Younger, RingYounger, RingSlot

\* Slots and successors.
LEMMA PosFacts ==
  ASSUME NEW p \in Pos
  PROVE  /\ RingSlot(p, ROB_SIZE) \in 0..(ROB_SIZE - 1)
         /\ RingNext(p, ROB_SIZE) \in Pos
         /\ p # NoPos /\ RingSlot(p, ROB_SIZE) # NoPos
         /\ p \in Int
BY ConstAssumption DEF Pos, Positions, RingSlot, RingNext, NoPos

\* Age orders a span, and its slots are different.
LEMMA SpanOrder ==
  ASSUME NEW r \in Pos, NEW w \in Pos, RingCount(w, r, ROB_SIZE) <= ROB_SIZE
  PROVE  /\ \A p, q \in Span(r, w) : p # q => Younger(p, q) \/ Younger(q, p)
         /\ \A p, q \in Span(r, w) : ~(Younger(p, q) /\ Younger(q, p))
         /\ \A p, q, s \in Span(r, w) : Younger(p, q) /\ Younger(q, s) => Younger(p, s)
         /\ \A p, q \in Span(r, w) :
               RingSlot(p, ROB_SIZE) = RingSlot(q, ROB_SIZE) => p = q
<1> DEFINE C(p) == RingCount(p, r, ROB_SIZE)
<1>1. \A p \in Span(r, w) : p \in Pos /\ C(p) < ROB_SIZE
  BY ConstAssumption DEF Span, Pos, Positions, RingCount
<1>2. \A p, q \in Span(r, w) :
         /\ Younger(p, q) <=> C(p) > C(q)
         /\ RingSlot(p, ROB_SIZE) = RingSlot(q, ROB_SIZE) => p = q
         /\ C(p) = C(q) => p = q
         /\ C(p) \in Nat
  BY <1>1, AgeIsCount
<1> HIDE DEF C
<1>3. QED
  BY <1>2

\* Rename takes the position w: it is younger than all others, and its slot is
\* free.
LEMMA SpanGrows ==
  ASSUME NEW r \in Pos, NEW w \in Pos, RingCount(w, r, ROB_SIZE) < ROB_SIZE
  PROVE  /\ Span(r, RingNext(w, ROB_SIZE)) = Span(r, w) \cup {w}
         /\ w \notin Span(r, w)
         /\ RingCount(RingNext(w, ROB_SIZE), r, ROB_SIZE) = RingCount(w, r, ROB_SIZE) + 1
         /\ \A p \in Span(r, w) : /\ Younger(w, p)
                                  /\ RingSlot(p, ROB_SIZE) # RingSlot(w, ROB_SIZE)
<1> DEFINE C(p) == RingCount(p, r, ROB_SIZE)
<1>1. RingNext(w, ROB_SIZE) \in Pos
  BY PosFacts
<1>2. C(RingNext(w, ROB_SIZE)) = C(w) + 1
  BY ConstAssumption DEF Pos, Positions, RingCount, RingNext
<1>3. \A p \in Pos : /\ C(p) \in Nat
                     /\ C(p) = C(w) => p = w
  BY ConstAssumption DEF Pos, Positions, RingCount
<1>4. \A p \in Span(r, w) : /\ Younger(w, p)
                            /\ RingSlot(p, ROB_SIZE) # RingSlot(w, ROB_SIZE)
  <2> SUFFICES ASSUME NEW p \in Span(r, w)
               PROVE  /\ Younger(w, p)
                      /\ RingSlot(p, ROB_SIZE) # RingSlot(w, ROB_SIZE)
    OBVIOUS
  <2>1. p \in Pos /\ C(p) < C(w) /\ C(p) < ROB_SIZE
    BY <1>3, ConstAssumption DEF Span
  <2>2. QED
    BY <2>1, <1>3, AgeIsCount
<1>5. Span(r, RingNext(w, ROB_SIZE)) = Span(r, w) \cup {w}
  <2> HIDE DEF C
  <2>1. \A p \in Pos : C(p) < C(w) + 1 <=> C(p) < C(w) \/ p = w
    BY <1>3
  <2>2. QED
    BY <1>2, <2>1, Zenon DEF Span, C
<1>6. w \notin Span(r, w)
  BY <1>3 DEF Span
<1>7. QED
  BY <1>2, <1>4, <1>5, <1>6

\* Commit takes the oldest.
LEMMA SpanShrinks ==
  ASSUME NEW r \in Pos, NEW w \in Pos, r # w, RingCount(w, r, ROB_SIZE) <= ROB_SIZE
  PROVE  /\ Span(RingNext(r, ROB_SIZE), w) = Span(r, w) \ {r}
         /\ r \in Span(r, w)
         /\ RingCount(w, RingNext(r, ROB_SIZE), ROB_SIZE) = RingCount(w, r, ROB_SIZE) - 1
         /\ \A p \in Span(r, w) : p # r => Younger(p, r)
<1> DEFINE n == RingNext(r, ROB_SIZE)
<1>1. n \in Pos
  BY PosFacts
<1>2. \A p \in Pos : /\ RingCount(p, r, ROB_SIZE) \in Nat
                     /\ p # r => RingCount(p, n, ROB_SIZE) = RingCount(p, r, ROB_SIZE) - 1
  BY ConstAssumption DEF Pos, Positions, RingCount, RingNext
<1>3. /\ RingCount(r, r, ROB_SIZE) = 0
      /\ RingCount(r, n, ROB_SIZE) = 2 * ROB_SIZE - 1
      /\ RingCount(w, r, ROB_SIZE) > 0
  BY ConstAssumption DEF Pos, Positions, RingCount, RingNext
<1>4. \A p \in Pos : RingCount(p, n, ROB_SIZE) < RingCount(w, n, ROB_SIZE)
                     <=> p # r /\ RingCount(p, r, ROB_SIZE) < RingCount(w, r, ROB_SIZE)
  <2> SUFFICES ASSUME NEW p \in Pos
               PROVE  RingCount(p, n, ROB_SIZE) < RingCount(w, n, ROB_SIZE)
                      <=> p # r /\ RingCount(p, r, ROB_SIZE) < RingCount(w, r, ROB_SIZE)
    OBVIOUS
  <2>1. RingCount(w, n, ROB_SIZE) = RingCount(w, r, ROB_SIZE) - 1
    BY <1>2
  <2>2. CASE p = r
    <3>1. ~(RingCount(r, n, ROB_SIZE) < RingCount(w, n, ROB_SIZE))
      BY ConstAssumption DEF Pos, Positions, RingCount, RingNext
    <3>2. QED
      BY <2>2, <3>1
  <2>3. CASE p # r
    BY <1>2, <2>1, <2>3
  <2>4. QED
    BY <2>2, <2>3
<1>5. Span(n, w) = Span(r, w) \ {r}
  BY <1>4, Zenon DEF Span
<1>6. r \in Span(r, w)
  BY <1>3 DEF Span
<1>7. \A p \in Span(r, w) : p # r => Younger(p, r)
  <2> SUFFICES ASSUME NEW p \in Span(r, w), p # r PROVE Younger(p, r)
    OBVIOUS
  <2>1. /\ p \in Pos /\ RingCount(p, r, ROB_SIZE) < RingCount(w, r, ROB_SIZE)
        /\ RingCount(w, r, ROB_SIZE) \in Nat
    BY <1>2 DEF Span
  <2>2. RingCount(p, r, ROB_SIZE) < ROB_SIZE /\ RingCount(p, r, ROB_SIZE) \in Nat
    BY <1>2, <2>1, ConstAssumption
  <2>3. RingCount(p, r, ROB_SIZE) # 0
    BY <2>1, ConstAssumption DEF Pos, Positions, RingCount
  <2>4. QED
    BY <1>3, <2>1, <2>2, <2>3, AgeIsCount, ConstAssumption
<1>8. RingCount(w, n, ROB_SIZE) = RingCount(w, r, ROB_SIZE) - 1
  BY <1>2
<1>9. QED
  BY <1>5, <1>6, <1>7, <1>8

\* What a misprediction at f leaves.
LEMMA SpanCut ==
  ASSUME NEW r \in Pos, NEW w \in Pos, RingCount(w, r, ROB_SIZE) <= ROB_SIZE,
         NEW f \in Span(r, w)
  PROVE  /\ Span(r, RingNext(f, ROB_SIZE)) = {p \in Span(r, w) : ~Younger(p, f)}
         /\ RingCount(RingNext(f, ROB_SIZE), r, ROB_SIZE) <= RingCount(w, r, ROB_SIZE)
<1> DEFINE C(p) == RingCount(p, r, ROB_SIZE)
           n == RingNext(f, ROB_SIZE)
<1>1. \A p \in Pos : C(p) \in Nat
  BY ConstAssumption DEF Pos, Positions, RingCount
<1>2. f \in Pos /\ C(f) < C(w) /\ C(w) <= ROB_SIZE /\ C(w) \in Nat /\ C(f) \in Nat
  BY <1>1 DEF Span
<1>3. n \in Pos /\ C(n) = C(f) + 1
  <2>1. C(f) < ROB_SIZE
    BY <1>2, ConstAssumption
  <2>2. QED
    BY <1>2, <2>1, ConstAssumption DEF Pos, Positions, RingCount, RingNext
<1>4. \A p \in Span(r, w) : Younger(p, f) <=> C(p) > C(f)
  <2> SUFFICES ASSUME NEW p \in Span(r, w) PROVE Younger(p, f) <=> C(p) > C(f)
    OBVIOUS
  <2>1. p \in Pos /\ C(p) < C(w)
    BY DEF Span
  <2>2. C(p) < ROB_SIZE /\ C(f) < ROB_SIZE
    BY <1>1, <1>2, <2>1, ConstAssumption
  <2>3. QED
    BY <1>2, <2>1, <2>2, AgeIsCount
<1> HIDE DEF C, n
<1>5. \A p \in Pos : C(p) < C(n) <=> (C(p) < C(w) /\ ~(C(p) > C(f)))
  BY <1>1, <1>2, <1>3
<1>6. Span(r, n) = {p \in Span(r, w) : ~Younger(p, f)}
  <2>1. Span(r, n) = {p \in Pos : C(p) < C(n)} /\ Span(r, w) = {p \in Pos : C(p) < C(w)}
    BY DEF Span, C
  <2>2. QED
    BY <1>4, <1>5, <2>1, Zenon
<1>7. C(n) <= C(w)
  BY <1>2, <1>3
<1>8. QED
  BY <1>6, <1>7 DEF C, n

\* A span, counted from its oldest.
LEMMA SpanIs ==
  ASSUME NEW r \in Pos, NEW w \in Pos
  PROVE  {RingAdd(r, k, ROB_SIZE) : k \in 0..(RingCount(w, r, ROB_SIZE) - 1)} = Span(r, w)
<1>1. ASSUME NEW k \in 0..(RingCount(w, r, ROB_SIZE) - 1)
      PROVE  RingAdd(r, k, ROB_SIZE) \in Span(r, w)
  BY ConstAssumption DEF Span, RingAdd, RingCount, Pos, Positions
<1>2. ASSUME NEW p \in Span(r, w)
      PROVE  \E k \in 0..(RingCount(w, r, ROB_SIZE) - 1) : p = RingAdd(r, k, ROB_SIZE)
  <2> DEFINE k == RingCount(p, r, ROB_SIZE)
  <2>1. k \in 0..(RingCount(w, r, ROB_SIZE) - 1) /\ p = RingAdd(r, k, ROB_SIZE)
    BY ConstAssumption DEF Span, RingAdd, RingCount, Pos, Positions
  <2>2. QED
    BY <2>1
<1>3. QED
  BY <1>1, <1>2

\* The reorder buffer as a span, part of what rename may not overwrite; what has
\* been committed is older than what has not.
LEMMA LiveSpan ==
  ASSUME rob_w \in Pos, rob_r \in Pos, rob_r0 \in Pos, RingInv
  PROVE  /\ RobLive = Span(rob_r, rob_w)
         /\ RobLive \subseteq Live0 /\ Live0 \subseteq Pos
         /\ RingCount(rob_w, rob_r, ROB_SIZE) <= ROB_SIZE
<1>1. RobLive = Span(rob_r, rob_w)
  BY SpanIs DEF RobLive, RobCount
<1>2. RingCount(rob_w, rob_r, ROB_SIZE) <= ROB_SIZE
  BY ConstAssumption DEF RingInv, RingCount, Pos, Positions
<1>3. Span(rob_r, rob_w) \subseteq Live0
  BY ConstAssumption DEF Span, Live0, RingInv, RingCount, Pos, Positions
<1>4. QED
  BY <1>1, <1>2, <1>3 DEF Live0, Span

-----------------------------------------------------------------------------
(***************************************************************************)
(* Packs and lines of packs.                                               *)
(***************************************************************************)

\* An empty pack.
LEMMA EmptyPack ==
  /\ <<>> \in Packs /\ Elements(<<>>) = {} /\ Sorted(<<>>) /\ Len(<<>>) = 0
  /\ \A s \in Packs : Elements(s) = {} => s = <<>>
  /\ \A s \in Packs : Elements(s) \subseteq Pos
<1>1. <<>> \in Packs /\ Elements(<<>>) = {} /\ Sorted(<<>>) /\ Len(<<>>) = 0
  BY DEF Packs, Elements, Sorted
<1>2. \A s \in Packs : Elements(s) = {} => s = <<>>
  <2> SUFFICES ASSUME NEW s \in Packs, s # <<>> PROVE Elements(s) # {}
    OBVIOUS
  <2>1. 1 \in DOMAIN s
    BY DEF Packs
  <2>2. QED
    BY <2>1 DEF Elements
<1>3. \A s \in Packs : Elements(s) \subseteq Pos
  BY DEF Packs, Elements
<1>4. QED
  BY <1>1, <1>2, <1>3

\* A sorted pack taken apart.
FirstOf(s, n) == {s[i] : i \in 1..n}
RestOf(s, n) == SubSeq(s, n + 1, Len(s))
LEMMA SplitPack ==
  ASSUME NEW s \in Packs, Sorted(s), NEW n \in Nat, n <= Len(s)
  PROVE  /\ RestOf(s, n) \in Packs /\ Len(RestOf(s, n)) <= Len(s) /\ Sorted(RestOf(s, n))
         /\ Elements(s) = FirstOf(s, n) \cup Elements(RestOf(s, n))
         /\ Behind(Elements(RestOf(s, n)), FirstOf(s, n))
<1> DEFINE t == RestOf(s, n)
           A == FirstOf(s, n)
<1>1. s \in Seq(Pos) /\ Len(s) \in Nat /\ DOMAIN s = 1..Len(s)
  BY DEF Packs
<1>2. PICK m \in Nat : Len(s) = n + m
  <2>1. Len(s) - n \in Nat /\ Len(s) = n + (Len(s) - n)
    BY <1>1
  <2>2. QED
    BY <2>1
<1>3. /\ t \in Seq(Pos) /\ Len(t) = m /\ DOMAIN t = 1..m
      /\ \A i \in 1..m : t[i] = s[n + i] /\ n + i \in 1..Len(s)
  <2>1. t = SubSeq(s, n + 1, n + m)
    BY <1>2 DEF RestOf
  <2>2. t \in Seq(Pos)
    BY <1>1, <1>2, <2>1
  <2>3. Len(t) = m
    BY <1>1, <1>2, <2>1
  <2>4. \A i \in 1..m : t[i] = s[n + i]
    BY <1>1, <1>2, <2>1
  <2>5. \A i \in 1..m : n + i \in 1..Len(s)
    BY <1>2
  <2>6. QED
    BY <2>2, <2>3, <2>4, <2>5
<1> HIDE DEF t
<1>4. Sorted(t)
  <2> SUFFICES ASSUME NEW i \in DOMAIN t, NEW j \in DOMAIN t, i < j
               PROVE  Younger(t[j], t[i])
    BY DEF Sorted
  <2>0. i \in 1..m /\ j \in 1..m
    BY <1>3
  <2>1. n + i \in DOMAIN s /\ n + j \in DOMAIN s /\ n + i < n + j
    BY <1>1, <1>2, <2>0
  <2>2. Younger(s[n + j], s[n + i])
    BY <2>1, Zenon DEF Sorted
  <2>3. QED
    BY <1>3, <2>2
<1>5. Behind(Elements(t), A)
  <2> SUFFICES ASSUME NEW i \in 1..n, NEW j \in DOMAIN t
               PROVE  Younger(t[j], s[i])
    BY DEF Behind, Elements, FirstOf
  <2>0. j \in 1..m
    BY <1>3
  <2>1. i \in DOMAIN s /\ n + j \in DOMAIN s /\ i < n + j
    BY <1>1, <1>2, <2>0
  <2>2. Younger(s[n + j], s[i])
    BY <2>1, Zenon DEF Sorted
  <2>3. QED
    BY <1>3, <2>2
<1>6. Elements(s) = A \cup Elements(t)
  <2>1. ASSUME NEW i \in DOMAIN s PROVE s[i] \in A \cup Elements(t)
    <3>1. CASE i <= n
      BY <1>1, <3>1 DEF FirstOf
    <3>2. CASE i > n
      <4>1. n + (i - n) = i /\ i - n \in 1..m
        BY <1>1, <1>2, <3>2
      <4>2. t[i - n] = s[i] /\ i - n \in DOMAIN t
        BY <1>3, <4>1
      <4>3. QED
        BY <4>1, <4>2 DEF Elements
    <3>3. QED
      BY <1>1, <3>1, <3>2
  <2>2. A \subseteq Elements(s)
    BY <1>1 DEF Elements, FirstOf
  <2>3. Elements(t) \subseteq Elements(s)
    BY <1>1, <1>3 DEF Elements
  <2>4. QED
    BY <2>1, <2>2, <2>3 DEF Elements
<1>7. Len(t) <= Len(s)
  BY <1>2, <1>3
<1>8. QED
  BY <1>3, <1>4, <1>5, <1>6, <1>7 DEF Packs, t

\* run_input of an issue stage: X leaves the queue, K is what a misprediction
\* leaves, the first n of the arriving pack enter.
Issued(Q, r, p, h, X, K, pack, n, Q1, r1, p1) ==
    /\ Q \in SUBSET Pos /\ r \in Packs /\ p \in Packs /\ h \in Packs
    /\ Line(Q, r, p, h)
    /\ pack = Filter(IF r # <<>> THEN r ELSE p, K)
    /\ n \in Nat /\ n <= Len(pack)
    /\ Q1 = ((Q \ X) \cap K) \cup FirstOf(pack, n)
    /\ r1 = RestOf(pack, n)
    /\ p1 = IF r # <<>> THEN p ELSE <<>>
Passed(Q, r, p, h, X, K, Q1, r1, p1) ==
    /\ Line(Q1, r1, p1, h)
    /\ Q1 \in SUBSET Pos /\ r1 \in Packs /\ p1 \in Packs
    /\ Len(r1) <= Len(r) \/ Len(r1) <= Len(p)
    /\ Q1 \subseteq K /\ Elements(r1) \subseteq K
    /\ Elements(p1) \subseteq Elements(p)
    /\ Placed(Q1, r1, p1, h) \subseteq (Q \ X) \cup Elements(r) \cup Elements(p)
                                       \cup Elements(h)
    /\ \A x \in Placed(Q, r, p, h) :
          x \in Placed(Q1, r1, p1, h) \/ x \notin K \/ x \in Q \cap X
LEMMA IssueLine ==
  ASSUME NEW Q, NEW r, NEW p, NEW h, NEW X, NEW K, NEW pack, NEW n, NEW Q1, NEW r1, NEW p1,
         Issued(Q, r, p, h, X, K, pack, n, Q1, r1, p1)
  PROVE  Passed(Q, r, p, h, X, K, Q1, r1, p1)
<1> USE DEF Issued
<1> DEFINE s == IF r # <<>> THEN r ELSE p
           A == FirstOf(pack, n)
<1>1. s \in Packs /\ Sorted(s) /\ Behind(Elements(s), Q) /\ Behind(Elements(h), Elements(s))
  BY DEF Line
<1>2. /\ pack \in Packs /\ Len(pack) <= Len(s) /\ Elements(pack) = Elements(s) \cap K
      /\ Sorted(pack)
  <2> HIDE DEF s
  <2>1. pack = Filter(s, K)
    BY DEF s
  <2>2. QED
    BY <1>1, <2>1, FilterFacts, Zenon
<1>3. /\ r1 \in Packs /\ Len(r1) <= Len(pack) /\ Sorted(r1)
      /\ Elements(pack) = A \cup Elements(r1)
      /\ Behind(Elements(r1), A)
  BY <1>2, SplitPack
<1>4. p1 \in Packs /\ Sorted(p1) /\ Elements(p1) \subseteq Elements(p)
  BY EmptyPack DEF Line
<1>5. Behind(Elements(p1), Elements(s))
  BY EmptyPack DEF Line, Behind
<1>6. Elements(s) \cup Elements(p1) = Elements(r) \cup Elements(p)
  BY EmptyPack
<1>7. Len(s) \in Nat /\ Len(pack) \in Nat /\ Len(r1) \in Nat
  BY <1>1, <1>2, <1>3 DEF Packs
<1>8. Len(r1) <= Len(r) \/ Len(r1) <= Len(p)
  BY <1>2, <1>3, <1>7
<1>9. Q1 = ((Q \ X) \cap K) \cup A
  OBVIOUS
<1>10. Elements(s) \subseteq Pos
  BY <1>1, EmptyPack
<1> HIDE DEF s, A
<1>11. Q1 \subseteq Pos /\ Q1 \subseteq K /\ Elements(r1) \subseteq K
  BY <1>2, <1>3, <1>9, <1>10
<1>12. Line(Q1, r1, p1, h)
  <2>1. Behind(Elements(r1), Q1)
    BY <1>1, <1>2, <1>3, <1>9 DEF Behind
  <2>2. Behind(Elements(p1), Q1) /\ Behind(Elements(p1), Elements(r1))
    BY <1>2, <1>3, <1>4, <1>5, <1>9 DEF Behind, Line
  <2>3. Behind(Elements(h), Q1) /\ Behind(Elements(h), Elements(r1))
    BY <1>1, <1>2, <1>3, <1>9 DEF Behind, Line
  <2>4. Behind(Elements(h), Elements(p1))
    BY <1>4 DEF Behind, Line
  <2>5. QED
    BY <1>3, <1>4, <2>1, <2>2, <2>3, <2>4 DEF Line
<1>13. Placed(Q1, r1, p1, h) \subseteq (Q \ X) \cup Elements(r) \cup Elements(p)
                                            \cup Elements(h)
  BY <1>2, <1>3, <1>6, <1>9 DEF Placed
<1>14. \A x \in Placed(Q, r, p, h) :
          x \in Placed(Q1, r1, p1, h) \/ x \notin K \/ x \in Q \cap X
  BY <1>2, <1>3, <1>6, <1>9 DEF Placed
<1>15. QED
  BY <1>3, <1>4, <1>8, <1>11, <1>12, <1>13, <1>14 DEF Passed

\* The queue does not outgrow its size.
LEMMA QueueFits ==
  ASSUME NEW Q \in SUBSET Pos, Cardinality(Q) <= ISSUE_QUEUE_SIZE, NEW Q0 \in SUBSET Q,
         NEW s \in Packs, NEW n,
         n = IF Len(s) <= ISSUE_QUEUE_SIZE - Cardinality(Q0) THEN Len(s)
             ELSE ISSUE_QUEUE_SIZE - Cardinality(Q0)
  PROVE  /\ n \in Nat /\ n <= Len(s)
         /\ Cardinality(Q0 \cup FirstOf(s, n)) <= ISSUE_QUEUE_SIZE
<1>1. IsFiniteSet(Pos)
  BY FS_Interval, ConstAssumption DEF Pos, Positions
<1>2. IsFiniteSet(Q) /\ IsFiniteSet(Q0)
  BY <1>1, FS_Subset
<1>3. /\ Cardinality(Q) \in Nat /\ Cardinality(Q0) \in Nat
      /\ Cardinality(Q0) <= Cardinality(Q)
  BY <1>2, FS_Subset, FS_CardinalityType
<1>4. Len(s) \in Nat /\ ISSUE_QUEUE_SIZE \in Nat
  BY ConstAssumption DEF Packs
<1>5. n \in Nat /\ n <= Len(s) /\ Cardinality(Q0) + n <= ISSUE_QUEUE_SIZE
  BY <1>3, <1>4
<1> DEFINE A == {s[i] : i \in 1..n}
<1>6. IsFiniteSet(1..n) /\ Cardinality(1..n) = n
  BY <1>5, FS_Interval
<1>7. IsFiniteSet(A) /\ Cardinality(A) <= n
  <2> DEFINE f == [i \in 1..n |-> s[i]]
  <2>1. f \in Surjection(1..n, A)
    BY DEF Surjection
  <2>2. QED
    BY <1>6, <2>1, FS_Surjection
<1> HIDE DEF A
<1>8. Cardinality(Q0 \cup A) <= Cardinality(Q0) + Cardinality(A)
  <2>1. /\ Cardinality(Q0 \cup A) = Cardinality(Q0) + Cardinality(A) - Cardinality(Q0 \cap A)
        /\ IsFiniteSet(Q0 \cap A)
    BY <1>2, <1>7, FS_Union, FS_Intersection
  <2>2. Cardinality(Q0 \cap A) \in Nat /\ Cardinality(A) \in Nat
    BY <1>7, <2>1, FS_CardinalityType
  <2>3. QED
    BY <1>3, <2>1, <2>2
<1>9. IsFiniteSet(Q0 \cup A) /\ Cardinality(Q0 \cup A) \in Nat /\ Cardinality(A) \in Nat
  BY <1>2, <1>7, FS_Union, FS_CardinalityType
<1>10. QED
  BY <1>3, <1>4, <1>5, <1>7, <1>8, <1>9 DEF A, FirstOf

-----------------------------------------------------------------------------
(***************************************************************************)
(* Execution and commit: no pack moves.                                    *)
(***************************************************************************)

\* The order of the reorder buffer, with what was committed in this cycle.
LEMMA Order ==
  ASSUME TypeInv, RingInv
  PROVE  /\ RobLive = Span(rob_r, rob_w) /\ RobLive \subseteq Live0 /\ Live0 \subseteq Pos
         /\ \A p, q \in Live0 : p # q => Younger(p, q) \/ Younger(q, p)
         /\ \A p, q \in Live0 : ~(Younger(p, q) /\ Younger(q, p))
         /\ \A p, q, s \in Live0 : Younger(p, q) /\ Younger(q, s) => Younger(p, s)
         /\ \A p, q \in Live0 :
               RingSlot(p, ROB_SIZE) = RingSlot(q, ROB_SIZE) => p = q
<1>1. /\ RobLive = Span(rob_r, rob_w) /\ RobLive \subseteq Live0 /\ Live0 \subseteq Pos
  BY LiveSpan DEF TypeInv
<1>2. RingCount(rob_w, rob_r0, ROB_SIZE) <= ROB_SIZE /\ rob_w \in Pos /\ rob_r0 \in Pos
  BY DEF TypeInv, RingInv
<1>3. QED
  BY <1>1, <1>2, SpanOrder DEF Live0

\* A step before the issue stages that moves no pack and at most retires what has
\* finished.
LEMMA QuietPlaces ==
  ASSUME phase \notin {"dispatch", "rename"}, phase' \notin {"dispatch", "rename"},
         send_pack = <<>>, RobLive' \subseteq RobLive, Open' = Open,
         UNCHANGED <<rob, dispatch_vars, issue_vars, rename_vars>>,
         FrontInv, LineInv
  PROVE  /\ FrontInv' /\ LineInv'
         /\ Front' = Front /\ Sent' = Sent \cap RobLive'
         /\ IntegerPlaced' = IntegerPlaced /\ LsuPlaced' = LsuPlaced
<1> USE DEF dispatch_vars, hold_vars, issue_vars, queue_vars, rename_vars
<1>1. LiveInteger' = LiveInteger /\ LiveLsu' = LiveLsu /\ LiveFront' = LiveFront
  BY DEF LiveInteger, LiveLsu, LiveFront, LivePort
<1>2. Front' = Front
  BY <1>1 DEF Front, Elements
<1>3. Sent' = Sent \cap RobLive'
  BY <1>2 DEF Sent
<1>4. IntegerPlaced' = IntegerPlaced /\ LsuPlaced' = LsuPlaced
  BY <1>1 DEF IntegerPlaced, LsuPlaced
<1>5. Open' \subseteq RobLive'
  BY DEF Open
<1>6. FrontInv'
  <2>1. /\ Shaped(rev_pack)' /\ Shaped(LiveFront)' /\ Shaped(send_pack)'
        /\ Behind(Elements(LiveFront), Elements(rev_pack))'
        /\ Behind(Elements(send_pack), Elements(rev_pack))'
        /\ Behind(Elements(send_pack), Elements(LiveFront))'
    BY <1>1 DEF FrontInv, Shaped, Kind, Item, IsFence, IsLsu, Elements, Behind
  <2>2. Front' \subseteq Open'
    BY <1>2 DEF FrontInv
  <2>3. Behind(Front, Sent)'
    BY <1>2, <1>3 DEF FrontInv, Behind
  <2>4. send_pack' = <<>>
    OBVIOUS
  <2>5. QED
    BY <2>1, <2>2, <2>3, <2>4 DEF FrontInv
<1>7. LineInv'
  <2>1. /\ Line(integer_queue, integer_rev, LiveInteger, hold_integer)'
        /\ Line(lsu_queue, lsu_rev, LiveLsu, hold_lsu)'
    BY <1>1 DEF LineInv
  <2>2. /\ IntegerPlaced' \subseteq (Open \cap Sent)' /\ LsuPlaced' \subseteq (Open \cap Sent)'
    BY <1>3, <1>4, <1>5 DEF LineInv
  <2>3. (\A p \in IntegerPlaced : IsInteger(p))' /\ (\A p \in LsuPlaced : IsLsu(p))'
    BY <1>4 DEF LineInv, IsInteger, IsLsu, Kind, Item
  <2>4. QED
    BY <2>1, <2>2, <2>3 DEF LineInv
<1>8. QED
  BY <1>2, <1>3, <1>4, <1>6, <1>7

\* Such a step keeps the waits: what retires is older than what remains, and a
\* misprediction only narrows what has to be shown.
LEMMA QuietWaits ==
  ASSUME TypeInv, RingInv, WaitInv, FenceInv, CsrInv,
         phase' # "rename", RobLive' \subseteq RobLive, Live0' = Live0,
         \A x \in RobLive \ RobLive', q \in RobLive' : Younger(q, x),
         Front' = Front, Sent' = Sent \cap RobLive', Kept' \subseteq Kept,
         UNCHANGED <<rob, inst_waiting>>
  PROVE  WaitInv' /\ FenceInv' /\ CsrInv'
<1>0. /\ RobLive \subseteq Live0
      /\ \A p, q \in Live0 : p # q => Younger(p, q) \/ Younger(q, p)
      /\ \A p, q \in Live0 : ~(Younger(p, q) /\ Younger(q, p))
  BY Order
<1>1. Sent \subseteq RobLive /\ Sent' \subseteq RobLive' /\ Sent' \subseteq Sent
  BY DEF Sent
<1>2. WaitInv'
  BY DEF WaitInv, Kind, Item
<1>3. CsrInv'
  BY <1>1 DEF CsrInv, Kind, Item
<1>4. FenceInv'
  <2> SUFFICES ASSUME NEW f \in Sent' \cap Kept', IsFence(f)'
               PROVE  WaitedFor(f)' \/ Uncovered(f)'
    BY DEF FenceInv
  <2>1. f \in Sent \cap Kept /\ IsFence(f) /\ f \in RobLive' /\ f \in RobLive
    BY <1>1 DEF IsFence, Kind, Item
  <2>2. CASE WaitedFor(f)
    <3>1. inst_waiting \in RobLive'
      <4>1. inst_waiting \in RobLive /\ ~Younger(f, inst_waiting)
        BY <2>2 DEF WaitedFor
      <4>2. QED
        BY <4>1, <2>1, <1>0
    <3>2. QED
      BY <3>1, <2>2, <1>1 DEF WaitedFor, IsLsu, Kind, Item
  <2>3. CASE Uncovered(f)
    <3>1. PICK b \in Sent : /\ BranchBehind(f, b)
                            /\ \A p \in Sent : IsLsu(p) /\ Younger(p, f) => Younger(p, b)
      BY <2>3 DEF Uncovered
    <3>2. b \in Sent'
      <4>1. Younger(b, f) /\ b \in RobLive
        BY <1>1, <3>1 DEF BranchBehind
      <4>2. b \in RobLive'
        BY <4>1, <2>1, <1>0
      <4>3. QED
        BY <4>2
    <3>3. BranchBehind(f, b)'
      BY <3>1 DEF BranchBehind, Kind, Item
    <3>4. \A p \in Sent' : IsLsu(p)' /\ Younger(p, f) => Younger(p, b)
      BY <1>1, <3>1 DEF IsLsu, Kind, Item
    <3>5. QED
      BY <3>2, <3>3, <3>4 DEF Uncovered
  <2>4. QED
    BY <2>1, <2>2, <2>3 DEF FenceInv
<1>5. QED
  BY <1>2, <1>3, <1>4

\* The execution units.
LEMMA ExecuteInv ==
  ASSUME IInv, Execute
  PROVE  IInv'
<1> USE DEF rob_vars, dispatch_vars, hold_vars, issue_vars, queue_vars, rename_vars
<1>0. /\ TypeInv /\ RingInv /\ RoomInv /\ PhaseInv /\ ClearedInv
      /\ phase = "execute" /\ phase' = "commit" /\ flush = "none" /\ PlaceInv
  BY DEF IInv, Execute, PhaseInv
<1>1. /\ exec' \subseteq integer_queue \cup lsu_queue
      /\ \/ flush' = flush /\ flush_pos' = flush_pos
         \/ \E p \in exec' : Kind(p) = "bru" /\ flush' = "bru" /\ flush_pos' = p
      /\ next_handle' = IF rob_r = rob_w THEN NoPos ELSE RingSlot(rob_r, ROB_SIZE)
      /\ UNCHANGED <<slot, rob_vars, committed, dispatch_vars, issue_vars, rename_vars>>
  BY DEF Execute
<1>2. TypeInv'
  <2>1. exec' \subseteq Pos
    BY <1>0, <1>1 DEF TypeInv
  <2>2. flush' \in {"none", "bru", "commit"} /\ flush_pos' \in Pos
    BY <1>0, <1>1, <2>1 DEF TypeInv
  <2>3. next_handle' \in 0..(ROB_SIZE - 1) \cup {NoPos}
    BY <1>0, <1>1, PosFacts DEF TypeInv
  <2>4. QED
    BY <1>0, <1>1, <2>1, <2>2, <2>3 DEF TypeInv
<1>3. RingInv' /\ RoomInv' /\ ClearedInv'
  BY <1>0, <1>1 DEF RingInv, RoomInv, ClearedInv, Fits
<1>4. PhaseInv'
  BY <1>0, <1>1 DEF PhaseInv
<1>5. RobLive' = RobLive /\ Live0' = Live0 /\ Open' = Open
  BY <1>1 DEF RobLive, RobCount, Live0, Open, Item
<1>6. /\ FrontInv' /\ LineInv'
      /\ Front' = Front /\ Sent' = Sent \cap RobLive'
      /\ IntegerPlaced' = IntegerPlaced /\ LsuPlaced' = LsuPlaced
  <2>1. send_pack = <<>>
    BY <1>0 DEF PhaseInv
  <2>2. QED
    BY <1>0, <1>1, <1>5, <2>1, QuietPlaces DEF PlaceInv
<1>7. Sent' = Sent
  BY <1>5, <1>6 DEF Sent
<1>8. Kept = Pos /\ Kept' \subseteq Pos
  BY <1>0 DEF Kept
<1>9. CompleteInv'
  BY <1>0, <1>5, <1>6, <1>8 DEF PlaceInv, CompleteInv, Open
<1>10. WaitInv' /\ FenceInv' /\ CsrInv'
  BY <1>0, <1>1, <1>5, <1>6, <1>8, QuietWaits DEF PlaceInv
<1>11. BruInv'
  <2> SUFFICES ASSUME flush' = "bru" PROVE BruInv'
    BY DEF BruInv
  <2>1. PICK p \in exec' : Kind(p) = "bru" /\ flush_pos' = p
    BY <1>0, <1>1
  <2>2. p \in Sent
    BY <1>0, <1>1 DEF PlaceInv, LineInv, IntegerPlaced, LsuPlaced, Placed
  <2>3. QED
    BY <1>0, <1>1, <1>7, <2>1, <2>2 DEF BruInv, Kind, Item
<1>12. CommittedInv'
  <2>1. \A p \in Live0' : /\ RingSlot(p, ROB_SIZE) \in committed' =>
                               p \notin RobLive' \/ Kind(p)' = "store"
                          /\ p \notin RobLive' => RingSlot(p, ROB_SIZE) \in committed'
    BY <1>0, <1>1, <1>5 DEF PlaceInv, CommittedInv, Kind, Item
  <2>0. committed' = {}
    BY <1>0, <1>1 DEF PhaseInv
  <2>2. CASE rob_r = rob_w
    BY <1>1, <2>0, <2>1, <2>2 DEF CommittedInv
  <2>3. CASE rob_r # rob_w
    <3>1. /\ rob_r \in RobLive
          /\ \A p \in RobLive : p # rob_r => Younger(p, rob_r)
      BY <1>0, <2>3, LiveSpan, SpanShrinks DEF TypeInv
    <3>2. \A q \in RobLive : ~Younger(rob_r, q)
      BY <1>0, <3>1, Order
    <3>3. QED
      BY <1>1, <1>5, <2>0, <2>1, <2>3, <3>1, <3>2 DEF CommittedInv
  <2>4. QED
    BY <2>2, <2>3
<1>13. QED
  BY <1>2, <1>3, <1>4, <1>6, <1>9, <1>10, <1>11, <1>12 DEF IInv, PlaceInv

\* The head of the reorder buffer and the one behind it.
LEMMA RobHead ==
  ASSUME TypeInv, RingInv, rob_r # rob_w
  PROVE  LET n == RingNext(rob_r, ROB_SIZE)
         IN  /\ rob_r \in RobLive /\ n \in Pos
             /\ \A p \in RobLive : p # rob_r => Younger(p, rob_r)
             /\ Span(n, rob_w) = RobLive \ {rob_r}
             /\ RingCount(n, rob_r0, ROB_SIZE) = RingCount(rob_r, rob_r0, ROB_SIZE) + 1
             /\ RingCount(rob_w, n, ROB_SIZE) = RingCount(rob_w, rob_r, ROB_SIZE) - 1
             /\ RobCount > 1 => n \in RobLive \ {rob_r}
             /\ RobCount > 1 => \A q \in RobLive : Younger(n, q) => q = rob_r
<1> DEFINE n == RingNext(rob_r, ROB_SIZE)
<1>0. rob_r \in Pos /\ rob_w \in Pos /\ rob_r0 \in Pos
  BY DEF TypeInv
<1>1. rob_r \in Pos /\ rob_w \in Pos /\ rob_r0 \in Pos /\ n \in Pos
  BY <1>0, PosFacts
<1>2. RobLive = Span(rob_r, rob_w) /\ RingCount(rob_w, rob_r, ROB_SIZE) <= ROB_SIZE
  BY <1>1, LiveSpan
<1>3. /\ Span(n, rob_w) = RobLive \ {rob_r} /\ rob_r \in RobLive
      /\ RingCount(rob_w, n, ROB_SIZE) = RingCount(rob_w, rob_r, ROB_SIZE) - 1
      /\ \A p \in RobLive : p # rob_r => Younger(p, rob_r)
  BY <1>1, <1>2, SpanShrinks
<1>4. RingCount(n, rob_r0, ROB_SIZE) = RingCount(rob_r, rob_r0, ROB_SIZE) + 1
  BY <1>1, ConstAssumption DEF RingInv, RingCount, RingNext, Pos, Positions
<1>5. ASSUME RobCount > 1
      PROVE  /\ n \in RobLive \ {rob_r}
             /\ \A q \in RobLive : Younger(n, q) => q = rob_r
  <2>1. RingCount(rob_w, n, ROB_SIZE) <= ROB_SIZE /\ n # rob_w
    BY <1>1, <1>2, <1>3, <1>5, ConstAssumption DEF RobCount, RingCount, Pos, Positions
  <2>2. n \in Span(n, rob_w) /\ \A p \in Span(n, rob_w) : p # n => Younger(p, n)
    BY <1>1, <2>1, SpanShrinks
  <2>3. \A p, q \in Span(n, rob_w) : ~(Younger(p, q) /\ Younger(q, p))
    BY <1>1, <2>1, SpanOrder
  <2>4. ~Younger(n, n)
    BY <1>1, NotYounger
  <2>5. QED
    BY <1>3, <2>2, <2>3, <2>4
<1>6. QED
  BY <1>1, <1>3, <1>4, <1>5

\* A store at the head that waits.
LEMMA CommitPauseInv ==
  ASSUME IInv, CommitPause
  PROVE  IInv'
<1> USE DEF rob_vars, dispatch_vars, hold_vars, issue_vars, queue_vars, rename_vars
<1>0. /\ TypeInv /\ RingInv /\ RoomInv /\ PhaseInv /\ ClearedInv
      /\ phase = "commit" /\ phase' = "commit" /\ flush # "commit" /\ PlaceInv
      /\ rob_r # rob_w /\ Item(rob_r).finish /\ Kind(rob_r) = "store"
      /\ committed' = committed \cup {RingSlot(rob_r, ROB_SIZE)}
      /\ next_handle' = IF RobCount > 1
                        THEN RingSlot(RingNext(rob_r, ROB_SIZE), ROB_SIZE) ELSE NoPos
      /\ slot' = COMMIT_WIDTH
      /\ UNCHANGED <<rob_vars, exec, flush, flush_pos, dispatch_vars, issue_vars, rename_vars>>
  BY DEF IInv, CommitPause, CanCommit, ReportHead
<1> DEFINE n == RingNext(rob_r, ROB_SIZE)
<1>1. /\ rob_r \in RobLive /\ n \in Pos
      /\ RobCount > 1 => n \in RobLive \ {rob_r}
      /\ RobCount > 1 => \A q \in RobLive : Younger(n, q) => q = rob_r
  BY <1>0, RobHead
<1>2. TypeInv'
  <2>1. committed' \subseteq 0..(ROB_SIZE - 1)
        /\ next_handle' \in 0..(ROB_SIZE - 1) \cup {NoPos}
    BY <1>0, <1>1, PosFacts DEF TypeInv
  <2>2. slot' \in Nat
    BY <1>0, ConstAssumption
  <2>3. QED
    BY <1>0, <2>1, <2>2 DEF TypeInv
<1>3. RingInv' /\ RoomInv' /\ ClearedInv' /\ PhaseInv'
  BY <1>0 DEF RingInv, RoomInv, ClearedInv, PhaseInv, Fits
<1>5. RobLive' = RobLive /\ Live0' = Live0 /\ Open' = Open /\ Kept' = Kept
  BY <1>0 DEF RobLive, RobCount, Live0, Open, Item, Kept
<1>6. /\ FrontInv' /\ LineInv'
      /\ Front' = Front /\ Sent' = Sent \cap RobLive'
      /\ IntegerPlaced' = IntegerPlaced /\ LsuPlaced' = LsuPlaced
  <2>1. send_pack = <<>>
    BY <1>0 DEF PhaseInv
  <2>2. QED
    BY <1>0, <1>5, <2>1, QuietPlaces DEF PlaceInv
<1>7. Sent' = Sent
  BY <1>5, <1>6 DEF Sent
<1>8. CompleteInv'
  BY <1>0, <1>5, <1>6 DEF PlaceInv, CompleteInv
<1>9. WaitInv' /\ FenceInv' /\ CsrInv'
  BY <1>0, <1>5, <1>6, QuietWaits DEF PlaceInv
<1>10. BruInv'
  BY <1>0, <1>7 DEF PlaceInv, BruInv, Kind, Item
<1>11. CommittedInv'
  <2>1. \A p \in Live0 : RingSlot(p, ROB_SIZE) = RingSlot(rob_r, ROB_SIZE) => p = rob_r
    BY <1>0, <1>1, Order
  <2>2. \A p \in Live0' : /\ RingSlot(p, ROB_SIZE) \in committed' =>
                               p \notin RobLive' \/ Kind(p)' = "store"
                          /\ p \notin RobLive' => RingSlot(p, ROB_SIZE) \in committed'
    BY <1>0, <1>5, <2>1 DEF PlaceInv, CommittedInv, Kind, Item
  <2>0. \A s \in committed' : \E p \in Live0' : s = RingSlot(p, ROB_SIZE)
    <3>1. rob_r \in Live0
      BY <1>0, <1>1, Order
    <3>2. QED
      BY <1>0, <1>5, <3>1 DEF PlaceInv, CommittedInv
  <2>3. CASE RobCount > 1
    <3>1. next_handle' = RingSlot(n, ROB_SIZE) /\ n \in RobLive'
      BY <1>0, <1>1, <1>5, <2>3
    <3>2. \A q \in RobLive' : Younger(n, q) => Item(q)'.finish
      BY <1>0, <1>1, <1>5, <2>3 DEF Item
    <3>3. QED
      BY <2>0, <2>2, <3>1, <3>2 DEF CommittedInv
  <2>4. CASE ~(RobCount > 1)
    BY <1>0, <2>0, <2>2, <2>4 DEF CommittedInv
  <2>5. QED
    BY <2>3, <2>4
<1>12. QED
  BY <1>2, <1>3, <1>6, <1>8, <1>9, <1>10, <1>11 DEF IInv, PlaceInv

\* The head retires.
LEMMA CommitRetireInv ==
  ASSUME IInv, CommitRetire
  PROVE  IInv'
<1> USE DEF rob_vars, dispatch_vars, hold_vars, issue_vars, queue_vars, rename_vars
<1>0. /\ TypeInv /\ RingInv /\ RoomInv /\ PhaseInv /\ ClearedInv
      /\ phase = "commit" /\ phase' = "commit" /\ flush # "commit" /\ PlaceInv
      /\ rob_r # rob_w /\ Item(rob_r).finish
      /\ committed' = committed \cup {RingSlot(rob_r, ROB_SIZE)}
      /\ next_handle' = IF RobCount > 1
                        THEN RingSlot(RingNext(rob_r, ROB_SIZE), ROB_SIZE) ELSE NoPos
      /\ rob_r' = RingNext(rob_r, ROB_SIZE)
      /\ slot' = IF Kind(rob_r) = "bru" THEN COMMIT_WIDTH ELSE slot + 1
      /\ UNCHANGED <<rob, rob_w, rob_r0, exec, flush, flush_pos, dispatch_vars, issue_vars,
                     rename_vars>>
  BY DEF IInv, CommitRetire, CanCommit, ReportHead
<1> DEFINE n == RingNext(rob_r, ROB_SIZE)
<1>1. /\ rob_r \in RobLive /\ n \in Pos
      /\ \A p \in RobLive : p # rob_r => Younger(p, rob_r)
      /\ Span(n, rob_w) = RobLive \ {rob_r}
      /\ RingCount(n, rob_r0, ROB_SIZE) = RingCount(rob_r, rob_r0, ROB_SIZE) + 1
      /\ RingCount(rob_w, n, ROB_SIZE) = RingCount(rob_w, rob_r, ROB_SIZE) - 1
      /\ RobCount > 1 => n \in RobLive \ {rob_r}
      /\ RobCount > 1 => \A q \in RobLive : Younger(n, q) => q = rob_r
  BY <1>0, RobHead
<1>2. TypeInv'
  <2>1. committed' \subseteq 0..(ROB_SIZE - 1)
        /\ next_handle' \in 0..(ROB_SIZE - 1) \cup {NoPos} /\ rob_r' \in Pos
    BY <1>0, <1>1, PosFacts DEF TypeInv
  <2>2. slot' \in Nat
    BY <1>0, ConstAssumption DEF TypeInv
  <2>3. QED
    BY <1>0, <2>1, <2>2 DEF TypeInv
<1>3. RingInv'
  <2>1. /\ RingCount(rob_r, rob_r0, ROB_SIZE) \in Int /\ RingCount(rob_w, rob_r, ROB_SIZE) \in Int
    BY <1>0, ConstAssumption DEF TypeInv, RingCount, Pos, Positions
  <2>2. QED
    BY <1>0, <1>1, <2>1 DEF RingInv
<1>4. RoomInv' /\ ClearedInv' /\ PhaseInv'
  BY <1>0 DEF RoomInv, ClearedInv, PhaseInv, Fits
<1>5. /\ RobLive' = RobLive \ {rob_r} /\ Live0' = Live0 /\ Open' = Open /\ Kept' = Kept
  <2>1. RobLive' = RobLive \ {rob_r}
    <3>1. rob_w' \in Pos /\ rob_r' \in Pos /\ rob_r0' \in Pos
      BY <1>2 DEF TypeInv
    <3>2. RobLive' = Span(rob_r', rob_w')
      BY <3>1, SpanIs DEF RobLive, RobCount
    <3>3. QED
      BY <1>0, <1>1, <3>2
  <2>2. QED
    BY <1>0, <2>1 DEF Live0, Open, Item, Kept
<1>6. /\ FrontInv' /\ LineInv'
      /\ Front' = Front /\ Sent' = Sent \cap RobLive'
      /\ IntegerPlaced' = IntegerPlaced /\ LsuPlaced' = LsuPlaced
  <2>1. send_pack = <<>>
    BY <1>0 DEF PhaseInv
  <2>2. QED
    BY <1>0, <1>5, <2>1, QuietPlaces DEF PlaceInv
<1>7. CompleteInv'
  BY <1>0, <1>5, <1>6 DEF PlaceInv, CompleteInv
<1>8. WaitInv' /\ FenceInv' /\ CsrInv'
  BY <1>0, <1>1, <1>5, <1>6, QuietWaits DEF PlaceInv
<1>9. BruInv'
  <2> SUFFICES ASSUME flush' = "bru" PROVE BruInv'
    BY DEF BruInv
  <2>1. flush_pos \in exec /\ flush_pos \in Sent /\ Kind(flush_pos) = "bru"
    BY <1>0 DEF PlaceInv, BruInv
  <2>2. flush_pos \in Open
    BY <1>0, <2>1 DEF PlaceInv, PhaseInv, LineInv, IntegerPlaced, LsuPlaced, Placed
  <2>3. flush_pos \in Sent'
    BY <1>0, <1>5, <1>6, <2>1, <2>2 DEF Open, Sent
  <2>4. QED
    BY <1>0, <2>1, <2>3 DEF BruInv, Kind, Item
<1>10. CommittedInv'
  <2>1. \A p \in Live0 : RingSlot(p, ROB_SIZE) = RingSlot(rob_r, ROB_SIZE) => p = rob_r
    BY <1>0, <1>1, Order
  <2>2. \A p \in Live0' : /\ RingSlot(p, ROB_SIZE) \in committed' =>
                               p \notin RobLive' \/ Kind(p)' = "store"
                          /\ p \notin RobLive' => RingSlot(p, ROB_SIZE) \in committed'
    BY <1>0, <1>5, <2>1 DEF PlaceInv, CommittedInv, Kind, Item
  <2>0. \A s \in committed' : \E p \in Live0' : s = RingSlot(p, ROB_SIZE)
    <3>1. rob_r \in Live0
      BY <1>0, <1>1, Order
    <3>2. QED
      BY <1>0, <1>5, <3>1 DEF PlaceInv, CommittedInv
  <2>3. CASE RobCount > 1
    <3>1. next_handle' = RingSlot(n, ROB_SIZE) /\ n \in RobLive'
      BY <1>0, <1>1, <1>5, <2>3
    <3>2. \A q \in RobLive' : ~Younger(n, q)
      BY <1>1, <1>5, <2>3
    <3>3. QED
      BY <2>0, <2>2, <3>1, <3>2 DEF CommittedInv
  <2>4. CASE ~(RobCount > 1)
    BY <1>0, <2>0, <2>2, <2>4 DEF CommittedInv
  <2>5. QED
    BY <2>3, <2>4
<1>11. QED
  BY <1>2, <1>3, <1>4, <1>6, <1>7, <1>8, <1>9, <1>10 DEF IInv, PlaceInv

\* A flush from commit is decided.
LEMMA CommitFlushInv ==
  ASSUME IInv, CommitFlush
  PROVE  IInv'
<1> USE DEF rob_vars, dispatch_vars, hold_vars, issue_vars, queue_vars, rename_vars
<1>0. /\ TypeInv /\ RingInv /\ RoomInv /\ PhaseInv
      /\ phase = "commit" /\ phase' = "commit" /\ flush' = "commit"
      /\ rob_r # rob_w
      /\ committed' = committed \cup {RingSlot(rob_r, ROB_SIZE)}
      /\ next_handle' = IF RobCount > 1
                        THEN RingSlot(RingNext(rob_r, ROB_SIZE), ROB_SIZE) ELSE NoPos
      /\ UNCHANGED <<slot, rob_vars, exec, flush_pos, dispatch_vars, issue_vars, rename_vars>>
  BY DEF IInv, CommitFlush, CanCommit, ReportHead
<1>1. RingNext(rob_r, ROB_SIZE) \in Pos
  BY <1>0, PosFacts DEF TypeInv
<1>2. TypeInv'
  <2>1. committed' \subseteq 0..(ROB_SIZE - 1)
        /\ next_handle' \in 0..(ROB_SIZE - 1) \cup {NoPos}
    BY <1>0, <1>1, PosFacts DEF TypeInv
  <2>2. QED
    BY <1>0, <2>1 DEF TypeInv
<1>3. RingInv' /\ RoomInv' /\ ClearedInv' /\ PhaseInv'
  BY <1>0 DEF RingInv, RoomInv, ClearedInv, PhaseInv, Fits
<1>4. QED
  BY <1>0, <1>2, <1>3 DEF IInv

\* The end of commit.
LEMMA CommitFinishInv ==
  ASSUME IInv, CommitFinish
  PROVE  IInv'
<1> USE DEF rob_vars, commit_vars, dispatch_vars, hold_vars, issue_vars, queue_vars, rename_vars
<1>0. /\ TypeInv /\ RingInv /\ RoomInv /\ PhaseInv /\ ClearedInv
      /\ flush # "commit" => PlaceInv
      /\ phase = "commit" /\ phase' = "issue" /\ slot' = 0
      /\ UNCHANGED <<rob_vars, exec, flush, flush_pos, commit_vars, dispatch_vars, issue_vars,
                     rename_vars>>
  BY DEF IInv, CommitFinish
<1>2. TypeInv'
  BY <1>0 DEF TypeInv
<1>3. RingInv' /\ RoomInv' /\ ClearedInv' /\ PhaseInv'
  BY <1>0 DEF RingInv, RoomInv, ClearedInv, PhaseInv, Fits
<1>4. ASSUME flush # "commit" PROVE PlaceInv'
  <2>1. RobLive' = RobLive /\ Live0' = Live0 /\ Open' = Open /\ Kept' = Kept
    BY <1>0 DEF RobLive, RobCount, Live0, Open, Item, Kept
  <2>2. PlaceInv /\ send_pack = <<>>
    BY <1>0, <1>4 DEF PhaseInv
  <2>3. /\ FrontInv' /\ LineInv'
        /\ Front' = Front /\ Sent' = Sent \cap RobLive'
        /\ IntegerPlaced' = IntegerPlaced /\ LsuPlaced' = LsuPlaced
    BY <1>0, <2>1, <2>2, QuietPlaces DEF PlaceInv
  <2>4. Sent' = Sent
    BY <2>1, <2>3 DEF Sent
  <2>5. WaitInv' /\ FenceInv' /\ CsrInv'
    BY <1>0, <2>1, <2>2, <2>3, QuietWaits DEF PlaceInv
  <2>6. CompleteInv'
    BY <2>1, <2>2, <2>3 DEF PlaceInv, CompleteInv
  <2>7. BruInv'
    BY <1>0, <2>2, <2>4 DEF PlaceInv, BruInv, Kind, Item
  <2>8. CommittedInv'
    BY <1>0, <2>1, <2>2 DEF PlaceInv, CommittedInv, Kind, Item
  <2>9. QED
    BY <2>3, <2>5, <2>6, <2>7, <2>8 DEF PlaceInv
<1>5. QED
  BY <1>0, <1>2, <1>3, <1>4 DEF IInv


-----------------------------------------------------------------------------
(***************************************************************************)
(* The issue stages.                                                       *)
(***************************************************************************)

\* One side of Issue.
SideStep(Q, r, p, h, Q1, r1, p1) ==
    /\ Q \in SUBSET Pos /\ r \in Packs /\ p \in Packs /\ h \in Packs
    /\ Line(Q, r, p, h) /\ Cardinality(Q) <= ISSUE_QUEUE_SIZE /\ Fits(r) /\ Fits(p)
    /\ Q1 = Entered(Q, Arriving(r, p))
    /\ r1 = HeldBack(Q, Arriving(r, p))
    /\ p1 = IF r # <<>> THEN p ELSE <<>>
SideDone(Q, r, p, h, Q1, r1, p1) ==
    /\ Passed(Q, r, p, h, exec, Kept, Q1, r1, p1)
    /\ Fits(r1) /\ Cardinality(Q1) <= ISSUE_QUEUE_SIZE
LEMMA IssueSide ==
  ASSUME NEW Q, NEW r, NEW p, NEW h, NEW Q1, NEW r1, NEW p1,
         SideStep(Q, r, p, h, Q1, r1, p1)
  PROVE  SideDone(Q, r, p, h, Q1, r1, p1)
<1> USE DEF SideStep
<1> DEFINE s == IF r # <<>> THEN r ELSE p
           pack == Arriving(r, p)
           n == Entering(Q, pack)
<1>1. pack = Filter(s, Kept) /\ s \in Packs
  BY DEF Arriving
<1>2. pack \in Packs
  <2> HIDE DEF s, pack
  <2> QED BY <1>1, FilterFacts, Zenon
<1>3. Q1 = Remaining(Q) \cup FirstOf(pack, n) /\ r1 = RestOf(pack, n)
  BY DEF Entered, HeldBack, FirstOf, RestOf
<1>4. /\ n \in Nat /\ n <= Len(pack)
      /\ Cardinality(Remaining(Q) \cup FirstOf(pack, n)) <= ISSUE_QUEUE_SIZE
  <2>1. Remaining(Q) \in SUBSET Q
    BY DEF Remaining
  <2>2. n = IF Len(pack) <= ISSUE_QUEUE_SIZE - Cardinality(Remaining(Q)) THEN Len(pack)
            ELSE ISSUE_QUEUE_SIZE - Cardinality(Remaining(Q))
    BY DEF Entering
  <2> HIDE DEF n, pack
  <2>3. QED
    BY <1>2, <2>1, <2>2, QueueFits
<1>5. pack = Filter(IF r # <<>> THEN r ELSE p, Kept)
  BY DEF Arriving
<1> HIDE DEF s, n, pack
<1>6. Q1 = ((Q \ exec) \cap Kept) \cup FirstOf(pack, n)
  BY <1>3 DEF Remaining
<1>7. Passed(Q, r, p, h, exec, Kept, Q1, r1, p1)
  <2>1. Issued(Q, r, p, h, exec, Kept, pack, n, Q1, r1, p1)
    BY <1>3, <1>4, <1>5, <1>6 DEF Issued
  <2>2. QED
    BY <2>1, IssueLine, Zenon
<1>8. Fits(r1)
  <2>1. /\ Len(r1) \in Nat /\ Len(r) \in Nat /\ Len(p) \in Nat /\ DISPATCH_WIDTH \in Nat
        /\ Len(r1) <= Len(r) \/ Len(r1) <= Len(p)
    BY <1>7, ConstAssumption DEF Packs, Passed
  <2>2. QED
    BY <2>1 DEF Fits
<1>9. QED
  BY <1>3, <1>4, <1>7, <1>8 DEF SideDone

\* A flush from commit clears the issue stages.
LEMMA IssueFlush ==
  ASSUME IInv, Issue, flush = "commit"
  PROVE  IInv'
<1> USE DEF rob_vars, commit_vars, dispatch_vars, hold_vars, rename_vars
<1>0. /\ TypeInv /\ RingInv /\ RoomInv /\ PhaseInv
      /\ phase = "issue" /\ phase' = "dispatch"
      /\ integer_stall' \in BOOLEAN /\ lsu_stall' \in BOOLEAN
      /\ integer_queue' = {} /\ lsu_queue' = {}
      /\ integer_rev' = <<>> /\ lsu_rev' = <<>> /\ rob' = rob /\ exec' = {}
      /\ UNCHANGED <<slot, rob_w, rob_r, rob_r0, flush, flush_pos, commit_vars,
                     dispatch_vars, rename_vars>>
  BY DEF IInv, Issue
<1>1. TypeInv'
  BY <1>0, EmptyPack DEF TypeInv
<1>2. RingInv' /\ PhaseInv' /\ ClearedInv'
  BY <1>0 DEF RingInv, PhaseInv, ClearedInv
<1>3. RoomInv'
  <2>1. Cardinality(integer_queue') <= ISSUE_QUEUE_SIZE
        /\ Cardinality(lsu_queue') <= ISSUE_QUEUE_SIZE
    BY <1>0, FS_EmptySet, ConstAssumption
  <2>2. Fits(integer_rev)' /\ Fits(lsu_rev)'
    BY <1>0, EmptyPack, ConstAssumption DEF Fits
  <2>3. QED
    BY <1>0, <2>1, <2>2 DEF RoomInv, Fits
<1>4. QED
  BY <1>0, <1>1, <1>2, <1>3 DEF IInv

\* What executes is marked as finished, in its own entry of the reorder buffer
\* only.
LEMMA Finished ==
  ASSUME TypeInv, RingInv, exec \subseteq RobLive,
         rob' = [i \in DOMAIN rob |->
                   IF \E p \in exec \cap Kept : RingSlot(p, ROB_SIZE) = i
                   THEN [rob[i] EXCEPT !.finish = TRUE] ELSE rob[i]]
  PROVE  /\ rob' \in [0..(ROB_SIZE - 1) -> [kind : AllKinds, finish : BOOLEAN]]
         /\ \A p \in Pos : Kind(p)' = Kind(p) /\ (Item(p).finish => Item(p)'.finish)
         /\ \A p \in exec \cap Kept : Item(p)'.finish
         /\ \A p \in RobLive \ (exec \cap Kept) : Item(p)'.finish = Item(p).finish
<1> DEFINE E == exec \cap Kept
<1>1. rob \in [0..(ROB_SIZE - 1) -> [kind : AllKinds, finish : BOOLEAN]]
  BY DEF TypeInv
<1>2. RobLive \subseteq Pos
  BY Order
<1>3. \A i \in 0..(ROB_SIZE - 1) :
         /\ rob'[i] \in [kind : AllKinds, finish : BOOLEAN]
         /\ rob'[i].kind = rob[i].kind
         /\ (\E p \in E : RingSlot(p, ROB_SIZE) = i) => rob'[i].finish
         /\ rob[i].finish => rob'[i].finish
         /\ ~(\E p \in E : RingSlot(p, ROB_SIZE) = i) => rob'[i] = rob[i]
  <2> SUFFICES ASSUME NEW i \in 0..(ROB_SIZE - 1)
               PROVE  /\ rob'[i] \in [kind : AllKinds, finish : BOOLEAN]
                      /\ rob'[i].kind = rob[i].kind
                      /\ (\E p \in E : RingSlot(p, ROB_SIZE) = i) => rob'[i].finish
                      /\ rob[i].finish => rob'[i].finish
                      /\ ~(\E p \in E : RingSlot(p, ROB_SIZE) = i) => rob'[i] = rob[i]
    OBVIOUS
  <2>1. CASE \E p \in E : RingSlot(p, ROB_SIZE) = i
    <3>1. rob'[i] = [rob[i] EXCEPT !.finish = TRUE]
      BY <1>1, <2>1
    <3>2. QED
      BY <1>1, <2>1, <3>1
  <2>2. CASE ~(\E p \in E : RingSlot(p, ROB_SIZE) = i)
    <3>1. rob'[i] = rob[i]
      BY <1>1, <2>2
    <3>2. QED
      BY <1>1, <2>2, <3>1
  <2>3. QED
    BY <2>1, <2>2
<1>4. DOMAIN rob' = 0..(ROB_SIZE - 1) /\ rob' = [i \in DOMAIN rob' |-> rob'[i]]
  BY <1>1
<1>5. rob' \in [0..(ROB_SIZE - 1) -> [kind : AllKinds, finish : BOOLEAN]]
  BY <1>3, <1>4
<1>6. \A p \in Pos : RingSlot(p, ROB_SIZE) \in 0..(ROB_SIZE - 1)
  BY PosFacts
<1>7. \A p \in RobLive, q \in E : RingSlot(q, ROB_SIZE) = RingSlot(p, ROB_SIZE) => q = p
  BY Order
<1> HIDE DEF E
<1>8. \A p \in RobLive \ E : Item(p)' = Item(p)
  <2> SUFFICES ASSUME NEW p \in RobLive, p \notin E PROVE Item(p)' = Item(p)
    OBVIOUS
  <2>1. ~(\E q \in E : RingSlot(q, ROB_SIZE) = RingSlot(p, ROB_SIZE))
    BY <1>7, Zenon
  <2>2. RingSlot(p, ROB_SIZE) \in 0..(ROB_SIZE - 1)
    BY <1>2, <1>6
  <2>3. QED
    BY <1>3, <2>1, <2>2, Zenon DEF Item
<1>9. E \subseteq Pos
  BY <1>2 DEF E
<1>10. /\ \A p \in Pos : Kind(p)' = Kind(p) /\ (Item(p).finish => Item(p)'.finish)
       /\ \A p \in E : Item(p)'.finish
  BY <1>3, <1>6, <1>9, Zenon DEF Item, Kind
<1>11. QED
  BY <1>5, <1>8, <1>10 DEF E

\* Execution leaves the queues, and what is on the way moves on.
LEMMA IssueInv ==
  ASSUME IInv, Issue, flush # "commit"
  PROVE  IInv'
<1> USE DEF rob_vars, commit_vars, dispatch_vars, hold_vars, rename_vars
<1>0. /\ TypeInv /\ RingInv /\ RoomInv /\ PhaseInv /\ PlaceInv
      /\ phase = "issue" /\ phase' = "dispatch"
      /\ integer_stall' = (integer_rev # <<>>) /\ lsu_stall' = (lsu_rev # <<>>)
      /\ integer_queue' = Entered(integer_queue, Arriving(integer_rev, integer_port))
      /\ integer_rev' = HeldBack(integer_queue, Arriving(integer_rev, integer_port))
      /\ lsu_queue' = Entered(lsu_queue, Arriving(lsu_rev, lsu_port))
      /\ lsu_rev' = HeldBack(lsu_queue, Arriving(lsu_rev, lsu_port))
      /\ exec' = {}
      /\ UNCHANGED <<slot, rob_w, rob_r, rob_r0, flush, flush_pos, commit_vars,
                     dispatch_vars, rename_vars>>
  BY DEF IInv, Issue
<1>1. rob' = [i \in DOMAIN rob |->
                IF \E p \in exec \cap Kept : RingSlot(p, ROB_SIZE) = i
                THEN [rob[i] EXCEPT !.finish = TRUE] ELSE rob[i]]
  BY DEF Issue
<1>2. LiveInteger = integer_port /\ LiveLsu = lsu_port
  BY <1>0 DEF LiveInteger, LiveLsu, LivePort
<1>3. /\ LiveInteger' = (IF integer_rev # <<>> THEN integer_port ELSE <<>>)
      /\ LiveLsu' = (IF lsu_rev # <<>> THEN lsu_port ELSE <<>>)
  BY <1>0 DEF LiveInteger, LiveLsu, LivePort
<1>4. SideDone(integer_queue, integer_rev, integer_port, hold_integer,
               integer_queue', integer_rev', LiveInteger')
  <2>1. SideStep(integer_queue, integer_rev, integer_port, hold_integer,
                 integer_queue', integer_rev', LiveInteger')
    BY <1>0, <1>2, <1>3 DEF SideStep, TypeInv, RoomInv, PlaceInv, LineInv
  <2>2. QED
    BY <2>1, IssueSide, Zenon
<1>5. SideDone(lsu_queue, lsu_rev, lsu_port, hold_lsu, lsu_queue', lsu_rev', LiveLsu')
  <2>1. SideStep(lsu_queue, lsu_rev, lsu_port, hold_lsu, lsu_queue', lsu_rev', LiveLsu')
    BY <1>0, <1>2, <1>3 DEF SideStep, TypeInv, RoomInv, PlaceInv, LineInv
  <2>2. QED
    BY <2>1, IssueSide, Zenon
<1>6. RobLive' = RobLive /\ Live0' = Live0 /\ Kept' = Kept /\ RobLive \subseteq Pos
  BY <1>0, Order DEF RobLive, RobCount, Live0, Kept
<1>7. /\ integer_queue \subseteq IntegerPlaced /\ lsu_queue \subseteq LsuPlaced
      /\ exec \subseteq integer_queue \cup lsu_queue
      /\ IntegerPlaced \subseteq Open \cap Sent /\ LsuPlaced \subseteq Open \cap Sent
      /\ \A p \in IntegerPlaced : IsInteger(p)
      /\ \A p \in LsuPlaced : IsLsu(p)
  BY <1>0 DEF PhaseInv, PlaceInv, LineInv, IntegerPlaced, LsuPlaced, Placed
<1>8. exec \subseteq RobLive /\ Open \subseteq RobLive /\ Sent \subseteq RobLive
  BY <1>7 DEF Open, Sent
<1>9. /\ rob' \in [0..(ROB_SIZE - 1) -> [kind : AllKinds, finish : BOOLEAN]]
      /\ \A p \in Pos : Kind(p)' = Kind(p) /\ (Item(p).finish => Item(p)'.finish)
      /\ \A p \in exec \cap Kept : Item(p)'.finish
      /\ \A p \in RobLive \ (exec \cap Kept) : Item(p)'.finish = Item(p).finish
  BY <1>0, <1>1, <1>8, Finished
<1>10. Open' = Open \ (exec \cap Kept)
  BY <1>6, <1>8, <1>9 DEF Open
<1>11. \A p \in Pos : IsLsu(p)' = IsLsu(p) /\ IsFence(p)' = IsFence(p)
                      /\ IsInteger(p)' = IsInteger(p)
  BY <1>9 DEF IsLsu, IsFence, IsInteger
<1>12. TypeInv'
  <2>1. /\ integer_queue' \subseteq Pos /\ lsu_queue' \subseteq Pos
        /\ integer_rev' \in Packs /\ lsu_rev' \in Packs
    BY <1>4, <1>5 DEF SideDone, Passed
  <2>2. integer_stall' \in BOOLEAN /\ lsu_stall' \in BOOLEAN /\ exec' \subseteq Pos
    BY <1>0
  <2>3. QED
    BY <1>0, <1>9, <2>1, <2>2 DEF TypeInv
<1>13. RingInv' /\ PhaseInv' /\ ClearedInv'
  BY <1>0 DEF RingInv, PhaseInv, ClearedInv
<1>14. RoomInv'
  BY <1>0, <1>4, <1>5 DEF RoomInv, SideDone, Fits
<1>15. Front' = Front /\ Sent' = Sent /\ send_pack = <<>> /\ LiveFront' = LiveFront
  <2>1. LiveFront' = LiveFront /\ send_pack = <<>>
    BY <1>0 DEF LiveFront, PhaseInv
  <2>2. Front' = Front
    BY <1>0, <2>1 DEF Front, Elements
  <2>3. QED
    BY <1>6, <2>1, <2>2 DEF Sent
<1>16. FrontInv'
  <2>1. /\ Elements(rev_pack) \subseteq Pos /\ Elements(LiveFront) \subseteq Pos
    BY <1>0, EmptyPack DEF TypeInv, LiveFront
  <2>2. Shaped(rev_pack)' /\ Shaped(LiveFront)'
    BY <1>0, <1>9, <1>11, <1>15, <2>1 DEF PlaceInv, FrontInv, Shaped, Elements
  <2>3. send_pack' = <<>> /\ Elements(send_pack') = {} /\ Shaped(send_pack)'
    BY <1>0, <1>15, EmptyPack DEF Shaped
  <2>4. Behind(Elements(LiveFront), Elements(rev_pack))' /\ Behind(Front, Sent)'
    BY <1>0, <1>15 DEF PlaceInv, FrontInv, Behind, Elements
  <2>5. Front' \subseteq Open'
    BY <1>0, <1>7, <1>10, <1>15 DEF PlaceInv, FrontInv, Sent
  <2>6. QED
    BY <2>2, <2>3, <2>4, <2>5 DEF FrontInv, Behind
<1>17. /\ IntegerPlaced' = Placed(integer_queue', integer_rev', LiveInteger', hold_integer)
       /\ LsuPlaced' = Placed(lsu_queue', lsu_rev', LiveLsu', hold_lsu)
  BY <1>0 DEF IntegerPlaced, LsuPlaced
<1>18. IntegerPlaced' \subseteq IntegerPlaced \ exec /\ LsuPlaced' \subseteq LsuPlaced \ exec
  <2>1. \A p \in Pos : ~Younger(p, p)
    BY NotYounger
  <2>2. Open \subseteq Pos
    BY <1>6, <1>8
  <2>3. IntegerPlaced \cap LsuPlaced = {}
    BY <1>7 DEF IsInteger
  <2>4. /\ Elements(integer_rev) \cap integer_queue = {}
        /\ Elements(integer_port) \cap integer_queue = {}
        /\ Elements(hold_integer) \cap integer_queue = {}
    <3>1. Line(integer_queue, integer_rev, integer_port, hold_integer)
      BY <1>0, <1>2 DEF PlaceInv, LineInv
    <3>2. QED
      BY <1>7, <2>1, <2>2, <3>1 DEF Line, Behind
  <2>5. /\ Elements(lsu_rev) \cap lsu_queue = {}
        /\ Elements(lsu_port) \cap lsu_queue = {}
        /\ Elements(hold_lsu) \cap lsu_queue = {}
    <3>1. Line(lsu_queue, lsu_rev, lsu_port, hold_lsu)
      BY <1>0, <1>2 DEF PlaceInv, LineInv
    <3>2. QED
      BY <1>7, <2>1, <2>2, <3>1 DEF Line, Behind
  <2>6. /\ IntegerPlaced' \subseteq (integer_queue \ exec) \cup Elements(integer_rev)
                                    \cup Elements(integer_port) \cup Elements(hold_integer)
        /\ LsuPlaced' \subseteq (lsu_queue \ exec) \cup Elements(lsu_rev)
                                \cup Elements(lsu_port) \cup Elements(hold_lsu)
    BY <1>4, <1>5, <1>17 DEF SideDone, Passed
  <2>7. /\ IntegerPlaced = integer_queue \cup Elements(integer_rev) \cup Elements(integer_port)
                           \cup Elements(hold_integer)
        /\ LsuPlaced = lsu_queue \cup Elements(lsu_rev) \cup Elements(lsu_port)
                       \cup Elements(hold_lsu)
    BY <1>2 DEF IntegerPlaced, LsuPlaced, Placed
  <2>8. QED
    BY <1>7, <2>3, <2>4, <2>5, <2>6, <2>7
<1>19. LineInv'
  <2>1. /\ Line(integer_queue, integer_rev, LiveInteger, hold_integer)'
        /\ Line(lsu_queue, lsu_rev, LiveLsu, hold_lsu)'
    BY <1>0, <1>4, <1>5 DEF SideDone, Passed
  <2>2. IntegerPlaced' \subseteq (Open \cap Sent)' /\ LsuPlaced' \subseteq (Open \cap Sent)'
    BY <1>7, <1>10, <1>15, <1>18
  <2>3. (\A p \in IntegerPlaced : IsInteger(p))' /\ (\A p \in LsuPlaced : IsLsu(p))'
    BY <1>6, <1>7, <1>8, <1>11, <1>18
  <2>4. QED
    BY <2>1, <2>2, <2>3 DEF LineInv
<1>20. CompleteInv'
  <2> SUFFICES ASSUME NEW p \in Open' \cap Kept'
               PROVE  p \in IntegerPlaced' \/ p \in LsuPlaced' \/ p \in Front'
    BY DEF CompleteInv
  <2>1. p \in Open /\ p \in Kept /\ p \notin exec
    BY <1>6, <1>10
  <2>2. p \in IntegerPlaced \/ p \in LsuPlaced \/ p \in Front
    BY <1>0, <2>1 DEF PlaceInv, CompleteInv
  <2>3. p \in IntegerPlaced => p \in IntegerPlaced'
    BY <1>2, <1>4, <1>17, <2>1 DEF SideDone, Passed, IntegerPlaced
  <2>4. p \in LsuPlaced => p \in LsuPlaced'
    BY <1>2, <1>5, <1>17, <2>1 DEF SideDone, Passed, LsuPlaced
  <2>5. QED
    BY <1>15, <2>2, <2>3, <2>4
<1>21. BruInv'
  <2> SUFFICES ASSUME flush = "bru" PROVE BruInv'
    BY <1>0 DEF BruInv
  <2>1. flush_pos \in exec /\ flush_pos \in Sent /\ Kind(flush_pos) = "bru"
    BY <1>0 DEF PlaceInv, BruInv
  <2>2. flush_pos \in Pos /\ flush_pos \in Kept
    <3>1. flush_pos \in Pos
      BY <1>0 DEF TypeInv
    <3>2. QED
      BY <3>1, NotYounger DEF Kept
  <2>3. Item(flush_pos)'.finish /\ Kind(flush_pos)' = "bru"
    BY <1>0, <1>9, <2>1, <2>2 DEF Item, Kind
  <2>4. flush_pos \in integer_queue
    BY <1>7, <2>1 DEF IsLsu
  <2>5. \A p \in Elements(LiveInteger') \cup Elements(hold_integer) : p \notin Kept
    <3>1. \A p \in Elements(integer_port) \cup Elements(hold_integer) : Younger(p, flush_pos)
      BY <1>0, <1>2, <2>4 DEF PlaceInv, LineInv, Line, Behind
    <3>2. Elements(LiveInteger') \subseteq Elements(integer_port)
      BY <1>4 DEF SideDone, Passed
    <3>3. QED
      BY <3>1, <3>2 DEF Kept
  <2>6. /\ integer_queue' \subseteq Kept /\ lsu_queue' \subseteq Kept
        /\ Elements(integer_rev') \subseteq Kept /\ Elements(lsu_rev') \subseteq Kept
    BY <1>4, <1>5 DEF SideDone, Passed
  <2>7. QED
    BY <1>0, <1>6, <1>15, <2>1, <2>3, <2>5, <2>6 DEF BruInv
<1>22. CommittedInv'
  <2>1. \A p \in Live0' : /\ RingSlot(p, ROB_SIZE) \in committed' =>
                               p \notin RobLive' \/ Kind(p)' = "store"
                          /\ p \notin RobLive' => RingSlot(p, ROB_SIZE) \in committed'
    BY <1>0, <1>6, <1>9 DEF PlaceInv, CommittedInv
  <2>2. next_handle' # NoPos => \E n \in RobLive' :
           /\ next_handle' = RingSlot(n, ROB_SIZE)
           /\ \A q \in RobLive' : Younger(n, q) => Item(q)'.finish
    BY <1>0, <1>6, <1>9 DEF PlaceInv, CommittedInv
  <2>3. \A s \in committed' : \E p \in Live0' : s = RingSlot(p, ROB_SIZE)
    BY <1>0, <1>6 DEF PlaceInv, CommittedInv
  <2>4. QED
    BY <2>1, <2>2, <2>3 DEF CommittedInv
<1>23. WaitInv'
  <2>1. inst_waiting' = inst_waiting /\ (inst_waiting # NoPos => inst_waiting \in Pos)
    BY <1>0 DEF TypeInv
  <2>2. QED
    BY <1>0, <1>6, <1>9, <1>15, <2>1 DEF PlaceInv, WaitInv, Kind, Item
<1>24. FenceInv'
  <2> SUFFICES ASSUME NEW f \in Sent \cap Kept, IsFence(f)
               PROVE  WaitedFor(f)' \/ Uncovered(f)'
    BY <1>6, <1>8, <1>11, <1>15 DEF FenceInv
  <2>1. CASE WaitedFor(f)
    BY <1>0, <1>6, <1>8, <1>11, <1>15, <2>1 DEF WaitedFor
  <2>2. CASE Uncovered(f)
    <3>1. PICK b \in Sent : /\ BranchBehind(f, b)
                            /\ \A p \in Sent : IsLsu(p) /\ Younger(p, f) => Younger(p, b)
      BY <2>2 DEF Uncovered
    <3>2. BranchBehind(f, b)'
      BY <1>6, <1>8, <1>9, <3>1 DEF BranchBehind
    <3>3. \A p \in Sent' : IsLsu(p)' /\ Younger(p, f) => Younger(p, b)
      BY <1>6, <1>8, <1>11, <1>15, <3>1
    <3>4. QED
      BY <1>15, <3>1, <3>2, <3>3 DEF Uncovered
  <2>3. QED
    BY <1>0, <2>1, <2>2 DEF PlaceInv, FenceInv
<1>25. CsrInv'
  BY <1>0, <1>6, <1>8, <1>9, <1>15 DEF PlaceInv, CsrInv
<1>26. QED
  BY <1>0, <1>12, <1>13, <1>14, <1>16, <1>19, <1>20, <1>21, <1>22, <1>23, <1>24, <1>25
     DEF IInv, PlaceInv

-----------------------------------------------------------------------------
(***************************************************************************)
(* Dispatch.                                                               *)
(***************************************************************************)

\* A flush from commit clears dispatch.
LEMMA DispatchFlushInv ==
  ASSUME IInv, DispatchFlush
  PROVE  IInv'
<1> USE DEF rob_vars, commit_vars, issue_vars, queue_vars, rename_vars
<1>0. /\ TypeInv /\ RingInv /\ RoomInv /\ PhaseInv /\ ClearedInv
      /\ phase = "dispatch" /\ phase' = "rename" /\ flush = "commit"
      /\ integer_port' = <<>> /\ lsu_port' = <<>>
      /\ hold_integer' = <<>> /\ hold_lsu' = <<>>
      /\ rev_pack' = <<>> /\ busy' = FALSE
      /\ inst_waiting' = NoPos /\ stbuf_waiting' = NoPos
      /\ stall' = Stall
      /\ UNCHANGED <<slot, rob_vars, exec, flush, flush_pos, commit_vars, issue_vars,
                     rename_vars>>
  BY DEF IInv, DispatchFlush, AfterDispatch
<1>1. stall' \in BOOLEAN
  BY <1>0 DEF Stall, TypeInv
<1>2. TypeInv'
  BY <1>0, <1>1, EmptyPack DEF TypeInv
<1>3. RingInv' /\ PhaseInv' /\ ClearedInv'
  BY <1>0 DEF RingInv, PhaseInv, ClearedInv
<1>4. RoomInv'
  <2>1. \A s : s = <<>> => Fits(s)
    BY EmptyPack, ConstAssumption DEF Fits
  <2>2. send_pack' = <<>> /\ slot' = 0 /\ DISPATCH_WIDTH \in Nat
    BY <1>0, ConstAssumption DEF PhaseInv
  <2>3. Len(send_pack') <= slot' /\ slot' <= DISPATCH_WIDTH
    BY <2>2, EmptyPack
  <2>4. QED
    BY <1>0, <2>1, <2>3 DEF RoomInv, Fits
<1>5. QED
  BY <1>0, <1>2, <1>3, <1>4 DEF IInv

\* The ports and the held packs as dispatch finds them, without what a
\* misprediction of this cycle removes.
IntegerOld == IF integer_stall THEN IntegerKept(integer_port) ELSE <<>>
LsuOld == IF lsu_stall THEN LsuKept(lsu_port) ELSE <<>>
LEMMA KeptLines ==
  ASSUME IInv, phase = "dispatch", flush # "commit"
  PROVE  /\ IntegerOld \in Packs /\ Fits(IntegerOld)
         /\ LsuOld \in Packs /\ Fits(LsuOld)
         /\ IntegerKept(hold_integer) \in Packs /\ Fits(IntegerKept(hold_integer))
         /\ LsuKept(hold_lsu) \in Packs /\ Fits(LsuKept(hold_lsu))
         /\ Line(integer_queue, integer_rev, IntegerOld, IntegerKept(hold_integer))
         /\ Line(lsu_queue, lsu_rev, LsuOld, LsuKept(hold_lsu))
         /\ Placed(integer_queue, integer_rev, IntegerOld, IntegerKept(hold_integer))
              = IntegerPlaced \cap Kept
         /\ Placed(lsu_queue, lsu_rev, LsuOld, LsuKept(hold_lsu)) = LsuPlaced \cap Kept
         /\ Elements(LsuKept(hold_lsu)) = Elements(hold_lsu) \cap Kept
<1> DEFINE io == IntegerOld
           ih == IntegerKept(hold_integer)
           lo == LsuOld
           lh == LsuKept(hold_lsu)
<1>0. /\ TypeInv /\ RoomInv /\ FrontInv /\ LineInv /\ BruInv
  BY DEF IInv, PlaceInv
<1>1. /\ integer_port \in Packs /\ hold_integer \in Packs /\ lsu_port \in Packs
      /\ hold_lsu \in Packs /\ integer_rev \in Packs /\ lsu_rev \in Packs
      /\ integer_queue \subseteq Pos /\ lsu_queue \subseteq Pos
  BY <1>0 DEF TypeInv
<1>2. \A s \in Packs : Elements(s) \subseteq Pos
  BY EmptyPack
<1>3. Fits(<<>>) /\ <<>> \in Packs /\ Sorted(<<>>) /\ Elements(<<>>) = {}
  BY EmptyPack, ConstAssumption DEF Fits
<1>4. /\ LiveInteger = (IF integer_stall THEN integer_port ELSE <<>>)
      /\ LiveLsu = (IF lsu_stall THEN lsu_port ELSE <<>>)
  BY DEF LiveInteger, LiveLsu, LivePort
<1>5. /\ Line(integer_queue, integer_rev, LiveInteger, hold_integer)
      /\ Line(lsu_queue, lsu_rev, LiveLsu, hold_lsu)
  BY <1>0 DEF LineInv
<1>6. flush = "none" => Kept = Pos
  BY DEF Kept
<1>7. flush = "none" \/ flush = "bru"
  BY <1>0 DEF TypeInv
<1>8. /\ io \in Packs /\ Fits(io) /\ Sorted(io) /\ Elements(io) = Elements(LiveInteger) \cap Kept
      /\ ih \in Packs /\ Fits(ih) /\ Sorted(ih) /\ Elements(ih) = Elements(hold_integer) \cap Kept
  <2>1. CASE flush = "none"
    <3>1. io = LiveInteger /\ ih = hold_integer
      BY <1>4, <2>1 DEF IntegerOld, IntegerKept
    <3>2. QED
      BY <1>0, <1>1, <1>2, <1>3, <1>4, <1>5, <1>6, <2>1, <3>1 DEF RoomInv, Line
  <2>2. CASE flush = "bru"
    <3>1. io = <<>> /\ ih = <<>>
      BY <2>2 DEF IntegerOld, IntegerKept
    <3>2. \A p \in Elements(LiveInteger) \cup Elements(hold_integer) : p \notin Kept
      BY <1>0, <2>2 DEF BruInv
    <3>3. QED
      BY <1>3, <3>1, <3>2
  <2>3. QED
    BY <1>7, <2>1, <2>2
<1>9. \A s \in Packs : /\ LsuKept(s) \in Packs /\ Elements(LsuKept(s)) = Elements(s) \cap Kept
                       /\ Fits(s) => Fits(LsuKept(s))
                       /\ Sorted(s) => Sorted(LsuKept(s))
  <2> SUFFICES ASSUME NEW s \in Packs
               PROVE  /\ LsuKept(s) \in Packs
                      /\ Elements(LsuKept(s)) = Elements(s) \cap Kept
                      /\ Fits(s) => Fits(LsuKept(s))
                      /\ Sorted(s) => Sorted(LsuKept(s))
    OBVIOUS
  <2> DEFINE g == LsuKept(s)
  <2>1. g = Filter(s, Kept)
    BY DEF LsuKept
  <2> HIDE DEF g
  <2>2. /\ g \in Packs /\ Len(g) <= Len(s) /\ Elements(g) = Elements(s) \cap Kept
        /\ Sorted(s) => Sorted(g)
    BY <2>1, FilterFacts, Zenon
  <2>3. Len(g) \in Nat /\ Len(s) \in Nat /\ DISPATCH_WIDTH \in Nat
    BY <2>2, ConstAssumption DEF Packs
  <2>4. Fits(s) => Fits(g)
    BY <2>2, <2>3 DEF Fits
  <2>5. QED
    BY <2>2, <2>4, Zenon DEF g
<1>10. /\ lo \in Packs /\ Fits(lo) /\ Sorted(lo) /\ Elements(lo) = Elements(LiveLsu) \cap Kept
       /\ lh \in Packs /\ Fits(lh) /\ Sorted(lh) /\ Elements(lh) = Elements(hold_lsu) \cap Kept
  <2>1. Fits(lsu_port) /\ Fits(hold_lsu) /\ Sorted(hold_lsu) /\ (lsu_stall => Sorted(lsu_port))
    BY <1>0, <1>4, <1>5 DEF RoomInv, Line
  <2>2. CASE lsu_stall
    BY <1>1, <1>4, <1>9, <2>1, <2>2 DEF LsuOld
  <2>3. CASE ~lsu_stall
    BY <1>1, <1>3, <1>4, <1>9, <2>1, <2>3 DEF LsuOld
  <2>4. QED
    BY <2>2, <2>3
<1> HIDE DEF io, ih, lo, lh
<1>11. /\ Line(integer_queue, integer_rev, io, ih) /\ Line(lsu_queue, lsu_rev, lo, lh)
  BY <1>5, <1>8, <1>10 DEF Line, Behind
<1>12. /\ integer_queue \subseteq Kept /\ lsu_queue \subseteq Kept
       /\ Elements(integer_rev) \subseteq Kept /\ Elements(lsu_rev) \subseteq Kept
  BY <1>0, <1>1, <1>2, <1>6, <1>7 DEF BruInv
<1>13. /\ Placed(integer_queue, integer_rev, io, ih) = IntegerPlaced \cap Kept
       /\ Placed(lsu_queue, lsu_rev, lo, lh) = LsuPlaced \cap Kept
  BY <1>8, <1>10, <1>12 DEF Placed, IntegerPlaced, LsuPlaced
<1>14. QED
  BY <1>8, <1>10, <1>11, <1>13 DEF io, ih, lo, lh

\* A pack goes to the port, or is held when the issue stage is busy.
Handed(Q, r, o, x, b, p1, h1) ==
    /\ Line(Q, r, o, x)
    /\ ~b => o = <<>>
    /\ p1 = IF b THEN o ELSE x
    /\ h1 = IF b THEN x ELSE <<>>
LEMMA HandOver ==
  ASSUME NEW Q, NEW r, NEW o, NEW x, NEW b, NEW p1, NEW h1,
         Handed(Q, r, o, x, b, p1, h1)
  PROVE  Line(Q, r, p1, h1) /\ Placed(Q, r, p1, h1) = Placed(Q, r, o, x)
<1>1. Elements(<<>>) = {} /\ Sorted(<<>>)
  BY EmptyPack
<1>2. CASE b
  BY <1>2 DEF Handed
<1>3. CASE ~b
  <2>1. p1 = x /\ h1 = <<>> /\ o = <<>>
    BY <1>3 DEF Handed
  <2>2. Line(Q, r, x, <<>>)
    BY <1>1, <2>1 DEF Handed, Line, Behind
  <2>3. Placed(Q, r, x, <<>>) = Placed(Q, r, o, x)
    BY <1>1, <2>1 DEF Placed
  <2>4. QED
    BY <2>1, <2>2, <2>3
<1>4. QED
  BY <1>2, <1>3

\* Once a wait is over, its cause has retired.
LEMMA Opened ==
  ASSUME IInv, flush # "commit", inst_waiting = NoPos \/ inst_waiting_ok
  PROVE  /\ \A f \in Sent \cap Kept : IsFence(f) => Uncovered(f)
         /\ \A c \in Sent \cap Kept : Kind(c) # "csr"
<1>0. /\ TypeInv /\ RingInv /\ CommittedInv /\ WaitInv /\ FenceInv /\ CsrInv
  BY DEF IInv, PlaceInv
<1>1. inst_waiting \notin RobLive
  <2>1. CASE inst_waiting = NoPos
    BY <1>0, <2>1, Order, PosFacts
  <2>2. CASE inst_waiting # NoPos
    BY <1>0, <2>2 DEF WaitInv, CommittedInv, inst_waiting_ok
  <2>3. QED
    BY <2>1, <2>2
<1>2. QED
  BY <1>0, <1>1 DEF FenceInv, CsrInv, WaitedFor, Sent

\* What every branch of dispatch comes to: N is what it sends of what was in
\* front of it, the rest of Front is left where it is or was squashed.
Moved(N) ==
    /\ N \subseteq Front /\ Front' \subseteq Front /\ N \cap Front' = {}
    /\ Front \cap Kept \subseteq N \cup Front'
    /\ Shaped(rev_pack)' /\ Shaped(LiveFront)'
    /\ Behind(Elements(LiveFront'), Elements(rev_pack'))
    /\ Behind(Front', Front \ Front')
    /\ Line(integer_queue, integer_rev, integer_port', hold_integer')
    /\ Line(lsu_queue, lsu_rev, lsu_port', hold_lsu')
    /\ Placed(integer_queue, integer_rev, integer_port', hold_integer')
         = (IntegerPlaced \cap Kept) \cup {p \in N : IsInteger(p)}
    /\ Placed(lsu_queue, lsu_rev, lsu_port', hold_lsu')
         = (LsuPlaced \cap Kept) \cup {p \in N : IsLsu(p)}
    /\ flush = "bru" => /\ N = {} /\ integer_port' = <<>> /\ hold_integer' = <<>>
                        /\ rev_pack' = <<>> /\ ~busy'
Housed ==
    /\ integer_port' \in Packs /\ Fits(integer_port)'
    /\ lsu_port' \in Packs /\ Fits(lsu_port)'
    /\ hold_integer' \in Packs /\ Fits(hold_integer)'
    /\ hold_lsu' \in Packs /\ Fits(hold_lsu)'
    /\ rev_pack' \in Packs /\ Fits(rev_pack)'
    /\ busy' \in BOOLEAN
    /\ inst_waiting' \in Pos \cup {NoPos} /\ stbuf_waiting' \in Pos \cup {NoPos}
    /\ ~busy' => rev_pack' = <<>>
    /\ busy' => /\ hold_integer' = <<>> /\ hold_lsu' = <<>> /\ inst_waiting' = NoPos
                /\ stbuf_waiting' = NoPos

\* What no branch of dispatch changes.
LEMMA Around ==
  ASSUME IInv, CanDispatch, AfterDispatch
  PROVE  /\ RobLive' = RobLive /\ Live0' = Live0 /\ Kept' = Kept /\ Open' = Open
         /\ \A p : /\ Kind(p)' = Kind(p) /\ Item(p)' = Item(p) /\ IsLsu(p)' = IsLsu(p)
                   /\ IsFence(p)' = IsFence(p) /\ IsInteger(p)' = IsInteger(p)
         /\ LiveInteger' = integer_port' /\ LiveLsu' = lsu_port'
         /\ LiveFront = rename_dispatch_port
         /\ LiveFront' = (IF Stall THEN rename_dispatch_port ELSE <<>>)
         /\ send_pack = <<>> /\ send_pack' = <<>>
         /\ Front = Elements(rev_pack) \cup Elements(rename_dispatch_port)
         /\ Front' = Elements(rev_pack') \cup Elements(LiveFront')
         /\ Sent \subseteq RobLive /\ RobLive \subseteq Pos /\ Front \subseteq Open
         /\ Open \subseteq RobLive
<1> USE DEF rob_vars, commit_vars, issue_vars, queue_vars, rename_vars
<1>0. /\ TypeInv /\ RingInv /\ PhaseInv /\ FrontInv
      /\ phase = "dispatch" /\ phase' = "rename" /\ flush # "commit"
      /\ stall' = Stall
      /\ UNCHANGED <<slot, rob_vars, exec, flush, flush_pos, commit_vars, issue_vars,
                     rename_vars>>
  BY DEF IInv, CanDispatch, AfterDispatch, PlaceInv
<1>1. RobLive' = RobLive /\ Live0' = Live0 /\ Kept' = Kept /\ Open' = Open
  BY <1>0 DEF RobLive, RobCount, Live0, Kept, Open, Item
<1>2. \A p : /\ Kind(p)' = Kind(p) /\ Item(p)' = Item(p) /\ IsLsu(p)' = IsLsu(p)
             /\ IsFence(p)' = IsFence(p) /\ IsInteger(p)' = IsInteger(p)
  BY <1>0 DEF Kind, Item, IsLsu, IsFence, IsInteger
<1>3. LiveInteger' = integer_port' /\ LiveLsu' = lsu_port'
  BY <1>0 DEF LiveInteger, LiveLsu, LivePort
<1>4. /\ LiveFront = rename_dispatch_port
      /\ LiveFront' = (IF Stall THEN rename_dispatch_port ELSE <<>>)
  BY <1>0 DEF LiveFront
<1>5. send_pack = <<>> /\ send_pack' = <<>>
  BY <1>0 DEF PhaseInv
<1>6. /\ Front = Elements(rev_pack) \cup Elements(rename_dispatch_port)
      /\ Front' = Elements(rev_pack') \cup Elements(LiveFront')
  BY <1>4, <1>5, EmptyPack DEF Front
<1>7. /\ Sent \subseteq RobLive /\ RobLive \subseteq Pos /\ Front \subseteq Open
      /\ Open \subseteq RobLive
  BY <1>0, Order DEF Sent, FrontInv, Open
<1>8. QED
  BY <1>1, <1>2, <1>3, <1>4, <1>5, <1>6, <1>7

\* Such a branch keeps the invariant when it keeps the waits.
LEMMA DispatchStep ==
  ASSUME IInv, CanDispatch, AfterDispatch, NEW N, Moved(N), Housed,
         WaitInv', FenceInv', CsrInv'
  PROVE  IInv'
<1> USE DEF rob_vars, commit_vars, issue_vars, queue_vars, rename_vars
<1>0. /\ TypeInv /\ RingInv /\ RoomInv /\ PhaseInv /\ PlaceInv
      /\ phase = "dispatch" /\ phase' = "rename" /\ flush # "commit"
      /\ stall' = Stall
      /\ UNCHANGED <<slot, rob_vars, exec, flush, flush_pos, commit_vars, issue_vars,
                     rename_vars>>
  BY DEF IInv, CanDispatch, AfterDispatch
<1>1. /\ RobLive' = RobLive /\ Live0' = Live0 /\ Kept' = Kept /\ Open' = Open
      /\ \A p : /\ Kind(p)' = Kind(p) /\ Item(p)' = Item(p) /\ IsLsu(p)' = IsLsu(p)
                /\ IsInteger(p)' = IsInteger(p)
      /\ LiveInteger' = integer_port' /\ LiveLsu' = lsu_port'
      /\ send_pack' = <<>>
      /\ Sent \subseteq RobLive /\ Front \subseteq Open /\ Open \subseteq RobLive
  BY Around
<1>2. TypeInv'
  <2>1. stall' \in BOOLEAN
    BY <1>0 DEF Stall, TypeInv
  <2>2. QED
    BY <1>0, <2>1 DEF TypeInv, Housed
<1>3. RingInv' /\ ClearedInv'
  BY <1>0 DEF RingInv, ClearedInv
<1>4. PhaseInv'
  BY <1>0, <1>1 DEF PhaseInv, Housed
<1>5. RoomInv'
  <2>1. slot' = 0 /\ Len(send_pack') = 0 /\ DISPATCH_WIDTH \in Nat
    BY <1>0, <1>1, EmptyPack, ConstAssumption DEF PhaseInv
  <2>2. Len(send_pack') <= slot' /\ slot' <= DISPATCH_WIDTH
    BY <2>1
  <2>3. QED
    BY <1>0, <2>2 DEF RoomInv, Housed, Fits
<1>6. Sent' = Sent \cup (Front \ Front')
  BY <1>1 DEF Sent, Moved
<1>7. FrontInv'
  <2>1. /\ Elements(send_pack') = {} /\ Shaped(send_pack)' /\ DOMAIN send_pack' = {}
    BY <1>1, EmptyPack DEF Shaped
  <2>2. Front' \subseteq Open'
    BY <1>1 DEF Moved
  <2>3. Behind(Front, Sent)
    BY <1>0 DEF PlaceInv, FrontInv
  <2>4. Behind(Front', Sent')
    BY <1>6, <2>3 DEF Moved, Behind
  <2>5. QED
    BY <2>1, <2>2, <2>4 DEF FrontInv, Moved, Behind
<1>8. /\ IntegerPlaced' = (IntegerPlaced \cap Kept) \cup {p \in N : IsInteger(p)}
      /\ LsuPlaced' = (LsuPlaced \cap Kept) \cup {p \in N : IsLsu(p)}
  <2>1. /\ IntegerPlaced' = Placed(integer_queue, integer_rev, integer_port', hold_integer')
        /\ LsuPlaced' = Placed(lsu_queue, lsu_rev, lsu_port', hold_lsu')
    BY <1>0, <1>1 DEF IntegerPlaced, LsuPlaced
  <2>2. QED
    BY <2>1 DEF Moved
<1>9. LineInv'
  <2>1. /\ Line(integer_queue, integer_rev, LiveInteger, hold_integer)'
        /\ Line(lsu_queue, lsu_rev, LiveLsu, hold_lsu)'
    BY <1>0, <1>1 DEF Moved
  <2>2. IntegerPlaced' \subseteq (Open \cap Sent)' /\ LsuPlaced' \subseteq (Open \cap Sent)'
    BY <1>0, <1>1, <1>6, <1>8 DEF PlaceInv, LineInv, Moved
  <2>3. (\A p \in IntegerPlaced : IsInteger(p))' /\ (\A p \in LsuPlaced : IsLsu(p))'
    BY <1>0, <1>1, <1>8 DEF PlaceInv, LineInv
  <2>4. QED
    BY <2>1, <2>2, <2>3 DEF LineInv
<1>10. CompleteInv'
  <2> SUFFICES ASSUME NEW p \in Open \cap Kept
               PROVE  p \in IntegerPlaced' \/ p \in LsuPlaced' \/ p \in Front'
    BY <1>1 DEF CompleteInv
  <2>1. p \in IntegerPlaced \/ p \in LsuPlaced \/ p \in Front
    BY <1>0 DEF PlaceInv, CompleteInv
  <2>2. CASE p \in Front
    <3>1. p \in N \/ p \in Front'
      BY <2>2 DEF Moved
    <3>2. IsInteger(p) \/ IsLsu(p)
      BY DEF IsInteger
    <3>3. QED
      BY <1>8, <3>1, <3>2
  <2>3. QED
    BY <1>8, <2>1, <2>2
<1>11. BruInv'
  <2> SUFFICES ASSUME flush = "bru" PROVE BruInv'
    BY <1>0 DEF BruInv
  <2>1. /\ flush_pos \in Sent /\ Kind(flush_pos) = "bru" /\ Item(flush_pos).finish
        /\ integer_queue \subseteq Kept /\ lsu_queue \subseteq Kept
        /\ Elements(integer_rev) \subseteq Kept /\ Elements(lsu_rev) \subseteq Kept
    BY <1>0 DEF PlaceInv, BruInv
  <2>2. flush_pos \in Sent' /\ Kind(flush_pos)' = "bru" /\ Item(flush_pos)'.finish
    BY <1>0, <1>6, <2>1 DEF Kind, Item
  <2>3. /\ N = {} /\ integer_port' = <<>> /\ hold_integer' = <<>>
        /\ rev_pack' = <<>> /\ ~busy'
    BY DEF Moved
  <2>4. LsuPlaced' \subseteq Kept
    BY <1>8, <2>3
  <2>5. Elements(lsu_port') \subseteq Kept /\ Elements(hold_lsu') \subseteq Kept
    BY <1>1, <2>4 DEF LsuPlaced, Placed
  <2>6. Elements(LiveInteger') = {} /\ Elements(hold_integer') = {}
    BY <1>1, <2>3, EmptyPack
  <2>7. QED
    BY <1>0, <1>1, <2>1, <2>2, <2>3, <2>5, <2>6 DEF BruInv
<1>12. CommittedInv'
  BY <1>0, <1>1 DEF PlaceInv, CommittedInv
<1>13. QED
  BY <1>0, <1>2, <1>3, <1>4, <1>5, <1>7, <1>9, <1>10, <1>11, <1>12 DEF IInv, PlaceInv

\* A fence whose wait a misprediction has ended stays one: what is sent is younger
\* than all that was sent before.
LEMMA UncoveredStays ==
  ASSUME IInv, CanDispatch, AfterDispatch, Front' \subseteq Front, NEW f, Uncovered(f)
  PROVE  Uncovered(f)'
<1>1. /\ RobLive' = RobLive
      /\ \A p : Kind(p)' = Kind(p) /\ Item(p)' = Item(p) /\ IsLsu(p)' = IsLsu(p)
  BY Around
<1>2. Behind(Front, Sent)
  BY DEF IInv, CanDispatch, PlaceInv, FrontInv
<1>3. Sent \subseteq Sent' /\ Sent' \subseteq Sent \cup Front
  BY <1>1 DEF Sent
<1>4. PICK b \in Sent : /\ BranchBehind(f, b)
                        /\ \A p \in Sent : IsLsu(p) /\ Younger(p, f) => Younger(p, b)
  BY DEF Uncovered
<1>5. BranchBehind(f, b)'
  BY <1>1, <1>4 DEF BranchBehind
<1>6. \A p \in Sent' : IsLsu(p)' /\ Younger(p, f) => Younger(p, b)
  BY <1>1, <1>2, <1>3, <1>4 DEF Behind
<1>7. QED
  BY <1>3, <1>5, <1>6 DEF Uncovered

\* Dispatch goes on without a wait.
LEMMA WaitDone ==
  ASSUME IInv, CanDispatch, AfterDispatch, inst_waiting = NoPos \/ inst_waiting_ok,
         inst_waiting' = NoPos, Front' \subseteq Front,
         \A p \in Front \ Front' : IsFence(p) \/ Kind(p) = "csr" => p \notin Kept
  PROVE  WaitInv' /\ FenceInv' /\ CsrInv'
<1>1. /\ RobLive' = RobLive /\ Kept' = Kept
      /\ \A p : Kind(p)' = Kind(p) /\ IsFence(p)' = IsFence(p)
  BY Around
<1>2. /\ \A f \in Sent \cap Kept : IsFence(f) => Uncovered(f)
      /\ \A c \in Sent \cap Kept : Kind(c) # "csr"
  BY Opened DEF CanDispatch
<1>3. Sent' \subseteq Sent \cup (Front \ Front')
  BY <1>1 DEF Sent
<1>4. \A f \in Sent' \cap Kept' : IsFence(f)' => Uncovered(f)'
  BY <1>1, <1>2, <1>3, UncoveredStays
<1>5. \A c \in Sent' \cap Kept' : Kind(c)' # "csr"
  BY <1>1, <1>2, <1>3
<1>6. QED
  BY <1>4, <1>5 DEF WaitInv, FenceInv, CsrInv

\* What was in front of dispatch is still there.
LEMMA Stays ==
  ASSUME IInv, CanDispatch, AfterDispatch,
         \/ rev_pack' = rev_pack /\ Stall
         \/ rev_pack = <<>> /\ rev_pack' = rename_dispatch_port /\ ~Stall
  PROVE  /\ Front' = Front /\ Shaped(rev_pack)' /\ Shaped(LiveFront)'
         /\ Behind(Elements(LiveFront'), Elements(rev_pack'))
<1>1. /\ \A p : Kind(p)' = Kind(p) /\ IsFence(p)' = IsFence(p) /\ IsLsu(p)' = IsLsu(p)
      /\ LiveFront = rename_dispatch_port
      /\ LiveFront' = (IF Stall THEN rename_dispatch_port ELSE <<>>)
      /\ Front = Elements(rev_pack) \cup Elements(rename_dispatch_port)
      /\ Front' = Elements(rev_pack') \cup Elements(LiveFront')
  BY Around
<1>2. FrontInv
  BY DEF IInv, CanDispatch, PlaceInv
<1>3. \A s : Shaped(s) => Shaped(s)'
  BY <1>1 DEF Shaped
<1>4. CASE rev_pack' = rev_pack /\ Stall
  <2>1. rev_pack' = rev_pack /\ LiveFront' = LiveFront
    BY <1>1, <1>4
  <2>2. QED
    BY <1>1, <1>2, <2>1 DEF FrontInv, Shaped
<1>5. CASE rev_pack = <<>> /\ rev_pack' = rename_dispatch_port /\ ~Stall
  <2>1. rev_pack' = LiveFront /\ LiveFront' = <<>>
    BY <1>1, <1>5
  <2>2. Shaped(rev_pack)'
    BY <1>1, <1>2, <2>1 DEF FrontInv, Shaped
  <2>3. Shaped(LiveFront)' /\ Elements(LiveFront') = {}
    BY <2>1, EmptyPack DEF Shaped
  <2>4. Front' = Front
    BY <1>1, <1>5, <2>3, EmptyPack
  <2>5. QED
    BY <2>2, <2>3, <2>4 DEF Behind
<1>6. QED
  BY <1>4, <1>5

\* Dispatch sends the packs that it holds.
LEMMA DispatchHeldInv ==
  ASSUME IInv, DispatchHeld
  PROVE  IInv'
<1>0. /\ CanDispatch /\ AfterDispatch /\ TypeInv /\ PhaseInv /\ phase = "dispatch"
      /\ flush # "commit" /\ WaitOver /\ Held
      /\ rev_pack' = rev_pack /\ busy' = busy
      /\ inst_waiting' = NoPos /\ stbuf_waiting' = NoPos
  BY DEF DispatchHeld, CanDispatch, IInv
<1> DEFINE ih == IntegerKept(hold_integer)
           lh == LsuKept(hold_lsu)
<1>1. /\ IntegerOld \in Packs /\ Fits(IntegerOld) /\ LsuOld \in Packs /\ Fits(LsuOld)
      /\ ih \in Packs /\ Fits(ih) /\ lh \in Packs /\ Fits(lh)
      /\ Line(integer_queue, integer_rev, IntegerOld, ih)
      /\ Line(lsu_queue, lsu_rev, LsuOld, lh)
      /\ Placed(integer_queue, integer_rev, IntegerOld, ih) = IntegerPlaced \cap Kept
      /\ Placed(lsu_queue, lsu_rev, LsuOld, lh) = LsuPlaced \cap Kept
      /\ Elements(lh) = Elements(hold_lsu) \cap Kept
  BY <1>0, KeptLines
<1>2. /\ integer_port' = (IF integer_stall THEN IntegerOld ELSE ih)
      /\ hold_integer' = (IF integer_stall THEN ih ELSE <<>>)
      /\ lsu_port' = (IF lsu_stall THEN LsuOld ELSE lh)
      /\ hold_lsu' = (IF lsu_stall THEN lh ELSE <<>>)
  BY DEF DispatchHeld, SetInteger, SetLsu, IntegerOld, LsuOld
<1>3. hold_integer # <<>> \/ hold_lsu # <<>>
  <2>1. ih # <<>> => hold_integer # <<>>
    BY DEF IntegerKept
  <2>2. hold_lsu = <<>> => lh = <<>>
    BY <1>1, EmptyPack
  <2>3. QED
    BY <1>0, <2>1, <2>2 DEF Held
<1>4. Stall /\ ~busy /\ rev_pack = <<>>
  BY <1>0, <1>3 DEF Stall, PhaseInv
<1>5. flush = "bru" => integer_port' = <<>> /\ hold_integer' = <<>>
  BY <1>2 DEF IntegerKept, IntegerOld
<1> HIDE DEF ih, lh
<1>6. /\ Line(integer_queue, integer_rev, integer_port', hold_integer')
      /\ Placed(integer_queue, integer_rev, integer_port', hold_integer') = IntegerPlaced \cap Kept
  <2>1. Handed(integer_queue, integer_rev, IntegerOld, ih, integer_stall, integer_port',
               hold_integer')
    BY <1>1, <1>2 DEF Handed, IntegerOld
  <2>2. QED
    BY <1>1, <2>1, HandOver
<1>7. /\ Line(lsu_queue, lsu_rev, lsu_port', hold_lsu')
      /\ Placed(lsu_queue, lsu_rev, lsu_port', hold_lsu') = LsuPlaced \cap Kept
  <2>1. Handed(lsu_queue, lsu_rev, LsuOld, lh, lsu_stall, lsu_port', hold_lsu')
    BY <1>1, <1>2 DEF Handed, LsuOld
  <2>2. QED
    BY <1>1, <2>1, HandOver
<1>8. /\ Front' = Front /\ Shaped(rev_pack)' /\ Shaped(LiveFront)'
      /\ Behind(Elements(LiveFront'), Elements(rev_pack'))
  BY <1>0, <1>4, Stays
<1>9. Moved({})
  BY <1>0, <1>4, <1>5, <1>6, <1>7, <1>8 DEF Moved, Behind
<1>10. Housed
  <2>1. <<>> \in Packs /\ Fits(<<>>)
    BY EmptyPack, ConstAssumption DEF Fits
  <2>2. /\ integer_port' \in Packs /\ Fits(integer_port)'
        /\ lsu_port' \in Packs /\ Fits(lsu_port)'
        /\ hold_integer' \in Packs /\ Fits(hold_integer)'
        /\ hold_lsu' \in Packs /\ Fits(hold_lsu)'
        /\ rev_pack' \in Packs /\ Fits(rev_pack)'
    BY <1>0, <1>1, <1>2, <1>4, <2>1 DEF Fits
  <2>3. busy' \in BOOLEAN
    BY <1>0 DEF TypeInv
  <2>4. QED
    BY <1>0, <1>4, <2>2, <2>3 DEF Housed
<1>11. WaitInv' /\ FenceInv' /\ CsrInv'
  BY <1>0, <1>8, WaitDone DEF WaitOver
<1>12. QED
  BY <1>0, <1>9, <1>10, <1>11, DispatchStep

\* Distances add up within the reorder buffer.
LEMMA Between ==
  ASSUME TypeInv, RingInv, NEW f \in RobLive, NEW b \in RobLive, NEW w \in RobLive,
         Younger(b, f), Younger(w, b)
  PROVE  /\ RingCount(b, f, ROB_SIZE) < RingCount(w, f, ROB_SIZE)
         /\ RingCount(b, f, ROB_SIZE) \in Nat /\ RingCount(w, f, ROB_SIZE) \in Nat
<1> DEFINE C(p) == RingCount(p, rob_r, ROB_SIZE)
<1>1. /\ RobLive = Span(rob_r, rob_w) /\ rob_r \in Pos /\ rob_w \in Pos
      /\ RingCount(rob_w, rob_r, ROB_SIZE) <= ROB_SIZE
  BY LiveSpan DEF TypeInv
<1>2. \A p \in RobLive : p \in Pos /\ C(p) < ROB_SIZE
  BY <1>1, ConstAssumption DEF Span, Pos, Positions, RingCount
<1>3. C(f) < C(b) /\ C(b) < C(w) /\ C(f) \in Nat /\ C(b) \in Nat /\ C(w) \in Nat
  BY <1>1, <1>2, AgeIsCount
<1>4. \A p, q \in Pos : C(q) < C(p) => RingCount(p, q, ROB_SIZE) = C(p) - C(q)
  BY <1>1, ConstAssumption DEF RingCount, Pos, Positions
<1>5. /\ RingCount(b, f, ROB_SIZE) = C(b) - C(f)
      /\ RingCount(w, f, ROB_SIZE) = C(w) - C(f)
  <2>1. C(f) < C(w)
    BY <1>3
  <2> HIDE DEF C
  <2>2. QED
    BY <1>2, <1>3, <1>4, <2>1
<1> HIDE DEF C
<1>6. QED
  BY <1>3, <1>5

\* Dispatch waits.  The wait ends when its cause is removed by a misprediction,
\* and then the branch lies behind every fence it was for.
LEMMA DispatchWaitInv ==
  ASSUME IInv, DispatchWait
  PROVE  IInv'
<1>0. /\ CanDispatch /\ AfterDispatch /\ TypeInv /\ RingInv /\ PhaseInv /\ PlaceInv
      /\ phase = "dispatch" /\ flush # "commit" /\ ~WaitOver
      /\ rev_pack' = rev_pack /\ busy' = busy
      /\ inst_waiting' = (IF InstWaitEnds THEN NoPos ELSE inst_waiting)
      /\ stbuf_waiting' \in {NoPos, stbuf_waiting}
  BY DEF DispatchWait, CanDispatch, IInv
<1> DEFINE ih == IntegerKept(hold_integer)
           lh == LsuKept(hold_lsu)
<1>1. /\ IntegerOld \in Packs /\ Fits(IntegerOld) /\ LsuOld \in Packs /\ Fits(LsuOld)
      /\ ih \in Packs /\ Fits(ih) /\ lh \in Packs /\ Fits(lh)
      /\ Line(integer_queue, integer_rev, IntegerOld, ih)
      /\ Line(lsu_queue, lsu_rev, LsuOld, lh)
      /\ Placed(integer_queue, integer_rev, IntegerOld, ih) = IntegerPlaced \cap Kept
      /\ Placed(lsu_queue, lsu_rev, LsuOld, lh) = LsuPlaced \cap Kept
  BY <1>0, KeptLines
<1>2. /\ integer_port' = IntegerOld /\ hold_integer' = ih
      /\ lsu_port' = LsuOld /\ hold_lsu' = lh
  BY DEF DispatchWait, SetInteger, SetLsu, IntegerOld, LsuOld
<1>3. Stall /\ ~busy /\ rev_pack = <<>>
  BY <1>0 DEF Stall, PhaseInv, WaitOver
<1>4. flush = "bru" => integer_port' = <<>> /\ hold_integer' = <<>>
  BY <1>2 DEF IntegerKept, IntegerOld
<1> HIDE DEF ih, lh
<1>5. /\ Front' = Front /\ Shaped(rev_pack)' /\ Shaped(LiveFront)'
      /\ Behind(Elements(LiveFront'), Elements(rev_pack'))
  BY <1>0, <1>3, Stays
<1>6. Moved({})
  BY <1>0, <1>1, <1>2, <1>3, <1>4, <1>5 DEF Moved, Behind
<1>7. Housed
  <2>1. rev_pack' \in Packs /\ Fits(rev_pack)'
    BY <1>0, <1>3, EmptyPack, ConstAssumption DEF Fits
  <2>2. /\ busy' \in BOOLEAN /\ stbuf_waiting' \in Pos \cup {NoPos}
        /\ inst_waiting' \in Pos \cup {NoPos}
    BY <1>0 DEF TypeInv
  <2>3. QED
    BY <1>0, <1>1, <1>2, <1>3, <2>1, <2>2 DEF Housed, Fits
<1>8. /\ RobLive' = RobLive /\ Live0' = Live0 /\ Kept' = Kept
      /\ \A p : Kind(p)' = Kind(p) /\ Item(p)' = Item(p) /\ IsLsu(p)' = IsLsu(p)
                /\ IsFence(p)' = IsFence(p)
      /\ Sent \subseteq RobLive /\ RobLive \subseteq Pos
  BY <1>0, Around
<1>9. Sent' = Sent
  BY <1>5, <1>8 DEF Sent
<1>10. WaitInv' /\ FenceInv' /\ CsrInv'
  <2>1. CASE inst_waiting = NoPos \/ inst_waiting_ok
    <3>1. inst_waiting' = NoPos
      BY <1>0, <2>1 DEF InstWaitEnds
    <3>2. QED
      BY <1>0, <1>5, <2>1, <3>1, WaitDone
  <2>2. CASE ~(inst_waiting = NoPos \/ inst_waiting_ok) /\ ~Squashed(inst_waiting)
    <3>1. inst_waiting' = inst_waiting /\ inst_waiting # NoPos
      BY <1>0, <2>2 DEF InstWaitEnds
    <3>2. inst_waiting \in Live0 \ Front /\ Kind(inst_waiting) \in {"csr", "fence"}
      BY <1>0, <3>1 DEF PlaceInv, WaitInv
    <3>3. inst_waiting \in RobLive
      BY <1>0, <2>2, <3>2 DEF PlaceInv, CommittedInv, inst_waiting_ok
    <3>4. inst_waiting \in Kept
      BY <1>8, <2>2, <3>3 DEF Kept, Squashed
    <3>5. WaitInv'
      BY <1>5, <1>8, <3>1, <3>2, <3>3, <3>4 DEF WaitInv, Kind, Item
    <3>6. \A f \in Sent : WaitedFor(f) => WaitedFor(f)'
      BY <1>8, <1>9, <3>1 DEF WaitedFor
    <3>7. FenceInv'
      BY <1>0, <1>5, <1>8, <1>9, <3>6, UncoveredStays DEF PlaceInv, FenceInv
    <3>8. CsrInv'
      BY <1>0, <1>8, <1>9, <3>1 DEF PlaceInv, CsrInv
    <3>9. QED
      BY <3>5, <3>7, <3>8
  <2>3. CASE ~(inst_waiting = NoPos \/ inst_waiting_ok) /\ Squashed(inst_waiting)
    <3>1. inst_waiting' = NoPos
      BY <1>0, <2>3 DEF InstWaitEnds
    <3>2. /\ flush = "bru" /\ Younger(inst_waiting, flush_pos) /\ inst_waiting \notin Kept
          /\ flush_pos \in Sent /\ Kind(flush_pos) = "bru" /\ Item(flush_pos).finish
      BY <1>0, <2>3 DEF Squashed, Kept, PlaceInv, BruInv
    <3>3. ASSUME NEW f \in Sent \cap Kept, IsFence(f), WaitedFor(f) PROVE Uncovered(f)
      <4>1. /\ inst_waiting \in RobLive /\ RingCount(inst_waiting, f, ROB_SIZE) < DISPATCH_WIDTH
            /\ \A p \in Sent : IsLsu(p) => ~Younger(p, f)
        BY <3>3 DEF WaitedFor
      <4>2. f \in RobLive /\ flush_pos \in RobLive /\ RobLive \subseteq Live0
        BY <1>0, <1>8, <3>2, Order
      <4>3. Younger(flush_pos, f)
        <5>1. f # flush_pos
          BY <3>2, <3>3 DEF IsFence
        <5>2. ~Younger(f, flush_pos)
          BY <3>2, <3>3 DEF Kept
        <5>3. QED
          BY <1>0, <4>2, <5>1, <5>2, Order
      <4>4. RingCount(flush_pos, f, ROB_SIZE) + 2 <= DISPATCH_WIDTH
        <5>1. /\ RingCount(flush_pos, f, ROB_SIZE) < RingCount(inst_waiting, f, ROB_SIZE)
              /\ RingCount(flush_pos, f, ROB_SIZE) \in Nat
              /\ RingCount(inst_waiting, f, ROB_SIZE) \in Nat
          BY <1>0, <3>2, <4>1, <4>2, <4>3, Between
        <5>2. QED
          BY <4>1, <5>1, ConstAssumption
      <4>5. BranchBehind(f, flush_pos)
        BY <3>2, <4>3, <4>4 DEF BranchBehind
      <4>6. QED
        BY <3>2, <4>1, <4>5 DEF Uncovered
    <3>4. \A f \in Sent \cap Kept : IsFence(f) => Uncovered(f)
      BY <1>0, <3>3 DEF PlaceInv, FenceInv
    <3>5. \A f \in Sent' \cap Kept' : IsFence(f)' => Uncovered(f)'
      BY <1>0, <1>5, <1>8, <1>9, <3>4, UncoveredStays
    <3>6. \A c \in Sent' \cap Kept' : Kind(c)' # "csr"
      BY <1>0, <1>8, <1>9, <3>2 DEF PlaceInv, CsrInv
    <3>7. QED
      BY <3>1, <3>5, <3>6 DEF WaitInv, FenceInv, CsrInv
  <2>4. QED
    BY <2>1, <2>2, <2>3
<1>11. QED
  BY <1>0, <1>6, <1>7, <1>10, DispatchStep

\* Dispatch takes a pack: what it held is gone, and rename has been stopped
\* exactly when the pack was kept from before.
LEMMA Taking ==
  ASSUME IInv, CanDispatch, WaitOver, ~Held
  PROVE  /\ IntegerKept(hold_integer) = <<>> /\ LsuKept(hold_lsu) = <<>>
         /\ flush = "none" \/ flush = "bru"
         /\ Pack \in Packs /\ Fits(Pack) /\ Shaped(Pack) /\ Sorted(Pack)
         /\ Elements(Pack) \subseteq Front
         /\ flush = "bru" => Pack = <<>> /\ Front \cap Kept = {}
         /\ flush = "none" => Kept = Pos /\ (Stall <=> busy)
<1>0. /\ TypeInv /\ RoomInv /\ PhaseInv /\ FrontInv /\ BruInv /\ phase = "dispatch"
      /\ flush # "commit"
  BY DEF IInv, CanDispatch, PlaceInv
<1>1. IntegerKept(hold_integer) = <<>> /\ LsuKept(hold_lsu) = <<>>
  BY DEF Held
<1>2. flush = "none" \/ flush = "bru"
  BY <1>0 DEF TypeInv
<1>3. LiveFront = rename_dispatch_port /\ rename_dispatch_port \in Packs /\ rev_pack \in Packs
  BY <1>0 DEF LiveFront, TypeInv
<1>4. Pack = <<>> \/ Pack = rev_pack \/ Pack = rename_dispatch_port
  BY DEF Pack
<1>5. Pack \in Packs /\ Fits(Pack)
  BY <1>0, <1>3, <1>4, EmptyPack, ConstAssumption DEF RoomInv, Fits
<1>6. Shaped(Pack)
  <2>1. Shaped(<<>>)
    BY EmptyPack DEF Shaped
  <2>2. QED
    BY <1>0, <1>3, <1>4, <2>1 DEF FrontInv
<1>7. Sorted(Pack)
  BY <1>6 DEF Sorted, Shaped
<1>8. Elements(Pack) \subseteq Front
  BY <1>3, <1>4, EmptyPack DEF Front
<1>9. ASSUME flush = "bru" PROVE Pack = <<>> /\ Front \cap Kept = {}
  <2>1. Behind(Front, Sent) /\ flush_pos \in Sent
    BY <1>0, <1>9 DEF FrontInv, BruInv
  <2>2. QED
    BY <1>9, <2>1 DEF Pack, Behind, Kept
<1>10. ASSUME flush = "none" PROVE Kept = Pos /\ (Stall <=> busy)
  <2>1. Kept = Pos
    BY <1>10 DEF Kept
  <2>2. hold_integer = <<>>
    BY <1>1, <1>10 DEF IntegerKept
  <2>3. hold_lsu = <<>>
    <3>1. Elements(LsuKept(hold_lsu)) = Elements(hold_lsu) \cap Kept
      BY <1>0, KeptLines
    <3>2. hold_lsu \in Packs
      BY <1>0 DEF TypeInv
    <3>3. Elements(hold_lsu) = {}
      BY <1>1, <2>1, <3>1, <3>2, EmptyPack
    <3>4. QED
      BY <3>2, <3>3, EmptyPack
  <2>4. QED
    BY <2>1, <2>2, <2>3 DEF Stall, WaitOver
<1>11. QED
  BY <1>1, <1>2, <1>5, <1>6, <1>7, <1>8, <1>9, <1>10

\* A new pack at the end of a line.
LEMMA Extend ==
  ASSUME NEW Q, NEW r, NEW o, NEW x, Line(Q, r, o, <<>>), Sorted(x),
         Behind(Elements(x), Placed(Q, r, o, <<>>))
  PROVE  /\ Line(Q, r, o, x)
         /\ Placed(Q, r, o, x) = Placed(Q, r, o, <<>>) \cup Elements(x)
<1>1. Elements(<<>>) = {}
  BY EmptyPack
<1>2. QED
  BY <1>1 DEF Line, Placed, Behind

\* Dispatch sends x to the integer side and y to the load/store side.
Sends(x, y) ==
    /\ integer_port' = IF integer_stall THEN IntegerOld ELSE x
    /\ hold_integer' = IF integer_stall THEN x ELSE <<>>
    /\ lsu_port' = IF lsu_stall THEN LsuOld ELSE y
    /\ hold_lsu' = IF lsu_stall THEN y ELSE <<>>
LEMMA SendSides ==
  ASSUME IInv, CanDispatch, WaitOver, ~Held, NEW N, N \subseteq Front,
         NEW x \in Packs, NEW y \in Packs, Sorted(x), Sorted(y), Fits(x), Fits(y),
         Elements(x) = {p \in N : IsInteger(p)}, Elements(y) = {p \in N : IsLsu(p)},
         Sends(x, y)
  PROVE  /\ Line(integer_queue, integer_rev, integer_port', hold_integer')
         /\ Line(lsu_queue, lsu_rev, lsu_port', hold_lsu')
         /\ Placed(integer_queue, integer_rev, integer_port', hold_integer')
              = (IntegerPlaced \cap Kept) \cup {p \in N : IsInteger(p)}
         /\ Placed(lsu_queue, lsu_rev, lsu_port', hold_lsu')
              = (LsuPlaced \cap Kept) \cup {p \in N : IsLsu(p)}
         /\ integer_port' \in Packs /\ Fits(integer_port)'
         /\ lsu_port' \in Packs /\ Fits(lsu_port)'
         /\ hold_integer' \in Packs /\ Fits(hold_integer)'
         /\ hold_lsu' \in Packs /\ Fits(hold_lsu)'
<1>0. phase = "dispatch" /\ flush # "commit" /\ FrontInv /\ LineInv
  BY DEF CanDispatch, IInv, PlaceInv
<1>1. IntegerKept(hold_integer) = <<>> /\ LsuKept(hold_lsu) = <<>>
  BY Taking
<1>2. /\ IntegerOld \in Packs /\ Fits(IntegerOld) /\ LsuOld \in Packs /\ Fits(LsuOld)
      /\ Line(integer_queue, integer_rev, IntegerOld, <<>>)
      /\ Line(lsu_queue, lsu_rev, LsuOld, <<>>)
      /\ Placed(integer_queue, integer_rev, IntegerOld, <<>>) = IntegerPlaced \cap Kept
      /\ Placed(lsu_queue, lsu_rev, LsuOld, <<>>) = LsuPlaced \cap Kept
  BY <1>0, <1>1, KeptLines
<1>3. /\ Behind(Elements(x), IntegerPlaced \cap Kept) /\ Behind(Elements(y), LsuPlaced \cap Kept)
  BY <1>0 DEF FrontInv, LineInv, Behind
<1>4. /\ Line(integer_queue, integer_rev, IntegerOld, x)
      /\ Placed(integer_queue, integer_rev, IntegerOld, x)
           = (IntegerPlaced \cap Kept) \cup Elements(x)
  <2>1. Behind(Elements(x), Placed(integer_queue, integer_rev, IntegerOld, <<>>))
    BY <1>2, <1>3
  <2>2. /\ Line(integer_queue, integer_rev, IntegerOld, x)
        /\ Placed(integer_queue, integer_rev, IntegerOld, x)
             = Placed(integer_queue, integer_rev, IntegerOld, <<>>) \cup Elements(x)
    BY <1>2, <2>1, Extend, Zenon
  <2>3. QED
    BY <1>2, <2>2
<1>5. /\ Line(lsu_queue, lsu_rev, LsuOld, y)
      /\ Placed(lsu_queue, lsu_rev, LsuOld, y) = (LsuPlaced \cap Kept) \cup Elements(y)
  <2>1. Behind(Elements(y), Placed(lsu_queue, lsu_rev, LsuOld, <<>>))
    BY <1>2, <1>3
  <2>2. /\ Line(lsu_queue, lsu_rev, LsuOld, y)
        /\ Placed(lsu_queue, lsu_rev, LsuOld, y)
             = Placed(lsu_queue, lsu_rev, LsuOld, <<>>) \cup Elements(y)
    BY <1>2, <2>1, Extend, Zenon
  <2>3. QED
    BY <1>2, <2>2
<1>6. /\ Line(integer_queue, integer_rev, integer_port', hold_integer')
      /\ Placed(integer_queue, integer_rev, integer_port', hold_integer')
           = (IntegerPlaced \cap Kept) \cup Elements(x)
  <2>1. Handed(integer_queue, integer_rev, IntegerOld, x, integer_stall, integer_port',
               hold_integer')
    BY <1>4 DEF Handed, IntegerOld, Sends
  <2>2. QED
    BY <1>4, <2>1, HandOver
<1>7. /\ Line(lsu_queue, lsu_rev, lsu_port', hold_lsu')
      /\ Placed(lsu_queue, lsu_rev, lsu_port', hold_lsu')
           = (LsuPlaced \cap Kept) \cup Elements(y)
  <2>1. Handed(lsu_queue, lsu_rev, LsuOld, y, lsu_stall, lsu_port', hold_lsu')
    BY <1>5 DEF Handed, LsuOld, Sends
  <2>2. QED
    BY <1>5, <2>1, HandOver
<1>8. <<>> \in Packs /\ Fits(<<>>)
  BY EmptyPack, ConstAssumption DEF Fits
<1>9. /\ integer_port' \in Packs /\ Fits(integer_port)'
      /\ lsu_port' \in Packs /\ Fits(lsu_port)'
      /\ hold_integer' \in Packs /\ Fits(hold_integer)'
      /\ hold_lsu' \in Packs /\ Fits(hold_lsu)'
  BY <1>2, <1>8 DEF Sends, Fits
<1>10. QED
  BY <1>6, <1>7, <1>9

\* The pack is kept for later.
LEMMA DispatchLaterInv ==
  ASSUME IInv, DispatchLater
  PROVE  IInv'
<1>0. /\ CanDispatch /\ AfterDispatch /\ PhaseInv /\ WaitOver /\ ~Held
      /\ busy' = TRUE /\ rev_pack' = Pack
      /\ inst_waiting' = NoPos /\ stbuf_waiting' = NoPos
      /\ hold_integer' = <<>> /\ hold_lsu' = <<>>
  BY DEF DispatchLater, IInv
<1>1. /\ Pack \in Packs /\ Fits(Pack)
      /\ flush = "none" \/ flush = "bru"
      /\ flush = "bru" => Pack = <<>>
      /\ flush = "none" => Kept = Pos /\ (Stall <=> busy)
  BY <1>0, Taking
<1>2. flush = "none" /\ Pack \in Packs /\ Fits(Pack) /\ (Stall <=> busy)
  <2>1. Pack # <<>>
    <3>1. FoundCsr \/ Fences # {}
      BY DEF DispatchLater, FenceBlocked
    <3>2. Pack = <<>> => Fences = {}
      BY DEF Fences
    <3>3. QED
      BY <3>1, <3>2 DEF FoundCsr
  <2>2. flush = "none"
    BY <1>0, <2>1, Taking
  <2>3. QED
    BY <1>0, <2>2, Taking
<1>3. /\ Front' = Front /\ Shaped(rev_pack)' /\ Shaped(LiveFront)'
      /\ Behind(Elements(LiveFront'), Elements(rev_pack'))
  <2>1. CASE busy
    <3>1. rev_pack' = rev_pack /\ Stall
      BY <1>0, <1>2, <2>1 DEF Pack
    <3>2. QED
      BY <1>0, <3>1, Stays
  <2>2. CASE ~busy
    <3>1. rev_pack = <<>> /\ rev_pack' = rename_dispatch_port /\ ~Stall
      BY <1>0, <1>2, <2>2 DEF Pack, PhaseInv
    <3>2. QED
      BY <1>0, <3>1, Stays
  <2>3. QED
    BY <2>1, <2>2
<1>4. Sends(<<>>, <<>>)
  BY <1>0 DEF Sends, DispatchLater, SetInteger, SetLsu, IntegerOld, LsuOld
<1>5. /\ Line(integer_queue, integer_rev, integer_port', hold_integer')
      /\ Line(lsu_queue, lsu_rev, lsu_port', hold_lsu')
      /\ Placed(integer_queue, integer_rev, integer_port', hold_integer')
           = (IntegerPlaced \cap Kept) \cup {p \in {} : IsInteger(p)}
      /\ Placed(lsu_queue, lsu_rev, lsu_port', hold_lsu')
           = (LsuPlaced \cap Kept) \cup {p \in {} : IsLsu(p)}
      /\ integer_port' \in Packs /\ Fits(integer_port)'
      /\ lsu_port' \in Packs /\ Fits(lsu_port)'
      /\ hold_integer' \in Packs /\ Fits(hold_integer)'
      /\ hold_lsu' \in Packs /\ Fits(hold_lsu)'
  <2>1. <<>> \in Packs /\ Fits(<<>>) /\ Sorted(<<>>) /\ Elements(<<>>) = {}
    BY EmptyPack, ConstAssumption DEF Fits
  <2>2. Elements(<<>>) = {p \in {} : IsInteger(p)} /\ Elements(<<>>) = {p \in {} : IsLsu(p)}
    BY <2>1
  <2>3. QED
    BY <1>0, <1>4, <2>1, <2>2, SendSides
<1>6. Moved({})
  BY <1>2, <1>3, <1>5 DEF Moved, Behind
<1>7. Housed
  BY <1>0, <1>2, <1>5 DEF Housed, Fits
<1>8. WaitInv' /\ FenceInv' /\ CsrInv'
  BY <1>0, <1>3, WaitDone DEF WaitOver
<1>9. QED
  BY <1>0, <1>6, <1>7, <1>8, DispatchStep

\* What remains in front of dispatch after it has taken a pack.
LEMMA FrontLeft ==
  ASSUME IInv, CanDispatch, AfterDispatch, WaitOver, ~Held, rev_pack' = <<>>
  PROVE  /\ Shaped(rev_pack)' /\ Shaped(LiveFront)'
         /\ Behind(Elements(LiveFront'), Elements(rev_pack'))
         /\ Front' \subseteq Front /\ Behind(Front', Front \ Front')
         /\ flush = "none" => Front' = Front \ Elements(Pack)
<1>0. TypeInv /\ PhaseInv /\ FrontInv
  BY DEF IInv, CanDispatch, PlaceInv
<1>1. /\ \A p : Kind(p)' = Kind(p) /\ IsFence(p)' = IsFence(p) /\ IsLsu(p)' = IsLsu(p)
      /\ LiveFront = rename_dispatch_port
      /\ LiveFront' = (IF Stall THEN rename_dispatch_port ELSE <<>>)
      /\ Front = Elements(rev_pack) \cup Elements(rename_dispatch_port)
      /\ Front' = Elements(rev_pack') \cup Elements(LiveFront')
  BY Around
<1>2. Elements(rev_pack') = {} /\ Elements(<<>>) = {} /\ Shaped(rev_pack)'
  BY EmptyPack DEF Shaped
<1>3. /\ Shaped(rename_dispatch_port)
      /\ Behind(Elements(rename_dispatch_port), Elements(rev_pack))
  BY <1>0, <1>1 DEF FrontInv
<1>4. flush = "none" => (Stall <=> busy)
  BY Taking
<1>5. CASE Stall
  <2>1. LiveFront' = rename_dispatch_port /\ Front' = Elements(rename_dispatch_port)
    BY <1>1, <1>2, <1>5
  <2>2. Shaped(LiveFront)'
    BY <1>1, <1>3, <2>1 DEF Shaped
  <2>3. Behind(Front', Front \ Front')
    BY <1>1, <1>3, <2>1 DEF Behind
  <2>4. ASSUME flush = "none" PROVE Front' = Front \ Elements(Pack)
    <3>1. Pack = rev_pack
      BY <1>4, <1>5, <2>4 DEF Pack
    <3>2. \A p \in Elements(rename_dispatch_port) : ~Younger(p, p)
      BY <1>0, EmptyPack, NotYounger DEF TypeInv
    <3>3. QED
      BY <1>1, <1>3, <2>1, <3>1, <3>2 DEF Behind
  <2>5. QED
    BY <1>1, <1>2, <2>1, <2>2, <2>3, <2>4 DEF Behind
<1>6. CASE ~Stall
  <2>1. LiveFront' = <<>> /\ Front' = {}
    BY <1>1, <1>2, <1>6
  <2>2. Shaped(LiveFront)'
    BY <2>1 DEF Shaped
  <2>3. ASSUME flush = "none" PROVE Front' = Front \ Elements(Pack)
    <3>1. Pack = rename_dispatch_port /\ rev_pack = <<>>
      BY <1>0, <1>4, <1>6, <2>3 DEF Pack, PhaseInv
    <3>2. QED
      BY <1>1, <1>2, <2>1, <3>1
  <2>4. QED
    BY <1>2, <2>1, <2>2, <2>3 DEF Behind
<1>7. QED
  BY <1>5, <1>6

\* A csr or mret goes alone, when it is the oldest.
LEMMA DispatchCsrInv ==
  ASSUME IInv, DispatchCsr
  PROVE  IInv'
<1> DEFINE c == Pack[1]
<1>0. /\ CanDispatch /\ AfterDispatch /\ WaitOver /\ ~Held /\ TypeInv /\ RingInv
      /\ FrontInv /\ CommittedInv
      /\ Pack # <<>> /\ Kind(c) = "csr" /\ ~integer_stall
      /\ next_handle = RingSlot(c, ROB_SIZE)
      /\ inst_waiting' = c /\ stbuf_waiting' = NoPos
      /\ busy' = FALSE /\ rev_pack' = <<>>
      /\ hold_integer' = <<>> /\ hold_lsu' = <<>>
  BY DEF DispatchCsr, IInv, CanDispatch, PlaceInv, FoundCsr, CsrReady
<1>1. /\ Pack \in Packs /\ Shaped(Pack) /\ Elements(Pack) \subseteq Front
      /\ flush = "none" /\ Kept = Pos
  BY <1>0, Taking
<1>2. Elements(Pack) = {c}
  <2>1. Pack \in Seq(Pos) /\ DOMAIN Pack = 1..Len(Pack) /\ 1 \in DOMAIN Pack
    BY <1>0, <1>1 DEF Packs
  <2>2. \A i \in DOMAIN Pack : i = 1 \/ 1 < i
    BY <2>1
  <2>3. \A i \in DOMAIN Pack : i = 1
    BY <1>0, <1>1, <2>1, <2>2, Zenon DEF Shaped
  <2>4. QED
    BY <2>1, <2>3 DEF Elements
<1>3. /\ RobLive' = RobLive /\ Live0' = Live0 /\ Kept' = Kept
      /\ \A p : Kind(p)' = Kind(p) /\ Item(p)' = Item(p) /\ IsLsu(p)' = IsLsu(p)
                /\ IsFence(p)' = IsFence(p)
      /\ Sent \subseteq RobLive /\ RobLive \subseteq Pos
      /\ Front \subseteq Open /\ Open \subseteq RobLive
  BY <1>0, Around
<1>4. c \in Front /\ c \in RobLive /\ c \in Pos
  BY <1>1, <1>2, <1>3
<1>5. /\ Shaped(rev_pack)' /\ Shaped(LiveFront)'
      /\ Behind(Elements(LiveFront'), Elements(rev_pack'))
      /\ Front' \subseteq Front /\ Behind(Front', Front \ Front')
      /\ Front' = Front \ {c}
  BY <1>0, <1>1, <1>2, FrontLeft
<1> HIDE DEF c
<1>6. /\ Line(integer_queue, integer_rev, integer_port', hold_integer')
      /\ Line(lsu_queue, lsu_rev, lsu_port', hold_lsu')
      /\ Placed(integer_queue, integer_rev, integer_port', hold_integer')
           = (IntegerPlaced \cap Kept) \cup {p \in {c} : IsInteger(p)}
      /\ Placed(lsu_queue, lsu_rev, lsu_port', hold_lsu')
           = (LsuPlaced \cap Kept) \cup {p \in {c} : IsLsu(p)}
      /\ integer_port' \in Packs /\ Fits(integer_port)'
      /\ lsu_port' \in Packs /\ Fits(lsu_port)'
      /\ hold_integer' \in Packs /\ Fits(hold_integer)'
      /\ hold_lsu' \in Packs /\ Fits(hold_lsu)'
  <2> DEFINE x == <<c>>
             y == <<>>
  <2>1. y \in Packs /\ Fits(y) /\ Sorted(y) /\ Elements(y) = {}
    BY EmptyPack, ConstAssumption DEF Fits
  <2>2. x \in Packs /\ Len(x) = 1 /\ DOMAIN x = {1} /\ x[1] = c
    BY <1>4 DEF Packs
  <2>3. Sends(x, y)
    BY <1>0 DEF Sends, DispatchCsr, SetInteger, SetLsu, LsuOld, c
  <2> HIDE DEF x, y
  <2>4. Fits(x) /\ Sorted(x) /\ Elements(x) = {c}
    BY <2>2, ConstAssumption DEF Fits, Sorted, Elements
  <2>5. IsInteger(c) /\ ~IsLsu(c)
    BY <1>0 DEF IsInteger, IsLsu
  <2>6. Elements(x) = {p \in {c} : IsInteger(p)} /\ Elements(y) = {p \in {c} : IsLsu(p)}
    BY <2>1, <2>4, <2>5
  <2>7. {c} \subseteq Front
    BY <1>4
  <2>8. QED
    BY <1>0, <2>1, <2>2, <2>3, <2>4, <2>6, <2>7, SendSides
<1>7. Moved({c})
  BY <1>1, <1>4, <1>5, <1>6 DEF Moved
<1>8. Housed
  <2>1. rev_pack' \in Packs /\ Fits(rev_pack)'
    BY <1>0, EmptyPack, ConstAssumption DEF Fits
  <2>2. QED
    BY <1>0, <1>4, <1>6, <2>1 DEF Housed
<1>9. WaitInv'
  BY <1>0, <1>1, <1>3, <1>4, <1>5, Order DEF WaitInv, Kind, Item
<1>10. /\ \A f \in Sent \cap Kept : IsFence(f) => Uncovered(f)
       /\ \A d \in Sent \cap Kept : Kind(d) # "csr"
  BY <1>0, Opened DEF CanDispatch, WaitOver
<1>11. Sent' = Sent \cup {c}
  BY <1>3, <1>4, <1>5 DEF Sent
<1>12. FenceInv'
  <2> SUFFICES ASSUME NEW f \in Sent' \cap Kept', IsFence(f)'
               PROVE  Uncovered(f)'
    BY DEF FenceInv
  <2>1. f \in Sent \cap Kept /\ IsFence(f)
    BY <1>0, <1>3, <1>11 DEF IsFence
  <2>2. QED
    BY <1>0, <1>5, <1>10, <2>1, UncoveredStays
<1>13. CsrInv'
  <2>1. \A p \in Sent : Younger(c, p)
    BY <1>0, <1>4 DEF FrontInv, Behind
  <2>2. PICK n \in RobLive : /\ next_handle = RingSlot(n, ROB_SIZE)
                             /\ \A q \in RobLive : Younger(n, q) => Item(q).finish
    BY <1>0, <1>4, PosFacts DEF CommittedInv
  <2>3. n = c
    BY <1>0, <1>4, <2>2, Order
  <2>4. \A p \in Sent : Item(p).finish
    BY <1>3, <2>1, <2>2, <2>3
  <2>5. \A d \in Sent' \cap Kept' : Kind(d)' = "csr" => d = c
    BY <1>3, <1>10, <1>11
  <2>6. QED
    BY <1>0, <1>3, <1>11, <2>1, <2>4, <2>5 DEF CsrInv
<1>14. QED
  BY <1>0, <1>7, <1>8, <1>9, <1>12, <1>13, DispatchStep

\* The fences of a pack: dispatch waits for the last one, which is less than a pack
\* away, and no load or store of the pack lies behind any of them.
LEMMA PackFences ==
  ASSUME IInv, CanDispatch, WaitOver, ~Held, Fences # {}
  PROVE  /\ LastFence \in Elements(Pack) /\ IsFence(LastFence)
         /\ \A f \in Elements(Pack) : IsFence(f) =>
               /\ ~Younger(f, LastFence)
               /\ RingCount(LastFence, f, ROB_SIZE) < DISPATCH_WIDTH
               /\ \A p \in Elements(Pack) : IsLsu(p) => ~Younger(p, f)
<1>0. TypeInv /\ RingInv /\ FrontInv
  BY DEF IInv, CanDispatch, PlaceInv
<1>1. /\ Pack \in Packs /\ Fits(Pack) /\ Shaped(Pack) /\ Elements(Pack) \subseteq Front
  BY Taking
<1>2. /\ Pack \in Seq(Pos) /\ DOMAIN Pack = 1..Len(Pack) /\ Len(Pack) \in Nat
      /\ Len(Pack) <= DISPATCH_WIDTH /\ DISPATCH_WIDTH \in Nat
      /\ \A i \in DOMAIN Pack : Pack[i] \in Pos
  BY <1>1, ConstAssumption DEF Packs, Fits
<1>3. Fences \subseteq DOMAIN Pack
  BY DEF Fences
<1>4. \E m \in Fences : \A j \in Fences : j <= m
  <2> DEFINE T == {k \in Nat : \E i \in Fences : k = Len(Pack) - i}
  <2>1. T # {} /\ T \subseteq Nat
    BY <1>2, <1>3
  <2>2. PICK k \in T : \A l \in T : k <= l
    BY <2>1, Least
  <2>3. PICK m \in Fences : k = Len(Pack) - m
    BY <2>2
  <2>4. ASSUME NEW j \in Fences PROVE j <= m
    <3>1. Len(Pack) - j \in T /\ m \in Nat /\ j \in Nat
      BY <1>2, <1>3
    <3>2. k <= Len(Pack) - j
      BY <2>2, <3>1
    <3>3. QED
      BY <1>2, <2>3, <3>1, <3>2
  <2>5. QED
    BY <2>4
<1> DEFINE m == CHOOSE i \in Fences : \A j \in Fences : j <= i
<1>5. m \in Fences /\ \A j \in Fences : j <= m
  BY <1>4
<1>6. LastFence = Pack[m]
  BY DEF LastFence
<1> HIDE DEF m
<1>7. LastFence \in Elements(Pack) /\ IsFence(LastFence)
  BY <1>3, <1>5, <1>6 DEF Elements, Fences
<1>8. \A p \in Elements(Pack) : p \in Live0 /\ ~Younger(p, p)
  <2>1. Front \subseteq RobLive
    BY <1>0 DEF FrontInv, Open
  <2>2. QED
    BY <1>0, <1>1, <2>1, Order, NotYounger
<1>9. \A p, q \in Live0 : ~(Younger(p, q) /\ Younger(q, p))
  BY <1>0, Order
<1>10. ASSUME NEW f \in Elements(Pack), IsFence(f)
       PROVE  /\ ~Younger(f, LastFence)
              /\ RingCount(LastFence, f, ROB_SIZE) < DISPATCH_WIDTH
              /\ \A p \in Elements(Pack) : IsLsu(p) => ~Younger(p, f)
  <2>1. PICK i \in DOMAIN Pack : f = Pack[i]
    BY DEF Elements
  <2>2. i \in Fences /\ i <= m /\ m \in DOMAIN Pack
    BY <1>3, <1>5, <1>10, <2>1 DEF Fences
  <2>3. ~Younger(f, LastFence)
    <3>1. CASE i = m
      BY <1>6, <1>7, <1>8, <2>1, <3>1
    <3>2. CASE i < m
      <4>1. Younger(LastFence, f)
        BY <1>1, <1>6, <2>1, <2>2, <3>2 DEF Shaped
      <4>2. QED
        BY <1>7, <1>8, <1>9, <4>1
    <3>3. QED
      BY <1>2, <2>2, <3>1, <3>2
  <2>4. RingCount(LastFence, f, ROB_SIZE) < DISPATCH_WIDTH
    <3>1. CASE i = m
      <4>1. LastFence = f /\ f \in Pos
        BY <1>2, <1>6, <2>1, <3>1
      <4>2. RingCount(f, f, ROB_SIZE) = 0
        BY <4>1, ConstAssumption DEF RingCount, Pos, Positions
      <4>3. QED
        BY <4>1, <4>2, ConstAssumption
    <3>2. CASE i < m
      <4>1. LastFence = RingAdd(f, m - i, ROB_SIZE)
        BY <1>1, <1>6, <2>1, <2>2, <3>2 DEF Shaped
      <4>2. m - i \in Nat /\ m - i < DISPATCH_WIDTH /\ f \in Pos
        BY <1>2, <2>1, <2>2, <3>2
      <4> DEFINE k == m - i
      <4> HIDE DEF k
      <4>3. k \in Nat /\ k < DISPATCH_WIDTH /\ LastFence = RingAdd(f, k, ROB_SIZE)
        BY <4>1, <4>2 DEF k
      <4>4. RingCount(RingAdd(f, k, ROB_SIZE), f, ROB_SIZE) <= k
        BY <4>2, <4>3, ConstAssumption DEF RingCount, RingAdd, Pos, Positions
      <4>5. RingCount(RingAdd(f, k, ROB_SIZE), f, ROB_SIZE) \in Int
        BY <4>2, <4>3, ConstAssumption DEF RingCount, RingAdd, Pos, Positions
      <4>6. QED
        BY <1>2, <4>3, <4>4, <4>5
    <3>3. QED
      BY <1>2, <2>2, <3>1, <3>2
  <2>5. ASSUME NEW p \in Elements(Pack), IsLsu(p) PROVE ~Younger(p, f)
    <3>1. PICK j \in DOMAIN Pack : p = Pack[j]
      BY DEF Elements
    <3>2. ~(i < j)
      BY <1>1, <1>10, <2>1, <2>5, <3>1 DEF Shaped
    <3>3. CASE i = j
      BY <1>8, <2>1, <3>1, <3>3
    <3>4. CASE j < i
      <4>1. Younger(f, p)
        BY <1>1, <2>1, <3>1, <3>4 DEF Shaped
      <4>2. QED
        BY <1>8, <1>9, <4>1
    <3>5. QED
      BY <1>2, <3>2, <3>3, <3>4
  <2>6. QED
    BY <2>3, <2>4, <2>5
<1>11. QED
  BY <1>7, <1>10

\* A pack without a csr is sent.
LEMMA DispatchPackInv ==
  ASSUME IInv, DispatchPack
  PROVE  IInv'
<1> DEFINE N == Elements(Pack)
<1>0. /\ CanDispatch /\ AfterDispatch /\ WaitOver /\ ~Held /\ TypeInv /\ RingInv
      /\ FrontInv
      /\ ~FoundCsr
      /\ inst_waiting' = (IF Fences # {} THEN LastFence ELSE NoPos)
      /\ stbuf_waiting' = (IF Fences # {} THEN LastFence ELSE NoPos)
      /\ busy' = FALSE /\ rev_pack' = <<>>
  BY DEF DispatchPack, IInv, CanDispatch, PlaceInv
<1>1. /\ Pack \in Packs /\ Fits(Pack) /\ Shaped(Pack) /\ Sorted(Pack) /\ N \subseteq Front
      /\ flush = "none" \/ flush = "bru"
      /\ flush = "bru" => Pack = <<>> /\ Front \cap Kept = {}
      /\ flush = "none" => Kept = Pos
  BY <1>0, Taking
<1>2. /\ RobLive' = RobLive /\ Live0' = Live0 /\ Kept' = Kept
      /\ \A p : Kind(p)' = Kind(p) /\ Item(p)' = Item(p) /\ IsLsu(p)' = IsLsu(p)
                /\ IsFence(p)' = IsFence(p)
      /\ Sent \subseteq RobLive /\ RobLive \subseteq Pos
      /\ Front \subseteq Open /\ Open \subseteq RobLive
  BY <1>0, Around
<1>3. /\ Shaped(rev_pack)' /\ Shaped(LiveFront)'
      /\ Behind(Elements(LiveFront'), Elements(rev_pack'))
      /\ Front' \subseteq Front /\ Behind(Front', Front \ Front')
      /\ flush = "none" => Front' = Front \ N
  BY <1>0, FrontLeft
<1>4. flush = "bru" => N = {} /\ Fences = {}
  BY <1>1, EmptyPack DEF Fences
<1>5. \A p \in N : Kind(p) # "csr"
  <2> SUFFICES ASSUME NEW i \in DOMAIN Pack, Kind(Pack[i]) = "csr" PROVE FALSE
    BY DEF Elements
  <2>1. DOMAIN Pack = 1..Len(Pack) /\ Len(Pack) \in Nat
    BY <1>1 DEF Packs
  <2>2. i = 1 \/ (1 \in DOMAIN Pack /\ 1 < i)
    BY <2>1
  <2>3. i = 1
    BY <1>1, <2>2 DEF Shaped
  <2>4. Pack # <<>>
    BY <2>1
  <2>5. QED
    BY <1>0, <2>3, <2>4 DEF FoundCsr
<1>6. /\ Line(integer_queue, integer_rev, integer_port', hold_integer')
      /\ Line(lsu_queue, lsu_rev, lsu_port', hold_lsu')
      /\ Placed(integer_queue, integer_rev, integer_port', hold_integer')
           = (IntegerPlaced \cap Kept) \cup {p \in N : IsInteger(p)}
      /\ Placed(lsu_queue, lsu_rev, lsu_port', hold_lsu')
           = (LsuPlaced \cap Kept) \cup {p \in N : IsLsu(p)}
      /\ integer_port' \in Packs /\ Fits(integer_port)'
      /\ lsu_port' \in Packs /\ Fits(lsu_port)'
      /\ hold_integer' \in Packs /\ Fits(hold_integer)'
      /\ hold_lsu' \in Packs /\ Fits(hold_lsu)'
      /\ flush = "bru" => integer_port' = <<>> /\ hold_integer' = <<>>
  <2> DEFINE x == IntegerPart
             y == LsuPart
             I == {p \in Pos : IsInteger(p)}
             L == {p \in Pos : IsLsu(p)}
  <2>1. x = Filter(Pack, I) /\ y = Filter(Pack, L)
    BY DEF IntegerPart, LsuPart
  <2>2. Sends(x, y)
    BY DEF Sends, DispatchPack, SetInteger, SetLsu, IntegerOld, LsuOld
  <2> HIDE DEF x, y
  <2>3. /\ x \in Packs /\ Len(x) <= Len(Pack) /\ Elements(x) = N \cap I /\ Sorted(x)
        /\ y \in Packs /\ Len(y) <= Len(Pack) /\ Elements(y) = N \cap L /\ Sorted(y)
    <3> HIDE DEF I, L
    <3>1. /\ x \in Packs /\ Len(x) <= Len(Pack) /\ Elements(x) = N \cap I /\ Sorted(x)
      BY <1>1, <2>1, FilterFacts, Zenon
    <3>2. /\ y \in Packs /\ Len(y) <= Len(Pack) /\ Elements(y) = N \cap L /\ Sorted(y)
      BY <1>1, <2>1, FilterFacts, Zenon
    <3>3. QED
      BY <3>1, <3>2
  <2>4. Fits(x) /\ Fits(y)
    <3>1. Len(x) \in Nat /\ Len(y) \in Nat /\ Len(Pack) \in Nat /\ DISPATCH_WIDTH \in Nat
      BY <1>1, <2>3, ConstAssumption DEF Packs
    <3>2. QED
      BY <1>1, <2>3, <3>1 DEF Fits
  <2>5. Elements(x) = {p \in N : IsInteger(p)} /\ Elements(y) = {p \in N : IsLsu(p)}
    BY <1>1, <1>2, <2>3
  <2>6. flush = "bru" => integer_port' = <<>> /\ hold_integer' = <<>>
    <3>1. flush = "bru" => x = <<>>
      BY <1>4, <2>3, EmptyPack
    <3>2. QED
      BY <2>2, <3>1 DEF Sends, IntegerOld, IntegerKept
  <2> HIDE DEF N
  <2>7. QED
    BY <1>0, <1>1, <2>2, <2>3, <2>4, <2>5, <2>6, SendSides
<1> HIDE DEF N
<1>7. Moved(N)
  <2>1. N \cap Front' = {} /\ Front \cap Kept \subseteq N \cup Front'
    BY <1>1, <1>3, <1>4
  <2>2. QED
    BY <1>0, <1>1, <1>3, <1>4, <1>6, <2>1 DEF Moved
<1>8. Housed
  <2>1. rev_pack' \in Packs /\ Fits(rev_pack)'
    BY <1>0, EmptyPack, ConstAssumption DEF Fits
  <2>2. inst_waiting' \in Pos \cup {NoPos} /\ stbuf_waiting' \in Pos \cup {NoPos}
    BY <1>0, <1>1, <1>2, PackFences DEF N
  <2>3. QED
    BY <1>0, <1>6, <2>1, <2>2 DEF Housed
<1>9. WaitInv' /\ FenceInv' /\ CsrInv'
  <2>1. CASE Fences = {}
    <3>1. \A p \in N : ~IsFence(p)
      BY <2>1 DEF Fences, N, Elements
    <3>2. \A p \in Front \ Front' : IsFence(p) \/ Kind(p) = "csr" => p \notin Kept
      BY <1>1, <1>3, <1>5, <3>1
    <3>3. QED
      BY <1>0, <1>3, <2>1, <3>2, WaitDone DEF WaitOver
  <2>2. CASE Fences # {}
    <3> DEFINE w == LastFence
    <3>1. /\ w \in N /\ IsFence(w)
          /\ \A f \in N : IsFence(f) =>
                /\ ~Younger(f, w)
                /\ RingCount(w, f, ROB_SIZE) < DISPATCH_WIDTH
                /\ \A p \in N : IsLsu(p) => ~Younger(p, f)
      BY <1>0, <2>2, PackFences DEF N
    <3>2. inst_waiting' = w
      BY <1>0, <2>2
    <3> HIDE DEF w
    <3>3. flush = "none" /\ Front' = Front \ N /\ Kept = Pos
      BY <1>1, <1>3, <1>4, <2>2
    <3>4. Sent' = Sent \cup N /\ N \subseteq RobLive
      BY <1>1, <1>2, <3>3 DEF Sent
    <3>5. RobLive \subseteq Live0
      BY <1>0, Order
    <3>6. Kind(inst_waiting)' = "fence"
      BY <1>2, <3>1, <3>2 DEF IsFence, Kind, Item
    <3>7. WaitInv'
      BY <1>2, <3>1, <3>2, <3>3, <3>4, <3>5, <3>6 DEF WaitInv
    <3>8. /\ \A f \in Sent \cap Kept : IsFence(f) => Uncovered(f)
          /\ \A d \in Sent \cap Kept : Kind(d) # "csr"
      BY <1>0, Opened DEF CanDispatch, WaitOver
    <3>9. CsrInv'
      BY <1>2, <1>5, <3>4, <3>8 DEF CsrInv
    <3>10. ASSUME NEW f \in N, IsFence(f) PROVE WaitedFor(f)'
      <4>1. ASSUME NEW p \in Sent PROVE ~Younger(p, f)
        <5>1. Younger(f, p) /\ f \in Live0 /\ p \in Live0
          BY <1>0, <1>1, <1>2, <3>4, <3>5 DEF FrontInv, Behind
        <5>2. QED
          BY <1>0, <5>1, Order
      <4>2. \A p \in Sent' : IsLsu(p)' => ~Younger(p, f)
        BY <1>2, <3>1, <3>4, <3>10, <4>1
      <4>3. QED
        BY <1>2, <3>1, <3>2, <3>4, <3>10, <4>2 DEF WaitedFor
    <3>11. FenceInv'
      BY <1>0, <1>2, <1>3, <3>4, <3>8, <3>10, UncoveredStays DEF FenceInv
    <3>12. QED
      BY <3>7, <3>9, <3>11
  <2>3. QED
    BY <2>1, <2>2
<1>10. QED
  BY <1>0, <1>7, <1>8, <1>9, DispatchStep

-----------------------------------------------------------------------------
(***************************************************************************)
(* Rename and the end of the cycle.                                        *)
(***************************************************************************)

\* A pack of rename grows by one.
LEMMA ShapedAppend ==
  ASSUME NEW s \in Packs, Shaped(s), NEW w \in Pos, NEW k \in AllKinds,
         \A i \in DOMAIN s : /\ Kind(s[i])' = Kind(s[i]) /\ Kind(s[i]) # "csr"
                             /\ Younger(w, s[i])
                             /\ RingCount(w, s[i], ROB_SIZE) = Len(s) - i + 1
                             /\ k # "csr"
                             /\ Kind(s[i]) = "fence" => k \notin {"load", "store"},
         Kind(w)' = k
  PROVE  Shaped(Append(s, w))'
<1> DEFINE t == Append(s, w)
<1>1. /\ s \in Seq(Pos) /\ Len(s) \in Nat /\ DOMAIN s = 1..Len(s)
      /\ DOMAIN t = 1..(Len(s) + 1) /\ t[Len(s) + 1] = w
      /\ \A i \in 1..Len(s) : t[i] = s[i] /\ s[i] \in Pos
  BY DEF Packs
<1> HIDE DEF t
<1>2. ASSUME NEW i \in DOMAIN t, NEW j \in DOMAIN t, i < j
      PROVE  /\ t[j] = RingAdd(t[i], j - i, ROB_SIZE)
             /\ Younger(t[j], t[i])
             /\ Kind(t[i])' # "csr" /\ Kind(t[j])' # "csr"
             /\ IsFence(t[i])' => ~IsLsu(t[j])'
  <2>1. i \in DOMAIN s /\ t[i] = s[i]
    BY <1>1, <1>2
  <2>2. CASE j \in DOMAIN s
    <3>1. t[j] = s[j]
      BY <1>1, <2>2
    <3>2. /\ s[j] = RingAdd(s[i], j - i, ROB_SIZE)
          /\ Younger(s[j], s[i])
          /\ Kind(s[i]) # "csr" /\ Kind(s[j]) # "csr"
          /\ IsFence(s[i]) => ~IsLsu(s[j])
      BY <1>2, <2>1, <2>2 DEF Shaped
    <3>3. Kind(s[i])' = Kind(s[i]) /\ Kind(s[j])' = Kind(s[j])
      BY <2>1, <2>2
    <3>4. QED
      BY <2>1, <3>1, <3>2, <3>3 DEF IsFence, IsLsu
  <2>3. CASE j \notin DOMAIN s
    <3>1. j = Len(s) + 1 /\ t[j] = w
      BY <1>1, <2>3
    <3>2. RingCount(w, s[i], ROB_SIZE) = j - i /\ s[i] \in Pos
      BY <1>1, <2>1, <3>1
    <3>3. w = RingAdd(s[i], RingCount(w, s[i], ROB_SIZE), ROB_SIZE)
      BY <3>2, ConstAssumption DEF RingAdd, RingCount, Pos, Positions
    <3>4. Kind(s[i])' = Kind(s[i]) /\ Kind(s[i]) # "csr" /\ Younger(w, s[i]) /\ k # "csr"
          /\ (Kind(s[i]) = "fence" => k \notin {"load", "store"})
      BY <2>1
    <3>5. QED
      BY <2>1, <3>1, <3>2, <3>3, <3>4 DEF IsFence, IsLsu
  <2>4. QED
    BY <2>2, <2>3
<1>3. (\A i, j \in DOMAIN t : i < j =>
         /\ t[j] = RingAdd(t[i], j - i, ROB_SIZE)
         /\ Younger(t[j], t[i])
         /\ Kind(t[i])' # "csr" /\ Kind(t[j])' # "csr"
         /\ IsFence(t[i])' => ~IsLsu(t[j])')
  BY <1>2
<1>4. QED
  BY <1>3 DEF Shaped, t

\* Rename takes the next position.
LEMMA RenameOneInv ==
  ASSUME IInv, NEW kind \in Kinds, RenameOne(kind)
  PROVE  IInv'
<1> USE DEF commit_vars, dispatch_vars, hold_vars, issue_vars, queue_vars
<1>w. PICK w : w = rob_w
  OBVIOUS
<1>0. /\ TypeInv /\ RingInv /\ RoomInv /\ PhaseInv /\ PlaceInv
      /\ phase = "rename" /\ phase' = "rename" /\ flush = "none" /\ ~stall
      /\ slot < DISPATCH_WIDTH /\ ~RingFull(rob_w, rob_r0, ROB_SIZE)
      /\ kind = "csr" => slot = 0
      /\ kind \in {"load", "store"} => ~FoundFence
      /\ rob' = [rob EXCEPT ![RingSlot(w, ROB_SIZE)] = [kind |-> kind, finish |-> FALSE]]
      /\ rob_w' = RingNext(w, ROB_SIZE) /\ w = rob_w
      /\ send_pack' = Append(send_pack, w)
      /\ slot' = (IF kind = "csr" THEN DISPATCH_WIDTH ELSE slot + 1)
      /\ UNCHANGED <<rob_r, rob_r0, exec, flush, flush_pos, commit_vars,
                     dispatch_vars, issue_vars, rename_dispatch_port>>
  BY <1>w DEF IInv, RenameOne, FitsPack
<1>1. /\ w \in Pos /\ rob_r \in Pos /\ rob_r0 \in Pos /\ kind \in AllKinds
      /\ slot \in Nat /\ DISPATCH_WIDTH \in Nat
      /\ send_pack \in Packs /\ send_pack \in Seq(Pos) /\ Len(send_pack) \in Nat
      /\ DOMAIN send_pack = 1..Len(send_pack)
  BY <1>0, ConstAssumption DEF TypeInv, AllKinds, Packs
<1>2. /\ RingCount(w, rob_r0, ROB_SIZE) < ROB_SIZE /\ RingCount(w, rob_r, ROB_SIZE) < ROB_SIZE
      /\ RingCount(w, rob_r0, ROB_SIZE) \in Nat /\ RingCount(w, rob_r, ROB_SIZE) \in Nat
      /\ RingCount(rob_r, rob_r0, ROB_SIZE) \in Nat
  <2>1. /\ RingCount(w, rob_r0, ROB_SIZE) \in Nat /\ RingCount(w, rob_r, ROB_SIZE) \in Nat
        /\ RingCount(rob_r, rob_r0, ROB_SIZE) \in Nat
    BY <1>1, ConstAssumption DEF RingCount, Pos, Positions
  <2>2. QED
    BY <1>0, <2>1, ConstAssumption DEF RingInv, RingFull
<1>3. /\ Span(rob_r0, rob_w') = Span(rob_r0, w) \cup {w} /\ w \notin Span(rob_r0, w)
      /\ RingCount(rob_w', rob_r0, ROB_SIZE) = RingCount(w, rob_r0, ROB_SIZE) + 1
      /\ \A p \in Span(rob_r0, w) : /\ Younger(w, p)
                                    /\ RingSlot(p, ROB_SIZE) # RingSlot(w, ROB_SIZE)
  BY <1>0, <1>1, <1>2, SpanGrows
<1>4. /\ Span(rob_r, rob_w') = Span(rob_r, w) \cup {w}
      /\ RingCount(rob_w', rob_r, ROB_SIZE) = RingCount(w, rob_r, ROB_SIZE) + 1
  BY <1>0, <1>1, <1>2, SpanGrows
<1>5. /\ RobLive = Span(rob_r, w) /\ RobLive \subseteq Live0 /\ Live0 \subseteq Pos
      /\ \A p, q \in Live0 : ~(Younger(p, q) /\ Younger(q, p))
  BY <1>0, Order
<1>6. /\ RobLive' = RobLive \cup {w} /\ Live0' = Live0 \cup {w} /\ w \notin Live0
      /\ \A p \in Live0 : /\ Younger(w, p)
                          /\ RingSlot(p, ROB_SIZE) # RingSlot(w, ROB_SIZE)
  <2>1. rob_w' \in Pos
    BY <1>0, <1>1, PosFacts
  <2>2. RobLive' = Span(rob_r, rob_w')
    BY <1>0, <1>1, <2>1, SpanIs DEF RobLive, RobCount
  <2>3. QED
    BY <1>0, <1>3, <1>4, <1>5, <2>2 DEF Live0
<1>7. /\ rob' \in [0..(ROB_SIZE - 1) -> [kind : AllKinds, finish : BOOLEAN]]
      /\ \A p \in Live0 : Item(p)' = Item(p)
      /\ Item(w)' = [kind |-> kind, finish |-> FALSE]
  <2>1. rob \in [0..(ROB_SIZE - 1) -> [kind : AllKinds, finish : BOOLEAN]]
    BY <1>0 DEF TypeInv
  <2>2. \A p \in Pos : RingSlot(p, ROB_SIZE) \in 0..(ROB_SIZE - 1)
    BY PosFacts
  <2>3. rob' \in [0..(ROB_SIZE - 1) -> [kind : AllKinds, finish : BOOLEAN]]
    BY <1>0, <1>1, <2>1, <2>2
  <2>4. rob'[RingSlot(w, ROB_SIZE)] = [kind |-> kind, finish |-> FALSE]
    BY <1>0, <1>1, <2>1, <2>2
  <2>5. \A p \in Live0 : rob'[RingSlot(p, ROB_SIZE)] = rob[RingSlot(p, ROB_SIZE)]
    BY <1>0, <1>1, <1>5, <1>6, <2>1, <2>2
  <2>6. QED
    BY <2>3, <2>4, <2>5 DEF Item
<1>8. \A p \in Live0 : /\ Kind(p)' = Kind(p) /\ IsLsu(p)' = IsLsu(p)
                       /\ IsFence(p)' = IsFence(p) /\ IsInteger(p)' = IsInteger(p)
  BY <1>7 DEF Kind, IsLsu, IsFence, IsInteger
<1>9. Kind(w)' = kind /\ ~Item(w)'.finish
  BY <1>7 DEF Kind
<1>10. Open' = Open \cup {w} /\ Open \subseteq RobLive
  BY <1>5, <1>6, <1>7, <1>9 DEF Open
<1>11. Kept = Pos /\ Kept' = Pos
  BY <1>0 DEF Kept
<1>12. TypeInv'
  <2>1. rob_w' \in Pos
    BY <1>0, <1>1, PosFacts
  <2>2. send_pack' \in Packs
    BY <1>0, <1>1 DEF Packs
  <2>3. slot' \in Nat
    BY <1>0, <1>1
  <2>4. QED
    BY <1>0, <1>7, <2>1, <2>2, <2>3 DEF TypeInv
<1>13. RingInv'
  BY <1>0, <1>2, <1>3, <1>4, ConstAssumption DEF RingInv
<1>14. Len(send_pack) <= slot /\ Len(send_pack') = Len(send_pack) + 1
  BY <1>0, <1>1 DEF RoomInv
<1>15. RoomInv'
  <2>1. Len(send_pack') <= slot' /\ slot' <= DISPATCH_WIDTH
    BY <1>0, <1>1, <1>14
  <2>2. QED
    BY <1>0, <2>1 DEF RoomInv, Fits
<1>16. PhaseInv' /\ ClearedInv'
  BY <1>0 DEF PhaseInv, ClearedInv
<1>17. /\ LiveFront = <<>> /\ LiveFront' = <<>> /\ Elements(<<>>) = {}
       /\ LiveInteger' = LiveInteger /\ LiveLsu' = LiveLsu
  BY <1>0, EmptyPack DEF LiveFront, LiveInteger, LiveLsu, LivePort
<1>18. Elements(send_pack') = Elements(send_pack) \cup {w}
  <2>1. /\ DOMAIN send_pack' = 1..(Len(send_pack) + 1) /\ send_pack'[Len(send_pack) + 1] = w
        /\ \A i \in 1..Len(send_pack) : send_pack'[i] = send_pack[i]
    BY <1>0, <1>1
  <2>2. DOMAIN send_pack' = DOMAIN send_pack \cup {Len(send_pack) + 1}
    BY <1>1, <2>1
  <2>3. \A i \in DOMAIN send_pack : send_pack'[i] = send_pack[i]
    BY <1>1, <2>1
  <2>4. Elements(send_pack') \subseteq Elements(send_pack) \cup {w}
    BY <2>1, <2>2, <2>3, Zenon DEF Elements
  <2>5. Elements(send_pack) \subseteq Elements(send_pack')
    BY <2>2, <2>3, Zenon DEF Elements
  <2>6. w \in Elements(send_pack')
    BY <2>1, <2>2, Zenon DEF Elements
  <2>7. QED
    BY <2>4, <2>5, <2>6
<1>19. Front' = Front \cup {w} /\ Front \subseteq RobLive /\ Sent' = Sent /\ Sent \subseteq RobLive
  <2>1. Front' = Front \cup {w}
    BY <1>0, <1>17, <1>18 DEF Front
  <2>2. Front \subseteq RobLive
    BY <1>0, <1>10 DEF PlaceInv, FrontInv
  <2>3. QED
    BY <1>5, <1>6, <2>1, <2>2 DEF Sent
<1>20. FrontInv'
  <2>0. FrontInv
    BY <1>0 DEF PlaceInv
  <2>1. /\ Elements(rev_pack) \subseteq Live0 /\ Elements(send_pack) \subseteq Live0
    BY <1>5, <1>19 DEF Front
  <2>2. Shaped(rev_pack)'
    BY <1>0, <1>8, <2>0, <2>1 DEF FrontInv, Shaped, Elements
  <2>3. Shaped(LiveFront)'
    BY <1>17 DEF Shaped
  <2>4. \A i \in DOMAIN send_pack : send_pack[i] \in Live0
    BY <2>1 DEF Elements
  <2>5. \A i \in DOMAIN send_pack :
           /\ Kind(send_pack[i]) # "csr" /\ Younger(w, send_pack[i])
           /\ RingCount(w, send_pack[i], ROB_SIZE) = Len(send_pack) - i + 1
           /\ kind # "csr"
           /\ Kind(send_pack[i]) = "fence" => kind \notin {"load", "store"}
    <3> SUFFICES ASSUME NEW i \in DOMAIN send_pack
                 PROVE  /\ Kind(send_pack[i]) # "csr" /\ Younger(w, send_pack[i])
                        /\ RingCount(w, send_pack[i], ROB_SIZE) = Len(send_pack) - i + 1
                        /\ kind # "csr"
                        /\ Kind(send_pack[i]) = "fence" => kind \notin {"load", "store"}
      OBVIOUS
    <3>1. /\ RingCount(w, send_pack[i], ROB_SIZE) = Len(send_pack) - i + 1
          /\ Kind(send_pack[i]) = "csr" => slot = DISPATCH_WIDTH
      BY <1>0, <2>0 DEF FrontInv
    <3>2. slot # DISPATCH_WIDTH
      BY <1>0, <1>1
    <3>3. slot # 0
      BY <1>1, <1>14
    <3>4. Younger(w, send_pack[i])
      BY <1>6, <2>4
    <3>5. Kind(send_pack[i]) = "fence" => kind \notin {"load", "store"}
      BY <1>0 DEF FoundFence, IsFence
    <3>6. QED
      BY <1>0, <3>1, <3>2, <3>3, <3>4, <3>5
  <2>6. Shaped(send_pack)'
    <3>1. PICK s : s = send_pack
      OBVIOUS
    <3>2. s \in Packs /\ Shaped(s)
      BY <1>1, <2>0, <3>1 DEF FrontInv
    <3>3. \A i \in DOMAIN s : /\ Kind(s[i])' = Kind(s[i]) /\ Kind(s[i]) # "csr"
                              /\ Younger(w, s[i])
                              /\ RingCount(w, s[i], ROB_SIZE) = Len(s) - i + 1
                              /\ kind # "csr"
                              /\ Kind(s[i]) = "fence" => kind \notin {"load", "store"}
      <4>1. \A i \in DOMAIN s : s[i] \in Live0
        BY <2>4, <3>1
      <4>2. \A i \in DOMAIN s : Kind(s[i])' = Kind(s[i])
        BY <1>8, <4>1
      <4>3. QED
        BY <2>5, <3>1, <4>2
    <3>4. Shaped(Append(s, w))'
      BY <1>1, <1>9, <3>2, <3>3, ShapedAppend
    <3>5. send_pack' = Append(s, w)
      BY <1>0, <3>1
    <3>6. QED
      BY <3>4, <3>5 DEF Shaped
  <2>7. /\ Behind(Elements(LiveFront), Elements(rev_pack))'
        /\ Behind(Elements(send_pack), Elements(rev_pack))'
        /\ Behind(Elements(send_pack), Elements(LiveFront))'
    BY <1>0, <1>6, <1>17, <1>18, <2>0, <2>1 DEF FrontInv, Behind
  <2>8. Front' \subseteq Open' /\ Behind(Front', Sent')
    BY <1>5, <1>6, <1>10, <1>19, <2>0 DEF FrontInv, Behind
  <2>9. ASSUME NEW i \in DOMAIN send_pack'
        PROVE  /\ RingCount(rob_w', send_pack'[i], ROB_SIZE) = Len(send_pack') - i + 1
               /\ Kind(send_pack[i])' = "csr" => slot' = DISPATCH_WIDTH
    <3>1. /\ DOMAIN send_pack' = 1..(Len(send_pack) + 1) /\ send_pack'[Len(send_pack) + 1] = w
          /\ \A j \in 1..Len(send_pack) : send_pack'[j] = send_pack[j]
      BY <1>0, <1>1
    <3>2. CASE i = Len(send_pack) + 1
      <4>1. send_pack'[i] = w
        BY <3>1, <3>2
      <4>2. RingCount(rob_w', w, ROB_SIZE) = 1
        BY <1>0, <1>1, ConstAssumption DEF RingCount, RingNext, Pos, Positions
      <4>3. Kind(send_pack[i])' = Kind(w)'
        BY <4>1 DEF Kind, Item
      <4>4. QED
        BY <1>0, <1>1, <1>9, <1>14, <3>2, <4>1, <4>2, <4>3
    <3>3. CASE i # Len(send_pack) + 1
      <4>1. i \in DOMAIN send_pack /\ send_pack'[i] = send_pack[i]
        BY <1>1, <3>1, <3>3
      <4>2. PICK p : p = send_pack[i]
        OBVIOUS
      <4>3. p \in Live0 /\ Kind(p)' = Kind(p) /\ Kind(p) # "csr"
        BY <1>8, <2>4, <2>5, <4>1, <4>2
      <4>4. Kind(send_pack[i])' = Kind(p)'
        BY <4>1, <4>2 DEF Kind, Item
      <4>5. RingCount(w, p, ROB_SIZE) = Len(send_pack) - i + 1
        BY <2>5, <4>1, <4>2
      <4>6. RingCount(rob_w', p, ROB_SIZE) = RingCount(w, p, ROB_SIZE) + 1
        <5>1. p \in Pos /\ RingCount(p, rob_r0, ROB_SIZE) < RingCount(w, rob_r0, ROB_SIZE)
          BY <1>0, <4>3 DEF Live0, Span
        <5>2. QED
          BY <1>0, <1>1, <1>2, <5>1, ConstAssumption DEF RingCount, RingNext, Pos, Positions
      <4>7. i \in Int /\ Len(send_pack) \in Int
        BY <1>1, <4>1
      <4>8. QED
        BY <1>14, <4>1, <4>2, <4>3, <4>4, <4>5, <4>6, <4>7
    <3>4. QED
      BY <3>2, <3>3
  <2>10. QED
    BY <2>2, <2>3, <2>6, <2>7, <2>8, <2>9 DEF FrontInv
<1>21. IntegerPlaced' = IntegerPlaced /\ LsuPlaced' = LsuPlaced
  BY <1>0, <1>17 DEF IntegerPlaced, LsuPlaced
<1>22. LineInv'
  <2>0. LineInv
    BY <1>0 DEF PlaceInv
  <2>1. /\ Line(integer_queue, integer_rev, LiveInteger, hold_integer)'
        /\ Line(lsu_queue, lsu_rev, LiveLsu, hold_lsu)'
    BY <1>0, <1>17, <2>0 DEF LineInv
  <2>2. IntegerPlaced' \subseteq (Open \cap Sent)' /\ LsuPlaced' \subseteq (Open \cap Sent)'
    BY <1>10, <1>19, <1>21, <2>0 DEF LineInv
  <2>3. (\A p \in IntegerPlaced : IsInteger(p))' /\ (\A p \in LsuPlaced : IsLsu(p))'
    BY <1>5, <1>8, <1>10, <1>21, <2>0 DEF LineInv
  <2>4. QED
    BY <2>1, <2>2, <2>3 DEF LineInv
<1>23. CompleteInv'
  BY <1>0, <1>10, <1>11, <1>19, <1>21 DEF PlaceInv, CompleteInv, Kept
<1>24. BruInv'
  BY <1>0 DEF BruInv
<1>25. CommittedInv'
  <2>0. CommittedInv
    BY <1>0 DEF PlaceInv
  <2>1. RingSlot(w, ROB_SIZE) \notin committed
    BY <1>6, <2>0 DEF CommittedInv
  <2>2. \A p \in Live0' : /\ RingSlot(p, ROB_SIZE) \in committed' =>
                               p \notin RobLive' \/ Kind(p)' = "store"
                          /\ p \notin RobLive' => RingSlot(p, ROB_SIZE) \in committed'
    BY <1>0, <1>6, <1>8, <2>0, <2>1 DEF CommittedInv
  <2>3. \A s \in committed' : \E p \in Live0' : s = RingSlot(p, ROB_SIZE)
    BY <1>0, <1>6, <2>0 DEF CommittedInv
  <2>4. ASSUME next_handle' # NoPos
        PROVE  \E n \in RobLive' : /\ next_handle' = RingSlot(n, ROB_SIZE)
                                   /\ \A q \in RobLive' : Younger(n, q) => Item(q)'.finish
    <3>1. PICK n \in RobLive : /\ next_handle = RingSlot(n, ROB_SIZE)
                               /\ \A q \in RobLive : Younger(n, q) => Item(q).finish
      BY <1>0, <2>0, <2>4 DEF CommittedInv
    <3>2. ~Younger(n, w)
      <4>1. Younger(w, n) /\ n \in Live0' /\ w \in Live0'
        BY <1>5, <1>6, <3>1
      <4>2. n \in Pos /\ Younger(w, n)
        BY <1>5, <4>1
      <4>3. n \in Pos /\ Younger(w, n) => ~Younger(n, w)
        BY <1>1, ConstAssumption DEF Younger, RingYounger, RingSlot, Pos, Positions
      <4>4. QED
        BY <4>2, <4>3
    <3>3. QED
      BY <1>0, <1>5, <1>6, <1>7, <3>1, <3>2
  <2>5. QED
    BY <2>2, <2>3, <2>4 DEF CommittedInv
<1>26. WaitInv'
  <2> SUFFICES ASSUME inst_waiting # NoPos PROVE WaitInv'
    BY <1>0 DEF WaitInv
  <2>1. PICK i : i = inst_waiting
    OBVIOUS
  <2>2. /\ i \in Live0 \ Front /\ Kind(i) \in {"csr", "fence"} /\ i \in RobLive
    BY <1>0, <2>1 DEF PlaceInv, WaitInv
  <2>3. /\ i \in Live0' \ Front' /\ Kind(i)' \in {"csr", "fence"} /\ i \in RobLive' \cap Kept'
    BY <1>5, <1>6, <1>8, <1>11, <1>19, <2>2
  <2>4. inst_waiting' = i
    BY <1>0, <2>1
  <2>5. QED
    BY <2>3, <2>4 DEF WaitInv, Kind, Item
<1>27. FenceInv'
  <2> SUFFICES ASSUME NEW f \in Sent' \cap Kept', IsFence(f)'
               PROVE  WaitedFor(f)' \/ Uncovered(f)'
    BY DEF FenceInv
  <2>1. f \in Sent \cap Kept /\ IsFence(f)
    BY <1>5, <1>8, <1>11, <1>19
  <2>2. CASE WaitedFor(f)
    BY <1>0, <1>5, <1>6, <1>8, <1>19, <2>2 DEF WaitedFor
  <2>3. CASE Uncovered(f)
    <3>1. PICK b \in Sent : /\ BranchBehind(f, b)
                            /\ \A p \in Sent : IsLsu(p) /\ Younger(p, f) => Younger(p, b)
      BY <2>3 DEF Uncovered
    <3>2. BranchBehind(f, b)'
      BY <1>5, <1>7, <1>8, <1>19, <3>1 DEF BranchBehind
    <3>3. \A p \in Sent' : IsLsu(p)' /\ Younger(p, f) => Younger(p, b)
      BY <1>5, <1>8, <1>19, <3>1
    <3>4. QED
      BY <1>19, <3>1, <3>2, <3>3 DEF Uncovered
  <2>4. QED
    BY <1>0, <2>1, <2>2, <2>3 DEF PlaceInv, FenceInv
<1>28. CsrInv'
  BY <1>0, <1>5, <1>7, <1>8, <1>11, <1>19 DEF PlaceInv, CsrInv
<1>29. QED
  BY <1>12, <1>13, <1>15, <1>16, <1>20, <1>22, <1>23, <1>24, <1>25, <1>26, <1>27, <1>28
     DEF IInv, PlaceInv

\* The parts of the invariant that the end of a cycle sets anew whatever happened
\* in it, given that the reorder buffer is not overfull.
LEMMA SyncFrame ==
  ASSUME IInv, Sync, rob_w' \in Pos, rob_r' \in Pos,
         RingCount(rob_w', rob_r', ROB_SIZE) <= ROB_SIZE
  PROVE  /\ TypeInv' /\ RingInv' /\ RoomInv' /\ PhaseInv' /\ ClearedInv'
         /\ Live0' = RobLive' /\ RobLive' = Span(rob_r', rob_w') /\ Kept' = Pos
         /\ LiveInteger' = integer_port /\ LiveLsu' = lsu_port
         /\ LiveFront' = rename_dispatch_port'
         /\ BruInv' /\ CommittedInv'
<1> USE DEF hold_vars, queue_vars
<1>0. /\ TypeInv /\ RoomInv /\ PhaseInv /\ phase = "rename" /\ phase' = "execute"
      /\ rename_dispatch_port' = (IF flush # "none" THEN <<>>
                                  ELSE IF stall THEN rename_dispatch_port ELSE send_pack)
      /\ send_pack' = <<>> /\ rob_r0' = rob_r'
      /\ flush' = "none" /\ flush_pos' = 0
      /\ committed' = {} /\ next_handle' = NoPos
      /\ stall' = FALSE /\ integer_stall' = FALSE /\ lsu_stall' = FALSE
      /\ slot' = 0
      /\ UNCHANGED <<rob, exec, hold_vars, queue_vars>>
  BY DEF IInv, Sync
<1>1. TypeInv'
  <2>1. 0 \in Pos
    BY ConstAssumption DEF Pos, Positions
  <2>2. send_pack' \in Packs /\ rename_dispatch_port' \in Packs
    BY <1>0, EmptyPack DEF TypeInv
  <2>3. QED
    BY <1>0, <2>1, <2>2 DEF TypeInv
<1>2. RingInv'
  <2>0. \A r, w \in Pos : RingCount(r, r, ROB_SIZE) = 0 /\ RingCount(w, r, ROB_SIZE) \in Int
    BY ConstAssumption DEF RingCount, Pos, Positions
  <2>1. RingCount(rob_r', rob_r', ROB_SIZE) = 0 /\ RingCount(rob_w', rob_r', ROB_SIZE) \in Int
    BY <2>0
  <2>2. QED
    BY <1>0, <2>1 DEF RingInv
<1>3. RoomInv'
  <2>1. Fits(<<>>)
    BY EmptyPack, ConstAssumption DEF Fits
  <2>2. Fits(send_pack)
    <3>1. Len(send_pack) \in Nat /\ slot \in Nat /\ DISPATCH_WIDTH \in Nat
      BY <1>0, ConstAssumption DEF TypeInv, Packs
    <3>2. QED
      BY <1>0, <3>1 DEF RoomInv, Fits
  <2>3. Fits(rename_dispatch_port')
    BY <1>0, <2>1, <2>2 DEF RoomInv
  <2>4. QED
    BY <1>0, <2>3 DEF RoomInv, Fits
<1>4. PhaseInv' /\ ClearedInv'
  BY <1>0 DEF PhaseInv, ClearedInv
<1>5. RobLive' = Span(rob_r', rob_w')
  BY SpanIs DEF RobLive, RobCount
<1>6. Live0' = RobLive'
  BY <1>0, <1>5 DEF Live0
<1>7. Kept' = Pos
  BY <1>0 DEF Kept
<1>8. /\ LiveInteger' = integer_port /\ LiveLsu' = lsu_port
      /\ LiveFront' = rename_dispatch_port'
  BY <1>0 DEF LiveInteger, LiveLsu, LiveFront, LivePort
<1>9. BruInv' /\ CommittedInv'
  BY <1>0, <1>6 DEF BruInv, CommittedInv
<1>10. QED
  BY <1>1, <1>2, <1>3, <1>4, <1>5, <1>6, <1>7, <1>8, <1>9

\* After a flush from commit everything is empty.
LEMMA SyncCommitInv ==
  ASSUME IInv, Sync, flush = "commit"
  PROVE  IInv'
<1> USE DEF hold_vars, queue_vars
<1>0. /\ TypeInv /\ ClearedInv /\ phase = "rename"
      /\ rename_dispatch_port' = <<>> /\ send_pack' = <<>>
      /\ rob_w' = 0 /\ rob_r' = 0 /\ UNCHANGED <<hold_vars, queue_vars>>
  BY DEF IInv, Sync
<1>1. /\ rob_w' \in Pos /\ rob_r' \in Pos /\ RingCount(rob_w', rob_r', ROB_SIZE) <= ROB_SIZE
  BY <1>0, ConstAssumption DEF Pos, Positions, RingCount
<1>2. /\ TypeInv' /\ RingInv' /\ RoomInv' /\ PhaseInv' /\ ClearedInv'
      /\ Live0' = RobLive' /\ RobLive' = Span(rob_r', rob_w') /\ Kept' = Pos
      /\ LiveInteger' = integer_port /\ LiveLsu' = lsu_port
      /\ LiveFront' = rename_dispatch_port'
      /\ BruInv' /\ CommittedInv'
  BY <1>1, SyncFrame
<1>3. RobLive' = {}
  <2>1. \A p \in Pos : ~(RingCount(p, 0, ROB_SIZE) < RingCount(0, 0, ROB_SIZE))
    BY ConstAssumption DEF Pos, Positions, RingCount
  <2>2. QED
    BY <1>0, <1>2, <2>1 DEF Span
<1>4. /\ integer_queue' = {} /\ lsu_queue' = {} /\ integer_rev' = <<>> /\ lsu_rev' = <<>>
      /\ LiveInteger' = <<>> /\ LiveLsu' = <<>> /\ hold_integer' = <<>> /\ hold_lsu' = <<>>
      /\ rev_pack' = <<>> /\ LiveFront' = <<>> /\ inst_waiting' = NoPos
  BY <1>0, <1>2 DEF ClearedInv
<1>5. Elements(<<>>) = {} /\ Sorted(<<>>)
  BY EmptyPack
<1>6. Front' = {} /\ Sent' = {} /\ Open' = {} /\ IntegerPlaced' = {} /\ LsuPlaced' = {}
  BY <1>0, <1>3, <1>4, <1>5 DEF Front, Sent, Open, IntegerPlaced, LsuPlaced, Placed
<1>7. FrontInv'
  BY <1>0, <1>4, <1>5, <1>6 DEF FrontInv, Shaped, Behind
<1>8. LineInv'
  BY <1>4, <1>5, <1>6 DEF LineInv, Line, Behind
<1>9. CompleteInv' /\ WaitInv' /\ FenceInv' /\ CsrInv'
  BY <1>4, <1>6 DEF CompleteInv, WaitInv, FenceInv, CsrInv
<1>10. QED
  BY <1>2, <1>7, <1>8, <1>9 DEF IInv, PlaceInv

\* A cycle without a flush: the pack of rename goes to its port.
LEMMA SyncNoneInv ==
  ASSUME IInv, Sync, flush = "none"
  PROVE  IInv'
<1> USE DEF hold_vars, queue_vars
<1>0. /\ TypeInv /\ RingInv /\ PhaseInv /\ PlaceInv /\ phase = "rename"
      /\ rename_dispatch_port' = (IF stall THEN rename_dispatch_port ELSE send_pack)
      /\ send_pack' = <<>>
      /\ rob_w' = rob_w /\ rob_r' = rob_r /\ UNCHANGED <<rob, hold_vars, queue_vars>>
  BY DEF IInv, Sync
<1>1. /\ rob_w' \in Pos /\ rob_r' \in Pos /\ RingCount(rob_w', rob_r', ROB_SIZE) <= ROB_SIZE
      /\ RobLive = Span(rob_r, rob_w) /\ RobLive \subseteq Live0
  BY <1>0, LiveSpan DEF TypeInv
<1>2. /\ TypeInv' /\ RingInv' /\ RoomInv' /\ PhaseInv' /\ ClearedInv'
      /\ Live0' = RobLive' /\ RobLive' = Span(rob_r', rob_w') /\ Kept' = Pos
      /\ LiveInteger' = integer_port /\ LiveLsu' = lsu_port
      /\ LiveFront' = rename_dispatch_port'
      /\ BruInv' /\ CommittedInv'
  BY <1>1, SyncFrame
<1>3. RobLive' = RobLive
  BY <1>0, <1>1, <1>2
<1>4. /\ \A p : /\ Kind(p)' = Kind(p) /\ Item(p)' = Item(p) /\ IsLsu(p)' = IsLsu(p)
                /\ IsFence(p)' = IsFence(p) /\ IsInteger(p)' = IsInteger(p)
      /\ Open' = Open
  BY <1>0, <1>3 DEF Kind, Item, IsLsu, IsFence, IsInteger, Open
<1>5. LiveInteger' = LiveInteger /\ LiveLsu' = LiveLsu /\ Kept = Pos
  BY <1>0, <1>2 DEF LiveInteger, LiveLsu, LivePort, Kept
<1>6. /\ stall => LiveFront' = LiveFront /\ send_pack = <<>>
      /\ ~stall => LiveFront' = send_pack /\ LiveFront = <<>>
  BY <1>0, <1>2 DEF LiveFront, PhaseInv
<1>7. Elements(<<>>) = {}
  BY EmptyPack
<1>8. Front' = Front
  <2>1. Front' = Elements(rev_pack) \cup Elements(LiveFront')
    BY <1>0, <1>7 DEF Front
  <2>2. QED
    BY <1>6, <1>7, <2>1 DEF Front
<1>9. Sent' = Sent
  BY <1>3, <1>8 DEF Sent
<1>10. FrontInv'
  <2>0. FrontInv
    BY <1>0 DEF PlaceInv
  <2>1. Shaped(rev_pack)' /\ Shaped(send_pack)'
    BY <1>0, <1>4, <2>0 DEF FrontInv, Shaped
  <2>2. Shaped(LiveFront)'
    BY <1>4, <1>6, <2>0 DEF FrontInv, Shaped
  <2>3. Behind(Elements(LiveFront'), Elements(rev_pack'))
    BY <1>0, <1>6, <2>0 DEF FrontInv
  <2>4. DOMAIN send_pack' = {} /\ Elements(send_pack') = {}
    BY <1>0, <1>7
  <2>5. QED
    BY <1>4, <1>8, <1>9, <2>0, <2>1, <2>2, <2>3, <2>4 DEF FrontInv, Behind
<1>11. IntegerPlaced' = IntegerPlaced /\ LsuPlaced' = LsuPlaced
  BY <1>0, <1>5 DEF IntegerPlaced, LsuPlaced
<1>12. LineInv'
  BY <1>0, <1>4, <1>5, <1>9, <1>11 DEF PlaceInv, LineInv
<1>13. CompleteInv'
  BY <1>0, <1>2, <1>4, <1>5, <1>8, <1>11 DEF PlaceInv, CompleteInv
<1>14. WaitInv'
  <2> SUFFICES ASSUME inst_waiting # NoPos PROVE WaitInv'
    BY <1>0 DEF WaitInv
  <2>1. PICK i : i = inst_waiting
    OBVIOUS
  <2>2. /\ i \in RobLive \ Front /\ Kind(i) \in {"csr", "fence"} /\ i \in Kept
    BY <1>0, <2>1 DEF PlaceInv, WaitInv
  <2>3. /\ i \in Live0' \ Front' /\ Kind(i)' \in {"csr", "fence"} /\ i \in RobLive' \cap Kept'
    BY <1>2, <1>3, <1>4, <1>5, <1>8, <2>2
  <2>4. inst_waiting' = i
    BY <1>0, <2>1
  <2>5. QED
    BY <2>3, <2>4 DEF WaitInv, Kind, Item
<1>15. FenceInv'
  <2>1. \A f : WaitedFor(f) => WaitedFor(f)'
    BY <1>0, <1>3, <1>4, <1>9 DEF WaitedFor
  <2>2. \A f : Uncovered(f) => Uncovered(f)'
    BY <1>4, <1>9 DEF Uncovered, BranchBehind
  <2>3. QED
    BY <1>0, <1>2, <1>4, <1>5, <1>9, <2>1, <2>2 DEF PlaceInv, FenceInv
<1>16. CsrInv'
  BY <1>0, <1>2, <1>4, <1>5, <1>9 DEF PlaceInv, CsrInv
<1>17. QED
  BY <1>2, <1>10, <1>12, <1>13, <1>14, <1>15, <1>16 DEF IInv, PlaceInv

\* A misprediction: what is younger than the branch leaves the reorder buffer, and
\* no pack holds any of it.
LEMMA SyncBruInv ==
  ASSUME IInv, Sync, flush = "bru"
  PROVE  IInv'
<1> USE DEF hold_vars, queue_vars
<1>0. /\ TypeInv /\ RingInv /\ PhaseInv /\ PlaceInv /\ phase = "rename"
      /\ rename_dispatch_port' = <<>> /\ send_pack' = <<>>
      /\ rob_r' = rob_r /\ UNCHANGED <<rob, hold_vars, queue_vars>>
  BY DEF IInv, Sync
<1>1. rob_w' = RingNext(flush_pos, ROB_SIZE)
  BY DEF Sync
<1>2. /\ flush_pos \in Sent /\ Kind(flush_pos) = "bru" /\ Item(flush_pos).finish
      /\ integer_queue \subseteq Kept /\ lsu_queue \subseteq Kept
      /\ Elements(integer_rev) \subseteq Kept /\ Elements(lsu_rev) \subseteq Kept
      /\ integer_port = <<>> /\ hold_integer = <<>>
      /\ Elements(lsu_port) \subseteq Kept /\ Elements(hold_lsu) \subseteq Kept
      /\ rev_pack = <<>>
  BY <1>0 DEF PlaceInv, BruInv
<1>3. /\ rob_w \in Pos /\ rob_r \in Pos /\ flush_pos \in Pos
      /\ RobLive = Span(rob_r, rob_w) /\ RobLive \subseteq Live0 /\ RobLive \subseteq Pos
      /\ RingCount(rob_w, rob_r, ROB_SIZE) <= ROB_SIZE
  BY <1>0, LiveSpan DEF TypeInv
<1>4. Sent \subseteq RobLive
  BY DEF Sent
<1>5. /\ Span(rob_r, rob_w') = {p \in RobLive : ~Younger(p, flush_pos)}
      /\ RingCount(rob_w', rob_r, ROB_SIZE) <= RingCount(rob_w, rob_r, ROB_SIZE)
      /\ rob_w' \in Pos
  BY <1>1, <1>2, <1>3, <1>4, SpanCut, PosFacts
<1>6. /\ rob_w' \in Pos /\ rob_r' \in Pos /\ RingCount(rob_w', rob_r', ROB_SIZE) <= ROB_SIZE
  <2>1. \A r, w \in Pos : RingCount(w, r, ROB_SIZE) \in Int
    BY ConstAssumption DEF RingCount, Pos, Positions
  <2>2. /\ RingCount(rob_w', rob_r, ROB_SIZE) \in Int /\ RingCount(rob_w, rob_r, ROB_SIZE) \in Int
    BY <1>3, <1>5, <2>1
  <2>3. QED
    BY <1>0, <1>3, <1>5, <2>2, ConstAssumption
<1>7. /\ TypeInv' /\ RingInv' /\ RoomInv' /\ PhaseInv' /\ ClearedInv'
      /\ Live0' = RobLive' /\ RobLive' = Span(rob_r', rob_w') /\ Kept' = Pos
      /\ LiveInteger' = integer_port /\ LiveLsu' = lsu_port
      /\ LiveFront' = rename_dispatch_port'
      /\ BruInv' /\ CommittedInv'
  BY <1>6, SyncFrame
<1>8. RobLive' = RobLive \cap Kept
  BY <1>0, <1>3, <1>5, <1>7 DEF Kept
<1>9. /\ \A p : /\ Kind(p)' = Kind(p) /\ Item(p)' = Item(p) /\ IsLsu(p)' = IsLsu(p)
                /\ IsFence(p)' = IsFence(p) /\ IsInteger(p)' = IsInteger(p)
      /\ Open' = Open \cap Kept
  BY <1>0, <1>8 DEF Kind, Item, IsLsu, IsFence, IsInteger, Open
<1>10. Front \cap Kept = {}
  BY <1>0, <1>2 DEF PlaceInv, FrontInv, Behind, Kept
<1>11. Elements(<<>>) = {}
  BY EmptyPack
<1>12. Front' = {} /\ Sent' = RobLive' /\ Sent' = Sent \cap Kept
  <2>1. Front' = {}
    BY <1>0, <1>2, <1>7, <1>11 DEF Front
  <2>2. QED
    BY <1>8, <1>10, <2>1 DEF Sent
<1>13. FrontInv'
  <2>1. rev_pack' = <<>> /\ LiveFront' = <<>> /\ send_pack' = <<>>
    BY <1>0, <1>2, <1>7
  <2>2. QED
    BY <1>11, <1>12, <2>1 DEF FrontInv, Shaped, Behind
<1>14. LiveInteger' = LiveInteger /\ LiveLsu' = LiveLsu
  BY <1>0, <1>7 DEF LiveInteger, LiveLsu, LivePort
<1>15. /\ IntegerPlaced' = IntegerPlaced /\ LsuPlaced' = LsuPlaced
       /\ IntegerPlaced \subseteq Kept /\ LsuPlaced \subseteq Kept
  <2>1. LiveInteger = integer_port /\ LiveLsu = lsu_port
    BY <1>7, <1>14
  <2>2. QED
    BY <1>0, <1>2, <1>11, <1>14, <2>1 DEF IntegerPlaced, LsuPlaced, Placed
<1>16. LineInv'
  <2>0. LineInv
    BY <1>0 DEF PlaceInv
  <2>1. /\ Line(integer_queue, integer_rev, LiveInteger, hold_integer)'
        /\ Line(lsu_queue, lsu_rev, LiveLsu, hold_lsu)'
    BY <1>0, <1>14, <2>0 DEF LineInv
  <2>2. QED
    BY <1>9, <1>12, <1>15, <2>0, <2>1 DEF LineInv
<1>17. CompleteInv'
  BY <1>0, <1>9, <1>10, <1>15 DEF PlaceInv, CompleteInv
<1>18. inst_waiting # NoPos => inst_waiting \in RobLive \cap Kept
  BY <1>0 DEF PlaceInv, WaitInv
<1>19. WaitInv'
  <2> SUFFICES ASSUME inst_waiting # NoPos PROVE WaitInv'
    BY <1>0 DEF WaitInv
  <2>1. PICK i : i = inst_waiting
    OBVIOUS
  <2>2. Kind(i) \in {"csr", "fence"} /\ i \in RobLive \cap Kept
    BY <1>0, <1>18, <2>1 DEF PlaceInv, WaitInv
  <2>3. /\ i \in Live0' \ Front' /\ Kind(i)' \in {"csr", "fence"} /\ i \in RobLive' \cap Kept'
    BY <1>3, <1>7, <1>8, <1>9, <1>12, <2>2
  <2>4. inst_waiting' = i
    BY <1>0, <2>1
  <2>5. QED
    BY <2>3, <2>4 DEF WaitInv, Kind, Item
<1>20. FenceInv'
  <2> SUFFICES ASSUME NEW f \in Sent \cap Kept, IsFence(f)
               PROVE  WaitedFor(f)' \/ Uncovered(f)'
    BY <1>9, <1>12 DEF FenceInv
  <2>1. f \in RobLive /\ flush_pos \in RobLive
    BY <1>2, <1>4
  <2>2. CASE WaitedFor(f)
    <3>1. inst_waiting \in RobLive
      BY <2>2 DEF WaitedFor
    <3>2. inst_waiting # NoPos
      BY <1>3, <3>1, PosFacts
    <3>3. inst_waiting' \in RobLive' /\ inst_waiting' = inst_waiting
      BY <1>0, <1>8, <1>18, <3>2
    <3>4. QED
      BY <1>9, <1>12, <2>2, <3>3 DEF WaitedFor
  <2>3. CASE Uncovered(f)
    <3>1. PICK b \in Sent : /\ BranchBehind(f, b)
                            /\ \A p \in Sent : IsLsu(p) /\ Younger(p, f) => Younger(p, b)
      BY <2>3 DEF Uncovered
    <3>2. CASE b \in Kept
      <4>1. b \in Sent' /\ BranchBehind(f, b)'
        BY <1>9, <1>12, <3>1, <3>2 DEF BranchBehind
      <4>2. \A p \in Sent' : IsLsu(p)' /\ Younger(p, f) => Younger(p, b)
        BY <1>9, <1>12, <3>1
      <4>3. QED
        BY <4>1, <4>2 DEF Uncovered
    <3>3. CASE b \notin Kept
      <4>1. PICK c : c = flush_pos
        OBVIOUS
      <4>2. Younger(b, c) /\ b \in RobLive
        BY <1>3, <1>4, <3>1, <3>3, <4>1 DEF Kept
      <4>3. Younger(c, f)
        <5>1. f # c
          BY <1>2, <4>1 DEF IsFence
        <5>2. ~Younger(f, c)
          BY <4>1 DEF Kept
        <5>3. QED
          BY <1>0, <1>3, <2>1, <4>1, <5>1, <5>2, Order
      <4>4. RingCount(c, f, ROB_SIZE) + 2 <= DISPATCH_WIDTH
        <5>1. /\ RingCount(c, f, ROB_SIZE) < RingCount(b, f, ROB_SIZE)
              /\ RingCount(c, f, ROB_SIZE) \in Nat /\ RingCount(b, f, ROB_SIZE) \in Nat
          BY <1>0, <2>1, <4>1, <4>2, <4>3, Between
        <5>2. QED
          BY <3>1, <5>1, ConstAssumption DEF BranchBehind
      <4>5. Kind(c)' = "bru" /\ Item(c)'.finish
        BY <1>2, <1>9, <4>1
      <4>6. BranchBehind(f, c)'
        BY <4>3, <4>4, <4>5 DEF BranchBehind
      <4>7. c \in Sent'
        <5>1. c \in Kept
          BY <1>3, <4>1, NotYounger DEF Kept
        <5>2. QED
          BY <1>2, <1>12, <4>1, <5>1
      <4>8. \A p \in Sent' : IsLsu(p)' /\ Younger(p, f) => Younger(p, c)
        <5> SUFFICES ASSUME NEW p \in Sent', IsLsu(p)', Younger(p, f) PROVE Younger(p, c)
          OBVIOUS
        <5>1. p \in Sent /\ IsLsu(p)
          BY <1>9, <1>12
        <5>2. Younger(p, b) /\ p \in Live0 /\ b \in Live0 /\ c \in Live0
          BY <1>3, <1>4, <2>1, <3>1, <4>1, <5>1
        <5>3. QED
          BY <1>0, <4>2, <5>2, Order
      <4>9. QED
        BY <4>6, <4>7, <4>8 DEF Uncovered
    <3>4. QED
      BY <3>2, <3>3
  <2>4. QED
    BY <1>0, <2>2, <2>3 DEF PlaceInv, FenceInv
<1>21. CsrInv'
  BY <1>0, <1>9, <1>12 DEF PlaceInv, CsrInv
<1>22. QED
  BY <1>7, <1>13, <1>16, <1>17, <1>19, <1>20, <1>21 DEF IInv, PlaceInv

-----------------------------------------------------------------------------
(***************************************************************************)
(* The invariant.                                                          *)
(***************************************************************************)

\* It holds at reset.
LEMMA InitIInv ==
  ASSUME Init
  PROVE  IInv
<1>0. Init
  OBVIOUS
<1> USE DEF Init
<1>1. 0 \in Pos /\ <<>> \in Packs /\ Elements(<<>>) = {} /\ Sorted(<<>>) /\ Len(<<>>) = 0
      /\ Fits(<<>>)
  BY EmptyPack, ConstAssumption DEF Pos, Positions, Fits
<1>2. TypeInv
  BY <1>1, ConstAssumption DEF TypeInv, AllKinds
<1>3. RingCount(0, 0, ROB_SIZE) = 0
  BY ConstAssumption DEF RingCount
<1>4. RingInv /\ PhaseInv /\ ClearedInv
  BY <1>3, ConstAssumption DEF RingInv, PhaseInv, ClearedInv
<1>5. RoomInv
  BY <1>1, FS_EmptySet, ConstAssumption DEF RoomInv
<1>6. RobLive = {} /\ Live0 = {}
  <2>1. \A p \in Pos : ~(RingCount(p, 0, ROB_SIZE) < RingCount(0, 0, ROB_SIZE))
    BY ConstAssumption DEF Pos, Positions, RingCount
  <2>2. Span(0, 0) = {}
    BY <2>1 DEF Span
  <2>3. QED
    BY <1>0, <1>1, <1>2, <1>4, <2>2, Order DEF Live0
<1>7. LiveInteger = <<>> /\ LiveLsu = <<>> /\ LiveFront = <<>>
  BY DEF LiveInteger, LiveLsu, LiveFront, LivePort
<1>8. Front = {} /\ Sent = {} /\ Open = {} /\ IntegerPlaced = {} /\ LsuPlaced = {}
  BY <1>1, <1>6, <1>7 DEF Front, Sent, Open, IntegerPlaced, LsuPlaced, Placed
<1>9. FrontInv
  BY <1>1, <1>7, <1>8 DEF FrontInv, Shaped, Behind
<1>10. LineInv
  BY <1>1, <1>7, <1>8 DEF LineInv, Line, Behind
<1>11. /\ CompleteInv /\ WaitInv /\ FenceInv /\ CsrInv /\ BruInv /\ CommittedInv
  BY <1>6, <1>8 DEF CompleteInv, WaitInv, FenceInv, CsrInv, BruInv, CommittedInv
<1>12. QED
  BY <1>2, <1>4, <1>5, <1>9, <1>10, <1>11 DEF IInv, PlaceInv

\* Every step keeps it.
LEMMA NextIInv ==
  ASSUME IInv, [Next]_vars
  PROVE  IInv'
<1>1. CASE Execute
  BY <1>1, ExecuteInv
<1>2. CASE Commit
  BY <1>2, CommitPauseInv, CommitRetireInv, CommitFlushInv, CommitFinishInv DEF Commit
<1>3. CASE Issue
  BY <1>3, IssueFlush, IssueInv
<1>4. CASE DispatchRun
  BY <1>4, DispatchFlushInv, DispatchHeldInv, DispatchCsrInv, DispatchLaterInv,
     DispatchPackInv, DispatchWaitInv DEF DispatchRun
<1>5. CASE Rename
  <2>1. ASSUME NEW kind \in Kinds, RenameOne(kind) PROVE IInv'
    BY <2>1, RenameOneInv
  <2>2. ASSUME Sync PROVE IInv'
    <3>1. flush \in {"none", "bru", "commit"}
      BY DEF IInv, TypeInv
    <3>2. QED
      BY <2>2, <3>1, SyncNoneInv, SyncBruInv, SyncCommitInv
  <2>3. QED
    BY <1>5, <2>1, <2>2 DEF Rename
<1>6. CASE UNCHANGED vars
  <2> USE <1>6 DEF vars, rob_vars, commit_vars, dispatch_vars, hold_vars, issue_vars,
                   queue_vars, rename_vars
  <2>1. /\ RobLive' = RobLive /\ Live0' = Live0 /\ Kept' = Kept
        /\ LiveInteger' = LiveInteger /\ LiveLsu' = LiveLsu /\ LiveFront' = LiveFront
    BY DEF RobLive, RobCount, Live0, Kept, LiveInteger, LiveLsu, LiveFront, LivePort
  <2>2. /\ \A p : /\ Kind(p)' = Kind(p) /\ Item(p)' = Item(p) /\ IsLsu(p)' = IsLsu(p)
                  /\ IsFence(p)' = IsFence(p) /\ IsInteger(p)' = IsInteger(p)
        /\ Open' = Open
    BY <2>1 DEF Kind, Item, IsLsu, IsFence, IsInteger, Open
  <2>3. /\ Front' = Front /\ IntegerPlaced' = IntegerPlaced /\ LsuPlaced' = LsuPlaced
    BY <2>1 DEF Front, IntegerPlaced, LsuPlaced
  <2>4. Sent' = Sent
    BY <2>1, <2>3 DEF Sent
  <2>5. /\ TypeInv => TypeInv'
        /\ RingInv => RingInv'
        /\ RoomInv => RoomInv'
        /\ PhaseInv => PhaseInv'
        /\ ClearedInv => ClearedInv'
    BY DEF TypeInv, RingInv, RoomInv, PhaseInv, ClearedInv, Fits
  <2>6. FrontInv => FrontInv'
    BY <2>1, <2>2, <2>3, <2>4 DEF FrontInv, Shaped, Kind, Item
  <2>7. LineInv => LineInv'
    BY <2>1, <2>2, <2>3, <2>4 DEF LineInv
  <2>8. (CompleteInv => CompleteInv') /\ (CommittedInv => CommittedInv')
    BY <2>1, <2>2, <2>3 DEF CompleteInv, CommittedInv
  <2>9. BruInv => BruInv'
    BY <2>1, <2>4 DEF BruInv, Kind, Item
  <2>10. WaitInv => WaitInv'
    BY <2>1, <2>3 DEF WaitInv, Kind, Item
  <2>11. FenceInv => FenceInv'
    <3>1. \A f : WaitedFor(f)' = WaitedFor(f) /\ Uncovered(f)' = Uncovered(f)
      BY <2>1, <2>2, <2>4 DEF WaitedFor, Uncovered, BranchBehind
    <3>2. QED
      BY <2>1, <2>2, <2>4, <3>1 DEF FenceInv
  <2>12. CsrInv => CsrInv'
    BY <2>1, <2>2, <2>4 DEF CsrInv
  <2>13. QED
    BY <2>5, <2>6, <2>7, <2>8, <2>9, <2>10, <2>11, <2>12 DEF IInv, PlaceInv
<1>7. QED
  BY <1>1, <1>2, <1>3, <1>4, <1>5, <1>6 DEF Next

\* The invariant holds in every reachable state of dispatch.
THEOREM Invariance == Spec => []IInv
<1>1. Init => IInv
  BY InitIInv
<1>2. IInv /\ [Next]_vars => IInv'
  BY NextIInv
<1>3. QED
  BY <1>1, <1>2, PTL DEF Spec


-----------------------------------------------------------------------------
(***************************************************************************)
(* The properties, between cycles.                                         *)
(***************************************************************************)

\* Packs that are sorted and have nothing in common hold p once or not at all.
Apart(packs, n) ==
    /\ DOMAIN packs = 1..n
    /\ \A k \in 1..n : packs[k] \in Packs /\ Sorted(packs[k]) /\ Fits(packs[k])
    /\ \A k, l \in 1..n : k # l => Elements(packs[k]) \cap Elements(packs[l]) = {}
LEMMA CopiesOf ==
  ASSUME NEW n \in Nat, NEW packs, Apart(packs, n), NEW p \in Pos
  PROVE  /\ (\E k \in 1..n : p \in Elements(packs[k])) => Copies(packs, p) = 1
         /\ (\A k \in 1..n : p \notin Elements(packs[k])) => Copies(packs, p) = 0
<1> DEFINE At(x) == x[2] \in DOMAIN packs[x[1]] /\ packs[x[1]][x[2]] = p
           C == {x \in (1..n) \X (1..DISPATCH_WIDTH) : At(x)}
<1>1. Copies(packs, p) = Cardinality(C)
  BY DEF Copies, Apart
<1>2. ASSUME \A k \in 1..n : p \notin Elements(packs[k])
      PROVE  Copies(packs, p) = 0
  <2>1. C = {}
    BY <1>2 DEF Elements
  <2>2. QED
    BY <1>1, <2>1, FS_EmptySet
<1>3. ASSUME NEW k \in 1..n, p \in Elements(packs[k])
      PROVE  Copies(packs, p) = 1
  <2>1. PICK i \in DOMAIN packs[k] : packs[k][i] = p
    BY <1>3 DEF Elements
  <2>2. i \in 1..DISPATCH_WIDTH
    BY <2>1, ConstAssumption DEF Apart, Packs, Fits
  <2>3. <<k, i>> \in C
    BY <2>1, <2>2
  <2>4. ASSUME NEW l \in 1..n, NEW j \in DOMAIN packs[l], packs[l][j] = p
        PROVE  l = k /\ j = i
    <3>1. l = k
      <4>1. p \in Elements(packs[l])
        BY <2>4 DEF Elements
      <4>2. QED
        BY <1>3, <4>1 DEF Apart
    <3>2. Sorted(packs[k]) /\ packs[k] \in Packs
      BY DEF Apart
    <3>3. i \in Int /\ j \in Int
      BY <3>1, <3>2, <2>4 DEF Packs
    <3>4. ~Younger(p, p)
      BY NotYounger
    <3>5. ~(i < j) /\ ~(j < i)
      BY <2>1, <2>4, <3>1, <3>2, <3>4, Zenon DEF Sorted
    <3>6. QED
      BY <3>1, <3>3, <3>5
  <2>5. C = {<<k, i>>}
    <3>1. ASSUME NEW x \in C PROVE x = <<k, i>>
      <4>1. x = <<x[1], x[2]>> /\ x[1] \in 1..n
        OBVIOUS
      <4>2. x[2] \in DOMAIN packs[x[1]] /\ packs[x[1]][x[2]] = p
        OBVIOUS
      <4> HIDE DEF C
      <4>3. x[1] = k /\ x[2] = i
        BY <2>4, <4>1, <4>2
      <4>4. QED
        BY <4>1, <4>3
    <3> HIDE DEF C
    <3>2. QED
      BY <2>3, <3>1
  <2>6. Cardinality({<<k, i>>}) = 1
    BY FS_Singleton
  <2>7. QED
    BY <1>1, <2>5, <2>6
<1>4. QED
  BY <1>2, <1>3

\* Two sorted packs, one behind the other.
LEMMA Join ==
  ASSUME NEW s \in Packs, NEW t \in Packs, Sorted(s), Sorted(t),
         Behind(Elements(t), Elements(s))
  PROVE  /\ s \o t \in Packs /\ Sorted(s \o t)
         /\ Elements(s \o t) = Elements(s) \cup Elements(t)
<1> DEFINE m == Len(s)
           n == Len(t)
           u == s \o t
<1>1. /\ m \in Nat /\ n \in Nat /\ DOMAIN s = 1..m /\ DOMAIN t = 1..n
      /\ u \in Packs /\ DOMAIN u = 1..(m + n)
      /\ \A i \in 1..m : u[i] = s[i]
      /\ \A i \in (m + 1)..(m + n) : u[i] = t[i - m]
  BY DEF Packs
<1> HIDE DEF m, n, u
<1>2. \A i \in 1..(m + n) : i \in 1..m \/ (i \in (m + 1)..(m + n) /\ i - m \in 1..n /\ i > m)
  BY <1>1
<1>3. \A i \in 1..n : i + m \in (m + 1)..(m + n) /\ i + m \in 1..(m + n) /\ (i + m) - m = i
  BY <1>1
<1>4. \A i \in 1..m : i \in 1..(m + n)
  BY <1>1
<1>5. Elements(u) = Elements(s) \cup Elements(t)
  <2>1. \A i \in DOMAIN u : u[i] \in Elements(s) \cup Elements(t)
    BY <1>1, <1>2 DEF Elements
  <2>2. \A i \in DOMAIN s : s[i] \in Elements(u)
    BY <1>1, <1>4 DEF Elements
  <2>3. \A i \in DOMAIN t : t[i] \in Elements(u)
    BY <1>1, <1>3 DEF Elements
  <2>4. QED
    BY <2>1, <2>2, <2>3 DEF Elements
<1>6. Sorted(u)
  <2> SUFFICES ASSUME NEW i \in 1..(m + n), NEW j \in 1..(m + n), i < j
               PROVE  Younger(u[j], u[i])
    BY <1>1 DEF Sorted
  <2>1. CASE j \in 1..m
    <3>1. i \in 1..m
      BY <1>1, <2>1
    <3>2. u[i] = s[i] /\ u[j] = s[j] /\ Younger(s[j], s[i])
      BY <1>1, <2>1, <3>1 DEF Sorted
    <3>3. QED
      BY <3>2
  <2>2. CASE i \in 1..m /\ j \in (m + 1)..(m + n)
    <3>1. u[i] = s[i] /\ u[j] = t[j - m] /\ j - m \in DOMAIN t /\ i \in DOMAIN s
      BY <1>1, <2>2
    <3>2. Younger(t[j - m], s[i])
      BY <3>1 DEF Behind, Elements
    <3>3. QED
      BY <3>1, <3>2
  <2>3. CASE i \in (m + 1)..(m + n) /\ j \in (m + 1)..(m + n)
    <3>1. u[i] = t[i - m] /\ u[j] = t[j - m] /\ i - m \in DOMAIN t /\ j - m \in DOMAIN t
          /\ i - m < j - m
      BY <1>1, <2>3
    <3>2. Younger(t[j - m], t[i - m])
      BY <3>1 DEF Sorted
    <3>3. QED
      BY <3>1, <3>2
  <2>4. QED
    BY <1>1, <2>1, <2>2, <2>3
<1>7. QED
  BY <1>1, <1>5, <1>6 DEF u

\* Between cycles nothing is left out: every port holds what it shows.
LEMMA Settled ==
  ASSUME IInv, phase = "execute"
  PROVE  /\ TypeInv /\ RingInv /\ RoomInv /\ PlaceInv
         /\ Kept = Pos /\ Elements(send_pack) = {}
         /\ LiveFront = rename_dispatch_port
         /\ LiveInteger = integer_port /\ LiveLsu = lsu_port
         /\ Front = Elements(rev_pack) \cup Elements(rename_dispatch_port)
<1>1. flush = "none" /\ send_pack = <<>>
  BY DEF IInv, PhaseInv
<1>2. TypeInv /\ RingInv /\ RoomInv /\ PlaceInv
  BY <1>1 DEF IInv
<1>3. Kept = Pos
  BY <1>1 DEF Kept
<1>4. LiveFront = rename_dispatch_port /\ LiveInteger = integer_port /\ LiveLsu = lsu_port
  BY DEF LiveFront, LiveInteger, LiveLsu, LivePort
<1>5. Elements(send_pack) = {}
  BY <1>1, EmptyPack
<1>6. QED
  BY <1>2, <1>3, <1>4, <1>5 DEF Front

\* A pack of rename is sorted.
LEMMA ShapedSorted ==
  ASSUME NEW s, Shaped(s)
  PROVE  Sorted(s)
BY DEF Shaped, Sorted

\* What lies behind a set of positions has nothing in common with it.
LEMMA BehindApart ==
  ASSUME NEW A \in SUBSET Pos, NEW B, Behind(B, A)
  PROVE  A \cap B = {}
BY NotYounger DEF Behind

\* What has been dispatched is what dispatch has sent.
LEMMA DispatchedSent ==
  ASSUME IInv, phase = "execute"
  PROVE  \A p \in RobLive : Dispatched(p) <=> p \in Sent
<1>1. /\ TypeInv /\ RingInv /\ RoomInv /\ PlaceInv
      /\ LiveFront = rename_dispatch_port
      /\ Front = Elements(rev_pack) \cup Elements(rename_dispatch_port)
  BY Settled
<1>2. rename_dispatch_port \in Packs /\ rev_pack \in Packs
  BY <1>1 DEF TypeInv
<1>3. Sorted(rename_dispatch_port) /\ Sorted(rev_pack)
  BY <1>1, ShapedSorted DEF PlaceInv, FrontInv
<1>4. Elements(rev_pack) \cap Elements(rename_dispatch_port) = {}
  BY <1>1, <1>2, EmptyPack, BehindApart DEF PlaceInv, FrontInv
<1> DEFINE packs == <<rename_dispatch_port, rev_pack>>
<1>5. DOMAIN packs = 1..2 /\ packs[1] = rename_dispatch_port /\ packs[2] = rev_pack
  OBVIOUS
<1>6. packs = BeforeDispatch
  BY DEF BeforeDispatch
<1> HIDE DEF packs
<1>7. \A k \in 1..2 : k = 1 \/ k = 2
  OBVIOUS
<1>8. Apart(packs, 2)
  BY <1>1, <1>2, <1>3, <1>4, <1>5, <1>7 DEF Apart, RoomInv
<1>9. RobLive \subseteq Pos
  BY <1>1, Order
<1>10. ASSUME NEW p \in RobLive
       PROVE  /\ p \in Front => Copies(BeforeDispatch, p) = 1
              /\ p \notin Front => Copies(BeforeDispatch, p) = 0
  <2>1. p \in Pos
    BY <1>9
  <2>2. p \in Front <=> \E k \in 1..2 : p \in Elements(packs[k])
    BY <1>1, <1>5, <1>7
  <2>3. QED
    BY <1>6, <1>8, <2>1, <2>2, CopiesOf
<1>11. QED
  BY <1>10 DEF Dispatched, Sent


\* All packs between rename and the issue queues.
AllPacks == <<rename_dispatch_port, rev_pack, hold_integer, integer_port, integer_rev,
              hold_lsu, lsu_port, lsu_rev>>

\* Between cycles they are sorted and have nothing in common.
LEMMA AllApart ==
  ASSUME IInv, phase = "execute"
  PROVE  Apart(AllPacks, 8)
<1>1. /\ TypeInv /\ RoomInv /\ PlaceInv
      /\ LiveFront = rename_dispatch_port
      /\ LiveInteger = integer_port /\ LiveLsu = lsu_port
      /\ Front = Elements(rev_pack) \cup Elements(rename_dispatch_port)
  BY Settled
<1> DEFINE s == AllPacks
<1>2. /\ DOMAIN s = 1..8
      /\ s[1] = rename_dispatch_port /\ s[2] = rev_pack
      /\ s[3] = hold_integer /\ s[4] = integer_port /\ s[5] = integer_rev
      /\ s[6] = hold_lsu /\ s[7] = lsu_port /\ s[8] = lsu_rev
  BY DEF AllPacks
<1> HIDE DEF s
<1>3. \A k \in 1..8 : k = 1 \/ k = 2 \/ k = 3 \/ k = 4 \/ k = 5 \/ k = 6 \/ k = 7 \/ k = 8
  OBVIOUS
<1>4. \A k \in 1..8 : s[k] \in Packs
  BY <1>1, <1>2, <1>3 DEF TypeInv
<1>5. \A k \in 1..8 : Sorted(s[k])
  <2>1. Sorted(rename_dispatch_port) /\ Sorted(rev_pack)
    BY <1>1, ShapedSorted DEF PlaceInv, FrontInv
  <2>2. /\ Sorted(hold_integer) /\ Sorted(integer_port) /\ Sorted(integer_rev)
        /\ Sorted(hold_lsu) /\ Sorted(lsu_port) /\ Sorted(lsu_rev)
    BY <1>1 DEF PlaceInv, LineInv, Line
  <2>3. QED
    BY <1>2, <1>3, <2>1, <2>2
<1>6. \A k \in 1..8 : Fits(s[k])
  BY <1>1, <1>2, <1>3 DEF RoomInv
<1> DEFINE E(k) == Elements(s[k])
<1>7. \A k \in 1..8 : E(k) \in SUBSET Pos
  BY <1>4, EmptyPack
<1>8. E(1) \cap E(2) = {}
  BY <1>1, <1>2, <1>7, BehindApart DEF PlaceInv, FrontInv
<1>9. E(3) \cap E(4) = {} /\ E(3) \cap E(5) = {} /\ E(4) \cap E(5) = {}
  BY <1>1, <1>2, <1>7, BehindApart DEF PlaceInv, LineInv, Line
<1>10. E(6) \cap E(7) = {} /\ E(6) \cap E(8) = {} /\ E(7) \cap E(8) = {}
  BY <1>1, <1>2, <1>7, BehindApart DEF PlaceInv, LineInv, Line
<1>11. /\ E(1) \cup E(2) = Front
       /\ E(3) \cup E(4) \cup E(5) \subseteq IntegerPlaced
       /\ E(6) \cup E(7) \cup E(8) \subseteq LsuPlaced
  BY <1>1, <1>2 DEF IntegerPlaced, LsuPlaced, Placed
<1>12. /\ Front \cap IntegerPlaced = {} /\ Front \cap LsuPlaced = {}
       /\ IntegerPlaced \cap LsuPlaced = {}
  BY <1>1 DEF PlaceInv, LineInv, Sent, IsInteger
<1> HIDE DEF E
<1>13. \A k, l \in 1..8 : k # l => E(k) \cap E(l) = {}
  <2>1. ASSUME NEW k \in 1..8, NEW l \in 1..8, k # l, NEW x \in E(k), x \in E(l)
        PROVE  FALSE
    <3>1. /\ k \in {1, 2} => x \in Front
          /\ k \in {3, 4, 5} => x \in IntegerPlaced
          /\ k \in {6, 7, 8} => x \in LsuPlaced
      BY <1>11, <2>1
    <3>2. /\ l \in {1, 2} => x \in Front
          /\ l \in {3, 4, 5} => x \in IntegerPlaced
          /\ l \in {6, 7, 8} => x \in LsuPlaced
      BY <1>11, <2>1
    <3>3. \/ k \in {1, 2} /\ l \in {1, 2}
          \/ k \in {3, 4, 5} /\ l \in {3, 4, 5}
          \/ k \in {6, 7, 8} /\ l \in {6, 7, 8}
      BY <1>12, <3>1, <3>2
    <3>4. QED
      BY <1>8, <1>9, <1>10, <2>1, <3>3
  <2>2. QED
    BY <2>1
<1>14. QED
  BY <1>2, <1>4, <1>5, <1>6, <1>13 DEF Apart, E, s

\* Between cycles every instruction that has not executed is in one place, and no
\* place holds anything else: no stall, wait or recovery loses a pack, sends it
\* twice or leaves it behind.
THEOREM PlacedCorrect == Spec => []PlacedOnce
<1>1. IInv => PlacedOnce
  <2> SUFFICES ASSUME IInv, phase = "execute", NEW p \in Pos
               PROVE  Copies(BeforeDispatch \o IntegerPath \o LsuPath, p)
                        + (IF p \in Queued THEN 1 ELSE 0)
                      = (IF p \in RobLive /\ ~Item(p).finish THEN 1 ELSE 0)
    BY DEF PlacedOnce
  <2>0. TypeInv
    BY Settled
  <2>1. /\ PlaceInv /\ Kept = Pos
        /\ LiveInteger = integer_port /\ LiveLsu = lsu_port
        /\ Front = Elements(rev_pack) \cup Elements(rename_dispatch_port)
    BY Settled
  <2>2. BeforeDispatch \o IntegerPath \o LsuPath = AllPacks
    <3> DEFINE b == BeforeDispatch
               i == IntegerPath
               l == LsuPath
    <3>1. b \in Seq(Packs) /\ i \in Seq(Packs) /\ l \in Seq(Packs) /\ AllPacks \in Seq(Packs)
      BY <2>0 DEF BeforeDispatch, IntegerPath, LsuPath, AllPacks, TypeInv
    <3>2. /\ Len(b) = 2 /\ b[1] = rename_dispatch_port /\ b[2] = rev_pack
          /\ Len(i) = 3 /\ i[1] = hold_integer /\ i[2] = integer_port /\ i[3] = integer_rev
          /\ Len(l) = 3 /\ l[1] = hold_lsu /\ l[2] = lsu_port /\ l[3] = lsu_rev
      BY DEF BeforeDispatch, IntegerPath, LsuPath
    <3>3. /\ Len(AllPacks) = 8
          /\ AllPacks[1] = rename_dispatch_port /\ AllPacks[2] = rev_pack
          /\ AllPacks[3] = hold_integer /\ AllPacks[4] = integer_port
          /\ AllPacks[5] = integer_rev
          /\ AllPacks[6] = hold_lsu /\ AllPacks[7] = lsu_port /\ AllPacks[8] = lsu_rev
      BY DEF AllPacks
    <3> HIDE DEF b, i, l
    <3> DEFINE u == b \o i
               v == u \o l
    <3>4. /\ u \in Seq(Packs) /\ Len(u) = 5 /\ u[1] = b[1] /\ u[2] = b[2]
          /\ u[3] = i[1] /\ u[4] = i[2] /\ u[5] = i[3]
      <4>1. /\ u \in Seq(Packs) /\ Len(u) = Len(b) + Len(i)
            /\ \A k \in 1..(Len(b) + Len(i)) :
                  u[k] = IF k <= Len(b) THEN b[k] ELSE i[k - Len(b)]
        BY <3>1, ConcatProperties
      <4> HIDE DEF u
      <4>2. QED
        BY <3>2, <4>1
    <3> HIDE DEF u
    <3>5. /\ v \in Seq(Packs) /\ Len(v) = 8 /\ v[1] = u[1] /\ v[2] = u[2]
          /\ v[3] = u[3] /\ v[4] = u[4] /\ v[5] = u[5]
          /\ v[6] = l[1] /\ v[7] = l[2] /\ v[8] = l[3]
      <4>1. /\ v \in Seq(Packs) /\ Len(v) = Len(u) + Len(l)
            /\ \A k \in 1..(Len(u) + Len(l)) :
                  v[k] = IF k <= Len(u) THEN u[k] ELSE l[k - Len(u)]
        BY <3>1, <3>4, ConcatProperties
      <4> HIDE DEF v
      <4>2. QED
        BY <3>2, <3>4, <4>1
    <3> HIDE DEF v
    <3>6. \A k \in 1..8 : k = 1 \/ k = 2 \/ k = 3 \/ k = 4 \/ k = 5 \/ k = 6 \/ k = 7 \/ k = 8
      OBVIOUS
    <3>7. \A k \in 1..8 : v[k] = AllPacks[k]
      BY <3>2, <3>3, <3>4, <3>5, <3>6
    <3>8. v = AllPacks
      BY <3>1, <3>3, <3>5, <3>7, SeqEqual
    <3>9. QED
      BY <3>8 DEF v, u, b, i, l
  <2>3. Apart(AllPacks, 8)
    BY AllApart
  <2> DEFINE c == Copies(AllPacks, p)
             Held8 == \E k \in 1..8 : p \in Elements(AllPacks[k])
  <2>4. (Held8 => c = 1) /\ (~Held8 => c = 0)
    BY <2>3, CopiesOf
  <2>5. Held8 <=> \/ p \in Front
                  \/ p \in Elements(integer_rev) \cup Elements(integer_port)
                             \cup Elements(hold_integer)
                  \/ p \in Elements(lsu_rev) \cup Elements(lsu_port) \cup Elements(hold_lsu)
    <3> DEFINE s == AllPacks
    <3>1. /\ s[1] = rename_dispatch_port /\ s[2] = rev_pack
          /\ s[3] = hold_integer /\ s[4] = integer_port /\ s[5] = integer_rev
          /\ s[6] = hold_lsu /\ s[7] = lsu_port /\ s[8] = lsu_rev
      BY DEF AllPacks
    <3> HIDE DEF s
    <3>2. \A k \in 1..8 : k = 1 \/ k = 2 \/ k = 3 \/ k = 4 \/ k = 5 \/ k = 6 \/ k = 7
                          \/ k = 8
      OBVIOUS
    <3>3. 1 \in 1..8 /\ 2 \in 1..8 /\ 3 \in 1..8 /\ 4 \in 1..8 /\ 5 \in 1..8 /\ 6 \in 1..8
          /\ 7 \in 1..8 /\ 8 \in 1..8
      OBVIOUS
    <3>4. (\E k \in 1..8 : p \in Elements(s[k])) <=>
             \/ p \in Elements(s[1]) \/ p \in Elements(s[2]) \/ p \in Elements(s[3])
             \/ p \in Elements(s[4]) \/ p \in Elements(s[5]) \/ p \in Elements(s[6])
             \/ p \in Elements(s[7]) \/ p \in Elements(s[8])
      BY <3>2, <3>3
    <3>5. QED
      BY <2>1, <3>1, <3>4 DEF s
  <2> HIDE DEF Held8, c
  <2>6. Held8 \/ p \in Queued <=> p \in Front \/ p \in IntegerPlaced \/ p \in LsuPlaced
    BY <2>1, <2>5 DEF Queued, IntegerPlaced, LsuPlaced, Placed
  <2>7. p \in Open <=> p \in Front \/ p \in IntegerPlaced \/ p \in LsuPlaced
    BY <2>1 DEF PlaceInv, FrontInv, LineInv, CompleteInv
  <2>8. ~(Held8 /\ p \in Queued)
    <3>1. /\ integer_queue \subseteq IntegerPlaced /\ lsu_queue \subseteq LsuPlaced
          /\ Front \cap IntegerPlaced = {} /\ Front \cap LsuPlaced = {}
          /\ IntegerPlaced \cap LsuPlaced = {}
      BY <2>1 DEF PlaceInv, LineInv, Sent, IsInteger, IntegerPlaced, LsuPlaced, Placed
    <3>2. /\ Elements(integer_rev) \cup Elements(integer_port) \cup Elements(hold_integer)
               \subseteq IntegerPlaced
          /\ Elements(lsu_rev) \cup Elements(lsu_port) \cup Elements(hold_lsu)
               \subseteq LsuPlaced
      BY <2>1 DEF IntegerPlaced, LsuPlaced, Placed
    <3>3. ~Younger(p, p)
      BY NotYounger
    <3>4. ~(p \in integer_queue /\ p \in Elements(integer_rev) \cup Elements(integer_port)
                                            \cup Elements(hold_integer))
      BY <2>1, <3>3, Zenon DEF PlaceInv, LineInv, Line, Behind
    <3>5. ~(p \in lsu_queue /\ p \in Elements(lsu_rev) \cup Elements(lsu_port)
                                        \cup Elements(hold_lsu))
      BY <2>1, <3>3, Zenon DEF PlaceInv, LineInv, Line, Behind
    <3>6. QED
      BY <2>5, <3>1, <3>2, <3>4, <3>5 DEF Queued
  <2>9. p \in Open <=> p \in RobLive /\ ~Item(p).finish
    BY DEF Open
  <2> DEFINE q == p \in Queued
             o == p \in RobLive /\ ~Item(p).finish
  <2>10. (Held8 \/ q <=> o) /\ ~(Held8 /\ q)
    BY <2>6, <2>7, <2>8, <2>9
  <2> HIDE DEF q, o
  <2>11. c + (IF q THEN 1 ELSE 0) = (IF o THEN 1 ELSE 0)
    <3>1. CASE Held8
      <4>1. ~q /\ o /\ c = 1
        BY <2>4, <2>10, <3>1, Zenon
      <4>2. QED
        BY <4>1
    <3>2. CASE ~Held8 /\ q
      <4>1. q /\ o /\ c = 0
        BY <2>4, <2>10, <3>2, Zenon
      <4>2. QED
        BY <4>1
    <3>3. CASE ~Held8 /\ ~q
      <4>1. ~q /\ ~o /\ c = 0
        BY <2>4, <2>10, <3>3, Zenon
      <4>2. QED
        BY <4>1
    <3>4. QED
      BY <3>1, <3>2, <3>3
  <2>12. QED
    BY <2>2, <2>11 DEF q, o, c
<1>2. QED
  BY <1>1, Invariance, PTL

\* A line of packs, read from the issue queue backwards, is in program order.
LEMMA LineOrdered ==
  ASSUME NEW Q, NEW r \in Packs, NEW t \in Packs, NEW h \in Packs, Line(Q, r, t, h)
  PROVE  PathOrdered(<<h, t, r>>, Q)
<1>1. /\ r \o t \in Packs /\ Sorted(r \o t)
      /\ Elements(r \o t) = Elements(r) \cup Elements(t)
  BY Join DEF Line
<1>2. Behind(Elements(h), Elements(r \o t))
  BY <1>1 DEF Line, Behind
<1> DEFINE u == (r \o t) \o h
<1>3. /\ Sorted(u) /\ Elements(u) = Elements(r) \cup Elements(t) \cup Elements(h)
  BY <1>1, <1>2, Join DEF Line
<1>4. Behind(Elements(u), Q)
  BY <1>3 DEF Line, Behind
<1> HIDE DEF u
<1>5. \A i \in DOMAIN u : /\ \A j \in DOMAIN u : i < j => Younger(u[j], u[i])
                          /\ \A q \in Q : Younger(u[i], q)
  BY <1>3, <1>4 DEF Sorted, Behind, Elements
<1>6. QED
  BY <1>5 DEF PathOrdered, u

\* Program order is kept on each side, up to the issue queue; that is what lets
\* the recovery of a misprediction clear the integer side without comparing ages.
THEOREM OrderCorrect == Spec => []DispatchOrder
<1>1. IInv => DispatchOrder
  <2> SUFFICES ASSUME IInv, phase = "execute"
               PROVE  /\ PathOrdered(IntegerPath, integer_queue)
                      /\ PathOrdered(LsuPath, lsu_queue)
    BY DEF DispatchOrder
  <2>1. TypeInv /\ PlaceInv /\ LiveInteger = integer_port /\ LiveLsu = lsu_port
    BY Settled
  <2>2. /\ hold_integer \in Packs /\ integer_port \in Packs /\ integer_rev \in Packs
        /\ hold_lsu \in Packs /\ lsu_port \in Packs /\ lsu_rev \in Packs
    BY <2>1 DEF TypeInv
  <2>3. /\ Line(integer_queue, integer_rev, integer_port, hold_integer)
        /\ Line(lsu_queue, lsu_rev, lsu_port, hold_lsu)
    BY <2>1 DEF PlaceInv, LineInv
  <2>4. QED
    BY <2>2, <2>3, LineOrdered DEF IntegerPath, LsuPath
<1>2. QED
  BY <1>1, Invariance, PTL

\* No load or store passes a fence that has not retired, unless a misprediction
\* within the pack of the fence ended the wait of dispatch for a later fence.
THEOREM FenceCorrect == Spec => []FenceBarrier
<1>1. IInv => FenceBarrier
  <2> SUFFICES ASSUME IInv, phase = "execute", NEW f \in RobLive, NEW p \in RobLive,
                      IsFence(f), IsLsu(p), Younger(p, f), Dispatched(p)
               PROVE  \E b \in RobLive : BranchBehind(f, b) /\ Younger(p, b)
    BY DEF FenceBarrier
  <2>1. TypeInv /\ RingInv /\ PlaceInv /\ Kept = Pos
    BY Settled
  <2>2. /\ RobLive \subseteq Live0 /\ Live0 \subseteq Pos
        /\ \A x, y \in Live0 : ~(Younger(x, y) /\ Younger(y, x))
    BY <2>1, Order
  <2>3. p \in Sent
    BY DispatchedSent
  <2>4. f \in Sent
    <3>1. SUFFICES ASSUME f \in Front PROVE FALSE
      BY DEF Sent
    <3>2. Younger(f, p)
      BY <2>1, <2>3, <3>1 DEF PlaceInv, FrontInv, Behind
    <3>3. QED
      BY <2>2, <3>2
  <2>5. WaitedFor(f) \/ Uncovered(f)
    BY <2>1, <2>2, <2>4 DEF PlaceInv, FenceInv
  <2>6. ~WaitedFor(f)
    BY <2>3 DEF WaitedFor
  <2>7. PICK b \in Sent : /\ BranchBehind(f, b)
                          /\ \A x \in Sent : IsLsu(x) /\ Younger(x, f) => Younger(x, b)
    BY <2>5, <2>6 DEF Uncovered
  <2>8. b \in RobLive
    BY DEF Sent
  <2>9. QED
    BY <2>3, <2>7, <2>8
<1>2. QED
  BY <1>1, Invariance, PTL

\* A csr or mret leaves dispatch when all older instructions have executed, and
\* nothing younger leaves dispatch before it has retired.
THEOREM CsrCorrect == Spec => []CsrIsolated
<1>1. IInv => CsrIsolated
  <2> SUFFICES ASSUME IInv, phase = "execute", NEW c \in RobLive, NEW p \in RobLive,
                      Kind(c) = "csr", Dispatched(c), p # c
               PROVE  /\ Younger(p, c) => ~Dispatched(p)
                      /\ ~Younger(p, c) => Item(p).finish
    BY DEF CsrIsolated
  <2>1. TypeInv /\ RingInv /\ PlaceInv /\ Kept = Pos
    BY Settled
  <2>2. /\ RobLive \subseteq Live0 /\ Live0 \subseteq Pos
        /\ \A x, y \in Live0 : ~(Younger(x, y) /\ Younger(y, x))
    BY <2>1, Order
  <2>3. c \in Sent
    BY DispatchedSent
  <2>4. \A x \in Sent \ {c} : Younger(c, x) /\ Item(x).finish
    BY <2>1, <2>2, <2>3 DEF PlaceInv, CsrInv
  <2>5. CASE p \in Sent
    <3>1. Younger(c, p) /\ Item(p).finish
      BY <2>4, <2>5
    <3>2. ~Younger(p, c)
      BY <2>2, <3>1
    <3>3. QED
      BY <3>1, <3>2
  <2>6. CASE p \notin Sent
    <3>1. ~Dispatched(p)
      BY <2>6, DispatchedSent
    <3>2. p \in Front
      BY <2>6 DEF Sent
    <3>3. Younger(p, c)
      BY <2>1, <2>3, <3>2 DEF PlaceInv, FrontInv, Behind
    <3>4. QED
      BY <3>1, <3>3
  <2>7. QED
    BY <2>5, <2>6
<1>2. QED
  BY <1>1, Invariance, PTL
=============================================================================
