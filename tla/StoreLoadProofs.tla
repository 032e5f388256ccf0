-------------------------- MODULE StoreLoadProofs --------------------------
(***************************************************************************)
(* Theorems about StoreLoad, for every size, every set of accesses and any *)
(* number of loads: StaleLoadCaught and InOrderMemory.                     *)
(*                                                                         *)
(* A store marks only one of the loads that have read too early.  The mark *)
(* protects all younger ones as long as it is there; a marked load that is *)
(* sent to lu a second time loses it.  That this is the only way in which  *)
(* a stale value can retire is what the theorems say: they hold for every  *)
(* behaviour without a MarkLost.                                           *)
(***************************************************************************)
EXTENDS StoreLoad, Integers, SequenceTheorems, FiniteSetTheorems,
        WellFoundedInduction, TLAPS

\* A load with a value that counts.
HasRead(e) == IsLoad(e) /\ e.at \in {"l2", "done"} /\ ~e.found

\* lu::run is about to clear the mark of a load (write_conflict(..., false) of its
\* second read) on which a younger one that has read depends.
MarkLost ==
    /\ phase = "lu"
    /\ \E i \in LoadAt("lu") : /\ window[i].conflict
                               /\ \E k \in DOMAIN window : k > i /\ HasRead(window[k])

-----------------------------------------------------------------------------
(***************************************************************************)
(* The inductive invariant.                                                *)
(***************************************************************************)
AnyVal == {NoVal} \cup UNION {[acc -> Vals] : acc \in Accesses}
Entries == [op : {"load", "store"}, acc : Accesses,
            at : {"wait", "lu", "l2", "unit", "done"},
            dat : {"none", "wait", "unit", "done"},
            known : BOOLEAN, conflict : BOOLEAN, found : BOOLEAN, val : AnyVal]
Retired == {r \in [acc : Accesses, val : AnyVal] : r.val \in [r.acc -> Vals]}

TypeInv ==
    /\ phase \in {"sau_feedback", "commit", "bru", "lu", "sau", "sdu", "issue", "rename", "memory"}
    /\ slot \in Nat
    /\ window \in Seq(Entries) /\ leaving \in Seq(Entries)
    /\ rsb \in Seq(Retired)
    /\ ack \in {"none", "wait", "ack"}
    /\ mem \in [Bytes -> Vals]

\* What an instruction may be.
Shaped(e) ==
    /\ IsLoad(e) => e.dat = "none"
    /\ IsStore(e) => /\ ~e.conflict
                     /\ e.at = "done" => e.known
                     /\ HasData(e) => \E v \in Vals : e.val = [b \in e.acc |-> v]
    /\ HasRead(e) => e.known /\ e.val \in [e.acc -> Vals]
    /\ IsLoad(e) /\ e.at = "done" => ~e.found
ShapeInv == \A i \in DOMAIN window : Shaped(window[i])

\* A store that leaves in this cycle is the last of the retired ones.
LeaveInv ==
    /\ phase = "sau_feedback" => leaving = <<>>
    /\ phase # "commit" => slot = 0
    /\ phase = "commit" => slot = Len(leaving)
    /\ \A k \in DOMAIN leaving :
          /\ Shaped(leaving[k])
          /\ IsStore(leaving[k]) =>
                /\ k = 1 /\ leaving[k].known /\ HasData(leaving[k])
                /\ rsb # <<>>
                /\ rsb[Len(rsb)] = [acc |-> leaving[k].acc, val |-> leaving[k].val]

\* The first of the retired stores may already be in memory.
AckInv ==
    /\ ack # "none" => rsb # <<>>
    /\ ack = "ack" => \A b \in rsb[1].acc : mem[b] = rsb[1].val[b]

\* Byte b as a load at i would read it now.
Sources(i, b) == {j \in 1..(i - 1) : /\ b \in window[j].acc /\ IsStore(window[j])
                                     /\ window[j].known /\ HasData(window[j])}
Now(i, b) == IF Sources(i, b) = {} THEN VisibleByte(b)
             ELSE window[Newest(window, Sources(i, b))].val[b]

\* Marked, itself or through an older load.
Marked(i) == \E j \in 1..i : window[j].conflict
\* No older store without data is known to overlap, and the value is what a read
\* would return now.
Fresh(i) ==
    /\ \A j \in 1..(i - 1) : IsStore(window[j]) /\ window[j].known /\ Overlap(window[j], window[i])
                                => HasData(window[j])
    /\ \A b \in window[i].acc : window[i].val[b] = Now(i, b)
CaughtInv == \A i \in DOMAIN window : HasRead(window[i]) => Marked(i) \/ Fresh(i)

IInv == TypeInv /\ ShapeInv /\ LeaveInv /\ AckInv /\ CaughtInv

-----------------------------------------------------------------------------
(***************************************************************************)
(* The newest of some instructions.                                        *)
(***************************************************************************)

\* Every nonempty set of naturals has a least element.
LEMMA Least ==
  ASSUME NEW T \in SUBSET Nat, T # {}
  PROVE  \E x \in T : \A y \in T : x <= y
<1> DEFINE R == OpToRel(<, Nat)
<1>1. IsWellFoundedOn(R, Nat)
  BY NatLessThanWellFounded
<1>2. \A a, b \in Nat : a < b => <<a, b>> \in R
  BY DEF OpToRel
<1> HIDE DEF R
<1>3. PICK x \in T : \A y \in T : ~ (<<y, x>> \in R)
  BY <1>1, WFMin
<1>4. ASSUME NEW y \in T PROVE x <= y
  <2>1. x \in Nat /\ y \in Nat
    OBVIOUS
  <2>2. y < x => <<y, x>> \in R
    BY <1>2, <2>1, Zenon
  <2>3. ~(y < x)
    BY <1>3, <2>2, Zenon
  <2>4. QED
    BY <2>1, <2>3
<1>5. QED
  BY <1>4

\* The newest of some positions is one of them and no other is newer.
LEMMA NewestIs ==
  ASSUME NEW n \in Nat, NEW S \in SUBSET (1..n), S # {}, NEW s
  PROVE  /\ Newest(s, S) \in S
         /\ \A k \in S : k <= Newest(s, S)
<1> DEFINE T == {n - j : j \in S}
<1>1. T \in SUBSET Nat /\ T # {}
  <2>1. \A j \in S : n - j \in Nat
    OBVIOUS
  <2>2. QED
    BY <2>1
<1>2. PICK x \in T : \A y \in T : x <= y
  BY <1>1, Least
<1>3. PICK m \in S : x = n - m
  BY <1>2
<1>4. ASSUME NEW k \in S PROVE k <= m
  <2>1. n - m <= n - k
    BY <1>2, <1>3
  <2>2. QED
    BY <2>1
<1>5. QED
  BY <1>4 DEF Newest

\* There is only one such position.
LEMMA NewestOf ==
  ASSUME NEW S \in SUBSET Nat, NEW m \in S, \A k \in S : k <= m, NEW s
  PROVE  Newest(s, S) = m
<1>1. Newest(s, S) \in S /\ \A k \in S : k <= Newest(s, S)
  BY DEF Newest
<1>2. Newest(s, S) \in Nat /\ m \in Nat /\ Newest(s, S) <= m /\ m <= Newest(s, S)
  BY <1>1
<1>3. QED
  BY <1>2

\* The window as a function.
LEMMA Windows ==
  ASSUME TypeInv
  PROVE  /\ Len(window) \in Nat /\ DOMAIN window = 1..Len(window)
         /\ \A i \in DOMAIN window : window[i] \in Entries
         /\ Len(leaving) \in Nat /\ DOMAIN leaving = 1..Len(leaving)
         /\ \A i \in DOMAIN leaving : leaving[i] \in Entries
         /\ Len(rsb) \in Nat /\ DOMAIN rsb = 1..Len(rsb)
         /\ \A i \in DOMAIN rsb : rsb[i] \in Retired
BY DEF TypeInv

\* The stores a load at i reads from are older ones.
LEMMA SourcesIn ==
  ASSUME NEW i \in Nat, NEW b
  PROVE  Sources(i, b) \in SUBSET (1..(i - 1))
BY DEF Sources

-----------------------------------------------------------------------------
(***************************************************************************)
(* What keeps a value fresh.                                               *)
(***************************************************************************)
\* To a load that has read, store f is what e was.
Steady(e, f) ==
    /\ f.known <=> e.known
    /\ e.known => (HasData(f) <=> HasData(e)) /\ f.val = e.val

\* Two states with the same older stores at b.
LEMMA NowSame ==
  ASSUME NEW i \in Nat, NEW b, VisibleByte(b)' = VisibleByte(b),
         \A j \in 1..(i - 1) :
            /\ (window')[j].op = window[j].op /\ (window')[j].acc = window[j].acc
            /\ IsStore(window[j]) /\ b \in window[j].acc => Steady(window[j], (window')[j])
  PROVE  Now(i, b)' = Now(i, b)
<1> DEFINE S == Sources(i, b)
           S2 == {j \in 1..(i - 1) : /\ b \in (window')[j].acc /\ IsStore((window')[j])
                                     /\ (window')[j].known /\ HasData((window')[j])}
<1>1. Sources(i, b)' = S2
  BY DEF Sources
<1>2. ASSUME NEW j \in 1..(i - 1)
      PROVE  /\ j \in S2 <=> j \in S
             /\ j \in S => (window')[j].val = window[j].val
  <2>1. CASE b \in window[j].acc /\ IsStore(window[j])
    <3>1. Steady(window[j], (window')[j]) /\ b \in (window')[j].acc /\ IsStore((window')[j])
      BY <2>1 DEF IsStore
    <3>2. QED
      BY <2>1, <3>1 DEF Steady, Sources
  <2>2. CASE ~(b \in window[j].acc /\ IsStore(window[j]))
    BY <2>2 DEF Sources, IsStore
  <2>3. QED
    BY <2>1, <2>2
<1>3. S2 = S
  BY <1>2 DEF Sources
<1>4. Now(i, b)' = IF S2 = {} THEN VisibleByte(b)' ELSE (window')[Newest(window', S2)].val[b]
  BY <1>1 DEF Now
<1>5. CASE S = {}
  BY <1>3, <1>4, <1>5 DEF Now
<1>6. CASE S # {}
  <2>1. i - 1 \in Nat
    BY <1>6 DEF Sources
  <2>2. PICK m \in S : m = Newest(window, S)
    BY <1>6, <2>1, SourcesIn, NewestIs
  <2>3. Newest(window', S2) = m
    BY <1>3, <2>2 DEF Newest
  <2>4. m \in 1..(i - 1) /\ (window')[m].val = window[m].val
    BY <1>2 DEF Sources
  <2>5. QED
    BY <1>3, <1>4, <1>6, <2>2, <2>3, <2>4 DEF Now
<1>7. QED
  BY <1>5, <1>6

\* Two states with the same older stores, as far as they overlap.
LEMMA FreshSame ==
  ASSUME NEW i \in Nat, Fresh(i),
         \A b : VisibleByte(b)' = VisibleByte(b),
         (window')[i].acc = window[i].acc, (window')[i].val = window[i].val,
         \A j \in 1..(i - 1) :
            /\ (window')[j].op = window[j].op /\ (window')[j].acc = window[j].acc
            /\ IsStore(window[j]) /\ Overlap(window[j], window[i]) => Steady(window[j], (window')[j])
  PROVE  Fresh(i)'
<1>1. ASSUME NEW j \in 1..(i - 1), IsStore((window')[j]), (window')[j].known,
             Overlap((window')[j], (window')[i])
      PROVE  HasData((window')[j])
  <2>1. IsStore(window[j]) /\ Overlap(window[j], window[i])
    BY <1>1 DEF IsStore, Overlap
  <2>2. Steady(window[j], (window')[j])
    BY <2>1
  <2>3. window[j].known
    BY <1>1, <2>2 DEF Steady
  <2>4. HasData(window[j])
    BY <2>1, <2>3 DEF Fresh
  <2>5. QED
    BY <2>2, <2>3, <2>4 DEF Steady
<1>2. ASSUME NEW b \in window[i].acc PROVE (window')[i].val[b] = Now(i, b)'
  <2>1. \A j \in 1..(i - 1) : b \in window[j].acc => Overlap(window[j], window[i])
    BY <1>2 DEF Overlap
  <2>2. Now(i, b)' = Now(i, b)
    BY <2>1, NowSame
  <2>3. window[i].val[b] = Now(i, b)
    BY <1>2 DEF Fresh
  <2>4. QED
    BY <2>2, <2>3
<1>3. QED
  BY <1>1, <1>2 DEF Fresh

\* Marks are kept.
LEMMA MarkedSame ==
  ASSUME NEW i \in Nat, Marked(i),
         \A j \in 1..i : window[j].conflict => (window')[j].conflict
  PROVE  Marked(i)'
BY DEF Marked

-----------------------------------------------------------------------------
(***************************************************************************)
(* The address of a store becomes known.                                   *)
(***************************************************************************)
\* All but known and conflict.
Alike(e, f) == /\ f.op = e.op /\ f.acc = e.acc /\ f.at = e.at /\ f.dat = e.dat
               /\ f.found = e.found /\ f.val = e.val

\* What W says of the window once the address of store i is known.
AddressSet(W, i) ==
    /\ W \in Seq(Entries) /\ Len(W) = Len(window)
    /\ \A j \in DOMAIN window : /\ Alike(window[j], W[j])
                                /\ j # i => (W[j].known <=> window[j].known)
                                /\ window[j].conflict => W[j].conflict
                                /\ IsStore(window[j]) /\ W[j].conflict => window[j].conflict
    /\ W[i].known
    /\ \A k \in DOMAIN window :
          /\ k > i /\ IsLoad(window[k]) /\ window[k].known /\ Overlap(window[k], window[i])
          => \E j \in 1..k : W[j].conflict

\* The oldest of the loads that have read the address is marked.
LEMMA AddressKnownIs ==
  ASSUME TypeInv, NEW i \in DOMAIN window
  PROVE  AddressSet(AddressKnown(i), i)
<1>0. /\ Len(window) \in Nat /\ DOMAIN window = 1..Len(window) /\ window \in Seq(Entries)
      /\ \A j \in DOMAIN window : window[j] \in Entries
  BY Windows DEF TypeInv
<1>1. PICK V : V = [window EXCEPT ![i].known = TRUE]
  OBVIOUS
<1>2. [window[i] EXCEPT !.known = TRUE] \in Entries
  BY <1>0 DEF Entries
<1>3. V \in Seq(Entries) /\ Len(V) = Len(window) /\ DOMAIN V = DOMAIN window
  BY <1>0, <1>1, <1>2
<1>4. /\ \A j \in DOMAIN window : j # i => V[j] = window[j]
      /\ V[i] = [window[i] EXCEPT !.known = TRUE]
  BY <1>0, <1>1
<1>5. \A j \in DOMAIN window : /\ Alike(window[j], V[j]) /\ V[j].conflict = window[j].conflict
                               /\ j # i => V[j].known = window[j].known
  BY <1>0, <1>4 DEF Alike, Entries
<1>6. V[i].known /\ V[i] \in Entries
  BY <1>0, <1>2, <1>4 DEF Entries
<1>7. PICK W : W = AddressKnown(i)
  OBVIOUS
<1>8. W = MarkConflict(V, i)
  BY <1>1, <1>7 DEF AddressKnown
<1>9. ASSUME NEW k \in DOMAIN window, k > i, IsLoad(window[k]), window[k].known,
             Overlap(window[k], window[i])
      PROVE  k \in Conflicting(V, i)
  BY <1>0, <1>3, <1>5, <1>9 DEF Conflicting, IsLoad, Overlap, Alike
<1>10. CASE Conflicting(V, i) = {}
  <2>1. W = V
    BY <1>8, <1>10 DEF MarkConflict
  <2>2. QED
    BY <1>3, <1>5, <1>6, <1>7, <1>9, <1>10, <2>1 DEF AddressSet
<1>11. CASE Conflicting(V, i) # {}
  <2>1. Conflicting(V, i) \in SUBSET Nat
    BY <1>0, <1>3 DEF Conflicting
  <2>2. PICK c : c = CHOOSE j \in Conflicting(V, i) : \A k \in Conflicting(V, i) : j <= k
    OBVIOUS
  <2>3. c \in Conflicting(V, i) /\ \A k \in Conflicting(V, i) : c <= k
    BY <1>11, <2>1, <2>2, Least
  <2>4. W = [V EXCEPT ![c].conflict = TRUE]
    BY <1>8, <1>11, <2>2 DEF MarkConflict
  <2>5. c \in DOMAIN window /\ V[c] \in Entries
    BY <1>0, <1>3, <2>3 DEF Conflicting
  <2>6. [V[c] EXCEPT !.conflict = TRUE] \in Entries
    BY <2>5 DEF Entries
  <2>7. W \in Seq(Entries) /\ Len(W) = Len(window)
    BY <1>0, <1>3, <2>4, <2>5, <2>6
  <2>8. /\ \A j \in DOMAIN window : j # c => W[j] = V[j]
        /\ W[c] = [V[c] EXCEPT !.conflict = TRUE]
    BY <1>0, <1>3, <2>4, <2>5
  <2>9. /\ Alike(V[c], W[c]) /\ W[c].known = V[c].known /\ W[c].conflict = TRUE
    BY <2>5, <2>8 DEF Alike, Entries
  <2>10. \A j \in DOMAIN window : /\ Alike(window[j], W[j])
                                  /\ j # i => (W[j].known <=> window[j].known)
                                  /\ window[j].conflict => W[j].conflict
                                  /\ IsStore(window[j]) /\ W[j].conflict => window[j].conflict
    <3> SUFFICES ASSUME NEW j \in DOMAIN window
                 PROVE  /\ Alike(window[j], W[j])
                        /\ j # i => (W[j].known <=> window[j].known)
                        /\ window[j].conflict => W[j].conflict
                        /\ IsStore(window[j]) /\ W[j].conflict => window[j].conflict
      OBVIOUS
    <3>1. CASE j = c
      <4>1. ~IsStore(window[j])
        BY <1>5, <2>3, <3>1 DEF Conflicting, IsLoad, IsStore, Alike
      <4>2. QED
        BY <1>5, <2>9, <3>1, <4>1 DEF Alike
    <3>2. CASE j # c
      BY <1>5, <2>8, <3>2
    <3>3. QED
      BY <3>1, <3>2
  <2>11. W[i].known
    <3>1. CASE i = c
      BY <1>6, <2>9, <3>1
    <3>2. CASE i # c
      BY <1>6, <2>8, <3>2
    <3>3. QED
      BY <3>1, <3>2
  <2>12. ASSUME NEW k \in DOMAIN window, k > i, IsLoad(window[k]), window[k].known,
                Overlap(window[k], window[i])
         PROVE  \E j \in 1..k : W[j].conflict
    <3>1. c <= k
      BY <1>9, <2>3, <2>12
    <3>2. c \in 1..k
      BY <1>0, <2>5, <3>1
    <3>3. QED
      BY <2>9, <3>2
  <2>13. QED
    BY <1>7, <2>7, <2>10, <2>11, <2>12 DEF AddressSet
<1>12. QED
  BY <1>10, <1>11

\* What is visible depends on the retired stores and on memory.
LEMMA VisibleSame ==
  ASSUME UNCHANGED <<rsb, mem>>
  PROVE  \A b : VisibleByte(b)' = VisibleByte(b)
BY DEF VisibleByte, Writers, Newest

\* Steps of the units: only the window changes.
LEMMA InPlace ==
  ASSUME IInv, UNCHANGED <<leaving, unit_vars>>,
         phase' \in {"commit", "lu", "sau", "sdu", "issue", "rename", "memory"},
         phase # "commit", phase' = "commit" => phase = "sau_feedback",
         window' \in Seq(Entries), ShapeInv', CaughtInv'
  PROVE  IInv'
<1>1. UNCHANGED <<leaving, slot, rsb, ack, mem>>
  BY DEF unit_vars
<1>2. TypeInv'
  BY <1>1 DEF IInv, TypeInv
<1>3. LeaveInv'
  BY <1>1 DEF IInv, LeaveInv, Shaped, HasRead, IsLoad, IsStore, HasData
<1>4. AckInv'
  BY <1>1 DEF IInv, AckInv
<1>5. QED
  BY <1>2, <1>3, <1>4 DEF IInv

\* Steps that do not change the window either.
LEMMA WindowKept ==
  ASSUME IInv, UNCHANGED <<leaving, unit_vars>>, window' = window,
         phase' \in {"commit", "lu", "sau", "sdu", "issue", "rename", "memory"},
         phase # "commit", phase' = "commit" => phase = "sau_feedback"
  PROVE  IInv'
<1>1. UNCHANGED <<rsb, mem>>
  BY DEF unit_vars
<1>2. \A b : VisibleByte(b)' = VisibleByte(b)
  BY <1>1, VisibleSame
<1>3. \A i \in DOMAIN window : Fresh(i)' = Fresh(i) /\ Marked(i)' = Marked(i)
  BY <1>2 DEF Fresh, Marked, Now, Sources
<1>4. CaughtInv'
  BY <1>3 DEF IInv, CaughtInv
<1>5. window' \in Seq(Entries) /\ ShapeInv'
  BY DEF IInv, TypeInv, ShapeInv
<1>6. QED
  BY <1>4, <1>5, InPlace

\* The same instructions, further on.
OpsKept == /\ DOMAIN window' = DOMAIN window
           /\ \A j \in DOMAIN window : (window')[j].op = window[j].op

\* After the address part of store i, in either pass.
LEMMA AddressStep ==
  ASSUME IInv, NEW i \in DOMAIN window, IsStore(window[i]), NEW W, AddressSet(W, i),
         window' = W \/ window' = [W EXCEPT ![i].at = "done"],
         \A b : VisibleByte(b)' = VisibleByte(b)
  PROVE  window' \in Seq(Entries) /\ ShapeInv' /\ CaughtInv' /\ OpsKept
<1>0. /\ Len(window) \in Nat /\ DOMAIN window = 1..Len(window) /\ window \in Seq(Entries)
      /\ \A j \in DOMAIN window : window[j] \in Entries
  BY Windows DEF IInv, TypeInv
<1>1. /\ W \in Seq(Entries) /\ Len(W) = Len(window) /\ DOMAIN W = DOMAIN window
      /\ \A j \in DOMAIN window : W[j] \in Entries
      /\ \A j \in DOMAIN window : /\ Alike(window[j], W[j])
                                  /\ j # i => (W[j].known <=> window[j].known)
                                  /\ window[j].conflict => W[j].conflict
                                  /\ IsStore(window[j]) /\ W[j].conflict => window[j].conflict
      /\ W[i].known
  BY <1>0 DEF AddressSet
<1>2. /\ window' \in Seq(Entries) /\ DOMAIN window' = DOMAIN window
      /\ \A j \in DOMAIN window : j # i => (window')[j] = W[j]
      /\ (window')[i] = W[i] \/ (window')[i] = [W[i] EXCEPT !.at = "done"]
  <2>1. [W[i] EXCEPT !.at = "done"] \in Entries
    BY <1>1 DEF Entries
  <2>2. W \in Seq(Entries) /\ DOMAIN W = DOMAIN window
    BY <1>1
  <2>3. CASE window' = W
    BY <2>2, <2>3
  <2>4. CASE window' = [W EXCEPT ![i].at = "done"]
    <3>1. PICK e \in Entries : e = [W[i] EXCEPT !.at = "done"]
      BY <2>1
    <3>2. window' = [W EXCEPT ![i] = e]
      BY <2>4, <3>1
    <3>3. QED
      BY <2>2, <3>1, <3>2
  <2>5. QED
    BY <2>3, <2>4
<1>3. ASSUME NEW j \in DOMAIN window
      PROVE  /\ (window')[j].op = window[j].op /\ (window')[j].acc = window[j].acc
             /\ (window')[j].dat = window[j].dat /\ (window')[j].found = window[j].found
             /\ (window')[j].val = window[j].val
             /\ (window')[j].known <=> W[j].known
             /\ (window')[j].conflict <=> W[j].conflict
             /\ j # i => (window')[j].at = window[j].at
  <2>1. /\ (window')[j].op = W[j].op /\ (window')[j].acc = W[j].acc
        /\ (window')[j].dat = W[j].dat /\ (window')[j].found = W[j].found
        /\ (window')[j].val = W[j].val /\ (window')[j].known = W[j].known
        /\ (window')[j].conflict = W[j].conflict
        /\ j # i => (window')[j].at = W[j].at
    BY <1>1, <1>2 DEF Entries
  <2>2. QED
    BY <1>1, <2>1 DEF Alike
<1>4. ASSUME NEW j \in DOMAIN window PROVE Shaped((window')[j])
  <2>1. Shaped(window[j])
    BY DEF IInv, ShapeInv
  <2>2. CASE j = i
    <3>1. IsStore((window')[j]) /\ ~IsLoad((window')[j]) /\ (window')[j].known
      BY <1>1, <1>3, <2>2 DEF IsStore, IsLoad
    <3>2. HasData((window')[j]) => \E v \in Vals : (window')[j].val = [b \in (window')[j].acc |-> v]
      BY <1>3, <2>1, <2>2 DEF Shaped, HasData
    <3>3. ~(window')[j].conflict
      BY <1>1, <1>3, <2>1, <2>2 DEF Shaped
    <3>4. QED
      BY <3>1, <3>2, <3>3 DEF Shaped, HasRead
  <2>3. CASE j # i
    <3>1. /\ (window')[j].known <=> window[j].known
          /\ IsStore(window[j]) /\ (window')[j].conflict => window[j].conflict
      BY <1>1, <1>3, <2>3
    <3>2. QED
      BY <1>3, <2>1, <2>3, <3>1 DEF Shaped, HasRead, IsLoad, IsStore, HasData
  <2>4. QED
    BY <2>2, <2>3
<1>5. ASSUME NEW k \in DOMAIN window, HasRead((window')[k])
      PROVE  Marked(k)' \/ Fresh(k)'
  <2>1. k # i /\ HasRead(window[k]) /\ k \in Nat /\ i \in Nat
    <3>1. k # i
      BY <1>3, <1>5 DEF HasRead, IsLoad, IsStore
    <3>2. QED
      BY <1>0, <1>3, <1>5, <3>1 DEF HasRead, IsLoad
  <2>2. \A j \in 1..k : j \in DOMAIN window
    BY <1>0, <2>1
  <2>3. CASE Marked(k)
    BY <1>1, <1>3, <2>1, <2>2, <2>3, MarkedSame
  <2>4. CASE i < k /\ Overlap(window[k], window[i])
    <3>1. IsLoad(window[k]) /\ window[k].known
      BY <2>1 DEF IInv, ShapeInv, Shaped, HasRead
    <3>2. \E j \in 1..k : W[j].conflict
      BY <2>1, <2>4, <3>1 DEF AddressSet
    <3>3. QED
      BY <1>3, <2>2, <3>2 DEF Marked
  <2>5. CASE Fresh(k) /\ ~(i < k /\ Overlap(window[k], window[i]))
    <3>1. ASSUME NEW j \in 1..(k - 1)
          PROVE  /\ (window')[j].op = window[j].op /\ (window')[j].acc = window[j].acc
                 /\ IsStore(window[j]) /\ Overlap(window[j], window[k])
                       => Steady(window[j], (window')[j])
      <4>1. j \in DOMAIN window /\ j < k
        BY <1>0, <2>1
      <4>2. CASE j = i
        BY <1>3, <2>5, <4>1, <4>2 DEF Overlap
      <4>3. CASE j # i
        BY <1>1, <1>3, <4>1, <4>3 DEF Steady, HasData
      <4>4. QED
        BY <4>2, <4>3
    <3>2. Fresh(k)'
      BY <1>3, <2>1, <2>5, <3>1, FreshSame
    <3>3. QED
      BY <3>2
  <2>6. QED
    BY <2>1, <2>3, <2>4, <2>5 DEF IInv, CaughtInv
<1>6. ShapeInv' /\ CaughtInv' /\ OpsKept
  BY <1>2, <1>3, <1>4, <1>5 DEF ShapeInv, CaughtInv, OpsKept
<1>7. QED
  BY <1>2, <1>6

\* The first pass of sau.
LEMMA StepSauFeedback ==
  ASSUME IInv, SauFeedback
  PROVE  IInv' /\ OpsKept
<1>1. /\ phase = "sau_feedback" /\ phase' = "commit" /\ UNCHANGED <<leaving, unit_vars>>
  BY DEF SauFeedback
<1>2. \A b : VisibleByte(b)' = VisibleByte(b)
  BY <1>1, VisibleSame DEF unit_vars
<1>3. CASE AddressPart = {}
  <2>1. window' = window
    BY <1>3 DEF SauFeedback
  <2>2. QED
    BY <1>1, <2>1, WindowKept DEF OpsKept
<1>4. CASE AddressPart # {}
  <2>1. PICK i \in AddressPart : window' = AddressKnown(i)
    BY <1>4 DEF SauFeedback
  <2>2. i \in DOMAIN window /\ IsStore(window[i])
    BY DEF AddressPart
  <2>3. AddressSet(AddressKnown(i), i)
    BY <2>2, AddressKnownIs DEF IInv
  <2>4. window' \in Seq(Entries) /\ ShapeInv' /\ CaughtInv' /\ OpsKept
    BY <1>2, <2>1, <2>2, <2>3, AddressStep
  <2>5. QED
    BY <1>1, <2>4, InPlace
<1>5. QED
  BY <1>3, <1>4

\* The second pass.
LEMMA StepSau ==
  ASSUME IInv, Sau
  PROVE  IInv' /\ OpsKept
<1>1. /\ phase = "sau" /\ phase' = "sdu" /\ UNCHANGED <<leaving, unit_vars>>
  BY DEF Sau
<1>2. \A b : VisibleByte(b)' = VisibleByte(b)
  BY <1>1, VisibleSame DEF unit_vars
<1>3. CASE AddressPart = {}
  <2>1. window' = window
    BY <1>3 DEF Sau
  <2>2. QED
    BY <1>1, <2>1, WindowKept DEF OpsKept
<1>4. CASE AddressPart # {}
  <2>1. PICK i \in AddressPart : window' = [AddressKnown(i) EXCEPT ![i].at = "done"]
    BY <1>4 DEF Sau
  <2>2. i \in DOMAIN window /\ IsStore(window[i])
    BY DEF AddressPart
  <2>3. AddressSet(AddressKnown(i), i)
    BY <2>2, AddressKnownIs DEF IInv
  <2>4. window' \in Seq(Entries) /\ ShapeInv' /\ CaughtInv' /\ OpsKept
    BY <1>2, <2>1, <2>2, <2>3, AddressStep
  <2>5. QED
    BY <1>1, <2>4, InPlace
<1>5. QED
  BY <1>3, <1>4

-----------------------------------------------------------------------------
(***************************************************************************)
(* The data of a store, issue, rename and rollback.                        *)
(***************************************************************************)

\* The data of a store: a load that has read did not have to read it.
LEMMA StepSdu ==
  ASSUME IInv, Sdu
  PROVE  IInv' /\ OpsKept
<1>1. /\ phase = "sdu" /\ phase' = "issue" /\ UNCHANGED <<leaving, unit_vars>>
  BY DEF Sdu
<1>2. \A b : VisibleByte(b)' = VisibleByte(b)
  BY <1>1, VisibleSame DEF unit_vars
<1>3. CASE DataPart = {}
  <2>1. window' = window
    BY <1>3 DEF Sdu
  <2>2. QED
    BY <1>1, <2>1, WindowKept DEF OpsKept
<1>4. CASE DataPart # {}
  <2>0. PICK i : i = CHOOSE j \in DataPart : TRUE
    OBVIOUS
  <2>1. PICK v \in Vals :
          window' = [window EXCEPT ![i].dat = "done", ![i].val = [b \in window[i].acc |-> v]]
    BY <1>4, <2>0 DEF Sdu
  <2>2. /\ Len(window) \in Nat /\ DOMAIN window = 1..Len(window) /\ window \in Seq(Entries)
        /\ \A j \in DOMAIN window : window[j] \in Entries
    BY Windows DEF IInv, TypeInv
  <2>3. i \in DOMAIN window /\ window[i].dat = "unit" /\ window[i] \in Entries
    <3>1. i \in DataPart
      BY <1>4, <2>0
    <3>2. QED
      BY <2>2, <3>1 DEF DataPart
  <2>4. PICK f : f = [b \in window[i].acc |-> v]
    OBVIOUS
  <2>5. f \in AnyVal
    <3>1. window[i].acc \in Accesses
      BY <2>3 DEF Entries
    <3>2. f \in [window[i].acc -> Vals]
      BY <2>4
    <3>3. QED
      BY <3>1, <3>2 DEF AnyVal
  <2>6. PICK e \in Entries : e = [window[i] EXCEPT !.dat = "done", !.val = f]
    BY <2>3, <2>5 DEF Entries
  <2>7. window' = [window EXCEPT ![i] = e]
    BY <2>1, <2>2, <2>3, <2>4, <2>6
  <2>8. /\ window' \in Seq(Entries) /\ DOMAIN window' = DOMAIN window
        /\ \A j \in DOMAIN window : j # i => (window')[j] = window[j]
        /\ (window')[i] = e
    BY <2>2, <2>3, <2>7
  <2>9. /\ e.op = window[i].op /\ e.acc = window[i].acc /\ e.at = window[i].at
        /\ e.known = window[i].known /\ e.conflict = window[i].conflict /\ e.found = window[i].found
        /\ e.dat = "done" /\ e.val = f
    BY <2>3, <2>6 DEF Entries
  <2>10. IsStore(window[i]) /\ ~IsLoad(window[i])
    BY <2>3 DEF IInv, ShapeInv, Shaped, IsLoad, IsStore, Entries
  <2>11. ShapeInv'
    <3>1. ASSUME NEW j \in DOMAIN window PROVE Shaped((window')[j])
      <4>1. Shaped(window[j])
        BY DEF IInv, ShapeInv
      <4>2. CASE j # i
        BY <2>8, <4>1, <4>2
      <4>3. CASE j = i
        <5>1. (window')[j] = e /\ IsStore(e) /\ ~IsLoad(e) /\ (e.at = "done" => e.known) /\ ~e.conflict
          BY <2>8, <2>9, <2>10, <4>1, <4>3 DEF Shaped, IsLoad, IsStore
        <5>2. e.val = [b \in e.acc |-> v]
          BY <2>4, <2>9
        <5>3. QED
          BY <5>1, <5>2 DEF Shaped, HasRead
      <4>4. QED
        BY <4>2, <4>3
    <3>2. QED
      BY <2>8, <3>1 DEF ShapeInv
  <2>12. ASSUME NEW k \in DOMAIN window, HasRead((window')[k])
         PROVE  Marked(k)' \/ Fresh(k)'
    <3>1. k # i /\ HasRead(window[k]) /\ k \in Nat
      BY <2>2, <2>8, <2>9, <2>10, <2>12 DEF HasRead, IsLoad
    <3>2. \A j \in 1..k : j \in DOMAIN window
      BY <2>2, <3>1
    <3>3. CASE Marked(k)
      <4>1. \A j \in 1..k : window[j].conflict => (window')[j].conflict
        BY <2>8, <2>9, <3>2
      <4>2. QED
        BY <3>1, <3>3, <4>1, MarkedSame
    <3>4. CASE Fresh(k)
      <4>1. ASSUME NEW j \in 1..(k - 1)
            PROVE  /\ (window')[j].op = window[j].op /\ (window')[j].acc = window[j].acc
                   /\ IsStore(window[j]) /\ Overlap(window[j], window[k])
                         => Steady(window[j], (window')[j])
        <5>1. j \in DOMAIN window
          BY <2>2, <3>1
        <5>2. CASE j # i
          BY <2>8, <5>1, <5>2 DEF Steady
        <5>3. CASE j = i
          <6>1. Overlap(window[j], window[k]) => ~window[j].known
            BY <2>3, <2>10, <3>4, <5>3 DEF Fresh, HasData
          <6>2. QED
            BY <2>8, <2>9, <5>3, <6>1 DEF Steady
        <5>4. QED
          BY <5>2, <5>3
      <4>2. (window')[k] = window[k]
        BY <2>8, <3>1
      <4>3. Fresh(k)'
        BY <1>2, <3>1, <3>4, <4>1, <4>2, FreshSame
      <4>4. QED
        BY <4>3
    <3>5. QED
      BY <3>1, <3>3, <3>4 DEF IInv, CaughtInv
  <2>13. CaughtInv'
    BY <2>8, <2>12 DEF CaughtInv
  <2>14. OpsKept
    BY <2>8, <2>9 DEF OpsKept
  <2>15. QED
    BY <1>1, <2>8, <2>11, <2>13, <2>14, InPlace
<1>5. QED
  BY <1>3, <1>4

\* What issue sends has not executed.
LEMMA StepIssue ==
  ASSUME IInv, Issue
  PROVE  IInv' /\ OpsKept
<1>1. /\ phase = "issue" /\ phase' = "rename" /\ UNCHANGED <<leaving, unit_vars>>
  BY DEF Issue
<1>2. \A b : VisibleByte(b)' = VisibleByte(b)
  BY <1>1, VisibleSame DEF unit_vars
<1>3. PICK L \in SUBSET Waiting("load"), A \in SUBSET Waiting("sau"), D \in SUBSET Waiting("sdu") :
         window' = [i \in DOMAIN window |->
              [window[i] EXCEPT !.at = IF i \in L THEN "lu" ELSE IF i \in A THEN "unit" ELSE @,
                                !.dat = IF i \in D THEN "unit" ELSE @]]
  BY DEF Issue
<1>4. /\ Len(window) \in Nat /\ DOMAIN window = 1..Len(window) /\ window \in Seq(Entries)
      /\ \A j \in DOMAIN window : window[j] \in Entries
  BY Windows DEF IInv, TypeInv
<1>5. /\ \A j \in L : window[j].at = "wait" /\ IsLoad(window[j])
      /\ \A j \in A : window[j].at = "wait"
      /\ \A j \in D : window[j].dat = "wait"
  BY DEF Waiting
<1>6. ASSUME NEW j \in DOMAIN window
      PROVE  /\ (window')[j] \in Entries
             /\ (window')[j].op = window[j].op /\ (window')[j].acc = window[j].acc
             /\ (window')[j].known = window[j].known /\ (window')[j].conflict = window[j].conflict
             /\ (window')[j].found = window[j].found /\ (window')[j].val = window[j].val
             /\ (window')[j].at = window[j].at \/ (window[j].at = "wait" /\ (window')[j].at \in {"lu", "unit"})
             /\ (window')[j].dat = window[j].dat \/ (window[j].dat = "wait" /\ (window')[j].dat = "unit")
  <2>1. PICK at \in {"wait", "lu", "l2", "unit", "done"}, dat \in {"none", "wait", "unit", "done"} :
          /\ at = IF j \in L THEN "lu" ELSE IF j \in A THEN "unit" ELSE window[j].at
          /\ dat = IF j \in D THEN "unit" ELSE window[j].dat
    BY <1>4 DEF Entries
  <2>2. (window')[j] = [window[j] EXCEPT !.at = at, !.dat = dat]
    BY <1>3, <2>1
  <2>3. /\ at = window[j].at \/ (window[j].at = "wait" /\ at \in {"lu", "unit"})
        /\ dat = window[j].dat \/ (window[j].dat = "wait" /\ dat = "unit")
    BY <1>5, <2>1
  <2>4. window[j] \in Entries
    BY <1>4
  <2>5. QED
    BY <2>2, <2>3, <2>4 DEF Entries
<1>7. DOMAIN window' = DOMAIN window /\ window' \in Seq(Entries)
  <2>1. DOMAIN window' = 1..Len(window) /\ window' = [i \in DOMAIN window' |-> (window')[i]]
    BY <1>3, <1>4
  <2>2. window' \in [1..Len(window) -> Entries]
    BY <1>4, <1>6, <2>1
  <2>3. QED
    BY <1>4, <2>1, <2>2, SeqDef
<1>8. ASSUME NEW j \in DOMAIN window
      PROVE  /\ HasData((window')[j]) <=> HasData(window[j])
             /\ HasRead((window')[j]) <=> HasRead(window[j])
             /\ (window')[j].at = "done" <=> window[j].at = "done"
             /\ window[j].dat = "none" => (window')[j].dat = "none"
  BY <1>6 DEF HasData, HasRead, IsLoad
<1>9. ShapeInv'
  <2>1. ASSUME NEW j \in DOMAIN window PROVE Shaped((window')[j])
    <3>1. Shaped(window[j])
      BY DEF IInv, ShapeInv
    <3>2. QED
      BY <1>6, <1>8, <3>1 DEF Shaped, IsLoad, IsStore
  <2>2. QED
    BY <1>7, <2>1 DEF ShapeInv
<1>10. ASSUME NEW k \in DOMAIN window, HasRead((window')[k])
       PROVE  Marked(k)' \/ Fresh(k)'
  <2>1. HasRead(window[k]) /\ k \in Nat /\ \A j \in 1..k : j \in DOMAIN window
    BY <1>4, <1>8, <1>10
  <2>2. CASE Marked(k)
    <3>1. \A j \in 1..k : window[j].conflict => (window')[j].conflict
      BY <1>6, <2>1
    <3>2. QED
      BY <2>1, <2>2, <3>1, MarkedSame
  <2>3. CASE Fresh(k)
    <3>1. \A j \in 1..(k - 1) :
            /\ (window')[j].op = window[j].op /\ (window')[j].acc = window[j].acc
            /\ IsStore(window[j]) /\ Overlap(window[j], window[k]) => Steady(window[j], (window')[j])
      BY <1>4, <1>6, <1>8, <2>1 DEF Steady
    <3>2. Fresh(k)'
      BY <1>2, <1>6, <2>1, <2>3, <3>1, FreshSame
    <3>3. QED
      BY <3>2
  <2>4. QED
    BY <2>1, <2>2, <2>3 DEF IInv, CaughtInv
<1>11. CaughtInv'
  BY <1>7, <1>10 DEF CaughtInv
<1>12. OpsKept
  BY <1>6, <1>7 DEF OpsKept
<1>13. QED
  BY <1>1, <1>7, <1>9, <1>11, <1>12, InPlace

\* Steps at the young end of the window: what stays is as it was, what comes has
\* not read.
LEMMA YoungEnd ==
  ASSUME IInv, \A b : VisibleByte(b)' = VisibleByte(b),
         window' \in Seq(Entries),
         \A i \in DOMAIN window' : \/ i \in DOMAIN window /\ (window')[i] = window[i]
                                   \/ Shaped((window')[i]) /\ ~HasRead((window')[i])
                                      /\ \A j \in DOMAIN window : j < i
  PROVE  ShapeInv' /\ CaughtInv'
<1>0. /\ Len(window) \in Nat /\ DOMAIN window = 1..Len(window)
      /\ Len(window') \in Nat /\ DOMAIN window' = 1..Len(window')
  BY Windows DEF IInv
<1>1. ShapeInv'
  BY DEF IInv, ShapeInv
<1>2. ASSUME NEW k \in DOMAIN window', HasRead((window')[k])
      PROVE  Marked(k)' \/ Fresh(k)'
  <2>1. k \in DOMAIN window /\ (window')[k] = window[k] /\ k \in Nat
    BY <1>0, <1>2
  <2>2. ASSUME NEW j \in 1..k PROVE (window')[j] = window[j] /\ j \in DOMAIN window
    <3>1. j \in DOMAIN window /\ j \in DOMAIN window'
      BY <1>0, <2>1
    <3>2. ~(k < j) /\ k \in DOMAIN window
      BY <1>0, <2>1
    <3>3. QED
      BY <3>1, <3>2
  <2>3. CASE Marked(k)
    BY <2>1, <2>2, <2>3, MarkedSame
  <2>4. CASE Fresh(k)
    <3>1. \A j \in 1..(k - 1) : j \in 1..k
      BY <2>1
    <3>2. Fresh(k)'
      BY <2>1, <2>2, <2>4, <3>1, FreshSame DEF Steady
    <3>3. QED
      BY <3>2
  <2>5. QED
    BY <1>2, <2>1, <2>3, <2>4 DEF IInv, CaughtInv
<1>3. QED
  BY <1>1, <1>2 DEF CaughtInv

\* Rename.
LEMMA StepRename ==
  ASSUME IInv, Rename
  PROVE  IInv'
<1>1. /\ phase = "rename" /\ phase' = "memory" /\ UNCHANGED <<leaving, unit_vars>>
  BY DEF Rename
<1>2. \A b : VisibleByte(b)' = VisibleByte(b)
  BY <1>1, VisibleSame DEF unit_vars
<1>3. CASE window' = window
  BY <1>1, <1>3, WindowKept
<1>4. CASE window' # window
  <2>1. PICK op \in {"load", "store"}, acc \in Accesses : window' = Append(window, New(op, acc))
    BY <1>4 DEF Rename
  <2>2. /\ Len(window) \in Nat /\ DOMAIN window = 1..Len(window) /\ window \in Seq(Entries)
    BY Windows DEF IInv, TypeInv
  <2>3. PICK e : e = New(op, acc)
    OBVIOUS
  <2>4. e \in Entries
    BY <2>3 DEF New, Entries, AnyVal
  <2>5. Shaped(e) /\ ~HasRead(e)
    BY <2>3 DEF New, Shaped, HasRead, IsLoad, IsStore, HasData
  <2>6. /\ window' \in Seq(Entries) /\ DOMAIN window' = 1..(Len(window) + 1)
        /\ (window')[Len(window) + 1] = e
        /\ \A i \in DOMAIN window : (window')[i] = window[i]
    BY <2>1, <2>2, <2>3, <2>4
  <2>7. \A i \in DOMAIN window' : \/ i \in DOMAIN window /\ (window')[i] = window[i]
                                  \/ Shaped((window')[i]) /\ ~HasRead((window')[i])
                                     /\ \A j \in DOMAIN window : j < i
    BY <2>2, <2>5, <2>6
  <2>8. QED
    BY <1>1, <1>2, <2>6, <2>7, YoungEnd, InPlace
<1>5. QED
  BY <1>3, <1>4

\* Rollback behind a branch.
LEMMA StepBru ==
  ASSUME IInv, Bru
  PROVE  IInv'
<1>1. /\ phase = "bru" /\ phase' = "lu" /\ UNCHANGED <<leaving, slot, rsb, ack, mem>>
  BY DEF Bru
<1>2. \A b : VisibleByte(b)' = VisibleByte(b)
  BY <1>1, VisibleSame
<1>3. /\ Len(window) \in Nat /\ DOMAIN window = 1..Len(window) /\ window \in Seq(Entries)
  BY Windows DEF IInv, TypeInv
<1>4. /\ window' \in Seq(Entries) /\ DOMAIN window' \subseteq DOMAIN window
      /\ \A i \in DOMAIN window' : (window')[i] = window[i]
  <2>1. CASE window' = window
    BY <1>3, <2>1
  <2>2. CASE window' # window
    <3>1. PICK n \in 0..(Len(window) - 1) : window' = SubSeq(window, 1, n)
      BY <2>2 DEF Bru
    <3>2. QED
      BY <1>3, <3>1
  <2>3. QED
    BY <2>1, <2>2
<1>5. ShapeInv' /\ CaughtInv'
  BY <1>2, <1>4, YoungEnd
<1>6. TypeInv'
  BY <1>1, <1>4 DEF IInv, TypeInv
<1>7. LeaveInv'
  BY <1>1 DEF IInv, LeaveInv, Shaped, HasRead, IsLoad, IsStore, HasData
<1>8. AckInv'
  BY <1>1 DEF IInv, AckInv
<1>9. QED
  BY <1>5, <1>6, <1>7, <1>8 DEF IInv


-----------------------------------------------------------------------------
(***************************************************************************)
(* A read.                                                                 *)
(***************************************************************************)

\* What is visible is a value.
LEMMA VisibleIn ==
  ASSUME TypeInv, NEW b \in Bytes
  PROVE  VisibleByte(b) \in Vals
<1>1. /\ Len(rsb) \in Nat /\ DOMAIN rsb = 1..Len(rsb) /\ \A i \in DOMAIN rsb : rsb[i] \in Retired
  BY Windows
<1>2. Writers(rsb, b) \in SUBSET (1..Len(rsb))
  BY <1>1 DEF Writers
<1>3. CASE Writers(rsb, b) = {}
  BY <1>3 DEF VisibleByte, TypeInv
<1>4. CASE Writers(rsb, b) # {}
  <2>1. PICK m \in Writers(rsb, b) : m = Newest(rsb, Writers(rsb, b))
    BY <1>1, <1>2, <1>4, NewestIs
  <2>2. rsb[m].val \in [rsb[m].acc -> Vals] /\ b \in rsb[m].acc
    BY <1>1, <2>1 DEF Writers, Retired
  <2>3. rsb[m].val[b] \in Vals
    BY <2>2
  <2>4. QED
    BY <1>4, <2>1, <2>3 DEF VisibleByte
<1>5. QED
  BY <1>3, <1>4

\* Only stores have data.
LEMMA DataOfStore ==
  ASSUME NEW e \in Entries, Shaped(e), HasData(e)
  PROVE  IsStore(e)
BY DEF Entries, Shaped, HasData, IsStore, IsLoad

\* So is what a read would return.
LEMMA NowIn ==
  ASSUME TypeInv, ShapeInv, NEW i \in DOMAIN window, NEW b \in Bytes
  PROVE  Now(i, b) \in Vals
<1>1. /\ Len(window) \in Nat /\ DOMAIN window = 1..Len(window)
      /\ \A j \in DOMAIN window : window[j] \in Entries
  BY Windows
<1>2. CASE Sources(i, b) = {}
  BY <1>2, VisibleIn DEF Now
<1>3. CASE Sources(i, b) # {}
  <2>1. i \in Nat /\ i - 1 \in Nat
    BY <1>1
  <2>2. PICK m \in Sources(i, b) : m = Newest(window, Sources(i, b))
    BY <1>3, <2>1, SourcesIn, NewestIs
  <2>3. m \in DOMAIN window /\ b \in window[m].acc /\ IsStore(window[m]) /\ HasData(window[m])
    BY <1>1, <2>1 DEF Sources
  <2>4. PICK v \in Vals : window[m].val = [c \in window[m].acc |-> v]
    BY <2>3 DEF ShapeInv, Shaped
  <2>5. window[m].val[b] = v
    BY <2>3, <2>4
  <2>6. QED
    BY <1>3, <2>2, <2>5 DEF Now
<1>4. QED
  BY <1>2, <1>3

\* What is older, as positions.
LEMMA OlderIs ==
  ASSUME TypeInv, NEW i \in DOMAIN window
  PROVE  /\ DOMAIN Older(i) = 1..(Len(leaving) + (i - 1))
         /\ \A k \in 1..Len(leaving) : Older(i)[k] = leaving[k]
         /\ \A j \in 1..(i - 1) : Older(i)[Len(leaving) + j] = window[j]
<1>1. /\ Len(window) \in Nat /\ DOMAIN window = 1..Len(window) /\ window \in Seq(Entries)
      /\ Len(leaving) \in Nat /\ leaving \in Seq(Entries)
  BY Windows DEF TypeInv
<1>2. PICK n \in Nat : n = i - 1 /\ n <= Len(window)
  BY <1>1
<1>3. PICK w \in Seq(Entries) : w = SubSeq(window, 1, n) /\ Len(w) = n /\ \A j \in 1..n : w[j] = window[j]
  <2>2. SubSeq(window, 1, n) \in Seq(Entries)
    BY <1>1, <1>2
  <2>3. Len(SubSeq(window, 1, n)) = n /\ \A j \in 1..n : SubSeq(window, 1, n)[j] = window[j]
    BY <1>1, <1>2
  <2>4. QED
    BY <2>2, <2>3
<1>4. Older(i) = leaving \o w
  BY <1>2, <1>3 DEF Older
<1>5. /\ DOMAIN (leaving \o w) = 1..(Len(leaving) + n)
      /\ \A k \in 1..Len(leaving) : (leaving \o w)[k] = leaving[k]
      /\ \A j \in 1..n : (leaving \o w)[Len(leaving) + j] = w[j]
  <2>1. PICK L \in Nat : L = Len(leaving)
    BY <1>1
  <2>2. Len(leaving \o w) = L + n /\ leaving \o w \in Seq(Entries)
    BY <1>1, <1>3, <2>1, ConcatProperties
  <2>3. \A k \in 1..(L + n) : (leaving \o w)[k] = IF k <= L THEN leaving[k] ELSE w[k - L]
    BY <1>1, <1>3, <2>1, ConcatProperties
  <2>4. \A j \in 1..n : L + j \in 1..(L + n) /\ ~(L + j <= L) /\ (L + j) - L = j
    BY <2>1
  <2>5. QED
    BY <2>1, <2>2, <2>3, <2>4
<1>6. QED
  BY <1>2, <1>3, <1>4, <1>5

\* A load that is not held back overlaps no older store without data.
LEMMA NotBlocked ==
  ASSUME TypeInv, NEW i \in DOMAIN window, ~Blocked(Older(i), window[i]),
         NEW j \in 1..(i - 1), IsStore(window[j]), window[j].known, Overlap(window[j], window[i])
  PROVE  HasData(window[j])
<1>1. Len(leaving) \in Nat /\ i \in Nat
  BY Windows
<1>2. Len(leaving) + j \in DOMAIN Older(i) /\ Older(i)[Len(leaving) + j] = window[j]
  BY <1>1, OlderIs
<1>3. QED
  BY <1>2 DEF Blocked

\* The stores of this cycle's commit are in both queues, the newest byte wins in all.
LEMMA ReadIsNow ==
  ASSUME IInv, NEW i \in DOMAIN window, NEW b
  PROVE  ReadByte(Older(i), b) = Now(i, b)
<1>1. /\ Len(window) \in Nat /\ DOMAIN window = 1..Len(window)
      /\ \A j \in DOMAIN window : window[j] \in Entries
      /\ DOMAIN leaving = 1..Len(leaving)
      /\ \A j \in DOMAIN leaving : leaving[j] \in Entries
      /\ Len(rsb) \in Nat /\ DOMAIN rsb = 1..Len(rsb)
  BY Windows DEF IInv
<1>2. PICK L \in Nat : L = Len(leaving)
  BY Windows DEF IInv
<1>3. PICK O : O = Older(i)
  OBVIOUS
<1>4. /\ i \in Nat /\ DOMAIN O = 1..(L + (i - 1))
      /\ \A k \in 1..L : O[k] = leaving[k]
      /\ \A j \in 1..(i - 1) : O[L + j] = window[j]
  BY <1>1, <1>2, <1>3, OlderIs DEF IInv
<1>5. PICK P : P = {j \in Writers(O, b) : O[j].known /\ HasData(O[j])}
  OBVIOUS
<1>6. ReadByte(O, b) = IF P # {} THEN O[Newest(O, P)].val[b] ELSE VisibleByte(b)
  BY <1>5 DEF ReadByte, VisibleByte
<1>7. P \in SUBSET Nat
  BY <1>4, <1>5 DEF Writers
<1>8. ASSUME NEW j \in Sources(i, b) PROVE L + j \in P
  BY <1>4, <1>5 DEF Sources, Writers
<1>9. ASSUME NEW k \in P PROVE (k \in 1..L) \/ (k - L \in Sources(i, b))
  <2>1. k \in 1..(L + (i - 1)) /\ b \in O[k].acc /\ O[k].known /\ HasData(O[k])
    BY <1>4, <1>5 DEF Writers
  <2>2. CASE k > L
    <3>1. k - L \in 1..(i - 1) /\ L + (k - L) = k
      BY <1>4, <2>1, <2>2
    <3>2. O[k] = window[k - L] /\ k - L \in DOMAIN window
      BY <1>1, <1>4, <3>1
    <3>3. IsStore(window[k - L])
      BY <1>1, <2>1, <3>2, DataOfStore DEF IInv, ShapeInv
    <3>4. QED
      BY <2>1, <3>1, <3>2, <3>3 DEF Sources
  <2>3. QED
    BY <2>1, <2>2
<1>10. CASE Sources(i, b) # {}
  <2>1. i - 1 \in Nat
    BY <1>1
  <2>2. PICK m \in Sources(i, b) : m = Newest(window, Sources(i, b)) /\ \A k \in Sources(i, b) : k <= m
    BY <1>10, <2>1, <1>4, SourcesIn, NewestIs
  <2>3. m \in 1..(i - 1) /\ Sources(i, b) \subseteq Int
    BY <1>4, SourcesIn
  <2>4. L + m \in P
    BY <1>8
  <2>5. \A k \in P : k <= L + m
    <3> SUFFICES ASSUME NEW k \in P PROVE k <= L + m
      OBVIOUS
    <3>1. k \in Nat
      BY <1>7
    <3>2. CASE k \in 1..L
      BY <2>3, <3>2
    <3>3. CASE k - L \in Sources(i, b)
      <4>1. k - L <= m
        BY <2>2, <3>3
      <4>2. QED
        BY <2>3, <3>1, <4>1
    <3>4. QED
      BY <1>9, <3>2, <3>3
  <2>6. Newest(O, P) = L + m
    BY <1>7, <2>4, <2>5, NewestOf
  <2>7. O[L + m] = window[m]
    BY <1>4, <2>3
  <2>8. QED
    BY <1>3, <1>6, <1>10, <2>2, <2>4, <2>6, <2>7 DEF Now
<1>11. CASE Sources(i, b) = {}
  <2>1. Now(i, b) = VisibleByte(b)
    BY <1>11 DEF Now
  <2>2. CASE P = {}
    BY <1>3, <1>6, <2>1, <2>2
  <2>3. CASE P # {}
    <3>1. ASSUME NEW k \in P
          PROVE  /\ k = 1 /\ b \in leaving[1].acc /\ O[1] = leaving[1] /\ rsb # <<>>
                 /\ rsb[Len(rsb)] = [acc |-> leaving[1].acc, val |-> leaving[1].val]
      <4>1. k \in 1..L /\ k \in DOMAIN leaving /\ O[k] = leaving[k]
        BY <1>1, <1>2, <1>4, <1>9, <1>11
      <4>2. b \in leaving[k].acc /\ HasData(leaving[k])
        BY <1>5, <4>1 DEF Writers
      <4>3. IsStore(leaving[k])
        BY <1>1, <4>1, <4>2, DataOfStore DEF IInv, LeaveInv
      <4>4. k = 1
        BY <4>1, <4>3 DEF IInv, LeaveInv
      <4>5. QED
        BY <4>1, <4>2, <4>3, <4>4 DEF IInv, LeaveInv
    <3>2. PICK k \in P : TRUE
      BY <2>3
    <3>3. Newest(O, P) = 1
      BY <1>7, <3>1, <3>2, NewestOf
    <3>4. Len(rsb) \in 1..Len(rsb) /\ Len(rsb) \in Nat
      BY <1>1, <3>1, <3>2 DEF IInv, TypeInv
    <3>5. Len(rsb) \in Writers(rsb, b)
      BY <1>1, <3>1, <3>2, <3>4 DEF Writers
    <3>6. Writers(rsb, b) \in SUBSET Nat /\ \A k2 \in Writers(rsb, b) : k2 <= Len(rsb)
      BY <1>1 DEF Writers
    <3>7. Newest(rsb, Writers(rsb, b)) = Len(rsb)
      BY <3>5, <3>6, NewestOf
    <3>8. VisibleByte(b) = rsb[Len(rsb)].val[b]
      BY <3>5, <3>7 DEF VisibleByte
    <3>9. QED
      BY <1>3, <1>6, <2>1, <2>3, <3>1, <3>2, <3>3, <3>8
  <2>4. QED
    BY <2>2, <2>3
<1>12. QED
  BY <1>10, <1>11

\* What lu::run makes of the instruction at j.
LuStep(j) == IF j \in LoadAt("lu") THEN Read(j) ELSE Level2(window)[j]

\* A read: known, unmarked, and fresh unless it is held back.
LEMMA ReadStep ==
  ASSUME IInv, NEW j \in DOMAIN window, j \in LoadAt("lu"), NEW e, e = Read(j)
  PROVE  /\ e \in Entries /\ e.op = window[j].op /\ e.acc = window[j].acc /\ e.dat = window[j].dat
         /\ e.known /\ Shaped(e)
         /\ HasRead(e) => /\ ~Blocked(Older(j), window[j])
                          /\ \A b \in e.acc : e.val[b] = Now(j, b)
<1>1. window[j] \in Entries /\ IsLoad(window[j]) /\ Shaped(window[j])
  BY Windows DEF IInv, ShapeInv, LoadAt
<1>2. PICK v : v = IF Blocked(Older(j), window[j]) THEN NoVal
                   ELSE [b \in window[j].acc |-> ReadByte(Older(j), b)]
  OBVIOUS
<1>3. PICK f \in BOOLEAN : f <=> Blocked(Older(j), window[j])
  BY DEF Blocked
<1>4. window[j].acc \in Accesses /\ window[j].acc \subseteq Bytes
  BY <1>1, ConstAssumption DEF Entries
<1>5. ~f => v \in [window[j].acc -> Vals] /\ \A b \in window[j].acc : v[b] = Now(j, b)
  <2>1. \A b \in window[j].acc : ReadByte(Older(j), b) = Now(j, b) /\ Now(j, b) \in Vals
    BY <1>4, ReadIsNow, NowIn DEF IInv
  <2>2. QED
    BY <1>2, <1>3, <2>1
<1>6. v \in AnyVal
  BY <1>2, <1>3, <1>4, <1>5 DEF AnyVal
<1>7. e = [window[j] EXCEPT !.at = "l2", !.known = TRUE, !.conflict = FALSE, !.found = f, !.val = v]
  <2>1. f = Blocked(Older(j), window[j])
    BY <1>3 DEF Blocked
  <2>2. QED
    BY <1>2, <2>1 DEF Read
<1>8. /\ e \in Entries /\ e.op = window[j].op /\ e.acc = window[j].acc /\ e.dat = window[j].dat
      /\ e.at = "l2" /\ e.known = TRUE /\ e.found = f /\ e.val = v
  BY <1>1, <1>6, <1>7 DEF Entries
<1>9. HasRead(e) <=> ~f
  BY <1>1, <1>8 DEF HasRead, IsLoad
<1>10. Shaped(e)
  BY <1>1, <1>5, <1>8, <1>9 DEF Shaped, IsLoad, IsStore
<1>11. QED
  BY <1>3, <1>5, <1>8, <1>9, <1>10

\* Level 2: a load that has its value keeps it.
LEMMA Level2Step ==
  ASSUME IInv, NEW j \in DOMAIN window, NEW e, e = Level2(window)[j]
  PROVE  /\ e \in Entries /\ e.op = window[j].op /\ e.acc = window[j].acc /\ e.dat = window[j].dat
         /\ e.val = window[j].val /\ e.known = window[j].known /\ e.conflict = window[j].conflict
         /\ Shaped(e) /\ (HasRead(e) => HasRead(window[j]))
<1>1. window[j] \in Entries /\ Shaped(window[j])
  BY Windows DEF IInv, ShapeInv
<1>2. CASE j \notin LoadAt("l2")
  <2>1. e = window[j]
    BY <1>2 DEF Level2
  <2>2. QED
    BY <1>1, <2>1
<1>3. CASE j \in LoadAt("l2") /\ window[j].found
  <2>1. e = [window[j] EXCEPT !.at = "wait", !.found = FALSE]
    BY <1>3 DEF Level2
  <2>2. /\ e \in Entries /\ e.op = window[j].op /\ e.acc = window[j].acc /\ e.dat = window[j].dat
        /\ e.val = window[j].val /\ e.known = window[j].known /\ e.conflict = window[j].conflict
        /\ e.at = "wait" /\ IsLoad(e)
    <3>1. IsLoad(window[j])
      BY <1>3 DEF LoadAt
    <3>2. e \in Entries
      BY <1>1, <2>1 DEF Entries
    <3>3. QED
      BY <1>1, <2>1, <3>1, <3>2 DEF Entries, IsLoad
  <2>3. QED
    BY <1>1, <2>2 DEF Shaped, HasRead, IsLoad, IsStore
<1>4. CASE j \in LoadAt("l2") /\ ~window[j].found
  <2>1. e = [window[j] EXCEPT !.at = "done"]
    BY <1>4 DEF Level2
  <2>2. /\ e \in Entries /\ e.op = window[j].op /\ e.acc = window[j].acc /\ e.dat = window[j].dat
        /\ e.val = window[j].val /\ e.known = window[j].known /\ e.conflict = window[j].conflict
        /\ e.at = "done" /\ e.found = window[j].found /\ IsLoad(e)
    BY <1>1, <1>4, <2>1 DEF Entries, LoadAt, IsLoad
  <2>3. HasRead(window[j])
    BY <1>4 DEF HasRead, LoadAt
  <2>4. window[j].known /\ window[j].val \in [window[j].acc -> Vals] /\ window[j].dat = "none"
    BY <1>1, <2>3 DEF Shaped, HasRead
  <2>5. IsLoad(e) /\ ~IsStore(e) /\ e.dat = "none" /\ e.known /\ e.val \in [e.acc -> Vals] /\ ~e.found
    BY <1>4, <2>2, <2>4 DEF IsLoad, IsStore
  <2>6. Shaped(e)
    BY <2>5 DEF Shaped
  <2>7. QED
    BY <2>2, <2>3, <2>6
<1>5. QED
  BY <1>2, <1>3, <1>4

\* Without a lost mark, lu::run keeps what loads have read, or the mark over it.
LEMMA StepLu ==
  ASSUME IInv, Lu, ~MarkLost
  PROVE  IInv' /\ OpsKept
<1>1. /\ phase = "lu" /\ phase' = "sau" /\ UNCHANGED <<leaving, unit_vars>>
  BY DEF Lu
<1>2. \A b : VisibleByte(b)' = VisibleByte(b)
  BY <1>1, VisibleSame DEF unit_vars
<1>3. CASE window' = window
  BY <1>1, <1>3, WindowKept DEF OpsKept
<1>4. CASE window' = [j \in DOMAIN window |-> LuStep(j)]
  <2>0. /\ Len(window) \in Nat /\ DOMAIN window = 1..Len(window) /\ window \in Seq(Entries)
        /\ \A j \in DOMAIN window : window[j] \in Entries
    BY Windows DEF IInv, TypeInv
  <2>1. ASSUME NEW j \in DOMAIN window
        PROVE  /\ (window')[j] \in Entries /\ Shaped((window')[j])
               /\ (window')[j].op = window[j].op /\ (window')[j].acc = window[j].acc
               /\ (window')[j].dat = window[j].dat
    <3>1. CASE j \in LoadAt("lu")
      BY <1>4, <3>1, ReadStep DEF LuStep
    <3>2. CASE j \notin LoadAt("lu")
      BY <1>4, <3>2, Level2Step DEF LuStep
    <3>3. QED
      BY <3>1, <3>2
  <2>2. ASSUME NEW j \in DOMAIN window, j \notin LoadAt("lu")
        PROVE  /\ (window')[j].val = window[j].val /\ (window')[j].known = window[j].known
               /\ (window')[j].conflict = window[j].conflict
               /\ HasRead((window')[j]) => HasRead(window[j])
    BY <1>4, <2>2, Level2Step DEF LuStep
  <2>3. ASSUME NEW j \in DOMAIN window, j \in LoadAt("lu"), HasRead((window')[j])
        PROVE  /\ ~Blocked(Older(j), window[j])
               /\ \A b \in window[j].acc : (window')[j].val[b] = Now(j, b)
    BY <1>4, <2>1, <2>3, ReadStep DEF LuStep
  <2>4. ASSUME NEW j \in DOMAIN window, IsStore(window[j])
        PROVE  Steady(window[j], (window')[j])
    <3>1. j \notin LoadAt("lu")
      BY <2>4 DEF LoadAt, IsStore, IsLoad
    <3>2. QED
      BY <2>1, <2>2, <3>1 DEF Steady, HasData
  <2>5. DOMAIN window' = DOMAIN window /\ window' \in Seq(Entries)
    <3>1. DOMAIN window' = 1..Len(window) /\ window' = [i \in DOMAIN window' |-> (window')[i]]
      BY <1>4, <2>0
    <3>2. window' \in [1..Len(window) -> Entries]
      BY <2>0, <2>1, <3>1
    <3>3. QED
      BY <2>0, <3>1, <3>2, SeqDef
  <2>6. ShapeInv'
    BY <2>1, <2>5 DEF ShapeInv
  <2>7. ASSUME NEW k \in DOMAIN window, HasRead((window')[k])
        PROVE  Marked(k)' \/ Fresh(k)'
    <3>1. k \in Nat /\ (\A j \in 1..k : j \in DOMAIN window) /\ (\A j \in 1..(k - 1) : j \in 1..k)
      BY <2>0
    <3>2. \A j \in 1..(k - 1) :
            /\ (window')[j].op = window[j].op /\ (window')[j].acc = window[j].acc
            /\ IsStore(window[j]) => Steady(window[j], (window')[j])
      BY <2>1, <2>4, <3>1
    <3>3. CASE k \in LoadAt("lu")
      <4>1. ASSUME NEW j \in 1..(k - 1), IsStore((window')[j]), (window')[j].known,
                   Overlap((window')[j], (window')[k])
            PROVE  HasData((window')[j])
        <5>1. IsStore(window[j]) /\ Overlap(window[j], window[k])
          BY <2>1, <3>2, <4>1 DEF IsStore, Overlap
        <5>2. window[j].known
          BY <3>2, <4>1, <5>1 DEF Steady
        <5>3. HasData(window[j])
          BY <2>3, <2>7, <3>3, <5>1, <5>2, NotBlocked DEF IInv
        <5>4. QED
          BY <3>2, <5>1, <5>2, <5>3 DEF Steady
      <4>2. ASSUME NEW b \in (window')[k].acc PROVE (window')[k].val[b] = Now(k, b)'
        <5>1. Now(k, b)' = Now(k, b)
          BY <1>2, <3>1, <3>2, NowSame
        <5>2. (window')[k].val[b] = Now(k, b)
          BY <2>1, <2>3, <2>7, <3>3, <4>2
        <5>3. QED
          BY <5>1, <5>2
      <4>3. QED
        BY <4>1, <4>2 DEF Fresh
    <3>4. CASE k \notin LoadAt("lu")
      <4>1. HasRead(window[k])
        BY <2>2, <2>7, <3>4
      <4>2. CASE Marked(k)
        <5>1. PICK j \in 1..k : window[j].conflict
          BY <4>2 DEF Marked
        <5>2. j \notin LoadAt("lu")
          <6>1. SUFFICES ASSUME j \in LoadAt("lu") PROVE FALSE
            OBVIOUS
          <6>2. j # k /\ k > j
            BY <3>1, <3>4, <6>1
          <6>3. QED
            BY <1>1, <4>1, <5>1, <6>1, <6>2 DEF MarkLost
        <5>3. (window')[j].conflict
          BY <2>2, <3>1, <5>1, <5>2
        <5>4. QED
          BY <5>3 DEF Marked
      <4>3. CASE Fresh(k)
        <5>1. (window')[k].acc = window[k].acc /\ (window')[k].val = window[k].val
          BY <2>1, <2>2, <3>4
        <5>2. Fresh(k)'
          BY <1>2, <3>1, <3>2, <4>3, <5>1, FreshSame
        <5>3. QED
          BY <5>2
      <4>4. QED
        BY <4>1, <4>2, <4>3 DEF IInv, CaughtInv
    <3>5. QED
      BY <3>3, <3>4
  <2>8. CaughtInv'
    BY <2>5, <2>7 DEF CaughtInv
  <2>9. OpsKept
    BY <2>1, <2>5 DEF OpsKept
  <2>10. QED
    BY <1>1, <2>5, <2>6, <2>8, <2>9, InPlace
<1>5. QED
  BY <1>3, <1>4 DEF Lu, LuStep

-----------------------------------------------------------------------------
(***************************************************************************)
(* Commit.                                                                 *)
(***************************************************************************)

\* The oldest instruction leaves: what it wrote is now visible to all.
LEMMA TailNow ==
  ASSUME TypeInv, window # <<>>, window' = Tail(window),
         NEW k \in DOMAIN window', NEW b, VisibleByte(b)' = Now(2, b)
  PROVE  Now(k, b)' = Now(k + 1, b)
<1>1. /\ Len(window) \in Nat /\ DOMAIN window = 1..Len(window) /\ window \in Seq(Entries)
  BY Windows DEF TypeInv
<1>2. /\ DOMAIN window' = 1..(Len(window) - 1) /\ k \in Nat /\ k >= 1 /\ k < Len(window)
      /\ \A j \in 1..k : (window')[j] = window[j + 1]
  BY <1>1
<1>3. PICK S : S = Sources(k + 1, b)
  OBVIOUS
<1>4. PICK S2 : S2 = Sources(k, b)'
  OBVIOUS
<1>5. S \in SUBSET (1..k) /\ S2 \in SUBSET (1..(k - 1))
  <2>1. S \in SUBSET (1..((k + 1) - 1)) /\ (k + 1) - 1 = k
    BY <1>2, <1>3, SourcesIn
  <2>2. QED
    BY <1>4, <2>1 DEF Sources
<1>6. \A j \in 1..(k - 1) : j \in S2 <=> j + 1 \in S
  BY <1>2, <1>3, <1>4 DEF Sources
<1>7. Now(k, b)' = IF S2 = {} THEN Now(2, b) ELSE (window')[Newest(window', S2)].val[b]
  BY <1>4 DEF Now
<1>8. Now(k + 1, b) = IF S = {} THEN VisibleByte(b) ELSE window[Newest(window, S)].val[b]
  BY <1>3 DEF Now
<1>9. 1 \in S <=> 1 \in Sources(2, b)
  BY <1>2, <1>3 DEF Sources
<1>10. Sources(2, b) \subseteq {1}
  BY DEF Sources
<1>11. CASE S2 # {}
  <2>1. k - 1 \in Nat
    BY <1>5, <1>2, <1>11
  <2>2. PICK m \in S2 : m = Newest(window', S2) /\ \A j \in S2 : j <= m
    BY <1>5, <1>11, <2>1, NewestIs
  <2>3. m \in 1..(k - 1) /\ m + 1 \in S
    BY <1>5, <1>6
  <2>4. \A j \in S : j <= m + 1
    <3> SUFFICES ASSUME NEW j \in S PROVE j <= m + 1
      OBVIOUS
    <3>1. j \in 1..k
      BY <1>5
    <3>2. CASE j = 1
      BY <2>3, <3>2
    <3>3. CASE j # 1
      <4>1. j - 1 \in 1..(k - 1) /\ (j - 1) + 1 = j
        BY <1>2, <3>1, <3>3
      <4>2. j - 1 \in S2
        BY <1>6, <4>1
      <4>3. j - 1 <= m
        BY <2>2, <4>2
      <4>4. QED
        BY <2>3, <3>1, <4>3
    <3>4. QED
      BY <3>2, <3>3
  <2>5. S \in SUBSET Nat
    BY <1>5
  <2>6. Newest(window, S) = m + 1
    BY <2>3, <2>4, <2>5, NewestOf
  <2>7. (window')[m] = window[m + 1]
    BY <1>2, <2>3
  <2>8. QED
    BY <1>7, <1>8, <1>11, <2>2, <2>3, <2>6, <2>7
<1>12. CASE S2 = {}
  <2>1. ASSUME NEW j \in S PROVE j = 1
    <3>1. SUFFICES ASSUME j # 1 PROVE FALSE
      OBVIOUS
    <3>2. j - 1 \in 1..(k - 1) /\ (j - 1) + 1 = j
      BY <1>2, <1>5, <3>1
    <3>3. QED
      BY <1>6, <1>12, <3>2
  <2>2. CASE S = {}
    BY <1>7, <1>8, <1>9, <1>10, <1>12, <2>2 DEF Now
  <2>3. CASE S # {}
    <3>1. S = {1} /\ Sources(2, b) = {1}
      BY <1>9, <1>10, <2>1, <2>3
    <3>2. Now(2, b) = window[Newest(window, S)].val[b]
      BY <3>1 DEF Now
    <3>3. QED
      BY <1>7, <1>8, <1>12, <2>3, <3>2
  <2>4. QED
    BY <2>2, <2>3
<1>13. QED
  BY <1>11, <1>12

\* An unmarked head leaves.
LEMMA TailStep ==
  ASSUME IInv, window # <<>>, window' = Tail(window), ~window[1].conflict,
         \A b \in Bytes : VisibleByte(b)' = Now(2, b)
  PROVE  window' \in Seq(Entries) /\ ShapeInv' /\ CaughtInv'
<1>1. /\ Len(window) \in Nat /\ DOMAIN window = 1..Len(window) /\ window \in Seq(Entries)
      /\ \A j \in DOMAIN window : window[j] \in Entries
  BY Windows DEF IInv, TypeInv
<1>2. /\ window' \in Seq(Entries) /\ DOMAIN window' = 1..(Len(window) - 1)
      /\ \A j \in DOMAIN window' : (window')[j] = window[j + 1] /\ j + 1 \in DOMAIN window
  BY <1>1
<1>3. ShapeInv'
  BY <1>2 DEF IInv, ShapeInv
<1>4. ASSUME NEW k \in DOMAIN window', HasRead((window')[k])
      PROVE  Marked(k)' \/ Fresh(k)'
  <2>1. k \in Nat /\ k >= 1 /\ (k + 1) - 1 = k /\ \A j \in 1..k : j \in DOMAIN window'
    BY <1>1, <1>2
  <2>2. HasRead(window[k + 1]) /\ k + 1 \in DOMAIN window
    BY <1>2, <1>4
  <2>3. CASE Marked(k + 1)
    <3>1. PICK j \in 1..(k + 1) : window[j].conflict
      BY <2>3 DEF Marked
    <3>2. j - 1 \in 1..k /\ (j - 1) + 1 = j
      BY <2>1, <3>1
    <3>3. (window')[j - 1].conflict
      BY <1>2, <2>1, <3>1, <3>2
    <3>4. QED
      BY <3>2, <3>3 DEF Marked
  <2>4. CASE Fresh(k + 1)
    <3>1. ASSUME NEW j \in 1..(k - 1), IsStore((window')[j]), (window')[j].known,
                 Overlap((window')[j], (window')[k])
          PROVE  HasData((window')[j])
      <4>0. j \in 1..k /\ k \in 1..k /\ j + 1 \in 1..k
        BY <2>1
      <4>1. j + 1 \in 1..((k + 1) - 1) /\ (window')[j] = window[j + 1] /\ (window')[k] = window[k + 1]
        BY <1>2, <2>1, <4>0
      <4>2. QED
        BY <2>4, <3>1, <4>1 DEF Fresh
    <3>2. ASSUME NEW b \in (window')[k].acc PROVE (window')[k].val[b] = Now(k, b)'
      <4>1. (window')[k] = window[k + 1] /\ b \in window[k + 1].acc
        BY <1>2, <3>2
      <4>2. b \in Bytes
        BY <1>1, <2>2, <4>1, ConstAssumption DEF Entries
      <4>3. Now(k, b)' = Now(k + 1, b)
        BY <4>2, TailNow DEF IInv
      <4>4. QED
        BY <2>4, <4>1, <4>3 DEF Fresh
    <3>3. QED
      BY <3>1, <3>2 DEF Fresh
  <2>5. QED
    BY <2>2, <2>3, <2>4 DEF IInv, CaughtInv
<1>5. QED
  BY <1>2, <1>3, <1>4 DEF CaughtInv

\* What the first instruction of the window makes visible.
LEMMA FirstNow ==
  ASSUME NEW b
  PROVE  /\ Now(1, b) = VisibleByte(b)
         /\ Now(2, b) = IF /\ b \in window[1].acc /\ IsStore(window[1])
                           /\ window[1].known /\ HasData(window[1])
                        THEN window[1].val[b] ELSE VisibleByte(b)
<1>1. Sources(1, b) = {} /\ Sources(2, b) \subseteq {1}
  BY DEF Sources
<1>2. 1 \in Sources(2, b) <=> /\ b \in window[1].acc /\ IsStore(window[1])
                              /\ window[1].known /\ HasData(window[1])
  BY DEF Sources
<1>3. Now(1, b) = VisibleByte(b)
  BY <1>1 DEF Now
<1>4. CASE 1 \in Sources(2, b)
  <2>1. Sources(2, b) = {1}
    BY <1>1, <1>4
  <2>2. Newest(window, Sources(2, b)) = 1
    BY <2>1 DEF Newest
  <2>3. QED
    BY <1>2, <1>3, <1>4, <2>2 DEF Now
<1>5. CASE 1 \notin Sources(2, b)
  BY <1>1, <1>2, <1>3, <1>5 DEF Now
<1>6. QED
  BY <1>4, <1>5

\* The head of the window.
LEMMA HeadIs ==
  ASSUME IInv, window # <<>>
  PROVE  /\ 1 \in DOMAIN window /\ Head(window) = window[1]
         /\ window[1] \in Entries /\ Shaped(window[1])
<1>1. Len(window) \in Nat /\ DOMAIN window = 1..Len(window) /\ window \in Seq(Entries)
  BY Windows DEF IInv, TypeInv
<1>2. 1 \in DOMAIN window /\ Head(window) = window[1]
  BY <1>1
<1>3. QED
  BY <1>2, Windows DEF IInv, ShapeInv

\* A load retires.
LEMMA StepCommitLoad ==
  ASSUME IInv, CommitLoad
  PROVE  IInv'
<1>1. /\ phase = "commit" /\ phase' = "commit" /\ UNCHANGED <<rsb, ack, mem>>
      /\ window # <<>> /\ IsLoad(Head(window)) /\ ~Head(window).conflict
      /\ leaving' = Append(leaving, Head(window)) /\ window' = Tail(window) /\ slot' = slot + 1
  BY DEF CommitLoad, CanCommit, RetireHead
<1>2. /\ 1 \in DOMAIN window /\ Head(window) = window[1]
      /\ window[1] \in Entries /\ Shaped(window[1])
  BY <1>1, HeadIs
<1>3. \A b \in Bytes : VisibleByte(b)' = Now(2, b)
  BY <1>1, <1>2, VisibleSame, FirstNow DEF IsLoad, IsStore
<1>4. window' \in Seq(Entries) /\ ShapeInv' /\ CaughtInv'
  BY <1>1, <1>2, <1>3, TailStep
<1>5. /\ Len(leaving) \in Nat /\ leaving \in Seq(Entries) /\ DOMAIN leaving = 1..Len(leaving)
  BY Windows DEF IInv, TypeInv
<1>6. /\ leaving' \in Seq(Entries) /\ Len(leaving') = Len(leaving) + 1
      /\ DOMAIN leaving' = 1..(Len(leaving) + 1)
      /\ \A k \in DOMAIN leaving : (leaving')[k] = leaving[k]
      /\ (leaving')[Len(leaving) + 1] = window[1]
  BY <1>1, <1>2, <1>5
<1>7. TypeInv'
  BY <1>1, <1>4, <1>6 DEF IInv, TypeInv
<1>8. LeaveInv'
  <2>1. slot' = Len(leaving')
    BY <1>1, <1>5, <1>6 DEF IInv, LeaveInv
  <2>2. ASSUME NEW k \in DOMAIN leaving'
        PROVE  /\ Shaped((leaving')[k])
               /\ IsStore((leaving')[k]) =>
                     /\ k = 1 /\ (leaving')[k].known /\ HasData((leaving')[k])
                     /\ rsb # <<>>
                     /\ rsb[Len(rsb)] = [acc |-> (leaving')[k].acc, val |-> (leaving')[k].val]
    <3>1. CASE k \in DOMAIN leaving
      BY <1>6, <3>1 DEF IInv, LeaveInv
    <3>2. CASE k \notin DOMAIN leaving
      <4>1. k = Len(leaving) + 1
        BY <1>5, <1>6, <3>2
      <4>2. QED
        BY <1>1, <1>2, <1>6, <4>1 DEF IsLoad, IsStore
    <3>3. QED
      BY <3>1, <3>2
  <2>3. QED
    BY <1>1, <2>1, <2>2 DEF LeaveInv
<1>9. AckInv'
  BY <1>1 DEF IInv, AckInv
<1>10. QED
  BY <1>4, <1>7, <1>8, <1>9 DEF IInv

\* Memory with one more retired store over it.
LEMMA VisibleAppend ==
  ASSUME TypeInv, NEW r \in Retired, rsb' = Append(rsb, r), mem' = mem, NEW b
  PROVE  VisibleByte(b)' = IF b \in r.acc THEN r.val[b] ELSE VisibleByte(b)
<1>1. PICK n \in Nat : n = Len(rsb)
  BY Windows
<1>2. rsb \in Seq(Retired) /\ DOMAIN rsb = 1..n
  BY <1>1, Windows DEF TypeInv
<1>3. /\ DOMAIN rsb' = 1..(n + 1) /\ (rsb')[n + 1] = r
      /\ \A j \in 1..n : (rsb')[j] = rsb[j]
  BY <1>1, <1>2
<1>4. PICK S : S = Writers(rsb, b)
  OBVIOUS
<1>5. PICK S2 : S2 = Writers(rsb', b)
  OBVIOUS
<1>6. /\ S \in SUBSET (1..n) /\ S2 \in SUBSET (1..(n + 1))
      /\ \A j \in 1..n : j \in S2 <=> j \in S
      /\ n + 1 \in S2 <=> b \in r.acc
  BY <1>2, <1>3, <1>4, <1>5 DEF Writers
<1>7. VisibleByte(b)' = IF S2 = {} THEN mem[b] ELSE (rsb')[Newest(rsb', S2)].val[b]
  BY <1>5 DEF VisibleByte
<1>8. VisibleByte(b) = IF S = {} THEN mem[b] ELSE rsb[Newest(rsb, S)].val[b]
  BY <1>4 DEF VisibleByte
<1>9. CASE b \in r.acc
  <2>1. n + 1 \in S2 /\ S2 \in SUBSET Nat /\ \A k \in S2 : k <= n + 1
    BY <1>6, <1>9
  <2>2. Newest(rsb', S2) = n + 1
    BY <2>1, NewestOf
  <2>3. QED
    BY <1>3, <1>7, <1>9, <2>1, <2>2
<1>10. CASE b \notin r.acc
  <2>1. S2 = S
    <3>1. n + 1 \notin S2
      BY <1>6, <1>10
    <3>2. \A j \in 1..(n + 1) : j = n + 1 \/ j \in 1..n
      BY <1>1
    <3>3. S2 \subseteq 1..n /\ S \subseteq 1..n
      BY <1>6, <3>1, <3>2
    <3>4. QED
      BY <1>6, <3>3
  <2>2. CASE S = {}
    BY <1>7, <1>8, <1>10, <2>1, <2>2
  <2>3. CASE S # {}
    <3>1. PICK m \in S : m = Newest(rsb, S)
      BY <1>6, <2>3, NewestIs
    <3>2. Newest(rsb', S2) = m
      BY <2>1, <3>1 DEF Newest
    <3>3. (rsb')[m] = rsb[m]
      BY <1>3, <1>6
    <3>4. QED
      BY <1>7, <1>8, <1>10, <2>1, <2>3, <3>1, <3>2, <3>3
  <2>4. QED
    BY <2>2, <2>3
<1>11. QED
  BY <1>9, <1>10

\* What a store that retires takes along.
LEMMA CommitStoreIs ==
  ASSUME IInv, CommitStore
  PROVE  /\ 1 \in DOMAIN window /\ window[1] \in Entries /\ Shaped(window[1])
         /\ IsStore(window[1]) /\ window[1].known /\ HasData(window[1])
         /\ \E v \in Vals : window[1].val = [b \in window[1].acc |-> v]
         /\ [acc |-> window[1].acc, val |-> window[1].val] \in Retired
         /\ rsb' = Append(rsb, [acc |-> window[1].acc, val |-> window[1].val])
         /\ last' = [op |-> "store", acc |-> window[1].acc, val |-> window[1].val]
         /\ \A b \in Bytes : VisibleByte(b)' = Now(2, b)
<1>1. window # <<>> /\ IsStore(Head(window)) /\ Finished(Head(window))
  BY DEF CommitStore, CanCommit
<1>2. /\ 1 \in DOMAIN window /\ Head(window) = window[1]
      /\ window[1] \in Entries /\ Shaped(window[1])
  BY <1>1, HeadIs
<1>3. IsStore(window[1]) /\ window[1].known /\ HasData(window[1])
  BY <1>1, <1>2 DEF Finished, Shaped
<1>4. PICK v \in Vals : window[1].val = [b \in window[1].acc |-> v]
  BY <1>2, <1>3 DEF Shaped
<1>5. PICK r : r = [acc |-> window[1].acc, val |-> window[1].val]
  OBVIOUS
<1>6. r \in Retired
  <2>1. window[1].acc \in Accesses /\ window[1].val \in AnyVal
    BY <1>2 DEF Entries
  <2>2. r.acc = window[1].acc /\ r.val = window[1].val
    BY <1>5
  <2>3. r.val \in [r.acc -> Vals]
    BY <1>4, <2>2
  <2>4. r \in [acc : Accesses, val : AnyVal]
    BY <1>5, <2>1
  <2>5. QED
    BY <2>3, <2>4 DEF Retired
<1>7. rsb' = Append(rsb, r) /\ mem' = mem
  BY <1>2, <1>5 DEF CommitStore
<1>8. \A b \in Bytes : VisibleByte(b)' = Now(2, b)
  <2> SUFFICES ASSUME NEW b \in Bytes PROVE VisibleByte(b)' = Now(2, b)
    OBVIOUS
  <2>1. VisibleByte(b)' = IF b \in r.acc THEN r.val[b] ELSE VisibleByte(b)
    BY <1>6, <1>7, VisibleAppend DEF IInv
  <2>2. r.acc = window[1].acc /\ r.val = window[1].val
    BY <1>5
  <2>3. QED
    BY <1>3, <2>1, <2>2, FirstNow
<1>9. last' = [op |-> "store", acc |-> window[1].acc, val |-> window[1].val]
  BY <1>2, <1>3 DEF CommitStore, RetireHead, IsStore
<1>10. QED
  BY <1>2, <1>3, <1>4, <1>5, <1>6, <1>7, <1>8, <1>9

\* A store retires.
LEMMA StepCommitStore ==
  ASSUME IInv, CommitStore
  PROVE  IInv'
<1>1. /\ phase = "commit" /\ phase' = "commit" /\ UNCHANGED <<ack, mem>> /\ slot = 0
      /\ window # <<>> /\ Head(window) = window[1]
      /\ leaving' = Append(leaving, window[1]) /\ window' = Tail(window) /\ slot' = slot + 1
  BY HeadIs DEF CommitStore, CanCommit, RetireHead
<1>2. /\ 1 \in DOMAIN window /\ window[1] \in Entries /\ Shaped(window[1])
      /\ IsStore(window[1]) /\ window[1].known /\ HasData(window[1])
  BY CommitStoreIs
<1>3. PICK r \in Retired : /\ r = [acc |-> window[1].acc, val |-> window[1].val]
                           /\ rsb' = Append(rsb, r)
  BY CommitStoreIs
<1>4. window' \in Seq(Entries) /\ ShapeInv' /\ CaughtInv'
  <2>1. ~window[1].conflict
    BY <1>2 DEF Shaped
  <2>2. QED
    BY <1>1, <2>1, TailStep, CommitStoreIs
<1>5. leaving = <<>>
  BY <1>1, Windows DEF IInv, LeaveInv, TypeInv
<1>6. leaving' = <<window[1]>> /\ DOMAIN leaving' = {1} /\ Len(leaving') = 1 /\ (leaving')[1] = window[1]
  BY <1>1, <1>5
<1>7. rsb \in Seq(Retired) /\ Len(rsb) \in Nat
  BY Windows DEF IInv, TypeInv
<1>8. /\ rsb' \in Seq(Retired) /\ rsb' # <<>> /\ (rsb')[Len(rsb')] = r
      /\ rsb # <<>> => (rsb')[1] = rsb[1]
  BY <1>3, <1>7
<1>9. TypeInv'
  BY <1>1, <1>2, <1>4, <1>6, <1>8 DEF IInv, TypeInv
<1>10. LeaveInv'
  BY <1>1, <1>2, <1>3, <1>6, <1>8 DEF LeaveInv
<1>11. AckInv'
  BY <1>1, <1>8 DEF IInv, AckInv
<1>12. QED
  BY <1>4, <1>9, <1>10, <1>11 DEF IInv

\* A marked load is fetched again.
LEMMA StepCommitConflict ==
  ASSUME IInv, CommitConflict
  PROVE  IInv'
<1>1. /\ phase = "commit" /\ UNCHANGED <<phase, slot, leaving, rsb, ack, mem>> /\ window' = <<>>
  BY DEF CommitConflict, CanCommit
<1>2. TypeInv'
  BY <1>1 DEF IInv, TypeInv
<1>3. DOMAIN window' = {}
  BY <1>1
<1>4. ShapeInv' /\ CaughtInv'
  BY <1>3 DEF ShapeInv, CaughtInv
<1>5. LeaveInv'
  BY <1>1 DEF IInv, LeaveInv, Shaped, HasRead, IsLoad, IsStore, HasData
<1>6. AckInv'
  BY <1>1 DEF IInv, AckInv
<1>7. QED
  BY <1>2, <1>4, <1>5, <1>6 DEF IInv

\* The loop of commit ends.
LEMMA StepCommitEnd ==
  ASSUME IInv, CommitEnd
  PROVE  IInv'
<1>1. /\ phase' = "bru" /\ slot' = 0 /\ UNCHANGED <<window, leaving, rsb, ack, mem>>
  BY DEF CommitEnd
<1>2. TypeInv'
  BY <1>1 DEF IInv, TypeInv
<1>3. LeaveInv'
  BY <1>1 DEF IInv, LeaveInv, Shaped, HasRead, IsLoad, IsStore, HasData
<1>4. AckInv' /\ ShapeInv'
  BY <1>1 DEF IInv, AckInv, ShapeInv
<1>5. \A b : VisibleByte(b)' = VisibleByte(b)
  BY <1>1, VisibleSame
<1>6. \A i \in DOMAIN window : Fresh(i)' = Fresh(i) /\ Marked(i)' = Marked(i)
  BY <1>1, <1>5 DEF Fresh, Marked, Now, Sources
<1>7. CaughtInv'
  BY <1>1, <1>6 DEF IInv, CaughtInv
<1>8. QED
  BY <1>2, <1>3, <1>4, <1>7 DEF IInv

-----------------------------------------------------------------------------
(***************************************************************************)
(* Memory.                                                                 *)
(***************************************************************************)

\* The first retired store is written: the others still lie over it.
LEMMA VisibleWrite ==
  ASSUME TypeInv, rsb # <<>>, rsb' = rsb, mem' = Written(Head(rsb)), NEW b \in Bytes
  PROVE  VisibleByte(b)' = VisibleByte(b)
<1>1. Len(rsb) \in Nat /\ DOMAIN rsb = 1..Len(rsb) /\ rsb \in Seq(Retired)
  BY Windows DEF TypeInv
<1>2. 1 \in DOMAIN rsb /\ Head(rsb) = rsb[1]
  BY <1>1
<1>3. CASE Writers(rsb, b) = {}
  <2>1. b \notin rsb[1].acc
    BY <1>2, <1>3 DEF Writers
  <2>2. (mem')[b] = mem[b]
    BY <1>2, <2>1 DEF Written
  <2>3. VisibleByte(b)' = IF Writers(rsb', b) = {} THEN (mem')[b] ELSE (rsb')[Newest(rsb', Writers(rsb', b))].val[b]
    BY DEF VisibleByte
  <2>4. QED
    BY <1>3, <2>2, <2>3 DEF VisibleByte
<1>4. CASE Writers(rsb, b) # {}
  <2>1. VisibleByte(b)' = IF Writers(rsb', b) = {} THEN (mem')[b] ELSE (rsb')[Newest(rsb', Writers(rsb', b))].val[b]
    BY DEF VisibleByte
  <2>2. QED
    BY <1>4, <2>1 DEF VisibleByte
<1>5. QED
  BY <1>3, <1>4

\* A store that is in memory leaves the retired store buffer.
LEMMA VisiblePop ==
  ASSUME TypeInv, rsb # <<>>, rsb' = Tail(rsb), mem' = mem, NEW b,
         b \in rsb[1].acc => mem[b] = rsb[1].val[b]
  PROVE  VisibleByte(b)' = VisibleByte(b)
<1>1. PICK n \in Nat : n = Len(rsb)
  BY Windows
<1>2. DOMAIN rsb = 1..n /\ rsb \in Seq(Retired) /\ n > 0
  BY <1>1, Windows DEF TypeInv
<1>3. /\ DOMAIN rsb' = 1..(n - 1)
      /\ \A j \in 1..(n - 1) : (rsb')[j] = rsb[j + 1] /\ j + 1 \in 1..n
  BY <1>1, <1>2
<1>4. PICK S : S = Writers(rsb, b)
  OBVIOUS
<1>5. PICK S2 : S2 = Writers(rsb', b)
  OBVIOUS
<1>6. /\ S \in SUBSET (1..n) /\ S2 \in SUBSET (1..(n - 1))
      /\ \A j \in 1..(n - 1) : j \in S2 <=> j + 1 \in S
      /\ 1 \in S <=> b \in rsb[1].acc
  BY <1>2, <1>3, <1>4, <1>5 DEF Writers
<1>7. VisibleByte(b)' = IF S2 = {} THEN mem[b] ELSE (rsb')[Newest(rsb', S2)].val[b]
  BY <1>5 DEF VisibleByte
<1>8. VisibleByte(b) = IF S = {} THEN mem[b] ELSE rsb[Newest(rsb, S)].val[b]
  BY <1>4 DEF VisibleByte
<1>9. CASE S2 # {}
  <2>1. n - 1 \in Nat
    BY <1>2
  <2>2. PICK m \in S2 : m = Newest(rsb', S2) /\ \A j \in S2 : j <= m
    BY <1>6, <1>9, <2>1, NewestIs
  <2>3. m \in 1..(n - 1) /\ m + 1 \in S
    BY <1>6
  <2>4. \A j \in S : j <= m + 1
    <3> SUFFICES ASSUME NEW j \in S PROVE j <= m + 1
      OBVIOUS
    <3>1. j \in 1..n
      BY <1>6
    <3>2. CASE j = 1
      BY <2>3, <3>2
    <3>3. CASE j # 1
      <4>1. j - 1 \in 1..(n - 1) /\ (j - 1) + 1 = j
        BY <3>1, <3>3
      <4>2. j - 1 \in S2
        BY <1>6, <4>1
      <4>3. j - 1 <= m
        BY <2>2, <4>2
      <4>4. QED
        BY <2>3, <3>1, <4>3
    <3>4. QED
      BY <3>2, <3>3
  <2>5. S \in SUBSET Nat
    BY <1>6
  <2>6. Newest(rsb, S) = m + 1
    BY <2>3, <2>4, <2>5, NewestOf
  <2>7. (rsb')[m] = rsb[m + 1]
    BY <1>3, <2>3
  <2>8. QED
    BY <1>7, <1>8, <1>9, <2>2, <2>3, <2>6, <2>7
<1>10. CASE S2 = {}
  <2>1. ASSUME NEW j \in S PROVE j = 1
    <3>1. SUFFICES ASSUME j # 1 PROVE FALSE
      OBVIOUS
    <3>2. j - 1 \in 1..(n - 1) /\ (j - 1) + 1 = j
      BY <1>6, <3>1
    <3>3. QED
      BY <1>6, <1>10, <3>2
  <2>2. CASE S = {}
    BY <1>7, <1>8, <1>10, <2>2
  <2>3. CASE S # {}
    <3>1. S = {1}
      BY <2>1, <2>3
    <3>2. Newest(rsb, S) = 1
      BY <3>1 DEF Newest
    <3>3. mem[b] = rsb[1].val[b]
      BY <1>6, <3>1
    <3>4. QED
      BY <1>7, <1>8, <1>10, <2>3, <3>2, <3>3
  <2>4. QED
    BY <2>2, <2>3
<1>11. QED
  BY <1>9, <1>10

\* A request has a store to write.
LEMMA FrontIs ==
  ASSUME TypeInv, NEW s \in Seq(Retired), HasFront(s)
  PROVE  s # <<>>
<1>1. PICK n \in Nat : n = Len(leaving) /\ DOMAIN leaving = 1..n
  BY Windows
<1>2. IsFiniteSet(1..n)
  BY FS_Interval
<1>3. Stores(leaving) \subseteq 1..n
  BY <1>1 DEF Stores
<1>4. IsFiniteSet(Stores(leaving))
  BY <1>2, <1>3, FS_Subset
<1>5. Cardinality(Stores(leaving)) \in Nat
  BY <1>4, FS_CardinalityType
<1>6. QED
  BY <1>5 DEF HasFront

\* What is visible stays when memory and the retired store buffer do their step.
LEMMA MemoryIs ==
  ASSUME IInv, Memory
  PROVE  /\ rsb' \in Seq(Retired) /\ mem' \in [Bytes -> Vals] /\ ack' \in {"none", "wait", "ack"}
         /\ AckInv'
         /\ \A b \in Bytes : VisibleByte(b)' = VisibleByte(b)
<1>0. /\ rsb \in Seq(Retired) /\ Len(rsb) \in Nat /\ DOMAIN rsb = 1..Len(rsb)
      /\ mem \in [Bytes -> Vals] /\ ack \in {"none", "wait", "ack"} /\ AckInv /\ TypeInv
      /\ \A i \in DOMAIN rsb : rsb[i] \in Retired
  BY Windows DEF IInv, TypeInv
<1>1. rsb # <<>> => 1 \in DOMAIN rsb /\ rsb[1] \in Retired /\ Head(rsb) = rsb[1]
  BY <1>0
<1>2. CASE ack = "wait" /\ ack' = "ack" /\ mem' = Written(Head(rsb)) /\ UNCHANGED rsb
  <2>1. rsb # <<>>
    BY <1>0, <1>2 DEF AckInv
  <2>2. \A b \in rsb[1].acc : b \in Bytes /\ rsb[1].val[b] \in Vals
    BY <1>1, <2>1, ConstAssumption DEF Retired
  <2>3. mem' = [b \in Bytes |-> IF b \in rsb[1].acc THEN rsb[1].val[b] ELSE mem[b]]
    BY <1>1, <1>2, <2>1 DEF Written
  <2>4. mem' \in [Bytes -> Vals]
    BY <1>0, <2>2, <2>3
  <2>5. \A b \in rsb[1].acc : (mem')[b] = rsb[1].val[b]
    BY <2>2, <2>3
  <2>6. AckInv'
    BY <1>2, <2>1, <2>5 DEF AckInv
  <2>7. \A b \in Bytes : VisibleByte(b)' = VisibleByte(b)
    BY <1>0, <1>2, <2>1, VisibleWrite
  <2>8. QED
    BY <1>0, <1>2, <2>4, <2>6, <2>7
<1>3. CASE ack = "wait" /\ UNCHANGED <<ack, mem, rsb>>
  <2>1. AckInv'
    BY <1>0, <1>3 DEF AckInv
  <2>2. QED
    BY <1>0, <1>3, <2>1, VisibleSame
<1>4. CASE /\ ack # "wait" /\ UNCHANGED mem
           /\ rsb' = IF ack = "ack" THEN Tail(rsb) ELSE rsb
           /\ ack' = IF HasFront(rsb') THEN "wait" ELSE "none"
  <2>1. rsb' \in Seq(Retired)
    BY <1>0, <1>4 DEF AckInv
  <2>2. ack' # "none" => rsb' # <<>>
    BY <1>0, <1>4, <2>1, FrontIs
  <2>3. ack' # "ack" /\ ack' \in {"none", "wait", "ack"}
    BY <1>4
  <2>4. AckInv'
    BY <2>2, <2>3 DEF AckInv
  <2>5. ASSUME NEW b \in Bytes PROVE VisibleByte(b)' = VisibleByte(b)
    <3>1. CASE ack = "ack"
      <4>1. rsb' = Tail(rsb) /\ rsb # <<>> /\ (b \in rsb[1].acc => mem[b] = rsb[1].val[b])
        BY <1>0, <1>4, <3>1 DEF AckInv
      <4>2. QED
        BY <1>0, <1>4, <4>1, VisiblePop
    <3>2. CASE ack # "ack"
      BY <1>4, <3>2, VisibleSame
    <3>3. QED
      BY <3>1, <3>2
  <2>6. QED
    BY <1>0, <1>4, <2>1, <2>3, <2>4, <2>5
<1>5. QED
  BY <1>2, <1>3, <1>4 DEF Memory

\* The end of the cycle.
LEMMA StepMemory ==
  ASSUME IInv, Memory
  PROVE  IInv'
<1>1. /\ phase = "memory" /\ phase' = "sau_feedback" /\ leaving' = <<>>
      /\ UNCHANGED <<slot, window>>
  BY DEF Memory
<1>2. TypeInv'
  BY <1>1, MemoryIs DEF IInv, TypeInv
<1>3. ShapeInv'
  BY <1>1 DEF IInv, ShapeInv
<1>4. LeaveInv'
  <2>1. DOMAIN leaving' = {} /\ slot' = 0
    BY <1>1 DEF IInv, LeaveInv
  <2>2. QED
    BY <1>1, <2>1 DEF LeaveInv
<1>5. ASSUME NEW k \in DOMAIN window, HasRead(window[k])
      PROVE  Marked(k)' \/ Fresh(k)'
  <2>1. k \in Nat /\ window[k] \in Entries
    BY Windows DEF IInv
  <2>2. CASE Marked(k)
    BY <1>1, <2>2 DEF Marked
  <2>3. CASE Fresh(k)
    <3>1. ASSUME NEW b \in window[k].acc PROVE window[k].val[b] = Now(k, b)'
      <4>1. b \in Bytes
        BY <2>1, ConstAssumption DEF Entries
      <4>2. VisibleByte(b)' = VisibleByte(b)
        BY <4>1, MemoryIs
      <4>3. Now(k, b)' = Now(k, b)
        BY <1>1, <2>1, <4>2, NowSame DEF Steady
      <4>4. QED
        BY <2>3, <4>3 DEF Fresh
    <3>2. QED
      BY <1>1, <2>3, <3>1 DEF Fresh
  <2>4. QED
    BY <1>5, <2>2, <2>3 DEF IInv, CaughtInv
<1>6. CaughtInv'
  BY <1>1, <1>5 DEF CaughtInv
<1>7. QED
  BY <1>2, <1>3, <1>4, <1>6, MemoryIs DEF IInv

-----------------------------------------------------------------------------
(***************************************************************************)
(* The theorems.                                                           *)
(***************************************************************************)

\* The machine starts empty.
LEMMA InitIInv == Init => IInv
<1> SUFFICES ASSUME Init PROVE IInv
  OBVIOUS
<1>1. TypeInv
  BY DEF Init, TypeInv
<1>2. DOMAIN window = {} /\ DOMAIN leaving = {}
  BY DEF Init
<1>3. ShapeInv /\ CaughtInv
  BY <1>2 DEF ShapeInv, CaughtInv
<1>4. LeaveInv
  BY <1>2 DEF Init, LeaveInv
<1>5. AckInv
  BY DEF Init, AckInv
<1>6. QED
  BY <1>1, <1>3, <1>4, <1>5 DEF IInv

\* The invariant speaks of these variables only.
LEMMA IInvStutter == IInv /\ UNCHANGED vars => IInv'
<1> SUFFICES ASSUME IInv, UNCHANGED vars PROVE IInv'
  OBVIOUS
<1>1. UNCHANGED <<phase, slot, window, leaving, rsb, ack, mem>>
  BY DEF vars, unit_vars
<1>2. TypeInv' /\ ShapeInv' /\ AckInv'
  BY <1>1 DEF IInv, TypeInv, ShapeInv, AckInv
<1>3. LeaveInv'
  BY <1>1 DEF IInv, LeaveInv, Shaped, HasRead, IsLoad, IsStore, HasData
<1>4. \A b : VisibleByte(b)' = VisibleByte(b)
  BY <1>1, VisibleSame
<1>5. \A i \in DOMAIN window : Fresh(i)' = Fresh(i) /\ Marked(i)' = Marked(i)
  BY <1>1, <1>4 DEF Fresh, Marked, Now, Sources
<1>6. CaughtInv'
  BY <1>1, <1>5 DEF IInv, CaughtInv
<1>7. QED
  BY <1>2, <1>3, <1>6 DEF IInv

\* Every stage keeps the invariant, except where lu::run loses a mark.
LEMMA StepIInv == IInv /\ ~MarkLost /\ [Next]_vars => IInv'
<1> SUFFICES ASSUME IInv, ~MarkLost, Next \/ UNCHANGED vars PROVE IInv'
  OBVIOUS
<1>1. CASE SauFeedback
  BY <1>1, StepSauFeedback
<1>2. CASE CommitLoad
  BY <1>2, StepCommitLoad
<1>3. CASE CommitConflict
  BY <1>3, StepCommitConflict
<1>4. CASE CommitStore
  BY <1>4, StepCommitStore
<1>5. CASE CommitEnd
  BY <1>5, StepCommitEnd
<1>6. CASE Bru
  BY <1>6, StepBru
<1>7. CASE Lu
  BY <1>7, StepLu
<1>8. CASE Sau
  BY <1>8, StepSau
<1>9. CASE Sdu
  BY <1>9, StepSdu
<1>10. CASE Issue
  BY <1>10, StepIssue
<1>11. CASE Rename
  BY <1>11, StepRename
<1>12. CASE Memory
  BY <1>12, StepMemory
<1>13. CASE UNCHANGED vars
  BY <1>13, IInvStutter
<1>14. QED
  BY <1>1, <1>2, <1>3, <1>4, <1>5, <1>6, <1>7, <1>8, <1>9, <1>10, <1>11, <1>12, <1>13 DEF Next

\* When all older stores have executed, a read now is what the program defines.
LEMMA Caught == IInv => StaleLoadCaught
<1> SUFFICES ASSUME IInv, NEW i \in DOMAIN window,
                    IsLoad(window[i]), window[i].at \in {"l2", "done"}, ~window[i].found,
                    \A j \in 1..(i - 1) : IsStore(window[j]) => Finished(window[j])
             PROVE  \/ \A b \in window[i].acc : window[i].val[b] = ProgramByte(i, b)
                    \/ \E j \in 1..i : window[j].conflict
  BY DEF StaleLoadCaught
<1>1. Len(window) \in Nat /\ DOMAIN window = 1..Len(window)
  BY Windows DEF IInv
<1>2. Marked(i) \/ Fresh(i)
  BY DEF IInv, CaughtInv, HasRead
<1>3. CASE Marked(i)
  BY <1>3 DEF Marked
<1>4. CASE Fresh(i)
  <2>1. ASSUME NEW b \in window[i].acc PROVE window[i].val[b] = ProgramByte(i, b)
    <3>1. PICK js : js = {j \in Writers(window, b) : j < i /\ IsStore(window[j])}
      OBVIOUS
    <3>2. ASSUME NEW j \in 1..(i - 1), IsStore(window[j])
          PROVE  window[j].known /\ HasData(window[j])
      <4>1. j \in DOMAIN window /\ Finished(window[j])
        BY <1>1, <3>2
      <4>2. QED
        BY <3>2, <4>1 DEF IInv, ShapeInv, Shaped, Finished
    <3>3. \A j \in 1..(i - 1) : j \in DOMAIN window /\ j < i
      BY <1>1
    <3>4. \A j \in DOMAIN window : j < i => j \in 1..(i - 1)
      BY <1>1
    <3>5. Sources(i, b) = js
      BY <3>1, <3>2, <3>3, <3>4 DEF Sources, Writers
    <3>6. ProgramByte(i, b) = Now(i, b)
      BY <3>1, <3>5 DEF ProgramByte, Now
    <3>7. QED
      BY <1>4, <2>1, <3>6 DEF Fresh
  <2>2. QED
    BY <2>1
<1>5. QED
  BY <1>2, <1>3, <1>4

\* A machine that starts holds memory.
LEMMA InitAbstract == Init => Atomic!Init
<1> SUFFICES ASSUME Init PROVE Atomic!Init
  OBVIOUS
<1>1. TypeInv
  BY InitIInv DEF IInv
<1>2. \A b \in Bytes : VisibleByte(b) \in Vals
  BY <1>1, VisibleIn
<1>3. VisibleMemory \in [Bytes -> Vals]
  BY <1>2 DEF VisibleMemory
<1>4. QED
  BY <1>3 DEF Init, Atomic!Init

\* A load that retires unmarked has what a memory would give it.
LEMMA LoadAbstract ==
  ASSUME IInv, CommitLoad
  PROVE  \E acc \in Accesses : Atomic!Load(acc)
<1>1. /\ window # <<>> /\ IsLoad(Head(window)) /\ ~Head(window).conflict /\ Finished(Head(window))
      /\ UNCHANGED <<rsb, mem>>
      /\ last' = [op |-> Head(window).op, acc |-> Head(window).acc, val |-> Head(window).val]
  BY DEF CommitLoad, CanCommit, RetireHead
<1>2. /\ 1 \in DOMAIN window /\ Head(window) = window[1]
      /\ window[1] \in Entries /\ Shaped(window[1])
  BY <1>1, HeadIs
<1>3. HasRead(window[1])
  BY <1>1, <1>2 DEF HasRead, Finished, Shaped
<1>4. ~Marked(1)
  BY <1>1, <1>2 DEF Marked
<1>5. Fresh(1)
  BY <1>2, <1>3, <1>4 DEF IInv, CaughtInv
<1>6. PICK acc : acc = window[1].acc
  OBVIOUS
<1>7. acc \in Accesses /\ acc \subseteq Bytes
  BY <1>2, <1>6, ConstAssumption DEF Entries
<1>8. \A b \in acc : window[1].val[b] = VisibleMemory[b]
  BY <1>5, <1>6, <1>7, FirstNow DEF Fresh, VisibleMemory
<1>9. window[1].val \in [acc -> Vals]
  BY <1>2, <1>3, <1>6 DEF Shaped
<1>10. window[1].val = [b \in acc |-> VisibleMemory[b]]
  BY <1>8, <1>9
<1>11. last' = [op |-> "load", acc |-> acc, val |-> [b \in acc |-> VisibleMemory[b]]]
  BY <1>1, <1>2, <1>6, <1>10 DEF IsLoad
<1>12. VisibleMemory' = VisibleMemory
  BY <1>1, VisibleSame DEF VisibleMemory
<1>13. QED
  BY <1>7, <1>11, <1>12 DEF Atomic!Load

\* A store that retires is written for all.
LEMMA StoreAbstract ==
  ASSUME IInv, CommitStore
  PROVE  \E acc \in Accesses : \E v \in Vals : Atomic!Store(acc, v)
<1>1. PICK acc : acc = window[1].acc
  OBVIOUS
<1>2. PICK v \in Vals : window[1].val = [b \in acc |-> v]
  BY <1>1, CommitStoreIs
<1>3. /\ window[1] \in Entries /\ IsStore(window[1]) /\ window[1].known /\ HasData(window[1])
      /\ last' = [op |-> "store", acc |-> acc, val |-> [b \in acc |-> v]]
      /\ \A b \in Bytes : VisibleByte(b)' = Now(2, b)
  BY <1>1, <1>2, CommitStoreIs
<1>4. acc \in Accesses
  BY <1>1, <1>3 DEF Entries
<1>5. \A b \in Bytes : VisibleByte(b)' = IF b \in acc THEN v ELSE VisibleByte(b)
  <2> SUFFICES ASSUME NEW b \in Bytes PROVE VisibleByte(b)' = IF b \in acc THEN v ELSE VisibleByte(b)
    OBVIOUS
  <2>1. b \in acc => window[1].val[b] = v
    BY <1>2
  <2>2. QED
    BY <1>1, <1>3, <2>1, FirstNow
<1>6. VisibleMemory' = [b \in Bytes |-> IF b \in acc THEN v ELSE VisibleMemory[b]]
  BY <1>5 DEF VisibleMemory
<1>7. QED
  BY <1>3, <1>4, <1>6 DEF Atomic!Store

\* Every step retires a load, retires a store or retires nothing.
LEMMA StepAbstract == IInv /\ [Next]_vars => [Atomic!Next]_(Atomic!vars)
<1> SUFFICES ASSUME IInv, Next \/ UNCHANGED vars PROVE [Atomic!Next]_(Atomic!vars)
  OBVIOUS
<1>1. CASE CommitLoad
  BY <1>1, LoadAbstract DEF Atomic!Next
<1>2. CASE CommitStore
  BY <1>2, StoreAbstract DEF Atomic!Next
<1>3. CASE CommitConflict \/ CommitEnd
  <2>1. last' = NoOp /\ UNCHANGED <<rsb, mem>>
    BY <1>3 DEF CommitConflict, CommitEnd
  <2>2. VisibleMemory' = VisibleMemory
    BY <2>1, VisibleSame DEF VisibleMemory
  <2>3. QED
    BY <2>1, <2>2 DEF Atomic!Next, Atomic!Idle
<1>4. CASE SauFeedback \/ Bru \/ Lu \/ Sau \/ Sdu \/ Issue \/ Rename \/ UNCHANGED vars
  <2>1. UNCHANGED <<last, rsb, mem>>
    BY <1>4 DEF SauFeedback, Bru, Lu, Sau, Sdu, Issue, Rename, unit_vars, vars
  <2>2. VisibleMemory' = VisibleMemory
    BY <2>1, VisibleSame DEF VisibleMemory
  <2>3. QED
    BY <2>1, <2>2 DEF Atomic!vars
<1>5. CASE Memory
  <2>1. last' = last
    BY <1>5 DEF Memory
  <2>2. VisibleMemory' = VisibleMemory
    BY <1>5, MemoryIs DEF VisibleMemory
  <2>3. QED
    BY <2>1, <2>2 DEF Atomic!vars
<1>6. QED
  BY <1>1, <1>2, <1>3, <1>4, <1>5 DEF Next

\* As long as lu::run does not clear a mark on which a younger load depends, the
\* units keep what the properties need: in every such behaviour the invariant holds.
LEMMA Invariance == Spec /\ []~MarkLost => []IInv
BY InitIInv, StepIInv, PTL DEF Spec

\* A load that has read too early is caught by commit, unless its mark was lost
\* (sau::run marks the oldest such load, lu::run clears the mark of a load it reads
\* again): for all sizes, accesses and values, whatever executes when.
THEOREM StaleUntilLost == Spec /\ []~MarkLost => []StaleLoadCaught
BY Invariance, Caught, PTL

\* Memory is atomic and in program order as long as no mark is lost: out of order
\* reads, forwarding from the store buffer and the retired store buffer, replays,
\* rollbacks, conflict flushes and delayed writes cannot be told from a memory
\* that performs every load and store when it retires.
THEOREM MemoryUntilLost == Spec /\ []~MarkLost => InOrderMemory
BY InitAbstract, StepAbstract, Invariance, PTL DEF Spec, InOrderMemory, Atomic!Spec

\* A load that has just retired, against memory as the retired stores leave it.
RetiredLoad == last.op = "load" => last.acc \subseteq Bytes /\ LoadsExact

\* The abstract steps keep it.
LEMMA StepRetiredLoad ==
  ASSUME RetiredLoad, [Atomic!Next]_(Atomic!vars)
  PROVE  RetiredLoad'
<1>1. \A b \in Bytes : VisibleMemory[b] = VisibleByte(b) /\ (VisibleMemory')[b] = VisibleByte(b)'
  BY DEF VisibleMemory
<1>2. ASSUME NEW acc \in Accesses, Atomic!Load(acc) PROVE RetiredLoad'
  <2>1. /\ last' = [op |-> "load", acc |-> acc, val |-> [b \in acc |-> VisibleMemory[b]]]
        /\ VisibleMemory' = VisibleMemory
    BY <1>2 DEF Atomic!Load
  <2>2. acc \subseteq Bytes /\ (last').acc = acc
    BY <2>1, ConstAssumption
  <2>3. \A b \in acc : (last').val[b] = VisibleMemory[b]
    BY <2>1
  <2>4. \A b \in (last').acc : (last').val[b] = VisibleByte(b)'
    BY <1>1, <2>1, <2>2, <2>3
  <2>5. QED
    BY <2>2, <2>4 DEF RetiredLoad, LoadsExact
<1>3. ASSUME NEW acc \in Accesses, NEW v \in Vals, Atomic!Store(acc, v) PROVE RetiredLoad'
  <2>1. (last').op = "store"
    BY <1>3 DEF Atomic!Store
  <2>2. QED
    BY <2>1 DEF RetiredLoad
<1>4. CASE Atomic!Idle
  <2>1. (last').op = "none"
    BY <1>4 DEF Atomic!Idle, NoOp
  <2>2. QED
    BY <2>1 DEF RetiredLoad
<1>5. CASE UNCHANGED Atomic!vars
  <2>1. last' = last /\ VisibleMemory' = VisibleMemory
    BY <1>5 DEF Atomic!vars
  <2>2. SUFFICES ASSUME last.op = "load" PROVE last.acc \subseteq Bytes /\ LoadsExact'
    BY <2>1 DEF RetiredLoad
  <2>3. last.acc \subseteq Bytes /\ \A b \in last.acc : last.val[b] = VisibleByte(b)
    BY <2>2 DEF RetiredLoad, LoadsExact
  <2>4. \A b \in last.acc : last.val[b] = VisibleByte(b)'
    BY <1>1, <2>1, <2>3
  <2>5. QED
    BY <2>1, <2>3, <2>4 DEF LoadsExact
<1>6. QED
  BY <1>2, <1>3, <1>4, <1>5 DEF Atomic!Next

\* A load retires with the bytes the retired stores left, as long as no mark is
\* lost: what main.cpp would find wrong against the isa_model is a lost mark.
THEOREM LoadsUntilLost == Spec /\ []~MarkLost => []LoadsExact
<1>1. Init => RetiredLoad
  BY DEF Init, NoOp, RetiredLoad
<1>2. IInv /\ RetiredLoad /\ [Next]_vars => RetiredLoad'
  BY StepAbstract, StepRetiredLoad
<1>3. RetiredLoad => LoadsExact
  BY DEF RetiredLoad, LoadsExact
<1>4. QED
  BY <1>1, <1>2, <1>3, Invariance, PTL DEF Spec

=============================================================================
