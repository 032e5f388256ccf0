---------------------------- MODULE WakeupProofs ----------------------------
(***************************************************************************)
(* Wakeup, for every program, queue size and width.                        *)
(*                                                                         *)
(* An operand that is marked ready need not be there yet.  The first       *)
(* invariant says, for every phase of a cycle, what such a mark may rest   *)
(* on: the value is there; or the load it waits for is where bit 0, 1 or 2 *)
(* of the load position vector says; or a replay that takes the            *)
(* instruction back is certain, in this cycle or the next.  The second one *)
(* says the converse, which keeps an instruction from being executed a     *)
(* second time: whoever is called back has nothing on its way any more.    *)
(* The third one says that an issued instruction is on its way or will be  *)
(* called back, which keeps it from being dropped.                         *)
(***************************************************************************)
EXTENDS Wakeup, Integers, TLAPS, WellFoundedInduction

Bits == 0..2
Past == phase \in {"output", "wakeup"}
\* The loads among packs.
Lus(packs) == {p.op : p \in {q \in packs : q.unit = "lu"}}
AtMostOne(S) == \A x, y \in S : x = y

SourceT == [reg : 0..N, ready : BOOLEAN, shift : {0, 1}, lpv : SUBSET Bits]
PackT == [op : Ops, unit : {"alu", "lu", "sau", "sdu"}, lpv : SUBSET Bits]
HdffT == [op : Ops, unit : {"alu", "lu", "sau", "sdu"}, ok : BOOLEAN]
SlotType(e) ==
    /\ e = [op |-> e.op, valid |-> e.valid, issued |-> e.issued, port |-> e.port,
            src1 |-> e.src1, src2 |-> e.src2, cur_lpv |-> e.cur_lpv,
            parts |-> e.parts, waits |-> e.waits]
    /\ e.valid \in BOOLEAN /\ e.issued \in BOOLEAN
    /\ e.src1 \in SourceT /\ e.src2 \in SourceT
    /\ e.valid => /\ e.op \in Ops
                  /\ e.src1.reg = prog[e.op].src1 /\ e.src2.reg = prog[e.op].src2
QueueTypes ==
    /\ iq = [s \in IntSlots |-> iq[s]] /\ \A s \in IntSlots : SlotType(iq[s])
    /\ lq = [s \in LsuSlots |-> lq[s]] /\ \A s \in LsuSlots : SlotType(lq[s])
PackTypes ==
    /\ int_port \subseteq PackT /\ lsu_port \subseteq PackT /\ hold \subseteq PackT
    /\ \A p \in int_port : p.unit = "alu"
    /\ \A p \in lsu_port \cup hold : p.unit # "alu"
    /\ hdff \subseteq HdffT
    /\ AtMostOne(Lus(lsu_port)) /\ AtMostOne(Lus(hold)) /\ AtMostOne(Packs("lu"))
FlagTypes ==
    /\ phase \in {"execute", "readreg", "output", "wakeup"}
    /\ prog \in Programs /\ cut \in 0..N
    /\ l2 \in 0..N /\ l2_conflict_found \in BOOLEAN /\ l2_stall \in BOOLEAN
    /\ l2_last_last_stall \in BOOLEAN /\ busy \in BOOLEAN /\ rr_stall \in BOOLEAN
    /\ lu \in [op : 0..N, stall : BOOLEAN, replay : BOOLEAN, following : BOOLEAN]
Types == QueueTypes /\ PackTypes /\ FlagTypes

\* How readreg and the feedback of lu go together with the state of lu.
Links ==
    /\ phase = "execute" => (busy <=> l2_stall)
    /\ phase # "execute" =>
         /\ wb_port = exec /\ (l2_stall <=> lu.stall)
         /\ lu.stall => lu.replay /\ lu.following /\ lu.op = l2
         /\ lu.following /\ ~lu.stall => lu.op \in exec
    /\ phase = "readreg" => \A p \in hdff : lu.stall /\ p.unit = "lu"
    /\ Past => (busy <=> lu.stall)
    /\ phase = "wakeup" /\ lu.stall => lsu_port = {}


-----------------------------------------------------------------------------
(***************************************************************************)
(* What a ready operand, and a pack, may rest on.                          *)
(***************************************************************************)
\* Before the units run: the results that are there or will be in this cycle.
Sure == regs \cup wb_port \cup Packs("alu") \cup {0}
SureNow == IF phase = "execute" THEN Sure ELSE Available \cup Packs("alu")

\* If an instruction younger than the load at level 2 has bit 0 it will be called back,
\* since the load itself has stalled, or those before it.
Forced(i) == l2_last_last_stall /\ l2 # 0 /\ l2 < i
\* The same one cycle earlier, for bit 1.
StalledBehind(i) == l2_stall /\ \E m \in Packs("lu") : m < i

\* Its producer was sent by the integer queue, with no other load position vector.
ByPort(s) == \E q \in int_port : q.op = s.reg /\ q.lpv \subseteq s.lpv
Held(s) == busy /\ s.reg \in Lus(hold) /\ 2 \in s.lpv

Ready0(i, s, lsu) ==
    \/ s.reg \in Sure
    \/ 0 \in s.lpv /\ (s.reg = l2 \/ Forced(i))
    \/ 1 \in s.lpv /\ (s.reg \in Packs("lu") \/ StalledBehind(i))
    \/ ByPort(s)
    \/ lsu /\ Held(s)
Coming0(s) ==
    /\ ~busy /\ 2 \in s.lpv
    /\ \E p \in lsu_port : p.unit = "lu" /\ p.op = s.reg /\ p.lpv \subseteq s.lpv

\* After the units have run: the loads at level 1 at the start of the cycle.
Level1Loads == IF lu.stall THEN Packs("lu") ELSE {l2} \ {0}
Behind(i) == (lu.stall \/ l2_last_last_stall) /\ \E m \in Level1Loads : m < i

Ready1(i, s, lsu) ==
    \/ s.reg \in Available
    \/ lu.replay /\ 0 \in s.lpv
    \/ 1 \in s.lpv /\ (s.reg \in Level1Loads \/ Behind(i))
    \/ ByPort(s)
    \/ lsu /\ Held(s)

\* After readreg: the loads sent or held by readreg.
Level0Loads == IF lu.stall THEN Lus(hold) ELSE Packs("lu")

Ready2(i, s, lsu) ==
    \/ s.reg \in Available \cup Packs("alu")
    \/ lu.replay /\ 0 \in s.lpv
    \/ 1 \in s.lpv /\ (s.reg \in Level1Loads \/ Behind(i))
    \/ lsu /\ 2 \in s.lpv /\ s.reg \in Level0Loads /\ (lu.stall \/ rr_stall)
Coming2(s) ==
    /\ 2 \in s.lpv
    /\ (lu.replay /\ 0 \in s.lpv) \/ s.reg \in Level0Loads

SourceInv(i, s, lsu) ==
    /\ phase = "execute" =>
         /\ s.ready => Ready0(i, s, lsu)
         /\ ~s.ready /\ s.shift = 1 => Coming0(s)
    /\ phase = "readreg" /\ i <= cut =>
         /\ s.ready => Ready1(i, s, lsu)
         /\ ~s.ready /\ s.shift = 1 => Coming0(s)
    /\ Past /\ i <= cut =>
         /\ s.ready => Ready2(i, s, lsu)
         /\ ~s.ready /\ s.shift = 1 => Coming2(s)
SlotInv(e, lsu) == e.valid => SourceInv(e.op, e.src1, lsu) /\ SourceInv(e.op, e.src2, lsu)
SlotsInv == /\ \A s \in IntSlots : SlotInv(iq[s], FALSE)
            /\ \A s \in LsuSlots : SlotInv(lq[s], TRUE)

\* A pack p that reads n.
Need0(p, n) ==
    \/ n \in SureNow
    \/ 0 \in p.lpv /\ (n = l2 \/ Forced(p.op))
    \/ p.unit = "alu" /\ 1 \in p.lpv /\ StalledBehind(p.op)
Need1(p, n) ==
    \/ n \in Available
    \/ lu.replay /\ 0 \in p.lpv
    \/ p.unit = "alu" /\ 1 \in p.lpv /\ Behind(p.op)
PackInv(p) ==
    /\ phase \in {"execute", "wakeup"} => \A n \in Needs(p) : Need0(p, n)
    /\ phase = "readreg" /\ p.op <= cut => \A n \in Needs(p) : Need1(p, n)
HoldInv(p) ==
    /\ 0 \notin p.lpv
    /\ phase = "execute" => Needs(p) \subseteq Sure
    /\ (phase = "readreg" /\ p.op <= cut) \/ Past => Needs(p) \subseteq Available
PacksInv == /\ \A p \in int_port \cup lsu_port : PackInv(p)
            /\ \A p \in hold : HoldInv(p)

Inv1 == Types /\ Links /\ SlotsInv /\ PacksInv /\ OperandsReady


-----------------------------------------------------------------------------
(***************************************************************************)
(* Operators.                                                              *)
(***************************************************************************)
\* Membership in the operations of packs.
LEMMA LusDef == \A packs, x : x \in Lus(packs) <=> \E p \in packs : p.unit = "lu" /\ p.op = x
BY DEF Lus

\* Membership in the operations of the packs for a unit.
LEMMA PacksDef == \A u, x : x \in Packs(u) <=> \E p \in hdff : p.unit = u /\ p.op = x
BY DEF Packs

\* The same in the next state.
LEMMA PacksDefNext == \A u, x : x \in Packs(u)' <=> \E p \in hdff' : p.unit = u /\ p.op = x
BY DEF Packs

\* The operands of an instruction are older than it.
LEMMA SourcesOlder ==
    ASSUME FlagTypes, NEW i \in Ops
    PROVE  /\ prog[i].src1 \in 0..N /\ prog[i].src1 < i
           /\ prog[i].src2 \in 0..N /\ prog[i].src2 < i
           /\ Kind(i) \in Kinds
BY ConstAssumption DEF FlagTypes, Ops, Kind

\* What a pack reads is older than it.
LEMMA NeedsOlder ==
    ASSUME FlagTypes, NEW p, p.op \in Ops, NEW n \in Needs(p)
    PROVE  n \in 0..N /\ n < p.op
BY SourcesOlder DEF Needs

\* A shifted load position vector.
LEMMA ShiftBits ==
    ASSUME NEW l \in SUBSET Bits
    PROVE  /\ Shift(l) \in SUBSET Bits /\ ShiftedLpv(l) \in SUBSET Bits
           /\ 2 \notin Shift(l)
           /\ 0 \in Shift(l) <=> 1 \in l
           /\ 1 \in Shift(l) <=> 2 \in l
BY DEF Shift, ShiftedLpv, Bits


\* The checks of a replay and a stall: nothing else becomes of an operand.
LEMMA CheckedCases ==
    ASSUME NEW s \in SourceT, NEW b \in BOOLEAN
    PROVE  LET c == Checked(s, b)
               d == [c EXCEPT !.lpv = ShiftedLpv(@)]
           IN /\ d \in SourceT /\ d.reg = s.reg
              /\ d.lpv = ShiftedLpv(s.lpv)
              /\ d.ready \/ d.shift = 1 =>
                   /\ ~Cancelled(s) /\ ~(b /\ Asleep(s))
                   /\ d.ready = s.ready /\ d.shift = s.shift
<1> DEFINE c == Checked(s, b)
           d == [c EXCEPT !.lpv = ShiftedLpv(@)]
<1>1. /\ c \in SourceT /\ c.reg = s.reg /\ c.lpv = s.lpv
      /\ c.ready \/ c.shift = 1 =>
           /\ ~Cancelled(s) /\ ~(b /\ Asleep(s))
           /\ c.ready = s.ready /\ c.shift = s.shift
  <2>1. CASE Cancelled(s) \/ (b /\ Asleep(s))
    <3>1. c = [s EXCEPT !.ready = FALSE, !.shift = 0]
      BY <2>1 DEF Checked
    <3> HIDE DEF c
    <3>2. c \in SourceT /\ c.reg = s.reg /\ c.lpv = s.lpv /\ ~c.ready /\ c.shift = 0
      BY <3>1 DEF SourceT
    <3> QED BY <3>2
  <2>2. CASE ~(Cancelled(s) \/ (b /\ Asleep(s)))
    BY <2>2 DEF Checked
  <2> QED BY <2>1, <2>2
<1> HIDE DEF c
<1>2. c.lpv \in SUBSET Bits
  BY <1>1 DEF SourceT
<1>3. ShiftedLpv(c.lpv) \in SUBSET Bits
  BY <1>2, ShiftBits
<1>4. /\ d \in SourceT /\ d.reg = c.reg /\ d.lpv = ShiftedLpv(c.lpv)
      /\ d.ready = c.ready /\ d.shift = c.shift
  BY <1>1, <1>3 DEF SourceT
<1> HIDE DEF d
<1> QED BY <1>1, <1>4 DEF d, c

\* The last steps of a wakeup, for an operand d that was checked and shifted.
LEMMA WokenTail ==
    ASSUME PackTypes, NEW d \in SourceT
    PROVE  LET w == WokenByResult(WokenByIssue(Delayed(d)))
           IN /\ w \in SourceT /\ w.reg = d.reg
              /\ w.ready => \/ d.ready /\ w.lpv = d.lpv
                            \/ ~d.ready /\ d.shift = 1 /\ w.lpv = d.lpv
                            \/ \E p \in int_port : p.op = d.reg /\ w.lpv = p.lpv
                            \/ d.reg \in exec /\ w.lpv = {}
              /\ ~w.ready /\ w.shift = 1 =>
                   \E p \in lsu_port : p.unit = "lu" /\ p.op = d.reg /\ w.lpv = p.lpv \cup {2}
              /\ d.ready => w.ready /\ w.lpv = d.lpv
<1> DEFINE y == Delayed(d)
           v == WokenByIssue(y)
           w == WokenByResult(v)
<1>1. /\ y \in SourceT /\ y.reg = d.reg /\ y.lpv = d.lpv
      /\ y.ready <=> d.ready \/ d.shift = 1
      /\ ~y.ready => y.shift = 0
  <2>1. CASE ~d.ready /\ d.shift = 1
    <3>1. y = [d EXCEPT !.ready = d.shift = 1, !.shift = @ \div 2]
      BY <2>1 DEF Delayed
    <3>2. 1 \div 2 = 0
      OBVIOUS
    <3>3. y = [d EXCEPT !.ready = TRUE, !.shift = 0]
      BY <2>1, <3>1, <3>2
    <3> HIDE DEF y
    <3> QED BY <2>1, <3>3 DEF SourceT
  <2>2. CASE ~(~d.ready /\ d.shift = 1)
    <3>1. y = d
      BY <2>2 DEF Delayed, SourceT
    <3> HIDE DEF y
    <3> QED BY <2>2, <3>1 DEF SourceT
  <2> QED BY <2>1, <2>2
<1>2. /\ v \in SourceT /\ v.reg = y.reg
      /\ v.ready => \/ y.ready /\ v.lpv = y.lpv
                    \/ ~y.ready /\ \E p \in int_port : p.op = y.reg /\ v.lpv = p.lpv
      /\ ~v.ready /\ v.shift = 1 =>
           \E p \in lsu_port : p.unit = "lu" /\ p.op = y.reg /\ v.lpv = p.lpv \cup {2}
      /\ y.ready => v = y
  <2>1. CASE ~y.ready /\ \E x \in Wakes : x.rd = y.reg
    <3> DEFINE x == CHOOSE u \in Wakes : u.rd = y.reg
    <3>1. x \in Wakes /\ x.rd = y.reg
      BY <2>1
    <3>2. PICK p \in int_port \cup lsu_port : p.unit \in {"alu", "lu"} /\ x = Wake(p)
      BY <3>1 DEF Wakes
    <3>3. v = [y EXCEPT !.ready = x.shift = 0, !.shift = IF x.shift = 0 THEN @ ELSE x.shift,
                        !.lpv = x.lpv]
      BY <2>1 DEF WokenByIssue
    <3> HIDE DEF x, v, y
    <3>4. CASE p.unit = "lu"
      <4>1. x.rd = p.op /\ x.shift = 1 /\ x.lpv = p.lpv \cup {2}
        BY <3>2, <3>4 DEF Wake, INIT_LPV
      <4>2. p \in lsu_port /\ p.lpv \cup {2} \in SUBSET Bits
        BY <3>4 DEF PackTypes, PackT, Bits
      <4> QED BY <1>1, <2>1, <3>1, <3>3, <3>4, <4>1, <4>2 DEF SourceT
    <3>5. CASE p.unit = "alu"
      <4>1. x.rd = p.op /\ x.shift = 0 /\ x.lpv = p.lpv
        BY <3>2, <3>5 DEF Wake
      <4>2. p \in int_port /\ p.lpv \in SUBSET Bits
        BY <3>5 DEF PackTypes, PackT
      <4> QED BY <1>1, <2>1, <3>1, <3>3, <4>1, <4>2 DEF SourceT
    <3> QED BY <3>2, <3>4, <3>5
  <2>2. CASE ~(~y.ready /\ \E x \in Wakes : x.rd = y.reg)
    <3>1. v = y
      BY <2>2 DEF WokenByIssue
    <3> HIDE DEF v, y
    <3> QED BY <1>1, <2>2, <3>1
  <2> QED BY <2>1, <2>2
<1>3. /\ w \in SourceT /\ w.reg = v.reg
      /\ w.ready => \/ v.ready /\ w = v
                    \/ v.reg \in exec /\ w.lpv = {}
      /\ ~w.ready => w = v
      /\ v.ready => w = v
  <2> HIDE DEF v
  <2> QED BY <1>2 DEF WokenByResult, SourceT
<1> HIDE DEF y, v, w
<1>4. /\ w \in SourceT /\ w.reg = d.reg
      /\ w.ready => \/ d.ready /\ w.lpv = d.lpv
                    \/ ~d.ready /\ d.shift = 1 /\ w.lpv = d.lpv
                    \/ \E p \in int_port : p.op = d.reg /\ w.lpv = p.lpv
                    \/ d.reg \in exec /\ w.lpv = {}
      /\ ~w.ready /\ w.shift = 1 =>
           \E p \in lsu_port : p.unit = "lu" /\ p.op = d.reg /\ w.lpv = p.lpv \cup {2}
      /\ d.ready => w.ready /\ w.lpv = d.lpv
  BY <1>1, <1>2, <1>3
<1> QED BY <1>4 DEF w, v, y

\* How an operand can be ready, or about to be, after a wakeup.
LEMMA WokenCases ==
    ASSUME PackTypes, NEW s \in SourceT, NEW b \in BOOLEAN
    PROVE  LET w == Woken(s, b)
           IN /\ w \in SourceT /\ w.reg = s.reg
              /\ w.ready => \/ /\ s.ready \/ s.shift = 1
                               /\ ~Cancelled(s) /\ ~(b /\ Asleep(s))
                               /\ w.lpv = ShiftedLpv(s.lpv)
                            \/ \E p \in int_port : p.op = s.reg /\ w.lpv = p.lpv
                            \/ s.reg \in exec /\ w.lpv = {}
              /\ ~w.ready /\ w.shift = 1 =>
                   \E p \in lsu_port : p.unit = "lu" /\ p.op = s.reg /\ w.lpv = p.lpv \cup {2}
              /\ s.ready /\ ~Cancelled(s) /\ ~(b /\ Asleep(s)) =>
                   w.ready /\ w.lpv = ShiftedLpv(s.lpv)
<1> DEFINE c == Checked(s, b)
           d == [c EXCEPT !.lpv = ShiftedLpv(@)]
           w == WokenByResult(WokenByIssue(Delayed(d)))
<1>1. /\ d \in SourceT /\ d.reg = s.reg
      /\ d.lpv = ShiftedLpv(s.lpv)
      /\ d.ready \/ d.shift = 1 =>
           /\ ~Cancelled(s) /\ ~(b /\ Asleep(s))
           /\ d.ready = s.ready /\ d.shift = s.shift
  BY CheckedCases
<1>2. s.ready /\ ~Cancelled(s) /\ ~(b /\ Asleep(s)) => d.ready
  BY DEF Checked, SourceT
<1>3. w = Woken(s, b)
  BY DEF Woken
<1> HIDE DEF d
<1>4. /\ w \in SourceT /\ w.reg = d.reg
      /\ w.ready => \/ d.ready /\ w.lpv = d.lpv
                    \/ ~d.ready /\ d.shift = 1 /\ w.lpv = d.lpv
                    \/ \E p \in int_port : p.op = d.reg /\ w.lpv = p.lpv
                    \/ d.reg \in exec /\ w.lpv = {}
      /\ ~w.ready /\ w.shift = 1 =>
           \E p \in lsu_port : p.unit = "lu" /\ p.op = d.reg /\ w.lpv = p.lpv \cup {2}
      /\ d.ready => w.ready /\ w.lpv = d.lpv
  BY <1>1, WokenTail
<1> HIDE DEF w
<1> QED BY <1>1, <1>2, <1>3, <1>4


-----------------------------------------------------------------------------
(***************************************************************************)
(* The queues after a wakeup.                                              *)
(***************************************************************************)
\* The shape of a slot.
Slot(op, valid, issued, port, src1, src2, cur_lpv, parts, waits) ==
    [op |-> op, valid |-> valid, issued |-> issued, port |-> port, src1 |-> src1, src2 |-> src2,
     cur_lpv |-> cur_lpv, parts |-> parts, waits |-> waits]

\* f is what is left of the slot e of the integer queue.
IntKept(e, f) ==
    /\ e.valid /\ e.op <= cut /\ f.op = e.op
    /\ ~(Units(e) # {} /\ SentLpv(e) = {})
    /\ ~(e.issued /\ ~IntBack(e) /\ Safe(Lpv(e)))
    /\ f.issued <=> Units(e) # {} \/ (e.issued /\ ~IntBack(e))
    /\ f.src1 = Woken(e.src1, TRUE) /\ f.src2 = Woken(e.src2, TRUE)

\* f is what is left of the slot e of the load/store queue.
LsuKept(e, f) ==
    /\ e.valid /\ e.op <= cut /\ f.op = e.op
    /\ ~(e.issued /\ ~LsuBack(e) /\ Safe(Lpv(e) \cup e.cur_lpv))
    /\ f.issued <=> LastUop(e) \/ (e.issued /\ ~LsuBack(e))
    /\ LET cur == IF "lu" \in Units(e) THEN INIT_LPV ELSE e.cur_lpv
       IN f.cur_lpv = IF e.issued THEN ShiftedLpv(cur) ELSE cur
    /\ f.src1 = Woken(e.src1, FALSE) /\ f.src2 = Woken(e.src2, FALSE)

\* f is the slot of an instruction that has just come.
Fresh(f, kinds) ==
    /\ f.op \in Waiting(kinds) /\ ~f.issued
    /\ f.src1 = Source(prog[f.op].src1, prog[f.op].src1 \in Available)
    /\ f.src2 = Source(prog[f.op].src2, prog[f.op].src2 \in Available)

\* A slot of the integer queue after run_wakeup.
LEMMA IntWakeupSlot ==
    ASSUME Types, NEW s \in IntSlots
    PROVE  /\ SlotType(IntWakeup(s))
           /\ IntWakeup(s).valid => IntKept(iq[s], IntWakeup(s))
<1> DEFINE e == iq[s]
           v == ~(Units(e) # {} /\ SentLpv(e) = {})
                /\ ~(e.issued /\ ~IntBack(e) /\ Safe(Lpv(e)))
           i == Units(e) # {} \/ (e.issued /\ ~IntBack(e))
           a == Woken(e.src1, TRUE)
           b == Woken(e.src2, TRUE)
<1>1. SlotType(e)
  BY DEF Types, QueueTypes
<1>2. a \in SourceT /\ a.reg = e.src1.reg /\ b \in SourceT /\ b.reg = e.src2.reg
  BY <1>1, WokenCases DEF SlotType, Types
<1>3. v \in BOOLEAN /\ i \in BOOLEAN
  OBVIOUS
<1>4. CASE ~e.valid
  <2>1. IntWakeup(s) = e
    BY <1>4 DEF IntWakeup
  <2> QED BY <1>1, <1>4, <2>1
<1>5. CASE e.valid /\ e.op > cut
  <2>1. IntWakeup(s) = [e EXCEPT !.valid = FALSE]
    BY <1>5 DEF IntWakeup
  <2> HIDE DEF e
  <2>2. IntWakeup(s) = Slot(e.op, FALSE, e.issued, e.port, e.src1, e.src2, e.cur_lpv, e.parts, e.waits)
    BY <1>1, <2>1 DEF SlotType, Slot
  <2> QED BY <1>1, <2>2 DEF SlotType, Slot
<1>6. CASE e.valid /\ ~(e.op > cut)
  <2>1. IntWakeup(s) = [e EXCEPT !.valid = v, !.issued = i, !.src1 = a, !.src2 = b]
    BY <1>6 DEF IntWakeup
  <2>0. e.op <= cut
    BY <1>1, <1>6 DEF SlotType, Types, FlagTypes, Ops
  <2> HIDE DEF e, v, i, a, b
  <2>2. IntWakeup(s) = Slot(e.op, v, i, e.port, a, b, e.cur_lpv, e.parts, e.waits)
    BY <1>1, <2>1 DEF SlotType, Slot
  <2>3. SlotType(IntWakeup(s))
    BY <1>1, <1>2, <1>3, <1>6, <2>2 DEF SlotType, Slot
  <2>4. ASSUME v PROVE IntKept(e, IntWakeup(s))
    <3>1. /\ IntWakeup(s).op = e.op /\ IntWakeup(s).issued = i
          /\ IntWakeup(s).src1 = a /\ IntWakeup(s).src2 = b
      BY <2>2 DEF Slot
    <3> QED BY <1>6, <2>0, <2>4, <3>1 DEF IntKept, v, i, a, b
  <2>5. IntWakeup(s).valid = v
    BY <2>2 DEF Slot
  <2> QED BY <2>3, <2>4, <2>5 DEF e
<1> QED BY <1>1, <1>4, <1>5, <1>6

\* A slot of the load/store queue after run_wakeup.
LEMMA LsuWakeupSlot ==
    ASSUME Types, NEW s \in LsuSlots
    PROVE  /\ SlotType(LsuWakeup(s))
           /\ LsuWakeup(s).valid => LsuKept(lq[s], LsuWakeup(s))
<1> DEFINE e == lq[s]
           cur == IF "lu" \in Units(e) THEN INIT_LPV ELSE e.cur_lpv
           left == e.issued /\ ~LsuBack(e) /\ Safe(Lpv(e) \cup e.cur_lpv)
           v == ~(LastUop(e) /\ Kind(e.op) = "store" /\ SentLpv(e) = {}) /\ ~left
           i == LastUop(e) \/ (e.issued /\ ~LsuBack(e))
           k == IF e.issued THEN ShiftedLpv(cur) ELSE cur
           x == IF lu.replay /\ AtLevel2(Lpv(e)) THEN {} ELSE e.parts \cup (Units(e) \ {"lu"})
           a == Woken(e.src1, FALSE)
           b == Woken(e.src2, FALSE)
           y == IF WaitingStores(lq) = {} \/ Oldest(WaitingStores(lq)) > e.waits THEN 0
                ELSE e.waits
<1>1. SlotType(e)
  BY DEF Types, QueueTypes
<1>2. a \in SourceT /\ a.reg = e.src1.reg /\ b \in SourceT /\ b.reg = e.src2.reg
  BY <1>1, WokenCases DEF SlotType, Types
<1>3. v \in BOOLEAN /\ i \in BOOLEAN
  OBVIOUS
<1>4. CASE ~e.valid
  <2>1. LsuWakeup(s) = e
    BY <1>4 DEF LsuWakeup
  <2> QED BY <1>1, <1>4, <2>1
<1>5. CASE e.valid /\ e.op > cut
  <2>1. LsuWakeup(s) = [e EXCEPT !.valid = FALSE]
    BY <1>5 DEF LsuWakeup
  <2> HIDE DEF e
  <2>2. LsuWakeup(s) = Slot(e.op, FALSE, e.issued, e.port, e.src1, e.src2, e.cur_lpv, e.parts, e.waits)
    BY <1>1, <2>1 DEF SlotType, Slot
  <2> QED BY <1>1, <2>2 DEF SlotType, Slot
<1>6. CASE e.valid /\ ~(e.op > cut)
  <2>1. LsuWakeup(s) = [e EXCEPT !.valid = v, !.issued = i, !.cur_lpv = k, !.parts = x,
                                 !.src1 = a, !.src2 = b, !.waits = y]
    BY <1>6 DEF LsuWakeup
  <2>0. e.op <= cut
    BY <1>1, <1>6 DEF SlotType, Types, FlagTypes, Ops
  <2> HIDE DEF e, v, i, k, x, a, b, y
  <2>2. LsuWakeup(s) = Slot(e.op, v, i, e.port, a, b, k, x, y)
    BY <1>1, <2>1 DEF SlotType, Slot
  <2>3. SlotType(LsuWakeup(s))
    BY <1>1, <1>2, <1>3, <1>6, <2>2 DEF SlotType, Slot
  <2>4. ASSUME v PROVE LsuKept(e, LsuWakeup(s))
    <3>1. /\ LsuWakeup(s).op = e.op /\ LsuWakeup(s).issued = i
          /\ LsuWakeup(s).src1 = a /\ LsuWakeup(s).src2 = b /\ LsuWakeup(s).cur_lpv = k
      BY <2>2 DEF Slot
    <3> QED BY <1>6, <2>0, <2>4, <3>1 DEF LsuKept, v, i, a, b, k
  <2>5. LsuWakeup(s).valid = v
    BY <2>2 DEF Slot
  <2> QED BY <2>3, <2>4, <2>5 DEF e
<1> QED BY <1>1, <1>4, <1>5, <1>6

\* A slot that is not in use, after the last step of a wakeup.
LEMMA SettledSlot ==
    ASSUME NEW l, NEW m
    PROVE  [FreeSlot EXCEPT !.src1.lpv = l, !.src2.lpv = m] =
             Slot(0, FALSE, FALSE, 0, [reg |-> 0, ready |-> FALSE, shift |-> 0, lpv |-> l],
                  [reg |-> 0, ready |-> FALSE, shift |-> 0, lpv |-> m], {}, {}, 0)
<1>1. PICK f, a, b : /\ f = [FreeSlot EXCEPT !.src1.lpv = l, !.src2.lpv = m]
                     /\ a = [reg |-> 0, ready |-> FALSE, shift |-> 0, lpv |-> l]
                     /\ b = [reg |-> 0, ready |-> FALSE, shift |-> 0, lpv |-> m]
  OBVIOUS
<1>2. f = Slot(0, FALSE, FALSE, 0, a, b, {}, {}, 0)
  BY <1>1, ZenonT(60) DEF FreeSlot, Source, Slot
<1> QED BY <1>1, <1>2, Zenon

\* The last step of a wakeup changes slots that are not in use only.
LEMMA SettledSlots ==
    ASSUME NEW S, NEW q, q = [s \in S |-> q[s]], \A s \in S : SlotType(q[s])
    PROVE  /\ Settled(q) = [s \in S |-> Settled(q)[s]]
           /\ \A s \in S : /\ SlotType(Settled(q)[s])
                           /\ Settled(q)[s].valid => Settled(q)[s] = q[s]
                           /\ q[s].valid => Settled(q)[s] = q[s]
<1>1. DOMAIN q = S
  OBVIOUS
<1>2. Settled(q) = [s \in S |-> Settled(q)[s]]
  BY <1>1 DEF Settled
<1>3. ASSUME NEW s \in S
      PROVE  /\ SlotType(Settled(q)[s])
             /\ Settled(q)[s].valid => Settled(q)[s] = q[s]
             /\ q[s].valid => Settled(q)[s] = q[s]
  <2>1. CASE q[s].valid
    BY <1>1, <2>1 DEF Settled
  <2>2. CASE ~q[s].valid
    <3> DEFINE e == q[s]
               a == [reg |-> 0, ready |-> FALSE, shift |-> 0, lpv |-> e.src1.lpv]
               b == [reg |-> 0, ready |-> FALSE, shift |-> 0, lpv |-> e.src2.lpv]
    <3>1. Settled(q)[s] = [FreeSlot EXCEPT !.src1.lpv = e.src1.lpv, !.src2.lpv = e.src2.lpv]
      BY <1>1, <2>2 DEF Settled
    <3>2. Settled(q)[s] = Slot(0, FALSE, FALSE, 0, a, b, {}, {}, 0)
      BY <3>1, SettledSlot, Zenon
    <3>3. e.src1.lpv \in SUBSET Bits /\ e.src2.lpv \in SUBSET Bits
      BY DEF SlotType, SourceT
    <3>4. a \in SourceT /\ b \in SourceT
      BY <3>3, ConstAssumption DEF SourceT
    <3> HIDE DEF a, b
    <3>5. SlotType(Settled(q)[s]) /\ ~Settled(q)[s].valid
      <4> DEFINE f == Settled(q)[s]
      <4>1. /\ f = [op |-> f.op, valid |-> f.valid, issued |-> f.issued, port |-> f.port,
                    src1 |-> f.src1, src2 |-> f.src2, cur_lpv |-> f.cur_lpv,
                    parts |-> f.parts, waits |-> f.waits]
            /\ f.valid = FALSE /\ f.issued = FALSE /\ f.src1 = a /\ f.src2 = b
        BY <3>2 DEF Slot
      <4> HIDE DEF f
      <4> QED BY <3>4, <4>1 DEF SlotType, f
    <3> QED BY <3>5, <2>2
  <2> QED BY <2>1, <2>2
<1> QED BY <1>2, <1>3

\* A new entry.
LEMMA NewEntrySlot ==
    ASSUME Types, NEW i \in Ops
    PROVE  LET g == NewEntry(i)
           IN /\ SlotType(g) /\ g.op = i /\ g.valid = TRUE /\ g.issued = FALSE
              /\ g.src1 = Source(prog[i].src1, prog[i].src1 \in Available)
              /\ g.src2 = Source(prog[i].src2, prog[i].src2 \in Available)
<1> DEFINE a == Source(prog[i].src1, prog[i].src1 \in Available)
           b == Source(prog[i].src2, prog[i].src2 \in Available)
           g == NewEntry(i)
<1>1. prog[i].src1 \in 0..N /\ prog[i].src2 \in 0..N
  BY SourcesOlder DEF Types
<1>2. /\ a \in SourceT /\ a.reg = prog[i].src1
      /\ b \in SourceT /\ b.reg = prog[i].src2
  BY <1>1 DEF Source, SourceT, Bits
<1>3. g = [FreeSlot EXCEPT !.op = i, !.valid = TRUE, !.src1 = a, !.src2 = b]
  BY DEF NewEntry
<1> HIDE DEF a, b
<1>4. g = Slot(i, TRUE, FALSE, 0, a, b, {}, {}, 0)
  BY <1>3 DEF FreeSlot, Slot
<1> HIDE DEF g
<1>5. /\ g = [op |-> g.op, valid |-> g.valid, issued |-> g.issued, port |-> g.port,
              src1 |-> g.src1, src2 |-> g.src2, cur_lpv |-> g.cur_lpv,
              parts |-> g.parts, waits |-> g.waits]
      /\ g.op = i /\ g.valid = TRUE /\ g.issued = FALSE /\ g.src1 = a /\ g.src2 = b
  BY <1>4 DEF Slot
<1>6. SlotType(g)
  BY <1>2, <1>5 DEF SlotType
<1> QED BY <1>5, <1>6 DEF a, b, g

\* The same with a port.
LEMMA PortSlot ==
    ASSUME NEW g, SlotType(g), NEW port, NEW h, h = [g EXCEPT !.port = port]
    PROVE  /\ SlotType(h) /\ h.op = g.op /\ h.issued = g.issued
           /\ h.src1 = g.src1 /\ h.src2 = g.src2
<1>1. h = Slot(g.op, g.valid, g.issued, port, g.src1, g.src2, g.cur_lpv, g.parts, g.waits)
  BY DEF SlotType, Slot
<1> QED BY <1>1 DEF SlotType, Slot

\* The same with its first load position vector and a store to wait for.
WithLpv(g, l, w) == [g EXCEPT !.cur_lpv = l, !.waits = w]

\* Nothing else changes.
LEMMA LpvSlot ==
    ASSUME NEW g, SlotType(g), NEW l, NEW w, NEW h, h = WithLpv(g, l, w)
    PROVE  /\ SlotType(h) /\ h.op = g.op /\ h.issued = g.issued
           /\ h.src1 = g.src1 /\ h.src2 = g.src2
<1>1. h = Slot(g.op, g.valid, g.issued, g.port, g.src1, g.src2, l, g.parts, w)
  BY DEF SlotType, Slot, WithLpv
<1> QED BY <1>1 DEF SlotType, Slot

\* The oldest of one.
LEMMA OldestOne ==
    ASSUME NEW x \in Nat
    PROVE  Oldest({x}) = x
BY DEF Oldest

\* The integer queue after a cycle.
LEMMA IntQueueNext ==
    ASSUME Types, NEW ints \in NextOne({"alu"}), NEW lsus, Issue(ints, lsus)
    PROVE  /\ iq' = [s \in IntSlots |-> iq'[s]]
           /\ \A s \in IntSlots : SlotType(iq'[s])
           /\ \E o : \A s \in IntSlots : iq'[s].valid =>
                \/ IntKept(iq[s], iq'[s])
                \/ s = o /\ Fresh(iq'[s], {"alu"}) /\ ints = {iq'[s].op}
<1> DEFINE q == [s \in IntSlots |-> IntWakeup(s)]
<1>1. /\ q = [s \in IntSlots |-> q[s]]
      /\ \A s \in IntSlots : SlotType(q[s]) /\ (q[s].valid => IntKept(iq[s], q[s]))
  BY IntWakeupSlot
<1>2. CASE ints = {}
  <2>1. iq' = Settled(q)
    BY <1>2 DEF Issue
  <2> HIDE DEF q
  <2>2. /\ iq' = [s \in IntSlots |-> iq'[s]]
        /\ \A s \in IntSlots : SlotType(iq'[s]) /\ (iq'[s].valid => iq'[s] = q[s])
    BY <1>1, <2>1, SettledSlots
  <2> QED BY <1>1, <2>2
<1>3. CASE ints # {}
  <2>1. PICK port \in Ports : iq' = Settled(IntInput(q, Oldest(ints), port))
    BY <1>3 DEF Issue
  <2>2. PICK i : ints = {i}
    BY <1>3 DEF NextOne
  <2>3. i \in Waiting({"alu"}) /\ i \in Ops
    <3>1. ints \subseteq Waiting({"alu"})
      BY DEF Issue
    <3>2. cut \in 0..N /\ N \in Nat
      BY ConstAssumption DEF Types, FlagTypes
    <3> QED BY <2>2, <3>1, <3>2 DEF Waiting, Upto, Ops
  <2>4. Oldest(ints) = i
    BY <2>2, <2>3, OldestOne DEF Ops
  <2> HIDE DEF q
  <2> DEFINE o == Oldest(FreeSlots(q))
             r == IntInput(q, i, port)
             g == [NewEntry(i) EXCEPT !.port = port]
  <2>5. r = [q EXCEPT ![o] = g]
    BY DEF IntInput
  <2>6. /\ SlotType(NewEntry(i)) /\ NewEntry(i).op = i /\ NewEntry(i).issued = FALSE
        /\ NewEntry(i).src1 = Source(prog[i].src1, prog[i].src1 \in Available)
        /\ NewEntry(i).src2 = Source(prog[i].src2, prog[i].src2 \in Available)
    BY <2>3, NewEntrySlot
  <2>7. /\ SlotType(g) /\ g.op = NewEntry(i).op /\ g.issued = NewEntry(i).issued
        /\ g.src1 = NewEntry(i).src1 /\ g.src2 = NewEntry(i).src2
    BY <2>6, PortSlot
  <2>8. SlotType(g) /\ Fresh(g, {"alu"}) /\ g.op = i
    <3> HIDE DEF g
    <3> QED BY <2>3, <2>6, <2>7 DEF Fresh
  <2> HIDE DEF g, r, o
  <2>9. /\ r = [s \in IntSlots |-> r[s]]
        /\ \A s \in IntSlots : r[s] = IF s = o THEN g ELSE q[s]
    BY <1>1, <2>5
  <2>10. \A s \in IntSlots : SlotType(r[s])
    BY <1>1, <2>8, <2>9
  <2>11. iq' = Settled(r)
    BY <2>1, <2>4 DEF r
  <2>12. /\ iq' = [s \in IntSlots |-> iq'[s]]
         /\ \A s \in IntSlots : SlotType(iq'[s]) /\ (iq'[s].valid => iq'[s] = r[s])
    BY <2>9, <2>10, <2>11, SettledSlots
  <2> QED BY <1>1, <2>2, <2>8, <2>9, <2>12
<1> QED BY <1>2, <1>3

\* The load/store queue after a cycle.
LEMMA LsuQueueNext ==
    ASSUME Types, NEW ints, NEW lsus \in NextOne({"load", "store"}), Issue(ints, lsus)
    PROVE  /\ lq' = [s \in LsuSlots |-> lq'[s]]
           /\ \A s \in LsuSlots : SlotType(lq'[s])
           /\ \E o : \A s \in LsuSlots : lq'[s].valid =>
                \/ LsuKept(lq[s], lq'[s])
                \/ s = o /\ Fresh(lq'[s], {"load", "store"}) /\ lsus = {lq'[s].op}
<1> DEFINE q == [s \in LsuSlots |-> LsuWakeup(s)]
<1>1. /\ q = [s \in LsuSlots |-> q[s]]
      /\ \A s \in LsuSlots : SlotType(q[s]) /\ (q[s].valid => LsuKept(lq[s], q[s]))
  BY LsuWakeupSlot
<1>2. CASE lsus = {}
  <2>1. lq' = Settled(q)
    BY <1>2 DEF Issue
  <2> HIDE DEF q
  <2>2. /\ lq' = [s \in LsuSlots |-> lq'[s]]
        /\ \A s \in LsuSlots : SlotType(lq'[s]) /\ (lq'[s].valid => lq'[s] = q[s])
    BY <1>1, <2>1, SettledSlots
  <2> QED BY <1>1, <2>2
<1>3. CASE lsus # {}
  <2>1. PICK wait \in BOOLEAN : lq' = Settled(LsuInput(q, Oldest(lsus), wait))
    BY <1>3 DEF Issue
  <2>2. PICK i : lsus = {i}
    BY <1>3 DEF NextOne
  <2>3. i \in Waiting({"load", "store"}) /\ i \in Ops
    <3>1. lsus \subseteq Waiting({"load", "store"})
      BY DEF Issue
    <3>2. cut \in 0..N /\ N \in Nat
      BY ConstAssumption DEF Types, FlagTypes
    <3> QED BY <2>2, <3>1, <3>2 DEF Waiting, Upto, Ops
  <2>4. Oldest(lsus) = i
    BY <2>2, <2>3, OldestOne DEF Ops
  <2> HIDE DEF q
  <2> DEFINE o == Oldest(FreeSlots(q))
             r == LsuInput(q, i, wait)
             p == [q EXCEPT ![o] = NewEntry(i)]
             lpv == IF Kind(i) = "load" THEN INIT_LPV ELSE {}
             waits == IF wait /\ Kind(i) = "load" /\ (WaitingStores(p) \ {i}) # {}
                      THEN Youngest(WaitingStores(p) \ {i}) ELSE 0
             g == [NewEntry(i) EXCEPT !.cur_lpv = lpv, !.waits = waits]
  <2>5. r = [p EXCEPT ![o].cur_lpv = lpv, ![o].waits = waits]
    BY DEF LsuInput
  <2>6. /\ SlotType(NewEntry(i)) /\ NewEntry(i).op = i /\ NewEntry(i).issued = FALSE
        /\ NewEntry(i).src1 = Source(prog[i].src1, prog[i].src1 \in Available)
        /\ NewEntry(i).src2 = Source(prog[i].src2, prog[i].src2 \in Available)
    BY <2>3, NewEntrySlot
  <2> HIDE DEF lpv, waits
  <2>7. /\ SlotType(g) /\ g.op = NewEntry(i).op /\ g.issued = NewEntry(i).issued
        /\ g.src1 = NewEntry(i).src1 /\ g.src2 = NewEntry(i).src2
    <3>1. SlotType(NewEntry(i)) /\ g = WithLpv(NewEntry(i), lpv, waits)
      BY <2>6 DEF WithLpv
    <3> HIDE DEF g
    <3> QED BY <3>1, LpvSlot
  <2>13. SlotType(g) /\ Fresh(g, {"load", "store"}) /\ g.op = i
    <3> HIDE DEF g
    <3> QED BY <2>3, <2>6, <2>7 DEF Fresh
  <2> HIDE DEF o
  <2>8. /\ p = [s \in LsuSlots |-> p[s]]
        /\ \A s \in LsuSlots : p[s] = IF s = o THEN NewEntry(i) ELSE q[s]
    BY <1>1
  <2> HIDE DEF p, r
  <2>9. /\ r = [s \in LsuSlots |-> r[s]]
        /\ \A s \in LsuSlots : r[s] = IF s = o THEN g ELSE q[s]
    <3>1. CASE o \in LsuSlots
      <4>1. r = [p EXCEPT ![o] = [p[o] EXCEPT !.cur_lpv = lpv, !.waits = waits]]
        BY <2>5, <2>8, <3>1
      <4>2. [p[o] EXCEPT !.cur_lpv = lpv, !.waits = waits] = g
        BY <2>8, <3>1
      <4> HIDE DEF g
      <4>3. r = [p EXCEPT ![o] = g]
        BY <4>1, <4>2
      <4> QED BY <2>8, <4>3
    <3>2. CASE o \notin LsuSlots
      <4>1. r = p
        BY <2>5, <2>8, <3>2
      <4> QED BY <2>8, <3>2, <4>1
    <3> QED BY <3>1, <3>2
  <2> HIDE DEF g
  <2>10. \A s \in LsuSlots : SlotType(r[s])
    BY <1>1, <2>13, <2>9
  <2>11. lq' = Settled(r)
    BY <2>1, <2>4 DEF r
  <2>12. /\ lq' = [s \in LsuSlots |-> lq'[s]]
         /\ \A s \in LsuSlots : SlotType(lq'[s]) /\ (lq'[s].valid => lq'[s] = r[s])
    BY <2>9, <2>10, <2>11, SettledSlots
  <2> QED BY <1>1, <2>2, <2>13, <2>9, <2>12
<1> QED BY <1>2, <1>3


-----------------------------------------------------------------------------
(***************************************************************************)
(* The first invariant: the units run.                                     *)
(***************************************************************************)
\* Initially nothing is ready and nothing is on its way.
LEMMA Init1 == Init => Inv1
<1> SUFFICES ASSUME Init PROVE Inv1
  OBVIOUS
<1> DEFINE z == [reg |-> 0, ready |-> FALSE, shift |-> 0, lpv |-> {}]
<1>1. z \in SourceT
  BY ConstAssumption DEF SourceT
<1>2. SlotType(FreeSlot) /\ ~FreeSlot.valid
  BY <1>1 DEF FreeSlot, SlotType, Source
<1>3. QueueTypes /\ SlotsInv
  <2> HIDE DEF z
  <2>1. iq = [s \in IntSlots |-> FreeSlot] /\ lq = [s \in LsuSlots |-> FreeSlot]
    BY DEF Init
  <2> QED BY <1>2, <2>1 DEF QueueTypes, SlotsInv, SlotInv
<1>4. PackTypes /\ PacksInv /\ OperandsReady
  BY DEF Init, PackTypes, PacksInv, OperandsReady, AtMostOne, Lus, Packs
<1>5. lu \in [op : 0..N, stall : BOOLEAN, replay : BOOLEAN, following : BOOLEAN]
  <2>1. lu = NoFeedback /\ 0 \in 0..N
    BY ConstAssumption DEF Init
  <2> QED BY <2>1 DEF NoFeedback
<1>6. FlagTypes
  <2>1. cut \in 0..N /\ l2 \in 0..N
    BY ConstAssumption DEF Init
  <2>2. /\ l2_conflict_found \in BOOLEAN /\ l2_stall \in BOOLEAN
        /\ l2_last_last_stall \in BOOLEAN /\ busy \in BOOLEAN /\ rr_stall \in BOOLEAN
    BY DEF Init
  <2> QED BY <1>5, <2>1, <2>2 DEF Init, FlagTypes
<1>7. Links
  BY DEF Init, Links, Past
<1> QED BY <1>3, <1>4, <1>6, <1>7 DEF Inv1, Types

\* What the units do, as far as the first invariant is concerned.
LEMMA ExecuteFacts ==
    ASSUME Inv1, NEW c \in 0..N, NEW stall \in BOOLEAN, Execute(c, stall)
    PROVE  /\ phase = "execute" /\ phase' = "readreg" /\ cut' = c
           /\ lu'.op = l2 /\ (lu'.stall <=> stall)
           /\ lu' \in [op : 0..N, stall : BOOLEAN, replay : BOOLEAN, following : BOOLEAN]
           /\ lu'.replay <=> l2_conflict_found \/ stall \/ (Live(c) /\ l2_last_last_stall)
           /\ lu'.following <=> Live(c) /\ (stall \/ l2_last_last_stall)
           /\ stall => Live(c)
           /\ l2_last_last_stall' <=> ~stall /\ l2_stall
           /\ l2_stall' <=> stall
           /\ hdff' = IF stall THEN {p \in hdff : p.unit = "lu" /\ p.op <= c} ELSE {}
           /\ stall => l2' = l2
           /\ ~stall => l2' = IF Packs("lu") \cap Upto(c) = {} THEN 0
                              ELSE Oldest(Packs("lu") \cap Upto(c))
           /\ l2_conflict_found' \in BOOLEAN
           /\ wb_port' = exec'
           /\ exec' = (Packs("alu") \cap Upto(c)) \cup (IF Live(c) /\ ~stall THEN {l2} ELSE {})
           /\ wb' = wb_port \cap Upto(c)
           /\ regs' = regs \cap Upto(c)
<1>1. phase = "execute" /\ phase' = "readreg" /\ cut' = c
  BY DEF Execute
<1>2. lu' = [op |-> l2, stall |-> stall,
             replay |-> l2_conflict_found \/ stall \/ (Live(c) /\ l2_last_last_stall),
             following |-> Live(c) /\ (stall \/ l2_last_last_stall)]
  BY DEF Execute
<1>3. /\ stall => Live(c)
      /\ l2_last_last_stall' <=> ~stall /\ l2_stall
      /\ l2_stall' <=> stall
  BY DEF Execute
<1>4. /\ hdff' = IF stall THEN {p \in hdff : p.unit = "lu" /\ p.op <= c} ELSE {}
      /\ wb_port' = exec'
      /\ exec' = (Packs("alu") \cap Upto(c)) \cup (IF Live(c) /\ ~stall THEN {l2} ELSE {})
      /\ wb' = wb_port \cap Upto(c)
      /\ regs' = regs \cap Upto(c)
  BY DEF Execute
<1>5. Level1(c, stall) /\ l2_conflict_found \in BOOLEAN /\ l2 \in 0..N
  BY DEF Execute, Inv1, Types, FlagTypes
<1>6. /\ stall => l2' = l2
      /\ ~stall => l2' = IF Packs("lu") \cap Upto(c) = {} THEN 0
                              ELSE Oldest(Packs("lu") \cap Upto(c))
      /\ l2_conflict_found' \in BOOLEAN
  BY <1>5 DEF Level1
<1>7. /\ lu'.op = l2 /\ (lu'.stall <=> stall)
      /\ lu'.replay <=> l2_conflict_found \/ stall \/ (Live(c) /\ l2_last_last_stall)
      /\ lu'.following <=> Live(c) /\ (stall \/ l2_last_last_stall)
      /\ lu' \in [op : 0..N, stall : BOOLEAN, replay : BOOLEAN, following : BOOLEAN]
  BY <1>2, <1>5
<1> QED BY <1>1, <1>3, <1>4, <1>6, <1>7

\* The loads that were at level 1 and are not flushed.
LEMMA Level1Next ==
    ASSUME Inv1, NEW c \in 0..N, NEW stall \in BOOLEAN, Execute(c, stall)
    PROVE  /\ Level1Loads' = Packs("lu") \cap Upto(c)
           /\ l2' \in 0..N
           /\ AtMostOne(Packs("lu")')
<1> DEFINE S == Packs("lu") \cap Upto(c)
<1>1. AtMostOne(Packs("lu"))
  BY DEF Inv1, Types, PackTypes
<1>2. /\ lu'.stall <=> stall
      /\ hdff' = IF stall THEN {p \in hdff : p.unit = "lu" /\ p.op <= c} ELSE {}
      /\ stall => l2' = l2
      /\ ~stall => l2' = IF S = {} THEN 0 ELSE Oldest(S)
  BY ExecuteFacts
<1>3. \A p \in hdff : p.op \in Ops
  BY DEF Inv1, Types, PackTypes, HdffT
<1>4. \A x \in S : x \in Ops
  BY <1>3, PacksDef
<1>5. CASE stall
  <2>1. Packs("lu")' = S
    <3>1. ASSUME NEW x PROVE x \in Packs("lu")' <=> x \in S
      <4>1. x \in Packs("lu")' <=> \E p \in hdff : p.unit = "lu" /\ p.op <= c /\ p.op = x
        BY <1>2, <1>5, PacksDefNext
      <4>2. x \in Packs("lu") <=> \E p \in hdff : p.unit = "lu" /\ p.op = x
        BY PacksDef
      <4> QED BY <1>3, <4>1, <4>2 DEF Upto, Ops
    <3> QED BY <3>1
  <2>2. Level1Loads' = S
    BY <1>2, <1>5, <2>1 DEF Level1Loads
  <2> QED BY <1>1, <1>2, <1>5, <2>1, <2>2 DEF AtMostOne, Inv1, Types, FlagTypes
<1>6. CASE ~stall
  <2>1. hdff' = {}
    BY <1>2, <1>6
  <2>2. Packs("lu")' = {}
    BY <2>1, PacksDefNext
  <2>3. CASE S = {}
    <3>1. l2' = 0 /\ Level1Loads' = {l2'} \ {0}
      BY <1>2, <1>6, <2>3 DEF Level1Loads
    <3> QED BY <2>2, <2>3, <3>1, ConstAssumption DEF AtMostOne
  <2>4. CASE S # {}
    <3>1. PICK x : x \in S
      BY <2>4
    <3>2. S = {x} /\ x \in Ops
      BY <1>1, <1>4, <3>1 DEF AtMostOne
    <3>3. Oldest(S) = x
      BY <3>2, OldestOne DEF Ops
    <3>4. l2' = x
      BY <1>2, <1>6, <2>4, <3>3
    <3>5. Level1Loads' = {l2'} \ {0}
      BY <1>2, <1>6 DEF Level1Loads
    <3> QED BY <2>2, <3>2, <3>4, <3>5 DEF AtMostOne, Ops
  <2> QED BY <2>3, <2>4
<1> QED BY <1>5, <1>6

\* What is sure, and not flushed, is available.
LEMMA SureNext ==
    ASSUME Inv1, NEW c \in 0..N, NEW stall \in BOOLEAN, Execute(c, stall)
    PROVE  /\ \A x \in 0..c : x \in Sure => x \in Available'
           /\ Live(c) /\ ~stall => l2 \in Available'
           /\ \A x \in Available' : x \in Sure \/ (x = l2 /\ Live(c) /\ ~stall)
           /\ \A x \in Available' : x \in 0..c
<1>1. /\ exec' = (Packs("alu") \cap Upto(c)) \cup (IF Live(c) /\ ~stall THEN {l2} ELSE {})
      /\ wb' = wb_port \cap Upto(c)
      /\ regs' = regs \cap Upto(c)
  BY ExecuteFacts
<1>2. l2 \in 0..N /\ (Live(c) => l2 \in Upto(c))
  BY DEF Inv1, Types, FlagTypes, Live, Upto
<1> QED BY <1>1, <1>2 DEF Available, Sure, Upto

\* What was certain to be replayed, is.
LEMMA ForcedNext ==
    ASSUME Inv1, NEW c \in 0..N, NEW stall \in BOOLEAN, Execute(c, stall),
           NEW i \in Ops, i <= c
    PROVE  /\ Forced(i) => lu'.replay
           /\ l2 < i => l2 \in Available' \/ lu'.replay
           /\ StalledBehind(i) => Behind(i)'
<1>1. /\ lu'.replay <=> l2_conflict_found \/ stall \/ (Live(c) /\ l2_last_last_stall)
      /\ lu'.stall <=> stall
      /\ l2_last_last_stall' <=> ~stall /\ l2_stall
  BY ExecuteFacts
<1>2. l2 \in 0..N /\ (l2 < i => Live(c) \/ l2 = 0 \/ l2_conflict_found)
  BY DEF Inv1, Types, FlagTypes, Live, Ops
<1>3. 0 \in Available' /\ (Live(c) /\ ~stall => l2 \in Available')
  BY SureNext DEF Available
<1>4. StalledBehind(i) => Behind(i)'
  <2>1. SUFFICES ASSUME l2_stall, NEW m \in Packs("lu"), m < i PROVE Behind(i)'
    BY DEF StalledBehind
  <2>2. m \in Ops
    BY PacksDef DEF Inv1, Types, PackTypes, HdffT
  <2>3. m \in Level1Loads'
    BY <2>1, <2>2, Level1Next DEF Upto, Ops
  <2> QED BY <1>1, <2>1, <2>3 DEF Behind
<1> QED BY <1>1, <1>2, <1>3, <1>4 DEF Forced


\* A ready operand, over the execution of the units.
LEMMA ExecuteReady ==
    ASSUME Inv1, NEW c \in 0..N, NEW stall \in BOOLEAN, Execute(c, stall),
           NEW i \in Ops, i <= c, NEW s, s.reg \in 0..N, s.reg < i, NEW lsu
    PROVE  /\ Ready0(i, s, lsu) => Ready1(i, s, lsu)'
           /\ Coming0(s) => Coming0(s)'
<1>1. /\ \A x \in 0..c : x \in Sure => x \in Available'
      /\ Level1Loads' = Packs("lu") \cap Upto(c)
  BY SureNext, Level1Next
<1>2. /\ Forced(i) => lu'.replay
      /\ l2 < i => l2 \in Available' \/ lu'.replay
      /\ StalledBehind(i) => Behind(i)'
  BY ForcedNext
<1>3. s.reg \in 0..c
  BY DEF Ops
<1>4. UNCHANGED <<int_port, lsu_port, busy, hold>>
  BY DEF Execute, readreg_vars
<1>5. /\ ByPort(s)' <=> ByPort(s)
      /\ Held(s)' <=> Held(s)
      /\ Coming0(s)' <=> Coming0(s)
  BY <1>4 DEF ByPort, Held, Coming0, Lus
<1>6. s.reg \in Packs("lu") => s.reg \in Level1Loads'
  <2>1. s.reg \in Packs("lu") => s.reg \in Ops
    BY PacksDef DEF Inv1, Types, PackTypes, HdffT
  <2> QED BY <1>1, <1>3, <2>1 DEF Upto, Ops
<1>7. Ready0(i, s, lsu) => Ready1(i, s, lsu)'
  BY <1>1, <1>2, <1>3, <1>5, <1>6 DEF Ready0, Ready1
<1> QED BY <1>5, <1>7

\* The units preserve the first invariant.
LEMMA Execute1 ==
    ASSUME Inv1, NEW c \in 0..N, NEW stall \in BOOLEAN, Execute(c, stall)
    PROVE  Inv1'
<1>1. UNCHANGED <<prog, iq, lq, int_port, lsu_port, busy, hold, rr_stall>>
  BY DEF Execute, readreg_vars, queue_vars
<1>2. /\ phase = "execute" /\ phase' = "readreg" /\ cut' = c
      /\ lu'.op = l2 /\ (lu'.stall <=> stall)
      /\ lu' \in [op : 0..N, stall : BOOLEAN, replay : BOOLEAN, following : BOOLEAN]
      /\ lu'.replay <=> l2_conflict_found \/ stall \/ (Live(c) /\ l2_last_last_stall)
      /\ lu'.following <=> Live(c) /\ (stall \/ l2_last_last_stall)
      /\ stall => Live(c)
      /\ l2_last_last_stall' <=> ~stall /\ l2_stall
      /\ l2_stall' <=> stall
      /\ hdff' = IF stall THEN {p \in hdff : p.unit = "lu" /\ p.op <= c} ELSE {}
      /\ stall => l2' = l2
      /\ l2_conflict_found' \in BOOLEAN
      /\ wb_port' = exec'
      /\ exec' = (Packs("alu") \cap Upto(c)) \cup (IF Live(c) /\ ~stall THEN {l2} ELSE {})
  BY ExecuteFacts
<1>3. QueueTypes' /\ FlagTypes'
  <2>1. QueueTypes'
    BY <1>1 DEF Inv1, Types, QueueTypes, SlotType
  <2>2. l2_last_last_stall' \in BOOLEAN /\ l2_stall' \in BOOLEAN
    BY DEF Execute, Inv1, Types, FlagTypes
  <2> QED BY <1>1, <1>2, <2>1, <2>2, Level1Next DEF Inv1, Types, FlagTypes
<1>4. PackTypes'
  <2>1. hdff' \subseteq HdffT /\ AtMostOne(Packs("lu")')
    BY <1>2, Level1Next DEF Inv1, Types, PackTypes
  <2> QED BY <1>1, <2>1 DEF Inv1, Types, PackTypes, Lus, AtMostOne
<1>5. Links'
  <2>1. lu'.following /\ ~lu'.stall => lu'.op \in exec'
    BY <1>2
  <2>2. \A p \in hdff' : lu'.stall /\ p.unit = "lu"
    BY <1>2
  <2> QED BY <1>2, <2>1, <2>2 DEF Links, Past
<1>6. SlotsInv'
  <2>1. ASSUME NEW e, SlotType(e), NEW lsu, SlotInv(e, lsu)
        PROVE  SlotInv(e, lsu)'
    <3> SUFFICES ASSUME e.valid, e.op <= c
                 PROVE  SourceInv(e.op, e.src1, lsu)' /\ SourceInv(e.op, e.src2, lsu)'
      BY <1>2 DEF SlotInv, SourceInv, Past
    <3>1. /\ e.op \in Ops
          /\ e.src1.reg \in 0..N /\ e.src1.reg < e.op
          /\ e.src2.reg \in 0..N /\ e.src2.reg < e.op
      BY <2>1, SourcesOlder DEF SlotType, Inv1, Types
    <3>2. SourceInv(e.op, e.src1, lsu)'
      <4>1. SourceInv(e.op, e.src1, lsu)
        BY <2>1 DEF SlotInv
      <4> QED BY <1>2, <3>1, <4>1, ExecuteReady DEF SourceInv, Past
    <3>3. SourceInv(e.op, e.src2, lsu)'
      <4>1. SourceInv(e.op, e.src2, lsu)
        BY <2>1 DEF SlotInv
      <4> QED BY <1>2, <3>1, <4>1, ExecuteReady DEF SourceInv, Past
    <3> QED BY <3>2, <3>3
  <2>2. ASSUME NEW s \in IntSlots PROVE SlotInv(iq[s], FALSE)'
    BY <1>1, <2>1 DEF SlotsInv, Inv1, Types, QueueTypes
  <2>3. ASSUME NEW s \in LsuSlots PROVE SlotInv(lq[s], TRUE)'
    BY <1>1, <2>1 DEF SlotsInv, Inv1, Types, QueueTypes
  <2> QED BY <2>2, <2>3 DEF SlotsInv
<1>7. PacksInv'
  <2>0. \A p : Needs(p)' = Needs(p)
    BY <1>1 DEF Needs
  <2>1. ASSUME NEW p \in int_port \cup lsu_port PROVE PackInv(p)'
    <3> SUFFICES ASSUME p.op <= c, NEW n \in Needs(p) PROVE Need1(p, n)'
      BY <1>2, <2>0 DEF PackInv
    <3>1. p.op \in Ops
      BY DEF Inv1, Types, PackTypes, PackT
    <3>2. n \in 0..N /\ n < p.op
      BY <3>1, NeedsOlder DEF Inv1, Types
    <3>3. Need0(p, n) /\ SureNow = Sure
      BY <1>2 DEF Inv1, PacksInv, PackInv, SureNow
    <3>4. /\ \A x \in 0..c : x \in Sure => x \in Available'
          /\ Forced(p.op) => lu'.replay
          /\ l2 < p.op => l2 \in Available' \/ lu'.replay
          /\ StalledBehind(p.op) => Behind(p.op)'
      BY <3>1, SureNext, ForcedNext
    <3>5. n \in 0..c
      BY <3>1, <3>2 DEF Ops
    <3> QED BY <3>2, <3>3, <3>4, <3>5 DEF Need0, Need1
  <2>2. ASSUME NEW p \in hold PROVE HoldInv(p)'
    <3>1. HoldInv(p)
      BY DEF Inv1, PacksInv
    <3>2. p.op \in Ops
      BY DEF Inv1, Types, PackTypes, PackT
    <3>3. ASSUME p.op <= c, NEW n \in Needs(p) PROVE n \in Available'
      <4>1. n \in 0..N /\ n < p.op
        BY <3>2, NeedsOlder DEF Inv1, Types
      <4>2. n \in 0..c
        BY <3>2, <3>3, <4>1 DEF Ops
      <4> QED BY <1>2, <3>1, <4>2, SureNext DEF HoldInv
    <3> QED BY <1>2, <2>0, <3>1, <3>3 DEF HoldInv, Past
  <2> QED BY <1>1, <2>1, <2>2 DEF PacksInv
<1>8. OperandsReady'
  BY <1>2 DEF Inv1, OperandsReady
<1> QED BY <1>3, <1>4, <1>5, <1>6, <1>7, <1>8 DEF Inv1, Types


-----------------------------------------------------------------------------
(***************************************************************************)
(* The first invariant: readreg.                                           *)
(***************************************************************************)
\* The packs readreg looks at.
Arrived == IF busy THEN hold ELSE lsu_port

\* What readreg does.
LEMMA ReadregFacts ==
    ASSUME Readreg
    PROVE  /\ phase = "readreg" /\ phase' = "output"
           /\ hdff' = hdff \cup {p \in Sent(int_port) : p.ok}
                           \cup (IF lu.stall THEN {} ELSE Sent(Arrived))
           /\ hold' = IF lu.stall THEN {p \in Arrived : Passes(p)} ELSE {}
           /\ (busy' <=> lu.stall) /\ (rr_stall' <=> busy) /\ busy' = lu.stall /\ rr_stall' = busy
           /\ UNCHANGED <<prog, cut, queue_vars, int_port, lsu_port, lu_vars, result_vars>>
BY DEF Readreg, Arrived

\* A pack that was sent.
LEMMA SentDef ==
    \A packs, x : x \in Sent(packs) <=>
        \E p \in packs : /\ Passes(p)
                         /\ x = [op |-> p.op, unit |-> p.unit, ok |-> Needs(p) \subseteq Available]
BY DEF Sent

\* The packs in the units' inputs after readreg: loads and stores have their operands,
\* and what the integer queue has sent is there too, or certain to be replayed.
LEMMA ReadregPacks ==
    ASSUME Inv1, Readreg
    PROVE  /\ \A p \in int_port : p.op <= cut =>
                \/ p.op \in Packs("alu")'
                \/ lu.replay /\ 0 \in p.lpv
                \/ 1 \in p.lpv /\ Behind(p.op)
           /\ lu.stall => Packs("lu")' = Packs("lu")
           /\ ~lu.stall => Packs("lu")' = Lus({p \in Arrived : Passes(p)})
           /\ \A x \in hdff' : x \in HdffT /\ x.ok
           /\ \A p \in Arrived : Passes(p) => 0 \notin p.lpv \/ ~lu.replay
           /\ \A p \in Arrived : Passes(p) => Needs(p) \subseteq Available
           /\ Arrived \subseteq PackT /\ AtMostOne(Lus(Arrived))
           /\ \A p \in Arrived : p.unit # "alu"
<1>1. /\ phase = "readreg"
      /\ hdff' = hdff \cup {p \in Sent(int_port) : p.ok}
                      \cup (IF lu.stall THEN {} ELSE Sent(Arrived))
  BY ReadregFacts
<1>2. /\ int_port \subseteq PackT /\ Arrived \subseteq PackT /\ AtMostOne(Lus(Arrived))
      /\ \A p \in int_port : p.unit = "alu"
      /\ \A p \in Arrived : p.unit # "alu"
      /\ \A x \in hdff : x \in HdffT /\ x.ok /\ lu.stall /\ x.unit = "lu"
  BY <1>1 DEF Inv1, Types, PackTypes, Arrived, Links, OperandsReady
<1>3. ASSUME NEW p \in int_port, p.op <= cut
      PROVE  \/ p.op \in Packs("alu")'
             \/ lu.replay /\ 0 \in p.lpv
             \/ 1 \in p.lpv /\ Behind(p.op)
  <2> SUFFICES ASSUME ~(lu.replay /\ 0 \in p.lpv), ~(1 \in p.lpv /\ Behind(p.op))
               PROVE  p.op \in Packs("alu")'
    OBVIOUS
  <2>1. \A n \in Needs(p) : n \in Available
    BY <1>1, <1>3 DEF Inv1, PacksInv, PackInv, Need1
  <2>2. Passes(p)
    BY <1>3 DEF Passes, AtLevel2
  <2> DEFINE x == [op |-> p.op, unit |-> p.unit, ok |-> Needs(p) \subseteq Available]
  <2>3. x \in Sent(int_port)
    BY <2>2, SentDef
  <2>4. x.op = p.op /\ x.unit = "alu" /\ x.ok
    BY <1>2, <2>1
  <2> HIDE DEF x
  <2>5. x \in hdff'
    BY <1>1, <2>3, <2>4
  <2> QED BY <2>4, <2>5, PacksDefNext
<1>4. \A p \in Arrived : Passes(p) => Needs(p) \subseteq Available
  <2> SUFFICES ASSUME NEW p \in Arrived, Passes(p) PROVE Needs(p) \subseteq Available
    OBVIOUS
  <2>1. CASE busy
    BY <1>1, <2>1 DEF Arrived, Inv1, PacksInv, HoldInv, Passes
  <2>2. CASE ~busy
    <3>1. p \in lsu_port /\ p.unit # "alu" /\ PackInv(p)
      BY <1>2, <2>2 DEF Arrived, Inv1, PacksInv
    <3> QED BY <1>1, <3>1 DEF PackInv, Need1, Passes, AtLevel2
  <2> QED BY <2>1, <2>2
<1>5. ASSUME NEW packs, packs \subseteq PackT,
             NEW x \in Sent(packs)
      PROVE  /\ x \in HdffT
             /\ \E p \in packs : /\ Passes(p) /\ x.op = p.op /\ x.unit = p.unit
                                 /\ x.ok <=> Needs(p) \subseteq Available
  <2>1. PICK p \in packs : /\ Passes(p)
                           /\ x = [op |-> p.op, unit |-> p.unit, ok |-> Needs(p) \subseteq Available]
    BY <1>5, SentDef
  <2>2. p.op \in Ops /\ p.unit \in {"alu", "lu", "sau", "sdu"}
    BY <1>5 DEF PackT
  <2>3. (Needs(p) \subseteq Available) \in BOOLEAN
    OBVIOUS
  <2> QED BY <2>1, <2>2, <2>3 DEF HdffT
<1>6. ASSUME NEW x \in hdff' PROVE x \in HdffT /\ x.ok
  <2>1. CASE x \in hdff
    BY <1>2, <2>1
  <2>2. CASE x \in Sent(int_port) /\ x.ok
    BY <1>2, <1>5, <2>2
  <2>3. CASE x \in Sent(Arrived)
    BY <1>2, <1>4, <1>5, <2>3
  <2> QED BY <1>1, <2>1, <2>2, <2>3
<1>7. lu.stall => Packs("lu")' = Packs("lu")
  <2> SUFFICES ASSUME lu.stall, NEW y PROVE y \in Packs("lu")' <=> y \in Packs("lu")
    OBVIOUS
  <2>1. \A x \in Sent(int_port) : x.unit = "alu"
    BY <1>2, <1>5
  <2>2. \A x : x.unit = "lu" => (x \in hdff' <=> x \in hdff)
    BY <1>1, <2>1
  <2> QED BY <2>2, PacksDef, PacksDefNext
<1>8. ~lu.stall => Packs("lu")' = Lus({p \in Arrived : Passes(p)})
  <2> SUFFICES ASSUME ~lu.stall, NEW y
               PROVE  y \in Packs("lu")' <=> y \in Lus({p \in Arrived : Passes(p)})
    OBVIOUS
  <2>1. \A x \in Sent(int_port) : x.unit = "alu"
    BY <1>2, <1>5
  <2>2. \A x : x.unit = "lu" => (x \in hdff' <=> x \in Sent(Arrived))
    BY <1>1, <1>2, <2>1
  <2>3. y \in Packs("lu")' <=> \E x \in Sent(Arrived) : x.unit = "lu" /\ x.op = y
    BY <2>2, PacksDefNext
  <2>4. y \in Packs("lu")' => y \in Lus({p \in Arrived : Passes(p)})
    <3>1. SUFFICES ASSUME NEW x \in Sent(Arrived), x.unit = "lu", x.op = y
                   PROVE  y \in Lus({p \in Arrived : Passes(p)})
      BY <2>3
    <3>2. PICK p \in Arrived : Passes(p) /\ x.op = p.op /\ x.unit = p.unit
      BY <1>2, <1>5
    <3> QED BY <3>1, <3>2, LusDef
  <2>5. ASSUME NEW p \in Arrived, Passes(p), p.unit = "lu", p.op = y
        PROVE  y \in Packs("lu")'
    <3> DEFINE x == [op |-> p.op, unit |-> p.unit, ok |-> Needs(p) \subseteq Available]
    <3>1. x \in Sent(Arrived) /\ x.unit = "lu" /\ x.op = y
      BY <2>5, SentDef
    <3> QED BY <2>3, <3>1
  <2>6. y \in Lus({p \in Arrived : Passes(p)}) =>
            \E p \in Arrived : Passes(p) /\ p.unit = "lu" /\ p.op = y
    BY LusDef
  <2> QED BY <2>4, <2>5, <2>6
<1>9. \A p \in Arrived : Passes(p) => 0 \notin p.lpv \/ ~lu.replay
  BY DEF Passes, AtLevel2
<1> QED BY <1>2, <1>3, <1>4, <1>6, <1>7, <1>8, <1>9


\* The loads on their way to level 1, and those at level 1, over readreg.
LEMMA ReadregLevels ==
    ASSUME Inv1, Readreg
    PROVE  /\ Level0Loads' = Lus({p \in Arrived : Passes(p)})
           /\ Level1Loads' = Level1Loads
           /\ Available' = Available
           /\ \A i : Behind(i)' = Behind(i)
<1>1. /\ hold' = IF lu.stall THEN {p \in Arrived : Passes(p)} ELSE {}
      /\ UNCHANGED <<prog, cut, queue_vars, int_port, lsu_port, lu_vars, result_vars>>
  BY ReadregFacts
<1>2. /\ lu.stall => Packs("lu")' = Packs("lu")
      /\ ~lu.stall => Packs("lu")' = Lus({p \in Arrived : Passes(p)})
  BY ReadregPacks
<1>3. UNCHANGED <<l2, l2_last_last_stall, lu, exec, wb, regs>>
  BY <1>1 DEF lu_vars, result_vars
<1>4. Level1Loads' = Level1Loads
  BY <1>2, <1>3 DEF Level1Loads
<1>5. Level0Loads' = Lus({p \in Arrived : Passes(p)})
  <2>1. CASE lu.stall
    <3>1. hold' = {p \in Arrived : Passes(p)}
      BY <1>1, <2>1
    <3>2. Level0Loads' = Lus(hold')
      BY <1>3, <2>1 DEF Level0Loads, Lus
    <3> QED BY <3>1, <3>2
  <2>2. CASE ~lu.stall
    BY <1>2, <1>3, <2>2 DEF Level0Loads
  <2> QED BY <2>1, <2>2
<1>6. Available' = Available
  BY <1>3 DEF Available
<1>7. \A i : Behind(i)' = Behind(i)
  BY <1>3, <1>4 DEF Behind
<1> QED BY <1>4, <1>5, <1>6, <1>7

\* A ready operand, over readreg.
LEMMA ReadregReady ==
    ASSUME Inv1, Readreg, NEW i \in Ops, i <= cut, NEW s, s.reg \in 0..N, s.reg < i, NEW lsu
    PROVE  /\ Ready1(i, s, lsu) => Ready2(i, s, lsu)'
           /\ Coming0(s) => Coming2(s)'
<1>1. /\ Level0Loads' = Lus({p \in Arrived : Passes(p)})
      /\ Level1Loads' = Level1Loads
      /\ Available' = Available
      /\ Behind(i)' = Behind(i)
  BY ReadregLevels
<1>2. rr_stall' = busy /\ lu' = lu
  BY ReadregFacts DEF lu_vars
<1>3. cut \in 0..N
  BY DEF Inv1, Types, FlagTypes
<1>4. ByPort(s) => \/ s.reg \in Packs("alu")'
                   \/ lu.replay /\ 0 \in s.lpv
                   \/ 1 \in s.lpv /\ Behind(i)
  <2> SUFFICES ASSUME NEW q \in int_port, q.op = s.reg, q.lpv \subseteq s.lpv
               PROVE  \/ s.reg \in Packs("alu")'
                      \/ lu.replay /\ 0 \in s.lpv
                      \/ 1 \in s.lpv /\ Behind(i)
    BY DEF ByPort
  <2>1. q.op <= cut /\ q.op < i
    BY <1>3 DEF Ops
  <2>2. \/ q.op \in Packs("alu")'
        \/ lu.replay /\ 0 \in q.lpv
        \/ 1 \in q.lpv /\ Behind(q.op)
    BY <2>1, ReadregPacks
  <2>3. Behind(q.op) => Behind(i)
    <3>1. SUFFICES ASSUME NEW m \in Level1Loads, m < q.op PROVE m < i
      BY DEF Behind
    <3>2. m \in Nat
      BY PacksDef DEF Level1Loads, Inv1, Types, PackTypes, FlagTypes, HdffT, Ops
    <3> QED BY <3>1, <3>2, <2>1 DEF Ops
  <2> QED BY <2>2, <2>3
<1>5. Held(s) => 2 \in s.lpv /\ s.reg \in Level0Loads' /\ rr_stall'
  <2> SUFFICES ASSUME busy, s.reg \in Lus(hold) PROVE s.reg \in Level0Loads'
    BY <1>2 DEF Held
  <2>1. PICK p \in hold : p.unit = "lu" /\ p.op = s.reg
    BY LusDef
  <2>2. p \in Arrived /\ 0 \notin p.lpv
    BY <2>1 DEF Arrived, Inv1, PacksInv, HoldInv
  <2>3. Passes(p)
    BY <1>3, <2>1, <2>2 DEF Passes, AtLevel2, Ops
  <2> QED BY <1>1, <2>1, <2>2, <2>3, LusDef
<1>6. Coming0(s) => Coming2(s)'
  <2> SUFFICES ASSUME ~busy, 2 \in s.lpv,
                      NEW p \in lsu_port, p.unit = "lu", p.op = s.reg, p.lpv \subseteq s.lpv
               PROVE  Coming2(s)'
    BY DEF Coming0
  <2>1. p \in Arrived
    BY DEF Arrived
  <2>2. Passes(p) \/ (lu.replay /\ 0 \in s.lpv)
    BY <1>3 DEF Passes, AtLevel2, Ops
  <2>3. Passes(p) => s.reg \in Level0Loads'
    BY <1>1, <2>1, LusDef
  <2> QED BY <1>2, <2>2, <2>3 DEF Coming2
<1>7. Ready1(i, s, lsu) => Ready2(i, s, lsu)'
  BY <1>1, <1>2, <1>4, <1>5 DEF Ready1, Ready2
<1> QED BY <1>6, <1>7

\* readreg preserves the first invariant.
LEMMA Readreg1 ==
    ASSUME Inv1, Readreg
    PROVE  Inv1'
<1>1. /\ phase = "readreg" /\ phase' = "output"
      /\ hold' = IF lu.stall THEN {p \in Arrived : Passes(p)} ELSE {}
      /\ (busy' <=> lu.stall) /\ (rr_stall' <=> busy) /\ busy' = lu.stall /\ rr_stall' = busy
      /\ UNCHANGED <<prog, cut, queue_vars, int_port, lsu_port, lu_vars, result_vars>>
  BY ReadregFacts
<1>2. /\ UNCHANGED <<iq, lq, l2, l2_conflict_found, l2_stall, l2_last_last_stall, lu>>
      /\ UNCHANGED <<exec, wb_port, wb, regs>>
  BY <1>1 DEF queue_vars, lu_vars, result_vars
<1>3. QueueTypes' /\ FlagTypes'
  <2>1. QueueTypes'
    BY <1>1, <1>2 DEF Inv1, Types, QueueTypes, SlotType
  <2>2. busy' \in BOOLEAN /\ rr_stall' \in BOOLEAN
    BY <1>1 DEF Inv1, Types, FlagTypes
  <2> QED BY <1>1, <1>2, <2>1, <2>2 DEF Inv1, Types, FlagTypes
<1>4. PackTypes'
  <2>1. /\ hdff' \subseteq HdffT
        /\ Arrived \subseteq PackT /\ AtMostOne(Lus(Arrived))
        /\ \A p \in Arrived : p.unit # "alu"
    BY ReadregPacks
  <2>2. hold' \subseteq Arrived
    BY <1>1
  <2>3. AtMostOne(Lus(hold'))
    BY <2>1, <2>2, LusDef DEF AtMostOne
  <2>4. AtMostOne(Packs("lu")')
    <3>1. CASE lu.stall
      BY <3>1, ReadregPacks DEF Inv1, Types, PackTypes
    <3>2. CASE ~lu.stall
      <4>1. Packs("lu")' = Lus({p \in Arrived : Passes(p)})
        BY <3>2, ReadregPacks
      <4> QED BY <2>1, <4>1, LusDef DEF AtMostOne
    <3> QED BY <3>1, <3>2
  <2> QED BY <1>1, <2>1, <2>2, <2>3, <2>4 DEF Inv1, Types, PackTypes, AtMostOne, Lus
<1>5. Links'
  BY <1>1, <1>2 DEF Inv1, Links, Past
<1>6. SlotsInv'
  <2>1. ASSUME NEW e, SlotType(e), NEW lsu, SlotInv(e, lsu)
        PROVE  SlotInv(e, lsu)'
    <3> SUFFICES ASSUME e.valid, e.op <= cut
                 PROVE  SourceInv(e.op, e.src1, lsu)' /\ SourceInv(e.op, e.src2, lsu)'
      BY <1>1 DEF SlotInv, SourceInv, Past
    <3>1. /\ e.op \in Ops
          /\ e.src1.reg \in 0..N /\ e.src1.reg < e.op
          /\ e.src2.reg \in 0..N /\ e.src2.reg < e.op
      BY <2>1, SourcesOlder DEF SlotType, Inv1, Types
    <3>2. SourceInv(e.op, e.src1, lsu)'
      <4>1. SourceInv(e.op, e.src1, lsu)
        BY <2>1 DEF SlotInv
      <4> QED BY <1>1, <3>1, <4>1, ReadregReady DEF SourceInv, Past
    <3>3. SourceInv(e.op, e.src2, lsu)'
      <4>1. SourceInv(e.op, e.src2, lsu)
        BY <2>1 DEF SlotInv
      <4> QED BY <1>1, <3>1, <4>1, ReadregReady DEF SourceInv, Past
    <3> QED BY <3>2, <3>3
  <2>2. ASSUME NEW s \in IntSlots PROVE SlotInv(iq[s], FALSE)'
    BY <1>2, <2>1 DEF SlotsInv, Inv1, Types, QueueTypes
  <2>3. ASSUME NEW s \in LsuSlots PROVE SlotInv(lq[s], TRUE)'
    BY <1>2, <2>1 DEF SlotsInv, Inv1, Types, QueueTypes
  <2> QED BY <2>2, <2>3 DEF SlotsInv
<1>7. PacksInv'
  <2>0. \A p : Needs(p)' = Needs(p)
    BY <1>1 DEF Needs
  <2>1. \A p : PackInv(p)'
    BY <1>1 DEF PackInv
  <2>2. ASSUME NEW p \in hold' PROVE HoldInv(p)'
    <3>1. p \in Arrived /\ Passes(p) /\ lu.stall
      BY <1>1
    <3>2. lu.replay
      BY <1>1, <3>1 DEF Inv1, Links
    <3>3. 0 \notin p.lpv /\ Needs(p) \subseteq Available
      BY <3>1, <3>2, ReadregPacks
    <3> QED BY <1>1, <2>0, <3>3, ReadregLevels DEF HoldInv
  <2> QED BY <2>1, <2>2 DEF PacksInv
<1>8. OperandsReady'
  BY ReadregPacks DEF OperandsReady
<1> QED BY <1>3, <1>4, <1>5, <1>6, <1>7, <1>8 DEF Inv1, Types


-----------------------------------------------------------------------------
(***************************************************************************)
(* The first invariant: the queues send.                                   *)
(***************************************************************************)
\* What the integer queue sends.
LEMMA IntSent ==
    ASSUME Types, Output, NEW p \in int_port'
    PROVE  \E s \in IntSlots :
              /\ MayIssue(iq[s]) /\ iq[s].src1.ready /\ iq[s].src2.ready
              /\ p = [op |-> iq[s].op, unit |-> "alu", lpv |-> SentLpv(iq[s])]
<1>1. PICK port \in Ports : p \in Packed(iq, "alu", IntCandidates(port))
  BY DEF Output
<1>2. PICK s \in IntCandidates(port) : p = [op |-> iq[s].op, unit |-> "alu", lpv |-> SentLpv(iq[s])]
  BY <1>1 DEF Packed, OldestSlot
<1> QED BY <1>2 DEF IntCandidates

\* What the load/store queue sends: for a unit the oldest.
LEMMA LsuSent ==
    ASSUME Types, Output, NEW p \in lsu_port'
    PROVE  /\ p.unit \in {"lu", "sau", "sdu"}
           /\ \E s \in LsuCandidates(p.unit) :
                 /\ p = [op |-> lq[s].op, unit |-> p.unit, lpv |-> SentLpv(lq[s])]
                 /\ \A t \in LsuCandidates(p.unit) : lq[s].op <= lq[t].op
<1>1. PICK u \in {"lu", "sau", "sdu"} : p \in Packed(lq, u, LsuCandidates(u))
  BY DEF Output
<1>2. PICK s \in OldestSlot(lq, LsuCandidates(u)) : p = [op |-> lq[s].op, unit |-> u, lpv |-> SentLpv(lq[s])]
  BY <1>1 DEF Packed
<1>3. p.unit = u
  BY <1>2
<1>4. s \in LsuCandidates(u) /\ \A t \in LsuCandidates(u) : lq[s].op <= lq[t].op
  BY <1>2 DEF OldestSlot
<1> QED BY <1>2, <1>3, <1>4

\* The load position vector of a slot and of what it sends.
LEMMA SlotLpv ==
    ASSUME NEW e, SlotType(e)
    PROVE  /\ Lpv(e) \in SUBSET Bits /\ SentLpv(e) \in SUBSET Bits
           /\ lu.stall => SentLpv(e) = Lpv(e)
           /\ ~lu.stall => /\ 0 \in SentLpv(e) <=> 1 \in Lpv(e)
                           /\ 1 \in SentLpv(e) <=> 2 \in Lpv(e)
                           /\ 2 \notin SentLpv(e)
           /\ Lpv(e) = e.src1.lpv \cup e.src2.lpv
           /\ e.src1.lpv \in SUBSET Bits /\ e.src2.lpv \in SUBSET Bits
<1>1. Lpv(e) \in SUBSET Bits /\ e.src1.lpv \in SUBSET Bits /\ e.src2.lpv \in SUBSET Bits
  BY DEF SlotType, SourceT, Lpv
<1> QED BY <1>1, ShiftBits DEF SentLpv, Lpv

\* An operand of what is sent.
LEMMA SentNeed ==
    ASSUME Inv1, Past, NEW e, SlotType(e), MayIssue(e), NEW lsu,
           NEW s \in {e.src1, e.src2}, s.ready, Ready2(e.op, s, lsu),
           lsu => ~lu.stall /\ ~rr_stall,
           NEW n, n = s.reg, NEW u, u = "alu" \/ lsu
    PROVE  \/ n \in Available \cup Packs("alu")
           \/ 0 \in SentLpv(e) /\ (n = l2 \/ Forced(e.op))
           \/ u = "alu" /\ 1 \in SentLpv(e) /\ StalledBehind(e.op)
<1>1. s.lpv \subseteq Lpv(e)
  BY DEF Lpv
<1>2. ~(lu.replay /\ 0 \in s.lpv)
  BY <1>1 DEF MayIssue, AtLevel2
<1>3. l2_stall <=> lu.stall
  BY DEF Inv1, Links, Past
<1>4. CASE s.reg \in Available \cup Packs("alu")
  BY <1>4
<1>5. CASE 1 \in s.lpv /\ (s.reg \in Level1Loads \/ Behind(e.op))
  <2>1. 1 \in Lpv(e)
    BY <1>1, <1>5
  <2>2. CASE lu.stall
    <3>1. 1 \in SentLpv(e) /\ u = "alu"
      BY <2>1, <2>2, SlotLpv
    <3>2. s.reg < e.op
      BY SourcesOlder DEF SlotType, MayIssue, Inv1, Types
    <3>3. \E m \in Packs("lu") : m < e.op
      BY <1>5, <2>2, <3>2 DEF Level1Loads, Behind
    <3> QED BY <1>3, <2>2, <3>1, <3>3 DEF StalledBehind
  <2>3. CASE ~lu.stall
    <3>1. 0 \in SentLpv(e)
      BY <2>1, <2>3, SlotLpv
    <3>2. s.reg \in Level1Loads => n = l2
      BY <2>3 DEF Level1Loads
    <3>3. Behind(e.op) => Forced(e.op)
      BY <2>3 DEF Behind, Level1Loads, Forced
    <3> QED BY <1>5, <3>1, <3>2, <3>3
  <2> QED BY <2>2, <2>3
<1> QED BY <1>2, <1>4, <1>5 DEF Ready2

\* The queues' sending preserves the first invariant.
LEMMA Output1 ==
    ASSUME Inv1, Output
    PROVE  Inv1'
<1>1. /\ phase = "output" /\ phase' = "wakeup"
      /\ UNCHANGED <<prog, cut, queue_vars, busy, hold, rr_stall, hdff, lu_vars, result_vars>>
  BY DEF Output
<1>2. /\ UNCHANGED <<iq, lq, l2, l2_conflict_found, l2_stall, l2_last_last_stall, lu>>
      /\ UNCHANGED <<exec, wb_port, wb, regs>>
  BY <1>1 DEF queue_vars, lu_vars, result_vars
<1>3. QueueTypes' /\ FlagTypes'
  <2>1. QueueTypes'
    BY <1>1, <1>2 DEF Inv1, Types, QueueTypes, SlotType
  <2> QED BY <1>1, <1>2, <2>1 DEF Inv1, Types, FlagTypes
<1>4. \A s \in IntSlots : SlotType(iq[s])
  BY DEF Inv1, Types, QueueTypes
<1>5. \A s \in LsuSlots : SlotType(lq[s])
  BY DEF Inv1, Types, QueueTypes
<1>6. Types
  BY DEF Inv1
<1>7. PackTypes'
  <2>1. ASSUME NEW p \in int_port' PROVE p \in PackT /\ p.unit = "alu"
    <3>1. PICK s \in IntSlots :
              /\ MayIssue(iq[s])
              /\ p = [op |-> iq[s].op, unit |-> "alu", lpv |-> SentLpv(iq[s])]
      BY <1>6, IntSent
    <3>2. iq[s].op \in Ops /\ SentLpv(iq[s]) \in SUBSET Bits
      BY <1>4, <3>1, SlotLpv DEF SlotType, MayIssue
    <3> QED BY <3>1, <3>2 DEF PackT
  <2>2. ASSUME NEW p \in lsu_port'
        PROVE  /\ p \in PackT /\ p.unit # "alu"
               /\ \A q \in lsu_port' : p.unit = q.unit => p.op = q.op
    <3>1. PICK s \in LsuCandidates(p.unit) :
              /\ p = [op |-> lq[s].op, unit |-> p.unit, lpv |-> SentLpv(lq[s])]
              /\ \A t \in LsuCandidates(p.unit) : lq[s].op <= lq[t].op
      BY <1>6, LsuSent
    <3>2. p.unit \in {"lu", "sau", "sdu"}
      BY <1>6, LsuSent
    <3>3. s \in LsuSlots /\ MayIssue(lq[s])
      BY <3>1 DEF LsuCandidates
    <3>4. lq[s].op \in Ops /\ SentLpv(lq[s]) \in SUBSET Bits
      BY <1>5, <3>3, SlotLpv DEF SlotType, MayIssue
    <3>5. p \in PackT /\ p.op = lq[s].op
      BY <3>1, <3>2, <3>4 DEF PackT
    <3>6. ASSUME NEW q \in lsu_port', p.unit = q.unit PROVE p.op = q.op
      <4>1. PICK t \in LsuCandidates(q.unit) :
              /\ q = [op |-> lq[t].op, unit |-> q.unit, lpv |-> SentLpv(lq[t])]
              /\ \A u \in LsuCandidates(q.unit) : lq[t].op <= lq[u].op
        BY <1>6, LsuSent
      <4>2. q.op = lq[t].op /\ t \in LsuSlots /\ MayIssue(lq[t])
        BY <4>1 DEF LsuCandidates
      <4>3. lq[t].op \in Ops
        BY <1>5, <4>2 DEF SlotType, MayIssue
      <4>4. lq[s].op <= lq[t].op /\ lq[t].op <= lq[s].op
        BY <3>1, <3>6, <4>1
      <4> QED BY <3>4, <3>5, <4>2, <4>3, <4>4 DEF Ops
    <3> QED BY <3>2, <3>5, <3>6
  <2>3. AtMostOne(Lus(lsu_port'))
    BY <2>2, LusDef DEF AtMostOne
  <2>4. hold \subseteq PackT /\ (\A p \in hold : p.unit # "alu") /\ AtMostOne(Lus(hold))
        /\ hdff \subseteq HdffT /\ AtMostOne(Packs("lu"))
    BY DEF Inv1, Types, PackTypes
  <2>5. Packs("lu")' = Packs("lu")
    BY <1>1 DEF Packs
  <2> QED BY <1>1, <2>1, <2>2, <2>3, <2>4, <2>5 DEF PackTypes, AtMostOne, Lus
<1>8. Links'
  <2>1. lu.stall => lsu_port' = {}
    <3> SUFFICES ASSUME lu.stall, NEW p \in lsu_port' PROVE FALSE
      OBVIOUS
    <3> QED BY <1>6, LsuSent DEF LsuCandidates
  <2> QED BY <1>1, <1>2, <2>1 DEF Inv1, Links, Past
<1>9. /\ Available' = Available /\ Packs("alu")' = Packs("alu") /\ Packs("lu")' = Packs("lu")
      /\ Level1Loads' = Level1Loads /\ Level0Loads' = Level0Loads
      /\ \A i : Behind(i)' = Behind(i) /\ Forced(i)' = Forced(i) /\ StalledBehind(i)' = StalledBehind(i)
      /\ \A p : Needs(p)' = Needs(p)
  BY <1>1, <1>2 DEF Available, Packs, Level1Loads, Level0Loads, Behind, Forced, StalledBehind, Needs, Lus
<1>10. SlotsInv'
  <2>1. \A i, s, lsu : /\ Ready2(i, s, lsu)' = Ready2(i, s, lsu)
                       /\ Coming2(s)' = Coming2(s)
    BY <1>1, <1>2, <1>9 DEF Ready2, Coming2
  <2>2. ASSUME NEW e, NEW lsu, SlotInv(e, lsu) PROVE SlotInv(e, lsu)'
    BY <1>1, <2>1, <2>2 DEF SlotInv, SourceInv, Past
  <2> QED BY <1>2, <2>2 DEF SlotsInv, Inv1
<1>11. PacksInv'
  <2>1. ASSUME NEW p \in int_port', NEW n \in Needs(p) PROVE Need0(p, n)'
    <3>1. PICK s \in IntSlots :
              /\ MayIssue(iq[s]) /\ iq[s].src1.ready /\ iq[s].src2.ready
              /\ p = [op |-> iq[s].op, unit |-> "alu", lpv |-> SentLpv(iq[s])]
      BY <1>6, IntSent
    <3>2. PICK e : e = iq[s]
      OBVIOUS
    <3>3. SlotType(e) /\ MayIssue(e) /\ e.src1.ready /\ e.src2.ready
          /\ p.op = e.op /\ p.unit = "alu" /\ p.lpv = SentLpv(e)
      BY <1>4, <3>1, <3>2
    <3>4. SlotInv(e, FALSE)
      BY <3>2 DEF Inv1, SlotsInv
    <3>5. Ready2(e.op, e.src1, FALSE) /\ Ready2(e.op, e.src2, FALSE)
      BY <1>1, <3>3, <3>4 DEF SlotInv, SourceInv, Past, MayIssue
    <3>6. n = e.src1.reg \/ n = e.src2.reg
      BY <3>3 DEF Needs, SlotType, MayIssue
    <3>7. \/ n \in Available \cup Packs("alu")
          \/ 0 \in SentLpv(e) /\ (n = l2 \/ Forced(e.op))
          \/ 1 \in SentLpv(e) /\ StalledBehind(e.op)
      BY <1>1, <3>3, <3>5, <3>6, SentNeed DEF Past
    <3> QED BY <1>1, <1>2, <1>9, <3>3, <3>7 DEF Need0, SureNow
  <2>2. ASSUME NEW p \in lsu_port', NEW n \in Needs(p) PROVE Need0(p, n)'
    <3>1. PICK s \in LsuCandidates(p.unit) :
              p = [op |-> lq[s].op, unit |-> p.unit, lpv |-> SentLpv(lq[s])]
      BY <1>6, LsuSent
    <3>2. PICK e : e = lq[s]
      OBVIOUS
    <3>3. p.op = e.op /\ p.lpv = SentLpv(e) /\ p.unit \in {"lu", "sau", "sdu"}
      BY <1>6, <3>1, <3>2, LsuSent
    <3>4. /\ s \in LsuSlots /\ MayIssue(e) /\ ~lu.stall /\ ~rr_stall
          /\ p.unit = "lu" => e.src1.ready /\ e.src2.ready
          /\ p.unit = "sau" => e.src1.ready
          /\ p.unit = "sdu" => e.src2.ready
      BY <3>1, <3>2, <3>3 DEF LsuCandidates
    <3>5. SlotType(e) /\ SlotInv(e, TRUE)
      BY <1>5, <3>2, <3>4 DEF Inv1, SlotsInv
    <3>6. /\ e.src1.ready => Ready2(e.op, e.src1, TRUE)
          /\ e.src2.ready => Ready2(e.op, e.src2, TRUE)
      BY <1>1, <3>4, <3>5 DEF SlotInv, SourceInv, Past, MayIssue
    <3>7. (n = e.src1.reg /\ e.src1.ready) \/ (n = e.src2.reg /\ e.src2.ready)
      BY <3>3, <3>4, <3>5 DEF Needs, SlotType, MayIssue
    <3>8. \/ n \in Available \cup Packs("alu")
          \/ 0 \in SentLpv(e) /\ (n = l2 \/ Forced(e.op))
      <4>1. "lu" # "alu"
        OBVIOUS
      <4> QED BY <1>1, <3>4, <3>5, <3>6, <3>7, <4>1, SentNeed DEF Past
    <3> QED BY <1>1, <1>2, <1>9, <3>3, <3>8 DEF Need0, SureNow
  <2>3. ASSUME NEW p \in hold PROVE HoldInv(p)'
    BY <1>1, <1>9 DEF HoldInv, Inv1, PacksInv, Past
  <2> QED BY <1>1, <1>9, <2>1, <2>2, <2>3 DEF PacksInv, PackInv
<1>12. OperandsReady'
  BY <1>1 DEF Inv1, OperandsReady
<1> QED BY <1>3, <1>7, <1>8, <1>10, <1>11, <1>12 DEF Inv1, Types


-----------------------------------------------------------------------------
(***************************************************************************)
(* The first invariant: wakeup.                                            *)
(***************************************************************************)
\* What the end of a cycle leaves alone, and what is there in the next.
LEMMA IssueFacts ==
    ASSUME Inv1, NEW ints, NEW lsus, Issue(ints, lsus)
    PROVE  /\ phase = "wakeup" /\ phase' = "execute" /\ cut' = N
           /\ UNCHANGED <<prog, int_port, lsu_port, busy, hold, hdff>>
           /\ UNCHANGED <<l2, l2_conflict_found, l2_stall, l2_last_last_stall, wb_port>>
           /\ regs' = regs \cup wb /\ exec' = {} /\ wb' = {} /\ lu' = NoFeedback
           /\ rr_stall' = FALSE
           /\ entered' = (entered \cap Upto(cut)) \cup ints \cup lsus
           /\ Sure' = Available \cup Packs("alu")
           /\ \A u : Packs(u)' = Packs(u)
           /\ \A i : Forced(i)' = Forced(i) /\ StalledBehind(i)' = StalledBehind(i)
           /\ \A p : Needs(p)' = Needs(p)
<1>1. /\ phase = "wakeup" /\ phase' = "execute" /\ cut' = N
      /\ UNCHANGED <<prog, int_port, lsu_port, busy, hold, hdff>>
      /\ UNCHANGED <<l2, l2_conflict_found, l2_stall, l2_last_last_stall, wb_port>>
      /\ regs' = regs \cup wb /\ exec' = {} /\ wb' = {} /\ lu' = NoFeedback
      /\ rr_stall' = FALSE
      /\ entered' = (entered \cap Upto(cut)) \cup ints \cup lsus
  BY DEF Issue
<1>2. /\ \A u : Packs(u)' = Packs(u)
      /\ \A i : Forced(i)' = Forced(i) /\ StalledBehind(i)' = StalledBehind(i)
      /\ \A p : Needs(p)' = Needs(p)
  BY <1>1 DEF Packs, Forced, StalledBehind, Needs
<1>3. wb_port = exec
  BY <1>1 DEF Inv1, Links
<1>4. Sure' = Available \cup Packs("alu")
  BY <1>1, <1>2, <1>3 DEF Sure, Available
<1> QED BY <1>1, <1>2, <1>4

\* How a load position vector goes on, when it is not one of a replay.
LEMMA ShiftedCases ==
    ASSUME NEW l \in SUBSET Bits, ~(lu.replay /\ lu.following /\ 0 \in l)
    PROVE  /\ lu.stall => ShiftedLpv(l) = l
           /\ ~lu.stall => ShiftedLpv(l) = Shift(l)
BY DEF ShiftedLpv, AtLevel2

\* An operand over a wakeup.
LEMMA WokenReady ==
    ASSUME Inv1, NEW ints, NEW lsus, Issue(ints, lsus),
           NEW i \in Ops, NEW s \in SourceT, NEW lsu \in BOOLEAN,
           s.ready => Ready2(i, s, lsu), ~s.ready /\ s.shift = 1 => Coming2(s),
           NEW b \in BOOLEAN, b <=> ~lsu, NEW w, w = Woken(s, b)
    PROVE  /\ w.ready => Ready0(i, w, lsu)'
           /\ ~w.ready /\ w.shift = 1 => Coming0(w)'
<1>1. /\ UNCHANGED <<int_port, lsu_port, busy, hold>>
      /\ UNCHANGED <<l2, l2_stall>>
      /\ Sure' = Available \cup Packs("alu")
      /\ Packs("lu")' = Packs("lu")
      /\ Forced(i)' = Forced(i) /\ StalledBehind(i)' = StalledBehind(i)
      /\ phase = "wakeup"
  BY IssueFacts
<1>2. /\ wb_port = exec /\ (l2_stall <=> lu.stall) /\ (busy <=> lu.stall)
      /\ lu.stall => lu.replay /\ lu.following /\ lu.op = l2 /\ lsu_port = {}
      /\ lu.following /\ ~lu.stall => lu.op \in exec
  BY <1>1 DEF Inv1, Links, Past
<1>3. PackTypes
  BY DEF Inv1, Types
<1>5. /\ w \in SourceT /\ w.reg = s.reg
      /\ w.ready => \/ /\ s.ready \/ s.shift = 1
                       /\ ~Cancelled(s) /\ ~(b /\ Asleep(s))
                       /\ w.lpv = ShiftedLpv(s.lpv)
                    \/ \E p \in int_port : p.op = s.reg /\ w.lpv = p.lpv
                    \/ s.reg \in exec /\ w.lpv = {}
      /\ ~w.ready /\ w.shift = 1 =>
           \E p \in lsu_port : p.unit = "lu" /\ p.op = s.reg /\ w.lpv = p.lpv \cup {2}
  BY <1>3, WokenCases
<1>6. ASSUME s.ready \/ s.shift = 1, ~Cancelled(s), ~(b /\ Asleep(s)),
             w.lpv = ShiftedLpv(s.lpv)
      PROVE  Ready0(i, w, lsu)'
  <2>0. s.lpv \in SUBSET Bits
    BY DEF SourceT
  <2>1. CASE lu.replay /\ 0 \in s.lpv
    <3>1. lu.following /\ s.reg = lu.op
      BY <1>6, <2>1 DEF Cancelled, AtLevel2
    <3>2. CASE lu.stall
      <4>1. w.lpv = s.lpv
        BY <1>6, <3>2 DEF ShiftedLpv
      <4> QED BY <1>1, <1>2, <1>5, <2>1, <3>1, <3>2, <4>1 DEF Ready0
    <3>3. CASE ~lu.stall
      <4>1. s.reg \in Available
        BY <1>2, <3>1, <3>3 DEF Available
      <4> QED BY <1>1, <1>5, <4>1 DEF Ready0
    <3> QED BY <3>2, <3>3
  <2>2. CASE ~(lu.replay /\ 0 \in s.lpv)
    <3>1. /\ lu.stall => w.lpv = s.lpv
          /\ ~lu.stall => /\ 0 \in w.lpv <=> 1 \in s.lpv
                          /\ 1 \in w.lpv <=> 2 \in s.lpv
      BY <1>6, <2>0, <2>2, ShiftedCases, ShiftBits
    <3>2. lu.stall /\ (1 \in s.lpv \/ 2 \in s.lpv) => lsu
      BY <1>6 DEF Asleep, Before2
    <3>3. CASE s.reg \in Available \cup Packs("alu")
      BY <1>1, <1>5, <3>3 DEF Ready0
    <3>4. CASE 1 \in s.lpv /\ (s.reg \in Level1Loads \/ Behind(i))
      <4>1. CASE lu.stall
        <5>1. s.reg \in Packs("lu") \/ StalledBehind(i)
          BY <1>2, <3>4, <4>1 DEF Level1Loads, Behind, StalledBehind
        <5> QED BY <1>1, <1>5, <3>1, <3>4, <4>1, <5>1 DEF Ready0
      <4>2. CASE ~lu.stall
        <5>1. s.reg = l2 \/ Forced(i)
          BY <3>4, <4>2 DEF Level1Loads, Behind, Forced
        <5> QED BY <1>1, <1>5, <3>1, <3>4, <4>2, <5>1 DEF Ready0
      <4> QED BY <4>1, <4>2
    <3>5. CASE 2 \in s.lpv /\ s.reg \in Level0Loads
      <4>1. CASE lu.stall
        <5>1. s.reg \in Lus(hold) /\ Lus(hold)' = Lus(hold)
          BY <1>1, <3>5, <4>1 DEF Level0Loads, Lus
        <5>2. Held(w)'
          BY <1>1, <1>2, <1>5, <3>1, <3>5, <4>1, <5>1 DEF Held
        <5> QED BY <3>2, <3>5, <4>1, <5>2 DEF Ready0
      <4>2. CASE ~lu.stall
        <5>1. s.reg \in Packs("lu")
          BY <3>5, <4>2 DEF Level0Loads
        <5> QED BY <1>1, <1>5, <3>1, <3>5, <4>2, <5>1 DEF Ready0
      <4> QED BY <4>1, <4>2
    <3>6. CASE s.ready
      BY <2>2, <3>3, <3>4, <3>5, <3>6 DEF Ready2
    <3>7. CASE ~s.ready
      BY <1>6, <2>2, <3>5, <3>7 DEF Coming2
    <3> QED BY <3>6, <3>7
  <2> QED BY <2>1, <2>2
<1>7. ASSUME NEW p \in int_port, p.op = s.reg, w.lpv = p.lpv PROVE Ready0(i, w, lsu)'
  <2>1. ByPort(w)'
    BY <1>1, <1>5, <1>7 DEF ByPort
  <2> QED BY <2>1 DEF Ready0
<1>8. ASSUME s.reg \in exec PROVE Ready0(i, w, lsu)'
  BY <1>1, <1>5, <1>8 DEF Ready0, Available
<1>9. ASSUME NEW p \in lsu_port, p.unit = "lu", p.op = s.reg, w.lpv = p.lpv \cup {2}
      PROVE  Coming0(w)'
  <2>1. ~lu.stall
    BY <1>2
  <2> QED BY <1>1, <1>2, <1>5, <1>9, <2>1 DEF Coming0
<1> QED BY <1>5, <1>6, <1>7, <1>8, <1>9

\* A wakeup preserves the first invariant.
LEMMA Issue1 ==
    ASSUME Inv1, NEW ints \in NextOne({"alu"}), NEW lsus \in NextOne({"load", "store"}),
           Issue(ints, lsus)
    PROVE  Inv1'
<1>1. /\ phase = "wakeup" /\ phase' = "execute" /\ cut' = N
      /\ UNCHANGED <<prog, int_port, lsu_port, busy, hold, hdff>>
      /\ UNCHANGED <<l2, l2_conflict_found, l2_stall, l2_last_last_stall, wb_port>>
      /\ lu' = NoFeedback /\ rr_stall' = FALSE
      /\ Sure' = Available \cup Packs("alu")
      /\ \A u : Packs(u)' = Packs(u)
      /\ \A i : Forced(i)' = Forced(i) /\ StalledBehind(i)' = StalledBehind(i)
      /\ \A p : Needs(p)' = Needs(p)
  BY IssueFacts
<1>2. Types
  BY DEF Inv1
<1>3. FlagTypes'
  <2>1. lu' \in [op : 0..N, stall : BOOLEAN, replay : BOOLEAN, following : BOOLEAN]
    <3>1. 0 \in 0..N
      BY ConstAssumption
    <3> QED BY <1>1, <3>1 DEF NoFeedback
  <2>2. cut' \in 0..N
    BY <1>1, ConstAssumption
  <2>3. rr_stall' \in BOOLEAN
    BY <1>1
  <2> QED BY <1>1, <1>2, <2>1, <2>2, <2>3 DEF Types, FlagTypes
<1>4. PackTypes'
  BY <1>1, <1>2 DEF Types, PackTypes, Lus, AtMostOne
<1>5. QueueTypes'
  <2>1. /\ iq' = [s \in IntSlots |-> iq'[s]]
        /\ \A s \in IntSlots : SlotType(iq'[s])
    BY <1>2, IntQueueNext
  <2>2. /\ lq' = [s \in LsuSlots |-> lq'[s]]
        /\ \A s \in LsuSlots : SlotType(lq'[s])
    BY <1>2, LsuQueueNext
  <2>3. \A e : SlotType(e)' <=> SlotType(e)
    BY <1>1 DEF SlotType
  <2> QED BY <2>1, <2>2, <2>3 DEF QueueTypes
<1>6. Links'
  <2>1. busy <=> l2_stall
    BY <1>1 DEF Inv1, Links, Past
  <2> QED BY <1>1, <2>1 DEF Links, Past
<1>7. ASSUME NEW f, NEW lsu, NEW kinds, Fresh(f, kinds) PROVE SlotInv(f, lsu)'
  <2>1. ASSUME NEW r, NEW s, s = Source(r, r \in Available) PROVE SourceInv(f.op, s, lsu)'
    <3>1. s.reg = r /\ (s.ready <=> r \in Available) /\ s.shift = 0
      BY <2>1 DEF Source
    <3>2. s.ready => Ready0(f.op, s, lsu)'
      BY <1>1, <3>1 DEF Ready0
    <3> QED BY <1>1, <3>1, <3>2 DEF SourceInv, Past
  <2> QED BY <1>7, <2>1 DEF Fresh, SlotInv
<1>8. ASSUME NEW e, SlotType(e), e.valid, e.op <= cut, NEW lsu \in BOOLEAN, SlotInv(e, lsu),
             NEW f, f.op = e.op, NEW b \in BOOLEAN, b <=> ~lsu,
             f.src1 = Woken(e.src1, b), f.src2 = Woken(e.src2, b)
      PROVE  SlotInv(f, lsu)'
  <2>1. e.op \in Ops /\ e.src1 \in SourceT /\ e.src2 \in SourceT
    BY <1>8 DEF SlotType
  <2>2. SourceInv(e.op, e.src1, lsu) /\ SourceInv(e.op, e.src2, lsu)
    BY <1>8 DEF SlotInv
  <2>3. SourceInv(e.op, f.src1, lsu)'
    <3>1. /\ f.src1.ready => Ready0(e.op, f.src1, lsu)'
          /\ ~f.src1.ready /\ f.src1.shift = 1 => Coming0(f.src1)'
      BY <1>1, <1>8, <2>1, <2>2, WokenReady DEF SourceInv, Past
    <3> QED BY <1>1, <3>1 DEF SourceInv, Past
  <2>4. SourceInv(e.op, f.src2, lsu)'
    <3>1. /\ f.src2.ready => Ready0(e.op, f.src2, lsu)'
          /\ ~f.src2.ready /\ f.src2.shift = 1 => Coming0(f.src2)'
      BY <1>1, <1>8, <2>1, <2>2, WokenReady DEF SourceInv, Past
    <3> QED BY <1>1, <3>1 DEF SourceInv, Past
  <2> QED BY <1>8, <2>3, <2>4 DEF SlotInv
<1>9. SlotsInv'
  <2>1. ASSUME NEW s \in IntSlots PROVE SlotInv(iq[s], FALSE)'
    <3>1. iq'[s].valid => IntKept(iq[s], iq'[s]) \/ Fresh(iq'[s], {"alu"})
      BY <1>2, IntQueueNext
    <3>2. SlotType(iq[s]) /\ SlotInv(iq[s], FALSE)
      BY DEF Inv1, Types, QueueTypes, SlotsInv
    <3>3. CASE iq'[s].valid /\ IntKept(iq[s], iq'[s])
      <4>1. PICK e, f : e = iq[s] /\ f = iq'[s]
        OBVIOUS
      <4>2. /\ e.valid /\ e.op <= cut /\ f.op = e.op
            /\ f.src1 = Woken(e.src1, TRUE) /\ f.src2 = Woken(e.src2, TRUE)
        BY <3>3, <4>1 DEF IntKept
      <4>3. SlotInv(f, FALSE)'
        BY <1>8, <3>2, <4>1, <4>2
      <4> QED BY <4>1, <4>3
    <3>4. CASE iq'[s].valid /\ Fresh(iq'[s], {"alu"})
      BY <1>7, <3>4
    <3>5. CASE ~iq'[s].valid
      BY <3>5 DEF SlotInv
    <3> QED BY <3>1, <3>3, <3>4, <3>5
  <2>2. ASSUME NEW s \in LsuSlots PROVE SlotInv(lq[s], TRUE)'
    <3>1. lq'[s].valid => LsuKept(lq[s], lq'[s]) \/ Fresh(lq'[s], {"load", "store"})
      BY <1>2, LsuQueueNext
    <3>2. SlotType(lq[s]) /\ SlotInv(lq[s], TRUE)
      BY DEF Inv1, Types, QueueTypes, SlotsInv
    <3>3. CASE lq'[s].valid /\ LsuKept(lq[s], lq'[s])
      <4>1. PICK e, f : e = lq[s] /\ f = lq'[s]
        OBVIOUS
      <4>2. /\ e.valid /\ e.op <= cut /\ f.op = e.op
            /\ f.src1 = Woken(e.src1, FALSE) /\ f.src2 = Woken(e.src2, FALSE)
        BY <3>3, <4>1 DEF LsuKept
      <4>3. SlotInv(f, TRUE)'
        BY <1>8, <3>2, <4>1, <4>2
      <4> QED BY <4>1, <4>3
    <3>4. CASE lq'[s].valid /\ Fresh(lq'[s], {"load", "store"})
      BY <1>7, <3>4
    <3>5. CASE ~lq'[s].valid
      BY <3>5 DEF SlotInv
    <3> QED BY <3>1, <3>3, <3>4, <3>5
  <2> QED BY <2>1, <2>2 DEF SlotsInv
<1>10. PacksInv'
  <2>1. SureNow' = SureNow
    BY <1>1 DEF SureNow
  <2>2. ASSUME NEW p \in int_port \cup lsu_port PROVE PackInv(p)'
    <3>1. \A n \in Needs(p) : Need0(p, n)
      BY <1>1 DEF Inv1, PacksInv, PackInv
    <3> QED BY <1>1, <2>1, <3>1 DEF PackInv, Need0
  <2>3. ASSUME NEW p \in hold PROVE HoldInv(p)'
    <3>1. HoldInv(p)
      BY DEF Inv1, PacksInv
    <3> QED BY <1>1, <3>1 DEF HoldInv, Past
  <2> QED BY <1>1, <2>2, <2>3 DEF PacksInv
<1>11. OperandsReady'
  BY <1>1 DEF Inv1, OperandsReady
<1> QED BY <1>3, <1>4, <1>5, <1>6, <1>9, <1>10, <1>11 DEF Inv1, Types

\* A step that changes nothing.
LEMMA Stutter1 ==
    ASSUME Inv1, UNCHANGED vars
    PROVE  Inv1'
<1>1. /\ UNCHANGED <<phase, prog, cut, iq, lq, int_port, lsu_port, busy, hold, rr_stall, hdff>>
      /\ UNCHANGED <<l2, l2_conflict_found, l2_stall, l2_last_last_stall, lu, exec, wb_port, wb, regs>>
  BY DEF vars, queue_vars, readreg_vars, lu_vars, result_vars
<1>2. /\ \A u : Packs(u)' = Packs(u)
      /\ \A S : Lus(S)' = Lus(S)
      /\ Available' = Available /\ (Past' <=> Past)
  BY <1>1 DEF Packs, Lus, Available, Past
<1>3. /\ Sure' = Sure /\ Level1Loads' = Level1Loads /\ Level0Loads' = Level0Loads
      /\ SureNow' = SureNow
      /\ \A i : Forced(i)' = Forced(i) /\ StalledBehind(i)' = StalledBehind(i) /\ Behind(i)' = Behind(i)
      /\ \A p : Needs(p)' = Needs(p)
  BY <1>1, <1>2 DEF Sure, SureNow, Level1Loads, Level0Loads, Forced, StalledBehind, Behind, Needs
<1>4. Types'
  BY <1>1, <1>2 DEF Inv1, Types, QueueTypes, SlotType, PackTypes, FlagTypes, AtMostOne
<1>5. Links'
  BY <1>1, <1>2 DEF Inv1, Links
<1>6. SlotsInv'
  <2>1. \A s : ByPort(s)' = ByPort(s) /\ Held(s)' = Held(s) /\ Coming0(s)' = Coming0(s)
    BY <1>1, <1>2 DEF ByPort, Held, Coming0
  <2>2. \A s : Coming2(s)' = Coming2(s)
    BY <1>1, <1>3 DEF Coming2
  <2>3. \A i, s, lsu : /\ Ready0(i, s, lsu)' = Ready0(i, s, lsu)
                       /\ Ready1(i, s, lsu)' = Ready1(i, s, lsu)
                       /\ Ready2(i, s, lsu)' = Ready2(i, s, lsu)
    BY <1>1, <1>2, <1>3, <2>1 DEF Ready0, Ready1, Ready2
  <2>4. \A e, lsu : SlotInv(e, lsu)' <=> SlotInv(e, lsu)
    BY <1>1, <1>2, <2>1, <2>2, <2>3 DEF SlotInv, SourceInv
  <2> QED BY <1>1, <2>4 DEF Inv1, SlotsInv
<1>7. PacksInv'
  <2>1. \A p, n : Need0(p, n)' = Need0(p, n) /\ Need1(p, n)' = Need1(p, n)
    BY <1>1, <1>2, <1>3 DEF Need0, Need1
  <2> QED BY <1>1, <1>2, <1>3, <2>1 DEF Inv1, PacksInv, PackInv, HoldInv
<1>8. OperandsReady'
  BY <1>1 DEF Inv1, OperandsReady
<1> QED BY <1>4, <1>5, <1>6, <1>7, <1>8 DEF Inv1

\* The first invariant is one.
THEOREM Inv1Correct == Spec => []Inv1
<1>1. ASSUME Inv1, [Next]_vars PROVE Inv1'
  <2>1. CASE Proceed
    <3>1. N \in 0..N /\ FALSE \in BOOLEAN
      BY ConstAssumption
    <3> QED BY <1>1, <2>1, <3>1, Execute1 DEF Proceed
  <2>2. CASE Stall
    <3>1. N \in 0..N /\ TRUE \in BOOLEAN
      BY ConstAssumption
    <3> QED BY <1>1, <2>2, <3>1, Execute1 DEF Stall
  <2>3. CASE Flush
    <3>1. PICK c \in 0..(N - 1), stall \in BOOLEAN : Execute(c, stall)
      BY <2>3 DEF Flush
    <3>2. c \in 0..N
      BY ConstAssumption
    <3> QED BY <1>1, <3>1, <3>2, Execute1
  <2>4. CASE Readreg
    BY <1>1, <2>4, Readreg1
  <2>5. CASE Output
    BY <1>1, <2>5, Output1
  <2>6. CASE IssueCycle
    BY <1>1, <2>6, Issue1 DEF IssueCycle
  <2>7. CASE UNCHANGED vars
    BY <1>1, <2>7, Stutter1
  <2> QED BY <1>1, <2>1, <2>2, <2>3, <2>4, <2>5, <2>6, <2>7 DEF Next
<1> QED BY Init1, <1>1, PTL DEF Spec

\* Whatever the program and the sizes, a load or store reaches its unit with its operands:
\* lsu_readreg never sends one on the strength of a wakeup that was taken back.
THEOREM OperandsCorrect == Spec => []OperandsReady
<1>1. Inv1 => OperandsReady
  BY DEF Inv1
<1> QED BY <1>1, Inv1Correct, PTL

-----------------------------------------------------------------------------
(***************************************************************************)
(* Executed once: what is on its way, and what its slot knows of it.       *)
(***************************************************************************)
\* The instructions with a result.
Results == IF phase = "execute" THEN regs \cup wb_port ELSE exec \cup wb \cup regs
\* Not about to be flushed.
Alive(i) == phase = "execute" \/ i <= cut

Single(q, S) == \A s, t \in S : q[s].valid /\ q[t].valid /\ q[s].op = q[t].op => s = t
KindInv ==
    /\ \A s \in IntSlots : iq[s].valid => Kind(iq[s].op) = "alu"
    /\ \A s \in LsuSlots : lq[s].valid => Kind(lq[s].op) # "alu"
    /\ \A p \in int_port : Kind(p.op) = "alu"
    /\ \A p \in lsu_port \cup hold : p.unit = "lu" => Kind(p.op) = "load"
    /\ \A p \in hdff : /\ p.unit = "alu" => Kind(p.op) = "alu"
                       /\ p.unit = "lu" => Kind(p.op) = "load"
    /\ l2 # 0 => Kind(l2) = "load"
EnteredInv ==
    /\ \A s \in IntSlots : iq[s].valid => iq[s].op \in entered
    /\ \A s \in LsuSlots : lq[s].valid => lq[s].op \in entered
    /\ \A p \in int_port \cup lsu_port \cup hold \cup hdff : p.op \in entered
    /\ Results \cup ({l2} \ {0}) \subseteq entered
CutInv ==
    /\ phase # "execute" => /\ Results \cup ({l2} \ {0}) \subseteq Upto(cut)
                            /\ \A p \in hdff : p.op <= cut
    /\ Past => \A p \in hold : p.op <= cut
    /\ phase = "wakeup" => \A p \in int_port \cup lsu_port : p.op <= cut
PlacesInv == Single(iq, IntSlots) /\ Single(lq, LsuSlots) /\ KindInv /\ EnteredInv /\ CutInv

\* A slot of the integer queue: if what it sent will execute, it leaves in this cycle.
AluSlot(e) ==
    e.valid /\ Alive(e.op) =>
    /\ e.op \notin Results
    /\ phase = "execute" => e.op \notin Packs("alu")
    /\ ~Past => \A p \in int_port : p.op = e.op => e.issued /\ p.lpv = Lpv(e)
    /\ Past /\ e.op \in Packs("alu") => e.issued /\ ~IntBack(e) /\ Safe(Lpv(e))

\* The slot that sent a pack in this cycle.
Sender(e, p) == /\ MayIssue(e) /\ e.src1.ready /\ e.src2.ready
                /\ p.op = e.op /\ p.lpv = SentLpv(e)

\* A pack of the integer queue; bit 1 says that an operand will not be there.
AluPack(p) ==
    /\ p.lpv \subseteq {0, 1}
    /\ phase = "execute" =>
         /\ p.op \notin Results \cup Packs("alu")
         /\ 1 \in p.lpv => \E n \in Needs(p) : n \notin Sure \cup {l2}
    /\ phase = "readreg" /\ p.op <= cut =>
         /\ p.op \notin Results
         /\ 1 \in p.lpv => \E n \in Needs(p) : n \notin Available
    /\ phase = "wakeup" =>
         /\ \E s \in IntSlots : Sender(iq[s], p)
         /\ 1 \in p.lpv => \E n \in Needs(p) : n \notin SureNow \cup {l2}
AluInv ==
    /\ \A s \in IntSlots : AluSlot(iq[s])
    /\ phase # "output" => /\ \A p, q \in int_port : p.op = q.op => p.lpv = q.lpv
                           /\ \A p \in int_port : AluPack(p)
    /\ phase # "readreg" => Packs("alu") \cap Results = {}

\* A ready operand with bit 1 is not there in this cycle.
Late(s) ==
    /\ \A t \in IntSlots : iq[t].valid /\ iq[t].op = s.reg => iq[t].issued
    /\ phase = "execute" => s.reg \notin Sure \cup {l2}
    /\ phase # "execute" => s.reg \notin Available \cup {lu.op}
    /\ Past => s.reg \notin Packs("alu")
    /\ ~Past => \A q \in int_port : q.op = s.reg => 1 \in q.lpv
IntSource(s) == s.ready => 2 \notin s.lpv /\ (1 \in s.lpv => Late(s))
\* Bit 2 of a ready operand is there only while readreg keeps what it has.
LsuSource(s) ==
    s.ready /\ 2 \in s.lpv =>
    /\ ~Past => busy
    /\ Past => lu.stall \/ rr_stall
    /\ phase = "execute" => s.reg # l2
    /\ phase # "execute" => s.reg # lu.op
\* The load it waits for is not at level 2.
Behind2(s) == phase # "execute" /\ ~s.ready /\ s.shift = 1 => s.reg # lu.op
SourcesInv ==
    /\ \A s \in IntSlots : iq[s].valid /\ Alive(iq[s].op) =>
          /\ IntSource(iq[s].src1) /\ IntSource(iq[s].src2)
          /\ Behind2(iq[s].src1) /\ Behind2(iq[s].src2)
    /\ \A s \in LsuSlots : lq[s].valid /\ Alive(lq[s].op) =>
          /\ LsuSource(lq[s].src1) /\ LsuSource(lq[s].src2)
          /\ Behind2(lq[s].src1) /\ Behind2(lq[s].src2)

\* A load is at one place only, from the port of the queue to its result.
NewLoads == Lus(lsu_port \cup hold)
FlightInv ==
    /\ ~Past => (busy => lsu_port = {}) /\ (~busy => hold = {})
    /\ Past /\ ~lu.stall => hold = {}
    /\ phase = "execute" =>
         /\ l2 \notin Results \ {0}
         /\ Packs("lu") \cap (Results \cup {l2}) = {}
         /\ NewLoads \cap (Results \cup {l2} \cup Packs("lu")) = {}
    /\ phase # "execute" =>
         /\ Level1Loads \cap (Results \cup {lu.op}) = {}
         /\ lu.stall => l2 \notin Results
         /\ lu.op \in Results => ~lu.stall /\ (lu.replay => lu.following)
    /\ phase = "readreg" =>
         \A x \in NewLoads : x <= cut => x \notin Results \cup Level1Loads \cup {lu.op}
    /\ Past => Level0Loads \cap (Results \cup Level1Loads \cup {lu.op}) = {}
    /\ phase = "wakeup" => \A p \in lsu_port : p.unit = "lu" =>
         ~lu.stall /\ ~rr_stall /\ \E s \in LsuSlots : Sender(lq[s], p)

\* The slot of a load that is on its way.
Up(e, cur) == e.issued /\ e.src1.ready /\ e.src2.ready /\ e.cur_lpv = cur
LoadSlot(e) ==
    e.valid /\ Kind(e.op) = "load" /\ Alive(e.op) =>
    /\ phase = "execute" =>
         /\ e.op \notin Results
         /\ e.op \in Packs("lu") => Up(e, {1}) /\ Lpv(e) = {}
         /\ e.op = l2 => Up(e, {0}) /\ Lpv(e) = {}
    /\ ~Past =>
         /\ \A p \in lsu_port : p.unit = "lu" /\ p.op = e.op =>
               Up(e, {2}) /\ p.lpv = Lpv(e) /\ p.lpv \subseteq {0}
         /\ e.op \in Lus(hold) => Up(e, {2}) /\ Lpv(e) = {}
    /\ phase # "execute" =>
         /\ e.op \in Results => e.op = lu.op
         /\ e.op \in Level1Loads => Up(e, {1}) /\ Lpv(e) = {}
         /\ e.op = lu.op => Up(e, {0}) /\ Lpv(e) = {}
    /\ Past /\ e.op \in Level0Loads =>
         Up(e, {2}) /\ Lpv(e) \subseteq {0} /\ (lu.replay => Lpv(e) = {})
LoadInv == \A s \in LsuSlots : LoadSlot(lq[s])

Inv2 == PlacesInv /\ AluInv /\ SourcesInv /\ FlightInv /\ LoadInv /\ ExecutedOnce


-----------------------------------------------------------------------------
(***************************************************************************)
(* The second invariant: the units run.                                    *)
(***************************************************************************)
\* Initially all is empty.
LEMMA Init2 == Init => Inv2
<1> SUFFICES ASSUME Init PROVE Inv2
  OBVIOUS
<1>1. /\ \A s \in IntSlots : iq[s].valid = FALSE
      /\ \A s \in LsuSlots : lq[s].valid = FALSE
  BY DEF Init, FreeSlot
<1>2. /\ phase = "execute" /\ int_port = {} /\ lsu_port = {} /\ hold = {} /\ hdff = {}
      /\ l2 = 0 /\ exec = {} /\ wb = {} /\ regs = {} /\ wb_port = {} /\ busy = FALSE
  BY DEF Init
<1>3. Results = {} /\ (\A u : Packs(u) = {}) /\ ~Past /\ NewLoads = {}
  BY <1>2 DEF Results, Packs, Past, NewLoads, Lus
<1>4. PlacesInv
  BY <1>1, <1>2, <1>3 DEF PlacesInv, Single, KindInv, EnteredInv, CutInv
<1>5. AluInv
  BY <1>1, <1>2, <1>3 DEF AluInv, AluSlot
<1>6. SourcesInv /\ LoadInv /\ ExecutedOnce
  BY <1>1, <1>2 DEF SourcesInv, LoadInv, LoadSlot, ExecutedOnce
<1>7. FlightInv
  BY <1>2, <1>3 DEF FlightInv
<1> QED BY <1>4, <1>5, <1>6, <1>7 DEF Inv2

\* The operations of packs are instructions, and unlike kinds are different.
LEMMA KindsDiffer ==
    ASSUME Inv1, KindInv
    PROVE  /\ \A x \in Packs("alu") : x \in Ops /\ Kind(x) = "alu"
           /\ \A x \in Packs("lu") : x \in Ops /\ Kind(x) = "load"
           /\ \A x \in NewLoads : x \in Ops /\ Kind(x) = "load"
           /\ \A x \in Lus(hold) : x \in Ops /\ Kind(x) = "load"
           /\ \A p \in int_port : p.op \in Ops /\ Kind(p.op) = "alu"
           /\ l2 \in 0..N /\ (l2 # 0 => l2 \in Ops /\ Kind(l2) = "load")
<1>1. /\ \A p \in hdff : p.op \in Ops
      /\ \A p \in int_port \cup lsu_port \cup hold : p.op \in Ops
      /\ l2 \in 0..N
  BY DEF Inv1, Types, PackTypes, PackT, HdffT, FlagTypes
<1> QED BY <1>1, PacksDef, LusDef, ConstAssumption DEF KindInv, NewLoads, Ops

\* The results after the units have run.
LEMMA ExecuteResults ==
    ASSUME Inv1, Inv2, NEW c \in 0..N, NEW stall \in BOOLEAN, Execute(c, stall)
    PROVE  /\ \A x \in Results' : \/ x \in Results \/ x \in Packs("alu")
                                  \/ x = l2 /\ Live(c) /\ ~stall
           /\ Results' \subseteq Upto(c)
           /\ Level1Loads' = Packs("lu") \cap Upto(c)
           /\ l2' # 0 => l2' \in Upto(c) /\ (l2' \in Packs("lu") \/ (stall /\ l2' = l2))
           /\ \A p \in hdff' : p \in hdff /\ p.op <= c /\ p.unit = "lu"
           /\ UNCHANGED <<prog, iq, lq, entered, int_port, lsu_port, busy, hold, rr_stall>>
           /\ phase = "execute" /\ phase' = "readreg" /\ cut' = c /\ ~Past /\ ~Past'
           /\ NewLoads' = NewLoads
<1>1. /\ phase = "execute" /\ phase' = "readreg" /\ cut' = c
      /\ lu'.stall <=> stall
      /\ stall => Live(c)
      /\ hdff' = IF stall THEN {p \in hdff : p.unit = "lu" /\ p.op <= c} ELSE {}
      /\ stall => l2' = l2
      /\ exec' = (Packs("alu") \cap Upto(c)) \cup (IF Live(c) /\ ~stall THEN {l2} ELSE {})
      /\ wb' = wb_port \cap Upto(c)
      /\ regs' = regs \cap Upto(c)
  BY ExecuteFacts
<1>2. l2 \in 0..N /\ (Live(c) => l2 \in Upto(c))
  BY DEF Inv1, Types, FlagTypes, Live, Upto
<1>3. Level1Loads' = Packs("lu") \cap Upto(c) /\ l2' \in 0..N
  BY Level1Next
<1>4. UNCHANGED <<prog, iq, lq, entered, int_port, lsu_port, busy, hold, rr_stall>>
  BY DEF Execute, readreg_vars, queue_vars
<1>5. l2' # 0 => l2' \in Upto(c) /\ (l2' \in Packs("lu") \/ (stall /\ l2' = l2))
  <2>1. CASE stall
    BY <1>1, <1>2, <2>1
  <2>2. CASE ~stall
    BY <1>1, <1>3, <2>2 DEF Level1Loads
  <2> QED BY <2>1, <2>2
<1>6. NewLoads' = NewLoads
  BY <1>4 DEF NewLoads, Lus
<1> QED BY <1>1, <1>2, <1>3, <1>4, <1>5, <1>6 DEF Results, Past

\* Places, over the execution of the units.
LEMMA ExecutePlaces ==
    ASSUME Inv1, Inv2, NEW c \in 0..N, NEW stall \in BOOLEAN, Execute(c, stall)
    PROVE  PlacesInv'
<1>1. /\ \A x \in Results' : \/ x \in Results \/ x \in Packs("alu")
                             \/ x = l2 /\ Live(c) /\ ~stall
      /\ Results' \subseteq Upto(c)
      /\ l2' # 0 => l2' \in Upto(c) /\ (l2' \in Packs("lu") \/ (stall /\ l2' = l2))
      /\ \A p \in hdff' : p \in hdff /\ p.op <= c /\ p.unit = "lu"
      /\ UNCHANGED <<prog, iq, lq, entered, int_port, lsu_port, busy, hold, rr_stall>>
      /\ phase = "execute" /\ phase' = "readreg" /\ cut' = c /\ ~Past /\ ~Past'
  BY ExecuteResults
<1>2. PlacesInv
  BY DEF Inv2
<1>3. Single(iq, IntSlots)' /\ Single(lq, LsuSlots)'
  BY <1>1, <1>2 DEF PlacesInv, Single
<1>4. KindInv'
  <2>1. \A i : Kind(i)' = Kind(i)
    BY <1>1 DEF Kind
  <2>2. l2' # 0 => Kind(l2') = "load"
    BY <1>1, <1>2, PacksDef DEF PlacesInv, KindInv
  <2> QED BY <1>1, <1>2, <2>1, <2>2 DEF PlacesInv, KindInv
<1>5. EnteredInv'
  <2>1. \A u : Packs(u) \subseteq entered
    BY <1>2, PacksDef DEF PlacesInv, EnteredInv
  <2>2. Results' \cup ({l2'} \ {0}) \subseteq entered
    BY <1>1, <1>2, <2>1 DEF PlacesInv, EnteredInv, Live
  <2> QED BY <1>1, <1>2, <2>2 DEF PlacesInv, EnteredInv
<1>6. CutInv'
  BY <1>1 DEF CutInv
<1> QED BY <1>3, <1>4, <1>5, <1>6 DEF PlacesInv

\* The integer queue and its packs, over the execution of the units.
LEMMA ExecuteAlu ==
    ASSUME Inv1, Inv2, NEW c \in 0..N, NEW stall \in BOOLEAN, Execute(c, stall)
    PROVE  AluInv' /\ ExecutedOnce'
<1>1. /\ \A x \in Results' : \/ x \in Results \/ x \in Packs("alu")
                             \/ x = l2 /\ Live(c) /\ ~stall
      /\ Results' \subseteq Upto(c)
      /\ \A p \in hdff' : p \in hdff /\ p.op <= c /\ p.unit = "lu"
      /\ UNCHANGED <<prog, iq, lq, entered, int_port, lsu_port, busy, hold, rr_stall>>
      /\ phase = "execute" /\ phase' = "readreg" /\ cut' = c /\ ~Past /\ ~Past'
  BY ExecuteResults
<1>2. AluInv /\ KindInv /\ FlightInv
  BY DEF Inv2, PlacesInv
<1>3. /\ \A p \in int_port : p.op \in Ops /\ Kind(p.op) = "alu"
      /\ \A x \in Packs("alu") : x \in Ops /\ Kind(x) = "alu"
      /\ Live(c) => l2 # 0 /\ Kind(l2) = "load"
  BY <1>2, KindsDiffer DEF Live
<1>4. /\ \A x \in Available' : x \in Sure \/ (x = l2 /\ Live(c) /\ ~stall)
  BY SureNext
<1>5. ASSUME NEW e, AluSlot(e), e.valid => Kind(e.op) = "alu" PROVE AluSlot(e)'
  BY <1>1, <1>3, <1>5 DEF AluSlot, Alive, Lpv
<1>6. \A s \in IntSlots : AluSlot(iq[s])'
  BY <1>1, <1>2, <1>5 DEF AluInv, KindInv
<1>7. ASSUME NEW p \in int_port PROVE AluPack(p)'
  <2>1. AluPack(p)
    BY <1>1, <1>2 DEF AluInv
  <2>2. Needs(p)' = Needs(p)
    BY <1>1 DEF Needs
  <2>3. p.op \notin Results'
    BY <1>1, <1>3, <2>1 DEF AluPack
  <2>4. 1 \in p.lpv => \E n \in Needs(p) : n \notin Available'
    BY <1>1, <1>4, <2>1 DEF AluPack
  <2> QED BY <1>1, <2>1, <2>2, <2>3, <2>4 DEF AluPack
<1>8. AluInv'
  BY <1>1, <1>2, <1>6, <1>7 DEF AluInv
<1>9. ExecutedOnce'
  <2>1. /\ exec' = (Packs("alu") \cap Upto(c)) \cup (IF Live(c) /\ ~stall THEN {l2} ELSE {})
        /\ wb' = wb_port \cap Upto(c)
        /\ regs' = regs \cap Upto(c)
    BY ExecuteFacts
  <2>2. Packs("alu") \cap Results = {} /\ l2 \notin Results \ {0}
    BY <1>1, <1>2 DEF AluInv, FlightInv
  <2> QED BY <1>1, <1>3, <2>1, <2>2 DEF ExecutedOnce, Results
<1> QED BY <1>8, <1>9

\* Operands, over the execution of the units.
LEMMA ExecuteSources ==
    ASSUME Inv1, Inv2, NEW c \in 0..N, NEW stall \in BOOLEAN, Execute(c, stall)
    PROVE  SourcesInv'
<1>1. /\ UNCHANGED <<prog, iq, lq, entered, int_port, lsu_port, busy, hold, rr_stall>>
      /\ phase = "execute" /\ phase' = "readreg" /\ cut' = c /\ ~Past /\ ~Past'
  BY ExecuteResults
<1>2. SourcesInv /\ FlightInv /\ lu'.op = l2
  BY ExecuteFacts DEF Inv2
<1>3. \A x \in Available' : x \in Sure \/ (x = l2 /\ Live(c) /\ ~stall)
  BY SureNext
<1>4. \A s : IntSource(s) => IntSource(s)'
  <2>1. \A s : Late(s) => Late(s)'
    BY <1>1, <1>2, <1>3 DEF Late
  <2> QED BY <2>1 DEF IntSource
<1>5. \A s : LsuSource(s) => LsuSource(s)'
  BY <1>1, <1>2 DEF LsuSource
<1>6. ASSUME NEW i, NEW s, NEW lsu, SourceInv(i, s, lsu) PROVE Behind2(s)'
  <2> SUFFICES ASSUME ~s.ready, s.shift = 1 PROVE s.reg # l2
    BY <1>2 DEF Behind2
  <2>1. Coming0(s)
    BY <1>1, <1>6 DEF SourceInv
  <2>2. s.reg \in NewLoads
    BY <2>1, LusDef DEF Coming0, NewLoads
  <2> QED BY <1>1, <1>2, <2>2 DEF FlightInv
<1>7. SlotsInv
  BY DEF Inv1
<1>8. ASSUME NEW s \in IntSlots, iq[s].valid
      PROVE  /\ IntSource(iq[s].src1)' /\ IntSource(iq[s].src2)'
             /\ Behind2(iq[s].src1)' /\ Behind2(iq[s].src2)'
  BY <1>1, <1>2, <1>4, <1>6, <1>7, <1>8 DEF SourcesInv, SlotsInv, SlotInv, Alive
<1>9. ASSUME NEW s \in LsuSlots, lq[s].valid
      PROVE  /\ LsuSource(lq[s].src1)' /\ LsuSource(lq[s].src2)'
             /\ Behind2(lq[s].src1)' /\ Behind2(lq[s].src2)'
  BY <1>1, <1>2, <1>5, <1>6, <1>7, <1>9 DEF SourcesInv, SlotsInv, SlotInv, Alive
<1> QED BY <1>1, <1>8, <1>9 DEF SourcesInv

\* Loads, over the execution of the units.
LEMMA ExecuteFlight ==
    ASSUME Inv1, Inv2, NEW c \in 0..N, NEW stall \in BOOLEAN, Execute(c, stall)
    PROVE  FlightInv'
<1>1. /\ \A x \in Results' : \/ x \in Results \/ x \in Packs("alu")
                             \/ x = l2 /\ Live(c) /\ ~stall
      /\ Results' \subseteq Upto(c)
      /\ Level1Loads' = Packs("lu") \cap Upto(c)
      /\ UNCHANGED <<prog, iq, lq, entered, int_port, lsu_port, busy, hold, rr_stall>>
      /\ phase = "execute" /\ phase' = "readreg" /\ cut' = c /\ ~Past /\ ~Past'
      /\ NewLoads' = NewLoads
  BY ExecuteResults
<1>2. /\ \A x \in Packs("alu") : x \in Ops /\ Kind(x) = "alu"
      /\ \A x \in Packs("lu") : x \in Ops /\ Kind(x) = "load"
      /\ \A x \in NewLoads : x \in Ops /\ Kind(x) = "load"
      /\ l2 \in 0..N /\ (l2 # 0 => l2 \in Ops /\ Kind(l2) = "load")
  BY KindsDiffer DEF Inv2, PlacesInv
<1>3. /\ lu'.op = l2 /\ (lu'.stall <=> stall)
      /\ lu'.replay <=> l2_conflict_found \/ stall \/ (Live(c) /\ l2_last_last_stall)
      /\ lu'.following <=> Live(c) /\ (stall \/ l2_last_last_stall)
      /\ stall => Live(c)
      /\ stall => l2' = l2
  BY ExecuteFacts
<1>4. FlightInv
  BY DEF Inv2
<1>5. /\ l2 \notin Results \ {0}
      /\ Packs("lu") \cap (Results \cup {l2}) = {}
      /\ NewLoads \cap (Results \cup {l2} \cup Packs("lu")) = {}
      /\ (busy => lsu_port = {}) /\ (~busy => hold = {})
  BY <1>1, <1>4 DEF FlightInv
<1>6. /\ 0 \notin Results'
      /\ l2 \in Results' => Live(c) /\ ~stall
  BY <1>1, <1>2, <1>5 DEF Upto
<1>7. Packs("lu") \cap Results' = {} /\ NewLoads \cap Results' = {}
  BY <1>1, <1>2, <1>5
<1>8. lu'.op \in Results' => ~lu'.stall /\ (lu'.replay => lu'.following)
  BY <1>3, <1>6 DEF Live
<1>9. lu'.stall => l2' \notin Results'
  BY <1>3, <1>6
<1> QED BY <1>1, <1>3, <1>5, <1>7, <1>8, <1>9 DEF FlightInv

\* The slots of loads, over the execution of the units.
LEMMA ExecuteLoads ==
    ASSUME Inv1, Inv2, NEW c \in 0..N, NEW stall \in BOOLEAN, Execute(c, stall)
    PROVE  LoadInv'
<1>1. /\ \A x \in Results' : \/ x \in Results \/ x \in Packs("alu")
                             \/ x = l2 /\ Live(c) /\ ~stall
      /\ Level1Loads' = Packs("lu") \cap Upto(c)
      /\ UNCHANGED <<prog, iq, lq, entered, int_port, lsu_port, busy, hold, rr_stall>>
      /\ phase = "execute" /\ phase' = "readreg" /\ cut' = c /\ ~Past /\ ~Past'
      /\ lu'.op = l2
  BY ExecuteResults, ExecuteFacts
<1>2. \A x \in Packs("alu") : x \in Ops /\ Kind(x) = "alu"
  BY KindsDiffer DEF Inv2, PlacesInv
<1>3. Lus(hold)' = Lus(hold) /\ \A i : Kind(i)' = Kind(i)
  BY <1>1 DEF Lus, Kind
<1>4. ASSUME NEW e, LoadSlot(e) PROVE LoadSlot(e)'
  BY <1>1, <1>2, <1>3, <1>4 DEF LoadSlot, Alive, Up, Lpv
<1> QED BY <1>1, <1>4 DEF Inv2, LoadInv

\* The units preserve the second invariant.
LEMMA Execute2 ==
    ASSUME Inv1, Inv2, NEW c \in 0..N, NEW stall \in BOOLEAN, Execute(c, stall)
    PROVE  Inv2'
BY ExecutePlaces, ExecuteAlu, ExecuteSources, ExecuteFlight, ExecuteLoads DEF Inv2

-----------------------------------------------------------------------------
(***************************************************************************)
(* The second invariant: readreg.                                          *)
(***************************************************************************)
\* Where a pack in the units' inputs comes from.
LEMMA ReadregSent ==
    ASSUME Inv1, Readreg
    PROVE  /\ \A x \in hdff' :
                \/ x \in hdff
                \/ \E p \in int_port : /\ Passes(p) /\ x.op = p.op /\ x.unit = p.unit
                                       /\ Needs(p) \subseteq Available
                \/ \E p \in Arrived : Passes(p) /\ x.op = p.op /\ x.unit = p.unit
           /\ \A x \in Packs("alu")' : \E p \in int_port :
                Passes(p) /\ x = p.op /\ Needs(p) \subseteq Available
<1>1. hdff' = hdff \cup {p \in Sent(int_port) : p.ok}
                   \cup (IF lu.stall THEN {} ELSE Sent(Arrived))
  BY ReadregFacts
<1>2. ASSUME NEW packs, NEW x \in Sent(packs)
      PROVE  \E p \in packs : /\ Passes(p) /\ x.op = p.op /\ x.unit = p.unit
                              /\ x.ok <=> Needs(p) \subseteq Available
  <2>1. PICK p \in packs : /\ Passes(p)
                           /\ x = [op |-> p.op, unit |-> p.unit, ok |-> Needs(p) \subseteq Available]
    BY <1>2, SentDef
  <2> QED BY <2>1
<1>3. \A x \in hdff' :
                \/ x \in hdff
                \/ \E p \in int_port : /\ Passes(p) /\ x.op = p.op /\ x.unit = p.unit
                                       /\ Needs(p) \subseteq Available
                \/ \E p \in Arrived : Passes(p) /\ x.op = p.op /\ x.unit = p.unit
  BY <1>1, <1>2
<1>4. /\ \A x \in hdff : x.unit = "lu"
      /\ \A p \in Arrived : p.unit # "alu"
  BY ReadregFacts DEF Inv1, Links, Types, PackTypes, Arrived
<1>5. \A x \in Packs("alu")' : \E p \in int_port :
                Passes(p) /\ x = p.op /\ Needs(p) \subseteq Available
  BY <1>3, <1>4, PacksDefNext
<1> QED BY <1>3, <1>5

\* What readreg leaves alone, in terms of this invariant.
LEMMA ReadregSame ==
    ASSUME Inv1, Inv2, Readreg
    PROVE  /\ phase = "readreg" /\ phase' = "output" /\ ~Past /\ Past'
           /\ hold' = IF lu.stall THEN {p \in Arrived : Passes(p)} ELSE {}
           /\ (busy' <=> lu.stall) /\ (rr_stall' <=> busy)
           /\ UNCHANGED <<prog, cut, iq, lq, entered, int_port, lsu_port, l2, lu>>
           /\ UNCHANGED <<exec, wb, regs, wb_port>>
           /\ Results' = Results /\ Available' = Available
           /\ \A i : Kind(i)' = Kind(i) /\ (Alive(i)' <=> Alive(i))
           /\ Level0Loads' = Lus({p \in Arrived : Passes(p)})
           /\ Level1Loads' = Level1Loads
           /\ Arrived \subseteq lsu_port \cup hold
           /\ \A e : Lpv(e)' = Lpv(e)
<1>1. /\ phase = "readreg" /\ phase' = "output"
      /\ hold' = IF lu.stall THEN {p \in Arrived : Passes(p)} ELSE {}
      /\ (busy' <=> lu.stall) /\ (rr_stall' <=> busy)
      /\ UNCHANGED <<prog, cut, queue_vars, int_port, lsu_port, lu_vars, result_vars>>
  BY ReadregFacts
<1>2. UNCHANGED <<prog, cut, iq, lq, entered, int_port, lsu_port, l2, lu, exec, wb, regs, wb_port>>
  BY <1>1 DEF queue_vars, lu_vars, result_vars
<1>3. /\ Results' = Results
      /\ \A i : Kind(i)' = Kind(i) /\ (Alive(i)' <=> Alive(i))
      /\ \A e : Lpv(e)' = Lpv(e)
  BY <1>1, <1>2 DEF Results, Kind, Alive, Lpv
<1> QED BY <1>1, <1>2, <1>3, ReadregLevels DEF Past, Arrived

\* Places, over readreg.
LEMMA ReadregPlaces ==
    ASSUME Inv1, Inv2, Readreg
    PROVE  PlacesInv'
<1>1. /\ phase = "readreg" /\ phase' = "output" /\ ~Past /\ Past'
      /\ hold' = IF lu.stall THEN {p \in Arrived : Passes(p)} ELSE {}
      /\ UNCHANGED <<prog, cut, iq, lq, entered, int_port, lsu_port, l2, lu>>
      /\ Results' = Results
      /\ \A i : Kind(i)' = Kind(i)
      /\ Arrived \subseteq lsu_port \cup hold
  BY ReadregSame
<1>2. PlacesInv
  BY DEF Inv2
<1>3. Single(iq, IntSlots)' /\ Single(lq, LsuSlots)'
  BY <1>1, <1>2 DEF PlacesInv, Single
<1>4. /\ \A p \in int_port : p.unit = "alu"
      /\ \A p \in Arrived : p.unit # "alu"
  BY ReadregPacks DEF Inv1, Types, PackTypes
<1>5. ASSUME NEW x \in hdff'
      PROVE  /\ x.op \in entered /\ x.op <= cut
             /\ x.unit = "alu" => Kind(x.op) = "alu"
             /\ x.unit = "lu" => Kind(x.op) = "load"
  <2>1. CASE x \in hdff
    BY <1>1, <1>2, <2>1 DEF PlacesInv, EnteredInv, KindInv, CutInv
  <2>2. ASSUME NEW p \in int_port, Passes(p), x.op = p.op, x.unit = p.unit
        PROVE  /\ x.op \in entered /\ x.op <= cut
               /\ x.unit = "alu" => Kind(x.op) = "alu"
               /\ x.unit = "lu" => Kind(x.op) = "load"
    BY <1>2, <1>4, <2>2 DEF PlacesInv, EnteredInv, KindInv, Passes
  <2>3. ASSUME NEW p \in Arrived, Passes(p), x.op = p.op, x.unit = p.unit
        PROVE  /\ x.op \in entered /\ x.op <= cut
               /\ x.unit = "alu" => Kind(x.op) = "alu"
               /\ x.unit = "lu" => Kind(x.op) = "load"
    BY <1>1, <1>2, <1>4, <2>3 DEF PlacesInv, EnteredInv, KindInv, Passes
  <2> QED BY <2>1, <2>2, <2>3, ReadregSent
<1>6. hold' \subseteq lsu_port \cup hold /\ \A p \in hold' : p.op <= cut
  BY <1>1 DEF Passes
<1>7. KindInv'
  BY <1>1, <1>2, <1>5, <1>6 DEF PlacesInv, KindInv
<1>8. EnteredInv'
  BY <1>1, <1>2, <1>5, <1>6 DEF PlacesInv, EnteredInv
<1>9. CutInv'
  BY <1>1, <1>2, <1>5, <1>6 DEF PlacesInv, CutInv
<1> QED BY <1>3, <1>7, <1>8, <1>9 DEF PlacesInv

\* The integer queue, over readreg.
LEMMA ReadregAlu ==
    ASSUME Inv1, Inv2, Readreg
    PROVE  AluInv'
<1>1. /\ phase = "readreg" /\ phase' = "output" /\ ~Past /\ Past'
      /\ UNCHANGED <<prog, cut, iq, lq, entered, int_port, lsu_port, l2, lu>>
      /\ Results' = Results
      /\ \A i : Alive(i)' <=> Alive(i)
  BY ReadregSame
<1>2. AluInv
  BY DEF Inv2
<1>3. \A x \in Packs("alu")' : \E p \in int_port :
                Passes(p) /\ x = p.op /\ Needs(p) \subseteq Available
  BY ReadregSent
<1>4. \A p \in int_port : Passes(p) /\ Needs(p) \subseteq Available =>
          p.op \notin Results /\ p.lpv \subseteq {0} /\ (lu.replay => p.lpv = {})
  BY <1>1, <1>2 DEF AluInv, AluPack, Passes, AtLevel2
<1>5. Packs("alu")' \cap Results' = {}
  BY <1>1, <1>3, <1>4
<1>6. ASSUME NEW e, AluSlot(e) PROVE AluSlot(e)'
  <2> SUFFICES ASSUME e.valid, Alive(e.op)
               PROVE  /\ e.op \notin Results
                      /\ e.op \in Packs("alu")' => e.issued /\ ~IntBack(e)' /\ Safe(Lpv(e))'
    BY <1>1 DEF AluSlot
  <2>1. e.op \notin Results
    BY <1>6 DEF AluSlot
  <2>2. ASSUME e.op \in Packs("alu")' PROVE e.issued /\ ~IntBack(e)' /\ Safe(Lpv(e))'
    <3>1. PICK p \in int_port : Passes(p) /\ e.op = p.op /\ Needs(p) \subseteq Available
      BY <1>3, <2>2
    <3>2. e.issued /\ p.lpv = Lpv(e)
      BY <1>1, <1>6, <3>1 DEF AluSlot
    <3>3. Lpv(e) \subseteq {0} /\ (lu.replay => Lpv(e) = {})
      BY <1>4, <3>1, <3>2
    <3>4. lu.stall => lu.replay
      BY <1>1 DEF Inv1, Links
    <3>5. Lpv(e)' = Lpv(e) /\ lu' = lu
      BY <1>1 DEF Lpv
    <3>6. ~IntBack(e)'
      BY <3>3, <3>4, <3>5 DEF IntBack, AtLevel2, Before2
    <3>7. Safe(Lpv(e))'
      BY <3>3, <3>4, <3>5 DEF Safe
    <3> QED BY <3>2, <3>6, <3>7
  <2> QED BY <2>1, <2>2
<1>7. \A s \in IntSlots : AluSlot(iq[s])'
  BY <1>1, <1>2, <1>6 DEF AluInv
<1> QED BY <1>1, <1>5, <1>7 DEF AluInv

\* Operands, over readreg.
LEMMA ReadregSources ==
    ASSUME Inv1, Inv2, Readreg
    PROVE  SourcesInv'
<1>1. /\ phase = "readreg" /\ phase' = "output" /\ ~Past /\ Past'
      /\ rr_stall' <=> busy
      /\ UNCHANGED <<prog, cut, iq, lq, entered, int_port, lsu_port, l2, lu>>
      /\ Available' = Available
      /\ \A i : Alive(i)' <=> Alive(i)
  BY ReadregSame
<1>2. SourcesInv /\ AluInv
  BY DEF Inv2
<1>3. \A p \in int_port : Passes(p) /\ Needs(p) \subseteq Available => 1 \notin p.lpv
  BY <1>1, <1>2 DEF AluInv, AluPack, Passes
<1>4. \A s : Late(s) => Late(s)'
  <2> SUFFICES ASSUME NEW s, Late(s) PROVE Late(s)'
    OBVIOUS
  <2>1. s.reg \notin Packs("alu")'
    BY <1>1, <1>3, ReadregSent DEF Late
  <2> QED BY <1>1, <2>1 DEF Late
<1>5. \A s : IntSource(s) => IntSource(s)'
  BY <1>4 DEF IntSource
<1>6. \A s : LsuSource(s) => LsuSource(s)'
  BY <1>1 DEF LsuSource
<1>7. \A s : Behind2(s) => Behind2(s)'
  BY <1>1 DEF Behind2
<1> QED BY <1>1, <1>2, <1>5, <1>6, <1>7 DEF SourcesInv

\* Loads, over readreg.
LEMMA ReadregFlight ==
    ASSUME Inv1, Inv2, Readreg
    PROVE  FlightInv'
<1>1. /\ phase = "readreg" /\ phase' = "output" /\ ~Past /\ Past'
      /\ hold' = IF lu.stall THEN {p \in Arrived : Passes(p)} ELSE {}
      /\ UNCHANGED <<prog, cut, iq, lq, entered, int_port, lsu_port, l2, lu>>
      /\ Results' = Results
      /\ Level0Loads' = Lus({p \in Arrived : Passes(p)})
      /\ Level1Loads' = Level1Loads
      /\ Arrived \subseteq lsu_port \cup hold
  BY ReadregSame
<1>2. FlightInv
  BY DEF Inv2
<1>3. ASSUME NEW x \in Level0Loads' PROVE x \notin Results \cup Level1Loads \cup {lu.op}
  <2>1. PICK p \in Arrived : Passes(p) /\ p.unit = "lu" /\ p.op = x
    BY <1>1, LusDef
  <2>2. x \in NewLoads /\ x <= cut
    BY <1>1, <2>1, LusDef DEF NewLoads, Passes
  <2> QED BY <1>1, <1>2, <2>2 DEF FlightInv
<1> QED BY <1>1, <1>2, <1>3 DEF FlightInv

\* The slots of loads, over readreg.
LEMMA ReadregLoads ==
    ASSUME Inv1, Inv2, Readreg
    PROVE  LoadInv'
<1>1. /\ phase = "readreg" /\ phase' = "output" /\ ~Past /\ Past'
      /\ UNCHANGED <<prog, cut, iq, lq, entered, int_port, lsu_port, l2, lu>>
      /\ Results' = Results
      /\ \A i : Kind(i)' = Kind(i) /\ (Alive(i)' <=> Alive(i))
      /\ Level0Loads' = Lus({p \in Arrived : Passes(p)})
      /\ Level1Loads' = Level1Loads
      /\ Arrived \subseteq lsu_port \cup hold
      /\ \A e : Lpv(e)' = Lpv(e)
  BY ReadregSame
<1>2. ASSUME NEW e, LoadSlot(e) PROVE LoadSlot(e)'
  <2> SUFFICES ASSUME e.valid, Kind(e.op) = "load", Alive(e.op), e.op \in Level0Loads'
               PROVE  Up(e, {2}) /\ Lpv(e) \subseteq {0} /\ (lu.replay => Lpv(e) = {})
    BY <1>1, <1>2 DEF LoadSlot, Up
  <2>1. PICK p \in Arrived : Passes(p) /\ p.unit = "lu" /\ p.op = e.op
    BY <1>1, LusDef
  <2>2. CASE p \in hold
    <3>1. e.op \in Lus(hold)
      BY <2>1, <2>2, LusDef
    <3> QED BY <1>1, <1>2, <3>1 DEF LoadSlot
  <2>3. CASE p \in lsu_port
    <3>1. Up(e, {2}) /\ p.lpv = Lpv(e) /\ p.lpv \subseteq {0}
      BY <1>1, <1>2, <2>1, <2>3 DEF LoadSlot
    <3>2. lu.replay => 0 \notin p.lpv
      BY <2>1 DEF Passes, AtLevel2
    <3> QED BY <3>1, <3>2
  <2> QED BY <1>1, <2>1, <2>2, <2>3
<1> QED BY <1>1, <1>2 DEF Inv2, LoadInv

\* readreg preserves the second invariant.
LEMMA Readreg2 ==
    ASSUME Inv1, Inv2, Readreg
    PROVE  Inv2'
<1>1. ExecutedOnce'
  BY ReadregSame DEF Inv2, ExecutedOnce
<1> QED BY <1>1, ReadregPlaces, ReadregAlu, ReadregSources, ReadregFlight, ReadregLoads DEF Inv2

-----------------------------------------------------------------------------
(***************************************************************************)
(* The second invariant: the queues send.                                  *)
(***************************************************************************)
\* What sending leaves alone.
LEMMA OutputSame ==
    ASSUME Inv1, Inv2, Output
    PROVE  /\ phase = "output" /\ phase' = "wakeup" /\ Past /\ Past'
           /\ UNCHANGED <<prog, cut, iq, lq, entered, busy, hold, rr_stall, hdff, l2, lu>>
           /\ UNCHANGED <<exec, wb, regs, wb_port>>
           /\ Results' = Results /\ Available' = Available /\ SureNow' = SureNow
           /\ \A i : Kind(i)' = Kind(i) /\ (Alive(i)' <=> Alive(i))
           /\ \A u : Packs(u)' = Packs(u)
           /\ Level0Loads' = Level0Loads /\ Level1Loads' = Level1Loads
           /\ \A e : /\ Lpv(e)' = Lpv(e) /\ SentLpv(e)' = SentLpv(e)
                     /\ MayIssue(e)' = MayIssue(e) /\ IntBack(e)' = IntBack(e)
           /\ \A l : Safe(l)' = Safe(l)
           /\ \A p : Needs(p)' = Needs(p)
<1>1. /\ phase = "output" /\ phase' = "wakeup"
      /\ UNCHANGED <<prog, cut, queue_vars, busy, hold, rr_stall, hdff, lu_vars, result_vars>>
  BY DEF Output
<1>2. /\ UNCHANGED <<prog, cut, iq, lq, entered, busy, hold, rr_stall, hdff, l2, lu>>
      /\ UNCHANGED <<exec, wb, regs, wb_port>>
  BY <1>1 DEF queue_vars, lu_vars, result_vars
<1>3. /\ Results' = Results /\ Available' = Available
      /\ \A i : Kind(i)' = Kind(i) /\ (Alive(i)' <=> Alive(i))
      /\ \A u : Packs(u)' = Packs(u)
      /\ Past /\ Past'
  BY <1>1, <1>2 DEF Results, Available, Kind, Alive, Packs, Past
<1>4. SureNow' = SureNow /\ Level0Loads' = Level0Loads /\ Level1Loads' = Level1Loads
  BY <1>1, <1>2, <1>3 DEF SureNow, Level0Loads, Level1Loads, Lus
<1>5. \A e : /\ Lpv(e)' = Lpv(e) /\ SentLpv(e)' = SentLpv(e)
             /\ MayIssue(e)' = MayIssue(e) /\ IntBack(e)' = IntBack(e)
  BY <1>2 DEF Lpv, SentLpv, MayIssue, IntBack
<1>6. /\ \A l : Safe(l)' = Safe(l)
      /\ \A p : Needs(p)' = Needs(p)
  BY <1>2 DEF Safe, Needs
<1> QED BY <1>1, <1>2, <1>3, <1>4, <1>5, <1>6

\* A pack of the integer queue when it is sent.
LEMMA OutputPack ==
    ASSUME Inv1, Inv2, Output, NEW p \in int_port'
    PROVE  /\ \E s \in IntSlots : Sender(iq[s], p)
           /\ p.lpv \subseteq {0, 1}
           /\ 1 \in p.lpv => \E n \in Needs(p) : n \notin SureNow \cup {l2}
<1>1. phase = "output" /\ Past
  BY OutputSame
<1>2. PICK s \in IntSlots :
              /\ MayIssue(iq[s]) /\ iq[s].src1.ready /\ iq[s].src2.ready
              /\ p = [op |-> iq[s].op, unit |-> "alu", lpv |-> SentLpv(iq[s])]
  BY IntSent DEF Inv1, Types
<1>3. PICK e : e = iq[s]
  OBVIOUS
<1>4. /\ MayIssue(e) /\ e.src1.ready /\ e.src2.ready
      /\ p.op = e.op /\ p.unit = "alu" /\ p.lpv = SentLpv(e)
  BY <1>2, <1>3
<1>5. SlotType(e) /\ e.valid /\ e.op <= cut
  BY <1>3, <1>4 DEF Inv1, Types, QueueTypes, MayIssue
<1>6. IntSource(e.src1) /\ IntSource(e.src2)
  BY <1>3, <1>5 DEF Inv2, SourcesInv, Alive
<1>7. /\ Lpv(e) \in SUBSET Bits /\ SentLpv(e) \in SUBSET Bits
      /\ lu.stall => SentLpv(e) = Lpv(e)
      /\ ~lu.stall => /\ 1 \in SentLpv(e) <=> 2 \in Lpv(e)
                      /\ 2 \notin SentLpv(e)
      /\ Lpv(e) = e.src1.lpv \cup e.src2.lpv
  BY <1>5, SlotLpv
<1>8. 2 \notin Lpv(e)
  BY <1>4, <1>6, <1>7 DEF IntSource
<1>9. p.lpv \subseteq {0, 1}
  BY <1>4, <1>7, <1>8 DEF Bits
<1>10. ASSUME 1 \in p.lpv PROVE \E n \in Needs(p) : n \notin SureNow \cup {l2}
  <2>1. lu.stall /\ 1 \in Lpv(e)
    BY <1>4, <1>7, <1>8, <1>10
  <2>2. PICK x \in {e.src1, e.src2} : 1 \in x.lpv /\ x.ready
    BY <1>4, <1>7, <2>1
  <2>3. Late(x)
    BY <1>6, <2>2 DEF IntSource
  <2>4. x.reg \in Needs(p)
    BY <1>4, <1>5, <2>2 DEF SlotType, Needs
  <2>5. lu.op = l2
    BY <1>1, <2>1 DEF Inv1, Links
  <2>6. x.reg \notin SureNow \cup {l2}
    BY <1>1, <2>3, <2>5 DEF Late, SureNow
  <2> QED BY <2>4, <2>6
<1> QED BY <1>3, <1>4, <1>9, <1>10 DEF Sender

\* A load when it is sent.
LEMMA OutputLoad ==
    ASSUME Inv1, Inv2, Output, NEW p \in lsu_port'
    PROVE  /\ \E s \in LsuSlots : /\ MayIssue(lq[s]) /\ p.op = lq[s].op
                                  /\ p.unit = "lu" => Sender(lq[s], p) /\ Kind(p.op) = "load"
           /\ ~lu.stall /\ ~rr_stall
<1>1. /\ p.unit \in {"lu", "sau", "sdu"}
      /\ \E s \in LsuCandidates(p.unit) :
            p = [op |-> lq[s].op, unit |-> p.unit, lpv |-> SentLpv(lq[s])]
  BY LsuSent DEF Inv1, Types
<1>2. PICK s \in LsuCandidates(p.unit) :
            p = [op |-> lq[s].op, unit |-> p.unit, lpv |-> SentLpv(lq[s])]
  BY <1>1
<1>3. p.op = lq[s].op /\ p.lpv = SentLpv(lq[s])
  BY <1>2
<1>4. s \in LsuSlots /\ ~rr_stall /\ ~lu.stall /\ MayIssue(lq[s])
  BY <1>2 DEF LsuCandidates
<1>5. p.unit = "lu" => Kind(lq[s].op) = "load" /\ lq[s].src1.ready /\ lq[s].src2.ready
  BY <1>2 DEF LsuCandidates
<1> QED BY <1>3, <1>4, <1>5 DEF Sender

\* Sending preserves the second invariant.
LEMMA Output2 ==
    ASSUME Inv1, Inv2, Output
    PROVE  Inv2'
<1>1. /\ phase = "output" /\ phase' = "wakeup" /\ Past /\ Past'
      /\ UNCHANGED <<prog, cut, iq, lq, entered, busy, hold, rr_stall, hdff, l2, lu>>
      /\ UNCHANGED <<exec, wb, regs, wb_port>>
      /\ Results' = Results /\ Available' = Available /\ SureNow' = SureNow
      /\ \A i : Kind(i)' = Kind(i) /\ (Alive(i)' <=> Alive(i))
      /\ \A u : Packs(u)' = Packs(u)
      /\ Level0Loads' = Level0Loads /\ Level1Loads' = Level1Loads
      /\ \A e : /\ Lpv(e)' = Lpv(e) /\ SentLpv(e)' = SentLpv(e)
                /\ MayIssue(e)' = MayIssue(e) /\ IntBack(e)' = IntBack(e)
      /\ \A l : Safe(l)' = Safe(l)
      /\ \A p : Needs(p)' = Needs(p)
  BY OutputSame
<1>2. PlacesInv /\ AluInv /\ SourcesInv /\ FlightInv /\ LoadInv /\ ExecutedOnce
  BY DEF Inv2
<1>3. \A p \in int_port' : \E s \in IntSlots : MayIssue(iq[s]) /\ Sender(iq[s], p)
  BY OutputPack DEF Sender
<1>4. \A p \in lsu_port' :
         \E s \in LsuSlots : /\ MayIssue(lq[s]) /\ p.op = lq[s].op
                             /\ p.unit = "lu" => Sender(lq[s], p) /\ Kind(p.op) = "load"
  BY OutputLoad
<1>5. PlacesInv'
  <2>1. Single(iq, IntSlots)' /\ Single(lq, LsuSlots)'
    BY <1>1, <1>2 DEF PlacesInv, Single
  <2>2. \A p \in int_port' : Kind(p.op) = "alu" /\ p.op \in entered /\ p.op <= cut
    BY <1>2, <1>3 DEF PlacesInv, KindInv, EnteredInv, Sender, MayIssue
  <2>3. \A p \in lsu_port' : /\ p.unit = "lu" => Kind(p.op) = "load"
                             /\ p.op \in entered /\ p.op <= cut
    BY <1>2, <1>4 DEF PlacesInv, EnteredInv, MayIssue
  <2>4. KindInv'
    BY <1>1, <1>2, <2>2, <2>3 DEF PlacesInv, KindInv
  <2>5. EnteredInv'
    BY <1>1, <1>2, <2>2, <2>3 DEF PlacesInv, EnteredInv
  <2>6. CutInv'
    BY <1>1, <1>2, <2>2, <2>3 DEF PlacesInv, CutInv
  <2> QED BY <2>1, <2>4, <2>5, <2>6 DEF PlacesInv
<1>6. \A e, p : Sender(e, p)' <=> Sender(e, p)
  BY <1>1 DEF Sender
<1>7. AluInv'
  <2>1. \A e : AluSlot(e)' <=> AluSlot(e)
    <3>1. \A e : Safe(Lpv(e))' <=> Safe(Lpv(e))
      BY <1>1 DEF Safe, Lpv
    <3> QED BY <1>1, <3>1 DEF AluSlot
  <2>2. ASSUME NEW p \in int_port' PROVE AluPack(p)'
    <3>1. \E s \in IntSlots : Sender(iq[s], p)'
      BY <1>1, <1>3, <1>6
    <3> QED BY <1>1, <3>1, OutputPack DEF AluPack
  <2>3. ASSUME NEW p \in int_port', NEW q \in int_port', p.op = q.op PROVE p.lpv = q.lpv
    <3>1. PICK s \in IntSlots : Sender(iq[s], p)
      BY <1>3
    <3>2. PICK t \in IntSlots : Sender(iq[t], q)
      BY <1>3
    <3>3. s = t
      BY <1>2, <2>3, <3>1, <3>2 DEF PlacesInv, Single, Sender, MayIssue
    <3> QED BY <3>1, <3>2, <3>3 DEF Sender
  <2> QED BY <1>1, <1>2, <2>1, <2>2, <2>3 DEF AluInv
<1>8. SourcesInv'
  <2>1. \A s : /\ IntSource(s)' <=> IntSource(s)
               /\ LsuSource(s)' <=> LsuSource(s)
               /\ Behind2(s)' <=> Behind2(s)
    BY <1>1 DEF IntSource, Late, LsuSource, Behind2
  <2> QED BY <1>1, <1>2, <2>1 DEF SourcesInv
<1>9. FlightInv'
  <2>1. \A p \in lsu_port' : p.unit = "lu" =>
           ~lu.stall /\ ~rr_stall /\ \E s \in LsuSlots : Sender(lq[s], p)'
    BY <1>1, <1>6, OutputLoad
  <2> QED BY <1>1, <1>2, <2>1 DEF FlightInv
<1>10. LoadInv'
  <2>1. \A e : LoadSlot(e)' <=> LoadSlot(e)
    BY <1>1 DEF LoadSlot, Up
  <2> QED BY <1>1, <1>2, <2>1 DEF LoadInv
<1>11. ExecutedOnce'
  BY <1>1, <1>2 DEF ExecutedOnce
<1> QED BY <1>5, <1>7, <1>8, <1>9, <1>10, <1>11 DEF Inv2

-----------------------------------------------------------------------------
(***************************************************************************)
(* The second invariant: wakeup.                                           *)
(***************************************************************************)
\* What the end of a cycle leaves alone.
LEMMA IssueSame ==
    ASSUME Inv1, Inv2, NEW ints, NEW lsus, Issue(ints, lsus)
    PROVE  /\ phase = "wakeup" /\ phase' = "execute" /\ Past /\ ~Past'
           /\ UNCHANGED <<prog, int_port, lsu_port, busy, hold, hdff, l2>>
           /\ Results' = Results /\ exec' = {}
           /\ Sure' = Available \cup Packs("alu") /\ SureNow = Available \cup Packs("alu")
           /\ entered' = (entered \cap Upto(cut)) \cup ints \cup lsus
           /\ \A i : Kind(i)' = Kind(i) /\ Alive(i)' /\ (Alive(i) <=> i <= cut)
           /\ \A u : Packs(u)' = Packs(u)
           /\ NewLoads' = NewLoads /\ Lus(hold)' = Lus(hold)
           /\ \A e : Lpv(e)' = Lpv(e)
           /\ \A p : Needs(p)' = Needs(p)
<1>1. /\ phase = "wakeup" /\ phase' = "execute"
      /\ UNCHANGED <<prog, int_port, lsu_port, busy, hold, hdff>>
      /\ UNCHANGED <<l2, wb_port>>
      /\ regs' = regs \cup wb /\ exec' = {}
      /\ entered' = (entered \cap Upto(cut)) \cup ints \cup lsus
      /\ Sure' = Available \cup Packs("alu")
      /\ \A u : Packs(u)' = Packs(u)
      /\ \A p : Needs(p)' = Needs(p)
  BY IssueFacts
<1>2. wb_port = exec
  BY <1>1 DEF Inv1, Links
<1>3. Results' = Results /\ SureNow = Available \cup Packs("alu")
  BY <1>1, <1>2 DEF Results, SureNow
<1>4. /\ \A i : Kind(i)' = Kind(i) /\ Alive(i)' /\ (Alive(i) <=> i <= cut)
      /\ NewLoads' = NewLoads /\ Lus(hold)' = Lus(hold)
      /\ \A e : Lpv(e)' = Lpv(e)
  BY <1>1 DEF Kind, Alive, NewLoads, Lus, Lpv
<1> QED BY <1>1, <1>3, <1>4 DEF Past

\* A wakeup preserves the places of instructions.
LEMMA IssuePlaces ==
    ASSUME Inv1, Inv2, NEW ints \in NextOne({"alu"}), NEW lsus \in NextOne({"load", "store"}),
           Issue(ints, lsus)
    PROVE  PlacesInv'
<1>1. /\ phase = "wakeup" /\ phase' = "execute" /\ Past /\ ~Past'
      /\ UNCHANGED <<prog, int_port, lsu_port, busy, hold, hdff, l2>>
      /\ Results' = Results
      /\ entered' = (entered \cap Upto(cut)) \cup ints \cup lsus
      /\ \A i : Kind(i)' = Kind(i)
  BY IssueSame
<1>2. PlacesInv /\ Types
  BY DEF Inv1, Inv2
<1>3. PICK a : \A s \in IntSlots : iq'[s].valid =>
                \/ IntKept(iq[s], iq'[s])
                \/ s = a /\ Fresh(iq'[s], {"alu"}) /\ ints = {iq'[s].op}
  BY <1>2, IntQueueNext
<1>4. PICK b : \A s \in LsuSlots : lq'[s].valid =>
                \/ LsuKept(lq[s], lq'[s])
                \/ s = b /\ Fresh(lq'[s], {"load", "store"}) /\ lsus = {lq'[s].op}
  BY <1>2, LsuQueueNext
<1>5. /\ \A s \in IntSlots : SlotType(iq[s])
      /\ \A s \in LsuSlots : SlotType(lq[s])
      /\ \A p \in int_port \cup lsu_port \cup hold : p.op \in Ops
      /\ \A p \in hdff : p.op \in Ops
      /\ cut \in 0..N /\ N \in Nat
  BY <1>2, ConstAssumption DEF Types, QueueTypes, PackTypes, PackT, HdffT, FlagTypes
<1>6. ASSUME NEW s \in IntSlots, iq'[s].valid
      PROVE  \/ /\ iq[s].valid /\ iq'[s].op = iq[s].op /\ iq[s].op \in entered
                /\ iq[s].op \in Upto(cut) /\ Kind(iq'[s].op) = "alu"
             \/ /\ s = a /\ iq'[s].op \notin entered /\ Kind(iq'[s].op) = "alu"
                /\ iq'[s].op \in ints
  <2>1. CASE IntKept(iq[s], iq'[s])
    <3>1. iq[s].valid /\ iq[s].op <= cut /\ iq'[s].op = iq[s].op
      BY <2>1 DEF IntKept
    <3>2. iq[s].op \in entered /\ Kind(iq[s].op) = "alu"
      BY <1>2, <3>1 DEF PlacesInv, KindInv, EnteredInv
    <3>3. iq[s].op \in Ops
      BY <1>5, <3>1 DEF SlotType
    <3>4. iq[s].op \in Upto(cut)
      BY <1>5, <3>1, <3>3 DEF Upto, Ops
    <3> QED BY <3>1, <3>2, <3>4
  <2>2. CASE s = a /\ Fresh(iq'[s], {"alu"}) /\ ints = {iq'[s].op}
    BY <2>2 DEF Fresh, Waiting
  <2> QED BY <1>3, <1>6, <2>1, <2>2
<1>7. ASSUME NEW s \in LsuSlots, lq'[s].valid
      PROVE  \/ /\ lq[s].valid /\ lq'[s].op = lq[s].op /\ lq[s].op \in entered
                /\ lq[s].op \in Upto(cut) /\ Kind(lq'[s].op) # "alu"
             \/ /\ s = b /\ lq'[s].op \notin entered /\ Kind(lq'[s].op) # "alu"
                /\ lq'[s].op \in lsus
  <2>1. CASE LsuKept(lq[s], lq'[s])
    <3>1. lq[s].valid /\ lq[s].op <= cut /\ lq'[s].op = lq[s].op
      BY <2>1 DEF LsuKept
    <3>2. lq[s].op \in entered /\ Kind(lq[s].op) # "alu"
      BY <1>2, <3>1 DEF PlacesInv, KindInv, EnteredInv
    <3>3. lq[s].op \in Ops
      BY <1>5, <3>1 DEF SlotType
    <3>4. lq[s].op \in Upto(cut)
      BY <1>5, <3>1, <3>3 DEF Upto, Ops
    <3> QED BY <3>1, <3>2, <3>4
  <2>2. CASE s = b /\ Fresh(lq'[s], {"load", "store"}) /\ lsus = {lq'[s].op}
    BY <2>2 DEF Fresh, Waiting
  <2> QED BY <1>4, <1>7, <2>1, <2>2
<1>8. Single(iq, IntSlots)'
  BY <1>2, <1>6 DEF PlacesInv, Single
<1>9. Single(lq, LsuSlots)'
  BY <1>2, <1>7 DEF PlacesInv, Single
<1>10. KindInv'
  BY <1>1, <1>2, <1>6, <1>7 DEF PlacesInv, KindInv
<1>11. EnteredInv'
  <2>1. \A p \in int_port \cup lsu_port \cup hold \cup hdff : p.op \in entered \cap Upto(cut)
    BY <1>1, <1>2, <1>5 DEF PlacesInv, EnteredInv, CutInv, Upto, Ops
  <2>2. Results \cup ({l2} \ {0}) \subseteq entered \cap Upto(cut)
    BY <1>1, <1>2 DEF PlacesInv, EnteredInv, CutInv
  <2> QED BY <1>1, <1>6, <1>7, <2>1, <2>2 DEF EnteredInv
<1>12. CutInv'
  BY <1>1 DEF CutInv
<1> QED BY <1>8, <1>9, <1>10, <1>11, <1>12 DEF PlacesInv

\* An instruction that has just come is nowhere yet.
LEMMA FreshNowhere ==
    ASSUME Inv1, Inv2, NEW kinds, NEW f, Fresh(f, kinds)
    PROVE  /\ f.op \notin Results /\ f.op # l2
           /\ \A u : f.op \notin Packs(u)
           /\ \A p \in int_port \cup lsu_port \cup hold : p.op # f.op
           /\ Kind(f.op) \in kinds
<1>1. f.op \notin entered /\ f.op \in Upto(cut) /\ Kind(f.op) \in kinds
  BY DEF Fresh, Waiting
<1>2. EnteredInv /\ f.op # 0
  BY <1>1 DEF Inv2, PlacesInv, Upto
<1>3. \A u : f.op \notin Packs(u)
  BY <1>1, <1>2, PacksDef DEF EnteredInv
<1> QED BY <1>1, <1>2, <1>3 DEF EnteredInv

\* An operand that nobody wakes keeps its load position vector.
LEMMA WokenLpv ==
    ASSUME NEW s \in SourceT, NEW b \in BOOLEAN, s.reg \notin exec,
           \A p \in int_port \cup lsu_port : p.op # s.reg
    PROVE  Woken(s, b).lpv = ShiftedLpv(s.lpv)
<1> DEFINE c == Checked(s, b)
           d == [c EXCEPT !.lpv = ShiftedLpv(@)]
<1>1. d \in SourceT /\ d.reg = s.reg /\ d.lpv = ShiftedLpv(s.lpv)
  BY CheckedCases
<1>2. Woken(s, b) = WokenByResult(WokenByIssue(Delayed(d)))
  BY DEF Woken
<1> HIDE DEF d
<1> DEFINE y == Delayed(d)
<1>3. y.reg = d.reg /\ y.lpv = d.lpv
  BY <1>1 DEF Delayed, SourceT
<1> HIDE DEF y
<1>4. \A w \in Wakes : w.rd # y.reg
  BY <1>1, <1>3 DEF Wakes, Wake
<1>5. WokenByIssue(y) = y
  BY <1>4 DEF WokenByIssue
<1>6. WokenByResult(y) = y
  BY <1>1, <1>3 DEF WokenByResult
<1> QED BY <1>1, <1>2, <1>3, <1>5, <1>6 DEF y

\* A ready operand that is not called back: its vector goes on, also when it is put to sleep.
LEMMA SentSource ==
    ASSUME Inv1, Inv2, phase = "wakeup", NEW x \in SourceT, x.ready,
           ~(lu.replay /\ 0 \in x.lpv), NEW b \in BOOLEAN, b => IntSource(x)
    PROVE  /\ Woken(x, b).lpv = IF lu.stall THEN x.lpv ELSE Shift(x.lpv)
           /\ ~b => Woken(x, b).ready
<1>1. ShiftedLpv(x.lpv) = IF lu.stall THEN x.lpv ELSE Shift(x.lpv)
  BY ShiftedCases DEF SourceT
<1>2. ~Cancelled(x)
  BY DEF Cancelled, AtLevel2
<1>3. ~(b /\ Asleep(x)) => Woken(x, b).ready /\ Woken(x, b).lpv = ShiftedLpv(x.lpv)
  BY <1>2, WokenCases DEF Inv1, Types
<1>4. ASSUME b, Asleep(x) PROVE Woken(x, b).lpv = ShiftedLpv(x.lpv)
  <2>1. lu.stall /\ x.lpv \ {0} # {} /\ x.lpv \in SUBSET Bits
    BY <1>4 DEF Asleep, Before2, SourceT
  <2>2. Late(x)
    BY <1>4, <2>1 DEF IntSource, Bits
  <2>3. x.reg \notin exec
    BY <2>2 DEF Late, Available
  <2>4. lsu_port = {}
    BY <2>1 DEF Inv1, Links
  <2>5. ASSUME NEW p \in int_port, p.op = x.reg PROVE FALSE
    <3>1. AluPack(p)
      BY DEF Inv2, AluInv
    <3>2. PICK t \in IntSlots : Sender(iq[t], p)
      BY <3>1 DEF AluPack
    <3>3. iq[t].valid /\ ~iq[t].issued /\ iq[t].op = x.reg
      BY <2>5, <3>2 DEF Sender, MayIssue
    <3> QED BY <2>2, <3>3 DEF Late
  <2> QED BY <2>3, <2>4, <2>5, WokenLpv
<1> QED BY <1>1, <1>3, <1>4

\* The vector of a slot that has sent, after the wakeup, is that of its pack.
LEMMA SentSlot ==
    ASSUME Inv1, Inv2, phase = "wakeup", NEW e, SlotType(e), e.src1.ready, e.src2.ready,
           ~(lu.replay /\ 0 \in Lpv(e)), NEW b \in BOOLEAN,
           b => IntSource(e.src1) /\ IntSource(e.src2),
           NEW f, f.src1 = Woken(e.src1, b), f.src2 = Woken(e.src2, b)
    PROVE  /\ Lpv(f) = SentLpv(e)
           /\ ~b => f.src1.ready /\ f.src2.ready
<1>1. e.src1 \in SourceT /\ e.src2 \in SourceT
  BY DEF SlotType
<1>2. ~(lu.replay /\ 0 \in e.src1.lpv) /\ ~(lu.replay /\ 0 \in e.src2.lpv)
  BY DEF Lpv
<1>3. /\ f.src1.lpv = IF lu.stall THEN e.src1.lpv ELSE Shift(e.src1.lpv)
      /\ ~b => f.src1.ready
  BY <1>1, <1>2, SentSource
<1>4. /\ f.src2.lpv = IF lu.stall THEN e.src2.lpv ELSE Shift(e.src2.lpv)
      /\ ~b => f.src2.ready
  BY <1>1, <1>2, SentSource
<1>5. \A l, m : Shift(l \cup m) = Shift(l) \cup Shift(m)
  BY DEF Shift
<1> QED BY <1>3, <1>4, <1>5 DEF Lpv, SentLpv

\* What the integer queue has sent in this cycle.
LEMMA SentInt ==
    ASSUME Inv1, Inv2, phase = "wakeup", NEW p \in int_port
    PROVE  /\ p.op \notin Results \cup Packs("alu")
           /\ \A s \in IntSlots : iq[s].valid /\ iq[s].op = p.op => Sender(iq[s], p)
           /\ p.lpv \subseteq {0, 1}
           /\ 1 \in p.lpv => \E n \in Needs(p) : n \notin SureNow \cup {l2}
<1>1. AluPack(p)
  BY DEF Inv2, AluInv
<1>2. PICK s \in IntSlots : Sender(iq[s], p)
  BY <1>1 DEF AluPack
<1>3. iq[s].valid /\ iq[s].op <= cut /\ ~iq[s].issued /\ iq[s].op = p.op
  BY <1>2 DEF Sender, MayIssue
<1>4. AluSlot(iq[s]) /\ Single(iq, IntSlots)
  BY DEF Inv2, AluInv, PlacesInv
<1>5. p.op \notin Results \cup Packs("alu")
  BY <1>3, <1>4 DEF AluSlot, Alive, Past
<1>6. \A t \in IntSlots : iq[t].valid /\ iq[t].op = p.op => t = s
  BY <1>3, <1>4 DEF Single
<1> QED BY <1>1, <1>2, <1>5, <1>6 DEF AluPack

\* A wakeup and the integer queue.
LEMMA IssueAlu ==
    ASSUME Inv1, Inv2, NEW ints \in NextOne({"alu"}), NEW lsus \in NextOne({"load", "store"}),
           Issue(ints, lsus)
    PROVE  AluInv'
<1>1. /\ phase = "wakeup" /\ phase' = "execute" /\ Past /\ ~Past'
      /\ UNCHANGED <<prog, int_port, lsu_port, busy, hold, hdff, l2>>
      /\ Results' = Results
      /\ Sure' = Available \cup Packs("alu") /\ SureNow = Available \cup Packs("alu")
      /\ \A u : Packs(u)' = Packs(u)
      /\ \A e : Lpv(e)' = Lpv(e)
      /\ \A p : Needs(p)' = Needs(p)
      /\ \A i : Alive(i) <=> i <= cut
  BY IssueSame
<1>2. AluInv /\ SourcesInv /\ Types
  BY DEF Inv1, Inv2
<1>3. ASSUME NEW f, Fresh(f, {"alu"}) PROVE AluSlot(f)'
  <2>1. /\ f.op \notin Results
        /\ f.op \notin Packs("alu")
        /\ \A p \in int_port : p.op # f.op
    BY <1>3, FreshNowhere
  <2> QED BY <1>1, <2>1 DEF AluSlot
<1>4. ASSUME NEW s \in IntSlots, NEW e, e = iq[s], NEW f, IntKept(e, f) PROVE AluSlot(f)'
  <2>1. e.valid /\ e.op <= cut /\ f.op = e.op
    BY <1>4 DEF IntKept
  <2>2. AluSlot(e) /\ SlotType(e)
    BY <1>2, <1>4 DEF AluInv, Types, QueueTypes
  <2>3. f.op \notin Results
    BY <1>1, <2>1, <2>2 DEF AluSlot
  <2>4. f.op \notin Packs("alu")
    BY <1>1, <1>4, <2>1, <2>2 DEF AluSlot, IntKept
  <2>5. ASSUME NEW p \in int_port, p.op = f.op PROVE f.issued /\ p.lpv = Lpv(f)
    <3>1. Sender(e, p)
      BY <1>1, <1>4, <2>1, <2>5, SentInt
    <3>2. Units(e) # {}
      BY <2>1, <2>5 DEF Units
    <3>3. f.issued /\ f.src1 = Woken(e.src1, TRUE) /\ f.src2 = Woken(e.src2, TRUE)
      BY <1>4, <3>2 DEF IntKept
    <3>4. e.src1.ready /\ e.src2.ready /\ ~(lu.replay /\ 0 \in Lpv(e)) /\ p.lpv = SentLpv(e)
      BY <3>1 DEF Sender, MayIssue, AtLevel2
    <3>5. IntSource(e.src1) /\ IntSource(e.src2)
      BY <1>1, <1>2, <1>4, <2>1 DEF SourcesInv
    <3>6. Lpv(f) = SentLpv(e)
      BY <1>1, <2>2, <3>3, <3>4, <3>5, SentSlot
    <3> QED BY <3>3, <3>4, <3>6
  <2> QED BY <1>1, <2>3, <2>4, <2>5 DEF AluSlot
<1>5. ASSUME NEW s \in IntSlots PROVE AluSlot(iq[s])'
  <2>1. iq'[s].valid => IntKept(iq[s], iq'[s]) \/ Fresh(iq'[s], {"alu"})
    BY <1>2, IntQueueNext
  <2>2. PICK f : f = iq'[s]
    OBVIOUS
  <2>3. AluSlot(f)'
    <3>1. CASE f.valid
      BY <1>3, <1>4, <2>1, <2>2, <3>1
    <3>2. CASE ~f.valid
      BY <3>2 DEF AluSlot
    <3> QED BY <3>1, <3>2
  <2> QED BY <2>2, <2>3
<1>6. ASSUME NEW p \in int_port PROVE AluPack(p)'
  <2>1. /\ p.op \notin Results \cup Packs("alu")
        /\ p.lpv \subseteq {0, 1}
        /\ 1 \in p.lpv => \E n \in Needs(p) : n \notin SureNow \cup {l2}
    BY <1>1, SentInt
  <2> QED BY <1>1, <2>1 DEF AluPack
<1> QED BY <1>1, <1>2, <1>5, <1>6 DEF AluInv

\* A slot whose instruction was sent in this cycle is marked issued.
LEMMA SentIssued ==
    ASSUME Inv1, Inv2, NEW ints \in NextOne({"alu"}), NEW lsus, Issue(ints, lsus),
           NEW p \in int_port, NEW t \in IntSlots, iq'[t].valid, iq'[t].op = p.op
    PROVE  iq'[t].issued
<1>1. IntKept(iq[t], iq'[t]) \/ Fresh(iq'[t], {"alu"})
  BY IntQueueNext DEF Inv1
<1>2. ~Fresh(iq'[t], {"alu"})
  BY FreshNowhere
<1>3. IntKept(iq[t], iq'[t]) /\ iq[t].op = p.op
  BY <1>1, <1>2 DEF IntKept
<1>4. Units(iq[t]) # {}
  BY <1>3 DEF Units
<1> QED BY <1>3, <1>4 DEF IntKept

\* An operand of the integer queue, that may be ready after a wakeup.
LEMMA WokenIntCases ==
    ASSUME Inv1, Inv2, NEW ints \in NextOne({"alu"}), NEW lsus \in NextOne({"load", "store"}),
           Issue(ints, lsus),
           NEW i \in Ops, i <= cut, NEW s \in SourceT, NEW lsu, SourceInv(i, s, lsu),
           IntSource(s), Behind2(s),
           NEW w, w.reg = s.reg,
           w.ready => \/ /\ s.ready \/ s.shift = 1
                         /\ ~Cancelled(s) /\ ~Asleep(s)
                         /\ w.lpv = ShiftedLpv(s.lpv)
                      \/ \E p \in int_port : p.op = s.reg /\ w.lpv = p.lpv
                      \/ s.reg \in exec /\ w.lpv = {}
    PROVE  IntSource(w)'
<1>1. /\ phase = "wakeup" /\ phase' = "execute" /\ Past /\ ~Past'
      /\ UNCHANGED <<prog, int_port, lsu_port, busy, hold, hdff, l2>>
      /\ Sure' = Available \cup Packs("alu")
      /\ \A u : Packs(u)' = Packs(u)
  BY IssueSame
<1>2. SUFFICES ASSUME w.ready PROVE 2 \notin w.lpv /\ (1 \in w.lpv => Late(w)')
  BY DEF IntSource
<1>3. /\ w.reg = s.reg
      /\ \/ /\ s.ready \/ s.shift = 1
            /\ ~Cancelled(s) /\ ~Asleep(s)
            /\ w.lpv = ShiftedLpv(s.lpv)
         \/ \E p \in int_port : p.op = s.reg /\ w.lpv = p.lpv
         \/ s.reg \in exec /\ w.lpv = {}
  BY <1>2
<1>4. /\ \A x \in Packs("alu") : x \in Ops /\ Kind(x) = "alu"
      /\ \A x \in Packs("lu") : x \in Ops /\ Kind(x) = "load"
      /\ \A p \in int_port : p.op \in Ops /\ Kind(p.op) = "alu"
      /\ l2 \in 0..N /\ (l2 # 0 => Kind(l2) = "load")
  BY KindsDiffer DEF Inv2, PlacesInv
<1>5. CASE s.reg \in exec /\ w.lpv = {}
  BY <1>5
<1>6. ASSUME NEW p \in int_port, p.op = s.reg, w.lpv = p.lpv
      PROVE  2 \notin w.lpv /\ (1 \in w.lpv => Late(w)')
  <2>1. p.lpv \subseteq {0, 1} /\ p.op \notin Results \cup Packs("alu")
    BY <1>1, SentInt
  <2>2. ASSUME 1 \in w.lpv PROVE Late(w)'
    <3>1. \A t \in IntSlots : iq'[t].valid /\ iq'[t].op = w.reg => iq'[t].issued
      BY <1>3, <1>6, SentIssued
    <3>2. w.reg \notin Sure' \cup {l2}
      <4>1. w.reg \in Ops /\ Kind(w.reg) = "alu" /\ w.reg # 0
        BY <1>3, <1>4, <1>6 DEF Ops
      <4>2. w.reg # l2
        BY <1>4, <4>1
      <4>3. w.reg \notin Results \cup Packs("alu")
        BY <1>3, <1>6, <2>1
      <4> QED BY <1>1, <4>1, <4>2, <4>3 DEF Results, Available
    <3>3. \A q \in int_port : q.op = w.reg => 1 \in q.lpv
      BY <1>1, <1>3, <1>6, <2>2 DEF Inv2, AluInv
    <3> QED BY <1>1, <3>1, <3>2, <3>3 DEF Late
  <2> QED BY <1>6, <2>1, <2>2
<1>7. CASE /\ s.ready \/ s.shift = 1
           /\ ~Cancelled(s) /\ ~Asleep(s)
           /\ w.lpv = ShiftedLpv(s.lpv)
  <2>0. s.lpv \in SUBSET Bits
    BY DEF SourceT
  <2>1. CASE lu.stall
    <3>1. w.lpv = s.lpv /\ s.lpv \subseteq {0}
      BY <1>7, <2>1 DEF ShiftedLpv, Asleep, Before2
    <3> QED BY <3>1
  <2>2. CASE ~lu.stall /\ lu.replay /\ 0 \in s.lpv
    <3>1. lu.following /\ s.reg = lu.op /\ w.lpv = s.lpv
      BY <1>7, <2>2 DEF Cancelled, AtLevel2, ShiftedLpv
    <3>2. s.ready
      BY <1>1, <1>7, <3>1 DEF Behind2
    <3> QED BY <1>1, <3>1, <3>2 DEF IntSource, Late
  <2>3. CASE ~lu.stall /\ ~(lu.replay /\ 0 \in s.lpv)
    <3>1. /\ 2 \notin w.lpv
          /\ 1 \in w.lpv <=> 2 \in s.lpv
      BY <1>7, <2>0, <2>3, ShiftedCases, ShiftBits
    <3>2. ASSUME 2 \in s.lpv PROVE Late(w)'
      <4>1. ~s.ready /\ s.shift = 1
        BY <1>7, <3>2 DEF IntSource
      <4>2. Coming2(s)
        BY <1>1, <4>1 DEF SourceInv
      <4>3. s.reg \in Level0Loads
        BY <2>3, <4>2 DEF Coming2
      <4>4. s.reg \in Packs("lu")
        BY <2>3, <4>3 DEF Level0Loads
      <4>5. s.reg \notin Results \cup Level1Loads \cup {lu.op}
        BY <1>1, <4>3 DEF Inv2, FlightInv
      <4>6. w.reg \in Ops /\ Kind(w.reg) = "load" /\ w.reg # 0
        BY <1>3, <1>4, <4>4 DEF Ops
      <4>7. w.reg # l2
        BY <1>3, <2>3, <4>5, <4>6 DEF Level1Loads
      <4>8. w.reg \notin Sure' \cup {l2}
        BY <1>1, <1>3, <1>4, <4>5, <4>6, <4>7 DEF Results, Available
      <4>9. \A q \in int_port : q.op # w.reg
        BY <1>4, <4>6
      <4>10. ASSUME NEW t \in IntSlots, iq'[t].valid PROVE iq'[t].op # w.reg
        <5>1. Kind(iq'[t].op) = "alu"
          <6>1. KindInv'
            BY IssuePlaces DEF PlacesInv
          <6> QED BY <1>1, <4>10, <6>1 DEF KindInv, Kind
        <5> QED BY <4>6, <5>1
      <4> QED BY <1>1, <4>8, <4>9, <4>10 DEF Late
    <3> QED BY <3>1, <3>2
  <2> QED BY <2>1, <2>2, <2>3
<1> QED BY <1>3, <1>5, <1>6, <1>7

\* An operand of the integer queue, over a wakeup.
LEMMA WokenInt ==
    ASSUME Inv1, Inv2, NEW ints \in NextOne({"alu"}), NEW lsus \in NextOne({"load", "store"}),
           Issue(ints, lsus),
           NEW i \in Ops, i <= cut, NEW s \in SourceT, NEW lsu, SourceInv(i, s, lsu),
           IntSource(s), Behind2(s),
           NEW b \in BOOLEAN, b, NEW w, w = Woken(s, b)
    PROVE  IntSource(w)'
<1>1. /\ w.reg = s.reg
      /\ w.ready => \/ /\ s.ready \/ s.shift = 1
                       /\ ~Cancelled(s) /\ ~Asleep(s)
                       /\ w.lpv = ShiftedLpv(s.lpv)
                    \/ \E p \in int_port : p.op = s.reg /\ w.lpv = p.lpv
                    \/ s.reg \in exec /\ w.lpv = {}
  BY WokenCases DEF Inv1, Types
<1> QED BY <1>1, WokenIntCases

\* An operand of the load/store queue, over a wakeup.
LEMMA WokenLsu ==
    ASSUME Inv1, Inv2, NEW ints, NEW lsus, Issue(ints, lsus),
           NEW s \in SourceT, LsuSource(s), Behind2(s),
           NEW b \in BOOLEAN, ~b, NEW w, w = Woken(s, b)
    PROVE  LsuSource(w)'
<1>1. /\ phase = "wakeup" /\ phase' = "execute" /\ Past /\ ~Past'
      /\ UNCHANGED <<prog, int_port, lsu_port, busy, hold, hdff, l2>>
  BY IssueSame
<1>2. SUFFICES ASSUME w.ready, 2 \in w.lpv PROVE busy /\ w.reg # l2
  BY <1>1 DEF LsuSource
<1>3. /\ w \in SourceT /\ w.reg = s.reg
      /\ \/ /\ s.ready \/ s.shift = 1
            /\ ~Cancelled(s)
            /\ w.lpv = ShiftedLpv(s.lpv)
         \/ \E p \in int_port : p.op = s.reg /\ w.lpv = p.lpv
         \/ s.reg \in exec /\ w.lpv = {}
  BY <1>2, WokenCases DEF Inv1, Types
<1>4. \A p \in int_port : 2 \notin p.lpv
  BY <1>1, SentInt
<1>5. (s.ready \/ s.shift = 1) /\ ~Cancelled(s) /\ w.lpv = ShiftedLpv(s.lpv)
  BY <1>2, <1>3, <1>4
<1>6. s.lpv \in SUBSET Bits /\ (busy <=> lu.stall) /\ (lu.stall => lu.op = l2)
  BY <1>1 DEF SourceT, Inv1, Links
<1>7. CASE lu.stall
  <2>1. 2 \in s.lpv
    BY <1>2, <1>5, <1>7 DEF ShiftedLpv
  <2>2. s.reg # lu.op
    BY <1>1, <1>5, <2>1 DEF LsuSource, Behind2
  <2> QED BY <1>3, <1>6, <1>7, <2>2
<1>8. CASE ~lu.stall /\ lu.replay /\ 0 \in s.lpv
  <2>1. s.reg = lu.op /\ w.lpv = s.lpv
    BY <1>5, <1>8 DEF Cancelled, AtLevel2, ShiftedLpv
  <2> QED BY <1>1, <1>2, <1>5, <2>1 DEF LsuSource, Behind2
<1>9. CASE ~lu.stall /\ ~(lu.replay /\ 0 \in s.lpv)
  <2>1. w.lpv = Shift(s.lpv)
    BY <1>5, <1>6, <1>9, ShiftedCases
  <2>2. 2 \notin w.lpv
    BY <1>6, <2>1, ShiftBits
  <2> QED BY <1>2, <2>2
<1> QED BY <1>7, <1>8, <1>9

\* A wakeup and all operands.
LEMMA IssueSources ==
    ASSUME Inv1, Inv2, NEW ints \in NextOne({"alu"}), NEW lsus \in NextOne({"load", "store"}),
           Issue(ints, lsus)
    PROVE  SourcesInv'
<1>1. phase = "wakeup" /\ phase' = "execute" /\ (\A i : Alive(i) <=> i <= cut)
  BY IssueSame
<1>2. SourcesInv /\ Types /\ SlotsInv
  BY DEF Inv1, Inv2
<1>3. \A s : Behind2(s)'
  BY <1>1 DEF Behind2
<1>4. ASSUME NEW f, NEW kinds, Fresh(f, kinds)
      PROVE  /\ IntSource(f.src1)' /\ IntSource(f.src2)'
             /\ LsuSource(f.src1)' /\ LsuSource(f.src2)'
  <2>1. f.src1.lpv = {} /\ f.src2.lpv = {}
    BY <1>4 DEF Fresh, Source
  <2> QED BY <2>1 DEF IntSource, LsuSource
<1>5. ASSUME NEW s \in IntSlots, iq'[s].valid
      PROVE  IntSource(iq[s].src1)' /\ IntSource(iq[s].src2)'
  <2>1. IntKept(iq[s], iq'[s]) \/ Fresh(iq'[s], {"alu"})
    BY <1>2, <1>5, IntQueueNext
  <2>2. PICK e, f : e = iq[s] /\ f = iq'[s]
    OBVIOUS
  <2>3. CASE IntKept(e, f)
    <3>1. /\ e.valid /\ e.op <= cut
          /\ f.src1 = Woken(e.src1, TRUE) /\ f.src2 = Woken(e.src2, TRUE)
      BY <2>3 DEF IntKept
    <3>2. /\ IntSource(e.src1) /\ IntSource(e.src2) /\ Behind2(e.src1) /\ Behind2(e.src2)
          /\ e.op \in Ops /\ e.src1 \in SourceT /\ e.src2 \in SourceT
          /\ SourceInv(e.op, e.src1, FALSE) /\ SourceInv(e.op, e.src2, FALSE)
      BY <1>1, <1>2, <2>2, <3>1 DEF SourcesInv, Types, QueueTypes, SlotType, SlotsInv, SlotInv
    <3>3. IntSource(f.src1)'
      BY <3>1, <3>2, WokenInt
    <3>4. IntSource(f.src2)'
      BY <3>1, <3>2, WokenInt
    <3> QED BY <2>2, <3>3, <3>4
  <2>4. CASE Fresh(f, {"alu"})
    BY <1>4, <2>2, <2>4
  <2> QED BY <2>1, <2>2, <2>3, <2>4
<1>6. ASSUME NEW s \in LsuSlots, lq'[s].valid
      PROVE  LsuSource(lq[s].src1)' /\ LsuSource(lq[s].src2)'
  <2>1. LsuKept(lq[s], lq'[s]) \/ Fresh(lq'[s], {"load", "store"})
    BY <1>2, <1>6, LsuQueueNext
  <2>2. PICK e, f : e = lq[s] /\ f = lq'[s]
    OBVIOUS
  <2>3. CASE LsuKept(e, f)
    <3>1. /\ e.valid /\ e.op <= cut
          /\ f.src1 = Woken(e.src1, FALSE) /\ f.src2 = Woken(e.src2, FALSE)
      BY <2>3 DEF LsuKept
    <3>2. /\ LsuSource(e.src1) /\ LsuSource(e.src2) /\ Behind2(e.src1) /\ Behind2(e.src2)
          /\ e.src1 \in SourceT /\ e.src2 \in SourceT
      BY <1>1, <1>2, <2>2, <3>1 DEF SourcesInv, Types, QueueTypes, SlotType
    <3>3. LsuSource(f.src1)'
      BY <3>1, <3>2, WokenLsu
    <3>4. LsuSource(f.src2)'
      BY <3>1, <3>2, WokenLsu
    <3> QED BY <2>2, <3>3, <3>4
  <2>4. CASE Fresh(f, {"load", "store"})
    BY <1>4, <2>2, <2>4
  <2> QED BY <2>1, <2>2, <2>3, <2>4
<1> QED BY <1>3, <1>5, <1>6 DEF SourcesInv


\* A load that the queue has sent in this cycle.
LEMMA SentLoad ==
    ASSUME Inv1, Inv2, phase = "wakeup", NEW p \in lsu_port, p.unit = "lu"
    PROVE  /\ ~lu.stall /\ ~rr_stall
           /\ p.op \in Ops /\ Kind(p.op) = "load"
           /\ p.op \notin Results \cup {l2, lu.op} \cup Packs("lu")
           /\ \A s \in LsuSlots : lq[s].valid /\ lq[s].op = p.op => Sender(lq[s], p)
<1>1. ~lu.stall /\ ~rr_stall /\ \E s \in LsuSlots : Sender(lq[s], p)
  BY DEF Inv2, FlightInv
<1>2. PICK s \in LsuSlots : Sender(lq[s], p)
  BY <1>1
<1>3. lq[s].valid /\ lq[s].op <= cut /\ ~lq[s].issued /\ lq[s].op = p.op
  BY <1>2 DEF Sender, MayIssue
<1>4. p.op \in Ops /\ Kind(p.op) = "load"
  BY DEF Inv1, Types, PackTypes, PackT, Inv2, PlacesInv, KindInv
<1>5. LoadSlot(lq[s]) /\ Single(lq, LsuSlots)
  BY DEF Inv2, LoadInv, PlacesInv
<1>6. p.op \notin Results \cup {lu.op} \cup Level1Loads \cup Level0Loads
  BY <1>3, <1>4, <1>5 DEF LoadSlot, Alive, Past, Up
<1>7. Level0Loads = Packs("lu") /\ Level1Loads = {l2} \ {0} /\ p.op # 0
  BY <1>1, <1>4 DEF Level0Loads, Level1Loads, Ops
<1>8. \A t \in LsuSlots : lq[t].valid /\ lq[t].op = p.op => t = s
  BY <1>3, <1>5 DEF Single
<1> QED BY <1>1, <1>2, <1>4, <1>6, <1>7, <1>8

\* A wakeup and the places of loads.
LEMMA IssueFlight ==
    ASSUME Inv1, Inv2, NEW ints, NEW lsus, Issue(ints, lsus)
    PROVE  FlightInv'
<1>1. /\ phase = "wakeup" /\ phase' = "execute" /\ Past /\ ~Past'
      /\ UNCHANGED <<prog, int_port, lsu_port, busy, hold, hdff, l2>>
      /\ Results' = Results
      /\ \A u : Packs(u)' = Packs(u)
      /\ NewLoads' = NewLoads
  BY IssueSame
<1>2. /\ busy <=> lu.stall
      /\ lu.stall => lu.op = l2 /\ lsu_port = {}
      /\ ~lu.stall => hold = {}
  BY <1>1 DEF Inv1, Links, Inv2, FlightInv
<1>3. /\ Level1Loads \cap (Results \cup {lu.op}) = {}
      /\ lu.stall => l2 \notin Results
      /\ Level0Loads \cap (Results \cup Level1Loads \cup {lu.op}) = {}
  BY <1>1 DEF Inv2, FlightInv
<1>4. \A x \in Packs("lu") : x # 0
  BY KindsDiffer DEF Inv2, PlacesInv, Ops
<1>5. ASSUME NEW x \in NewLoads PROVE x \notin Results \cup {l2} \cup Packs("lu")
  <2>1. CASE lu.stall
    <3>1. x \in Level0Loads /\ Level1Loads = Packs("lu")
      BY <1>2, <2>1 DEF NewLoads, Level0Loads, Level1Loads
    <3> QED BY <1>2, <1>3, <2>1, <3>1
  <2>2. CASE ~lu.stall
    <3>1. PICK p \in lsu_port : p.unit = "lu" /\ p.op = x
      BY <1>2, <2>2, LusDef DEF NewLoads
    <3> QED BY <1>1, <3>1, SentLoad
  <2> QED BY <2>1, <2>2
<1>6. /\ l2 \notin Results \ {0}
      /\ Packs("lu") \cap (Results \cup {l2}) = {}
  <2>1. CASE lu.stall
    BY <1>2, <1>3, <2>1 DEF Level1Loads
  <2>2. CASE ~lu.stall
    <3>1. Level0Loads = Packs("lu") /\ Level1Loads = {l2} \ {0}
      BY <2>2 DEF Level0Loads, Level1Loads
    <3> QED BY <1>3, <1>4, <3>1
  <2> QED BY <2>1, <2>2
<1> QED BY <1>1, <1>2, <1>5, <1>6 DEF FlightInv

\* The slot of a load on its way that is not called back.
LEMMA LoadKept ==
    ASSUME Inv1, Inv2, phase = "wakeup", NEW s \in LsuSlots, NEW e, e = lq[s], NEW f, LsuKept(e, f),
           NEW cur, Up(e, cur), ~(lu.replay /\ 0 \in Lpv(e)),
           ~(lu.replay /\ 0 \in cur /\ ~lu.following)
    PROVE  /\ Up(f, ShiftedLpv(cur)) /\ Lpv(f) = SentLpv(e)
           /\ ~Safe(Lpv(e) \cup cur)
<1>1. e.valid /\ e.op <= cut /\ f.op = e.op /\ e.issued /\ e.src1.ready /\ e.src2.ready /\ e.cur_lpv = cur
  BY DEF LsuKept, Up
<1>2. SlotType(e)
  BY DEF Inv1, Types, QueueTypes
<1>3. ~LsuBack(e)
  BY <1>1 DEF LsuBack, AtLevel2
<1>4. f.issued /\ ~Safe(Lpv(e) \cup cur)
  BY <1>1, <1>3 DEF LsuKept
<1>5. "lu" \notin Units(e)
  <2>1. ASSUME NEW p \in lsu_port, p.unit = "lu", p.op = e.op PROVE FALSE
    <3>1. Sender(e, p)
      BY <1>1, <2>1, SentLoad
    <3> QED BY <1>1, <3>1 DEF Sender, MayIssue
  <2>2. \A p \in int_port : p.unit = "alu"
    BY DEF Inv1, Types, PackTypes
  <2> QED BY <2>1, <2>2 DEF Units
<1>6. f.cur_lpv = ShiftedLpv(cur)
  BY <1>1, <1>5 DEF LsuKept
<1>7. ASSUME NEW b \in BOOLEAN, ~b, f.src1 = Woken(e.src1, b), f.src2 = Woken(e.src2, b)
      PROVE  Lpv(f) = SentLpv(e) /\ f.src1.ready /\ f.src2.ready
  BY <1>1, <1>2, <1>7, SentSlot
<1>8. f.src1 = Woken(e.src1, FALSE) /\ f.src2 = Woken(e.src2, FALSE)
  BY DEF LsuKept
<1>9. Lpv(f) = SentLpv(e) /\ f.src1.ready /\ f.src2.ready
  BY <1>7, <1>8
<1> QED BY <1>4, <1>6, <1>9 DEF Up


\* Shifts of short load position vectors.
LEMMA ShortShifts ==
    /\ Shift({1}) = {0} /\ Shift({2}) = {1}
    /\ \A l : l \subseteq {0} => Shift(l) = {}
    /\ \A l : lu.stall => ShiftedLpv(l) = l
    /\ ~lu.stall => ShiftedLpv({1}) = {0} /\ ShiftedLpv({2}) = {1}
<1>1. Shift({1}) = {0} /\ Shift({2}) = {1} /\ \A l : l \subseteq {0} => Shift(l) = {}
  BY DEF Shift
<1> QED BY <1>1 DEF ShiftedLpv, AtLevel2

\* A load that was sent in this cycle, in its slot.
LEMMA SentLoadSlot ==
    ASSUME Inv1, Inv2, phase = "wakeup", NEW s \in LsuSlots, NEW e, e = lq[s], NEW f, LsuKept(e, f),
           NEW p \in lsu_port, p.unit = "lu", p.op = e.op
    PROVE  Up(f, {2}) /\ p.lpv = Lpv(f) /\ p.lpv \subseteq {0}
<1>1. e.valid /\ e.op <= cut
  BY DEF LsuKept
<1>2. ~lu.stall /\ ~rr_stall /\ Kind(e.op) = "load" /\ Sender(e, p)
  BY <1>1, SentLoad
<1>3. /\ ~e.issued /\ ~(lu.replay /\ 0 \in Lpv(e)) /\ e.src1.ready /\ e.src2.ready
      /\ p.lpv = SentLpv(e)
  BY <1>2 DEF Sender, MayIssue, AtLevel2
<1>4. SlotType(e)
  BY DEF Inv1, Types, QueueTypes
<1>5. "lu" \in Units(e) /\ LastUop(e)
  BY <1>2 DEF Units, LastUop
<1>6. f.issued /\ f.cur_lpv = {2}
  BY <1>3, <1>5 DEF LsuKept, INIT_LPV
<1>7. ASSUME NEW b \in BOOLEAN, ~b, f.src1 = Woken(e.src1, b), f.src2 = Woken(e.src2, b)
      PROVE  Lpv(f) = SentLpv(e) /\ f.src1.ready /\ f.src2.ready
  BY <1>3, <1>4, <1>7, SentSlot
<1>8. f.src1 = Woken(e.src1, FALSE) /\ f.src2 = Woken(e.src2, FALSE)
  BY DEF LsuKept
<1>9. Lpv(f) = SentLpv(e) /\ f.src1.ready /\ f.src2.ready
  BY <1>7, <1>8
<1>10. LsuSource(e.src1) /\ LsuSource(e.src2)
  BY <1>1 DEF Inv2, SourcesInv, Alive
<1>11. 2 \notin e.src1.lpv /\ 2 \notin e.src2.lpv
  BY <1>2, <1>3, <1>10 DEF LsuSource, Past
<1>12. /\ Lpv(e) \in SUBSET Bits /\ SentLpv(e) \in SUBSET Bits
       /\ 1 \in SentLpv(e) <=> 2 \in Lpv(e)
       /\ 2 \notin SentLpv(e)
       /\ Lpv(e) = e.src1.lpv \cup e.src2.lpv
  BY <1>2, <1>4, SlotLpv
<1>13. SentLpv(e) \subseteq {0}
  BY <1>11, <1>12 DEF Bits
<1> QED BY <1>3, <1>6, <1>9, <1>13 DEF Up

\* A wakeup and the slots of loads.
LEMMA IssueLoads ==
    ASSUME Inv1, Inv2, NEW ints, NEW lsus \in NextOne({"load", "store"}), Issue(ints, lsus)
    PROVE  LoadInv'
<1>1. /\ phase = "wakeup" /\ phase' = "execute" /\ Past /\ ~Past'
      /\ UNCHANGED <<prog, int_port, lsu_port, busy, hold, hdff, l2>>
      /\ Results' = Results
      /\ \A i : Kind(i)' = Kind(i) /\ (Alive(i) <=> i <= cut)
      /\ \A u : Packs(u)' = Packs(u)
      /\ Lus(hold)' = Lus(hold)
      /\ \A e : Lpv(e)' = Lpv(e)
  BY IssueSame
<1>2. /\ lu.stall => lu.op = l2 /\ lu.replay /\ lu.following
      /\ ~lu.stall => hold = {}
      /\ lu.op \in Results => ~lu.stall /\ (lu.replay => lu.following)
  BY <1>1 DEF Inv1, Links, Inv2, FlightInv
<1>3. l2 \in 0..N /\ (l2 # 0 => l2 \in Ops)
  BY KindsDiffer DEF Inv2, PlacesInv
<1>4. ASSUME NEW f, Fresh(f, {"load", "store"}) PROVE LoadSlot(f)'
  <2>1. /\ f.op \notin Results /\ f.op # l2
        /\ f.op \notin Packs("lu")
        /\ \A p \in lsu_port \cup hold : p.op # f.op
    BY <1>4, FreshNowhere
  <2>2. f.op \notin Lus(hold)
    BY <2>1, LusDef
  <2> QED BY <1>1, <2>1, <2>2 DEF LoadSlot
<1>5. ASSUME NEW s \in LsuSlots, NEW e, e = lq[s], NEW f, LsuKept(e, f), Kind(e.op) = "load"
      PROVE  LoadSlot(f)'
  <2>1. e.valid /\ e.op <= cut /\ f.op = e.op /\ e.op \in Ops
    BY <1>5 DEF LsuKept, Inv1, Types, QueueTypes, SlotType
  <2>2. LoadSlot(e)
    BY <1>5 DEF Inv2, LoadInv
  <2>3. /\ e.op \in Results => e.op = lu.op
        /\ e.op \in Level1Loads => Up(e, {1}) /\ Lpv(e) = {}
        /\ e.op = lu.op => Up(e, {0}) /\ Lpv(e) = {}
        /\ e.op \in Level0Loads =>
              Up(e, {2}) /\ Lpv(e) \subseteq {0} /\ (lu.replay => Lpv(e) = {})
    BY <1>1, <1>5, <2>1, <2>2 DEF LoadSlot
  <2>4. ASSUME NEW cur, Up(e, cur), ~(lu.replay /\ 0 \in Lpv(e)),
               ~(lu.replay /\ 0 \in cur /\ ~lu.following)
        PROVE  /\ Up(f, ShiftedLpv(cur)) /\ Lpv(f) = SentLpv(e)
               /\ ~Safe(Lpv(e) \cup cur)
    BY <1>1, <1>5, <2>4, LoadKept
  <2>5. Lpv(e) \subseteq {0} /\ (lu.stall => Lpv(e) = {}) => SentLpv(e) = {}
    BY ShortShifts DEF SentLpv
  <2>6. f.op \notin Results
    <3>1. SUFFICES ASSUME e.op \in Results PROVE FALSE
      BY <2>1
    <3>2. e.op = lu.op /\ Up(e, {0}) /\ Lpv(e) = {} /\ ~lu.stall /\ (lu.replay => lu.following)
      BY <1>2, <2>3, <3>1
    <3>3. ~Safe(Lpv(e) \cup {0})
      BY <2>4, <3>2
    <3> QED BY <3>2, <3>3 DEF Safe
  <2>7. ASSUME f.op \in Packs("lu") PROVE Up(f, {1}) /\ Lpv(f) = {}
    <3>1. CASE lu.stall
      <4>1. Up(e, {1}) /\ Lpv(e) = {}
        BY <2>1, <2>3, <2>7, <3>1 DEF Level1Loads
      <4>2. Up(f, ShiftedLpv({1})) /\ Lpv(f) = SentLpv(e)
        BY <2>4, <4>1
      <4> QED BY <2>5, <3>1, <4>1, <4>2, ShortShifts
    <3>2. CASE ~lu.stall
      <4>1. Up(e, {2}) /\ Lpv(e) \subseteq {0} /\ (lu.replay => Lpv(e) = {})
        BY <2>1, <2>3, <2>7, <3>2 DEF Level0Loads
      <4>2. ~(lu.replay /\ 0 \in Lpv(e)) /\ 0 \notin {2}
        BY <4>1
      <4>3. Up(f, ShiftedLpv({2})) /\ Lpv(f) = SentLpv(e)
        BY <2>4, <4>1, <4>2
      <4> QED BY <2>5, <3>2, <4>1, <4>3, ShortShifts
    <3> QED BY <3>1, <3>2
  <2>8. ASSUME f.op = l2 PROVE Up(f, {0}) /\ Lpv(f) = {}
    <3>1. CASE lu.stall
      <4>1. Up(e, {0}) /\ Lpv(e) = {} /\ lu.following
        BY <1>2, <2>1, <2>3, <2>8, <3>1
      <4>2. Up(f, ShiftedLpv({0})) /\ Lpv(f) = SentLpv(e)
        BY <2>4, <4>1
      <4> QED BY <2>5, <3>1, <4>1, <4>2, ShortShifts
    <3>2. CASE ~lu.stall
      <4>0. e.op # 0
        BY <2>1 DEF Ops
      <4>1. Up(e, {1}) /\ Lpv(e) = {}
        BY <2>1, <2>3, <2>8, <3>2, <4>0 DEF Level1Loads
      <4>2. Up(f, ShiftedLpv({1})) /\ Lpv(f) = SentLpv(e)
        BY <2>4, <4>1
      <4> QED BY <2>5, <3>2, <4>1, <4>2, ShortShifts
    <3> QED BY <3>1, <3>2
  <2>9. ASSUME NEW p \in lsu_port, p.unit = "lu", p.op = f.op
        PROVE  Up(f, {2}) /\ p.lpv = Lpv(f) /\ p.lpv \subseteq {0}
    BY <1>1, <1>5, <2>1, <2>9, SentLoadSlot
  <2>10. ASSUME f.op \in Lus(hold) PROVE Up(f, {2}) /\ Lpv(f) = {}
    <3>1. lu.stall
      BY <1>2, <2>10, LusDef
    <3>2. Up(e, {2}) /\ Lpv(e) = {}
      BY <1>2, <2>1, <2>3, <2>10, <3>1 DEF Level0Loads
    <3>3. Up(f, ShiftedLpv({2})) /\ Lpv(f) = SentLpv(e)
      BY <2>4, <3>2
    <3> QED BY <2>5, <3>1, <3>2, <3>3, ShortShifts
  <2> QED BY <1>1, <2>6, <2>7, <2>8, <2>9, <2>10 DEF LoadSlot, Up
<1>6. ASSUME NEW s \in LsuSlots PROVE LoadSlot(lq[s])'
  <2>1. lq'[s].valid => LsuKept(lq[s], lq'[s]) \/ Fresh(lq'[s], {"load", "store"})
    BY LsuQueueNext DEF Inv1
  <2>2. PICK f : f = lq'[s]
    OBVIOUS
  <2>3. LoadSlot(f)'
    <3>1. CASE f.valid /\ Fresh(f, {"load", "store"})
      BY <1>4, <3>1
    <3>2. CASE LsuKept(lq[s], f) /\ Kind(f.op) = "load"
      BY <1>5, <3>2 DEF LsuKept
    <3>3. CASE ~(f.valid /\ Kind(f.op) = "load")
      BY <1>1, <3>3 DEF LoadSlot
    <3> QED BY <2>1, <2>2, <3>1, <3>2, <3>3
  <2> QED BY <2>2, <2>3
<1> QED BY <1>6 DEF LoadInv

\* A wakeup preserves the second invariant.
LEMMA Issue2 ==
    ASSUME Inv1, Inv2, NEW ints \in NextOne({"alu"}), NEW lsus \in NextOne({"load", "store"}),
           Issue(ints, lsus)
    PROVE  Inv2'
<1>1. ExecutedOnce'
  <2>1. exec' = {}
    BY IssueSame
  <2> QED BY <2>1 DEF ExecutedOnce
<1> QED BY <1>1, IssuePlaces, IssueAlu, IssueSources, IssueFlight, IssueLoads DEF Inv2

\* A step that changes nothing.
LEMMA Stutter2 ==
    ASSUME Inv2, UNCHANGED vars
    PROVE  Inv2'
<1>1. /\ UNCHANGED <<phase, prog, cut, iq, lq, entered, int_port, lsu_port, busy, hold, rr_stall>>
      /\ UNCHANGED <<hdff, l2, lu, exec, wb_port, wb, regs>>
  BY DEF vars, queue_vars, readreg_vars, lu_vars, result_vars
<1>2. /\ Results' = Results /\ Available' = Available /\ (Past' <=> Past)
      /\ \A u : Packs(u)' = Packs(u)
      /\ \A i : Kind(i)' = Kind(i) /\ (Alive(i)' <=> Alive(i))
      /\ \A S : Lus(S)' = Lus(S)
      /\ \A e : /\ Lpv(e)' = Lpv(e) /\ SentLpv(e)' = SentLpv(e)
                /\ MayIssue(e)' = MayIssue(e) /\ IntBack(e)' = IntBack(e)
      /\ \A p : Needs(p)' = Needs(p)
  BY <1>1 DEF Results, Available, Past, Packs, Kind, Alive, Lus, Lpv, SentLpv, MayIssue, IntBack, Needs
<1>3. /\ Sure' = Sure /\ SureNow' = SureNow /\ NewLoads' = NewLoads
      /\ Level0Loads' = Level0Loads /\ Level1Loads' = Level1Loads
      /\ \A e, p : Sender(e, p)' <=> Sender(e, p)
  BY <1>1, <1>2 DEF Sure, SureNow, NewLoads, Lus, Level0Loads, Level1Loads, Sender
<1>4. PlacesInv'
  BY <1>1, <1>2 DEF Inv2, PlacesInv, Single, KindInv, EnteredInv, CutInv
<1>5. AluInv'
  <2>1. \A e : Safe(Lpv(e))' <=> Safe(Lpv(e))
    BY <1>1 DEF Safe, Lpv
  <2>2. \A e : AluSlot(e)' <=> AluSlot(e)
    BY <1>1, <1>2, <2>1 DEF AluSlot
  <2>3. ASSUME NEW p, AluPack(p) PROVE AluPack(p)'
    <3>1. phase = "wakeup" => \E s \in IntSlots : Sender(iq[s], p)'
      BY <1>1, <1>3, <2>3 DEF AluPack
    <3> QED BY <1>1, <1>2, <1>3, <2>3, <3>1 DEF AluPack
  <2> QED BY <1>1, <1>2, <2>2, <2>3 DEF Inv2, AluInv
<1>6. SourcesInv'
  <2>1. \A s : /\ IntSource(s)' <=> IntSource(s)
               /\ LsuSource(s)' <=> LsuSource(s)
               /\ Behind2(s)' <=> Behind2(s)
    BY <1>1, <1>2, <1>3 DEF IntSource, Late, LsuSource, Behind2
  <2> QED BY <1>1, <1>2, <2>1 DEF Inv2, SourcesInv
<1>7. FlightInv'
  <2>1. phase = "wakeup" => \A p \in lsu_port : p.unit = "lu" =>
           ~lu.stall /\ ~rr_stall /\ \E s \in LsuSlots : Sender(lq[s], p)'
    BY <1>1, <1>3 DEF Inv2, FlightInv
  <2> QED BY <1>1, <1>2, <1>3, <2>1 DEF Inv2, FlightInv
<1>8. LoadInv'
  <2>1. \A e : LoadSlot(e)' <=> LoadSlot(e)
    BY <1>1, <1>2, <1>3 DEF LoadSlot, Up
  <2> QED BY <1>1, <2>1 DEF Inv2, LoadInv
<1>9. ExecutedOnce'
  BY <1>1 DEF Inv2, ExecutedOnce
<1> QED BY <1>4, <1>5, <1>6, <1>7, <1>8, <1>9 DEF Inv2

\* The second invariant is one.
THEOREM Inv2Correct == Spec => []Inv2
<1>1. ASSUME Inv1, Inv2, [Next]_vars PROVE Inv2'
  <2>1. CASE Proceed
    <3>1. N \in 0..N /\ FALSE \in BOOLEAN
      BY ConstAssumption
    <3> QED BY <1>1, <2>1, <3>1, Execute2 DEF Proceed
  <2>2. CASE Stall
    <3>1. N \in 0..N /\ TRUE \in BOOLEAN
      BY ConstAssumption
    <3> QED BY <1>1, <2>2, <3>1, Execute2 DEF Stall
  <2>3. CASE Flush
    <3>1. PICK c \in 0..(N - 1), stall \in BOOLEAN : Execute(c, stall)
      BY <2>3 DEF Flush
    <3>2. c \in 0..N
      BY ConstAssumption
    <3> QED BY <1>1, <3>1, <3>2, Execute2
  <2>4. CASE Readreg
    BY <1>1, <2>4, Readreg2
  <2>5. CASE Output
    BY <1>1, <2>5, Output2
  <2>6. CASE IssueCycle
    BY <1>1, <2>6, Issue2 DEF IssueCycle
  <2>7. CASE UNCHANGED vars
    BY <1>1, <2>7, Stutter2
  <2> QED BY <1>1, <2>1, <2>2, <2>3, <2>4, <2>5, <2>6, <2>7 DEF Next
<1> QED BY Init2, <1>1, Inv1Correct, PTL DEF Spec

\* Whatever the program and the sizes, no instruction is executed again once its result is
\* there: a slot that a replay or a stall calls back has nothing left at readreg or in a unit
\* that would still execute, and a slot whose pack executes is given up in the same cycle.
THEOREM OnceCorrect == Spec => []ExecutedOnce
<1>1. Inv2 => ExecutedOnce
  BY DEF Inv2
<1> QED BY <1>1, Inv2Correct, PTL

-----------------------------------------------------------------------------
(***************************************************************************)
(* None dropped: what an issued slot can still count on.                   *)
(***************************************************************************)
\* A part of a store is taken back at readreg for a load position vector that its slot no
\* longer has, so the queue does not learn of it.
PartLost ==
    /\ phase = "readreg" /\ ~busy /\ lu.replay
    /\ \E p \in lsu_port : /\ p.unit # "lu" /\ p.op <= cut /\ 0 \in p.lpv
                           /\ \E s \in LsuSlots : /\ lq[s].valid /\ lq[s].op = p.op
                                                  /\ 0 \notin Lpv(lq[s])

\* The load that lu has not called back has its result.
LoadDone ==
    phase # "execute" /\ lu.op # 0 /\ lu.op <= cut /\ ~lu.stall /\ (lu.replay => lu.following)
    => lu.op \in exec

\* Parts of stores belong to stores, and come from slots that are not issued.
PartInv ==
    /\ \A p \in lsu_port : p.unit # "lu" => Kind(p.op) = "store"
    /\ phase = "wakeup" => \A p \in lsu_port :
         ~lu.stall /\ ~rr_stall /\ \E s \in LsuSlots : /\ MayIssue(lq[s]) /\ p.op = lq[s].op
                                          /\ p.lpv = SentLpv(lq[s])
    /\ ~Past => \A p \in lsu_port : p.lpv = {} \/ \E s \in LsuSlots : lq[s].valid /\ lq[s].op = p.op

\* An operand that was put to sleep in the cycle in which its slot was sent: in the cycle
\* after it nothing can wake it.
Sleeping(s) ==
    /\ \A t \in IntSlots : iq[t].valid /\ iq[t].op = s.reg =>
          iq[t].issued \/ ~iq[t].src1.ready \/ ~iq[t].src2.ready
    /\ phase = "execute" => busy /\ s.reg \notin Sure \cup {l2}
    /\ phase = "readreg" => busy /\ s.reg \notin Available
    /\ Past => (lu.stall \/ rr_stall) /\ s.reg \notin Available
Dozes(s) == s.ready \/ (1 \in s.lpv /\ Sleeping(s))

\* An issued slot of the integer queue: it has been sent and will be called back if that was
\* in vain, at the latest in the next cycle (bit 1), or it is called back in this one.
AluSent(e) ==
    /\ Dozes(e.src1) /\ Dozes(e.src2) /\ Lpv(e) \subseteq {0, 1}
    /\ ~Past => \E p \in int_port : p.op = e.op
    /\ Past => \/ e.op \in Packs("alu")
               \/ 0 \in Lpv(e) /\ lu.replay
               \/ 1 \in Lpv(e) /\ Behind(e.op)
AluDoomed(e) ==
    /\ Lpv(e) = {0}
    /\ phase = "execute" => Forced(e.op)
    /\ phase # "execute" => lu.replay
AluIssued(e) == e.valid /\ e.issued /\ Alive(e.op) => AluSent(e) \/ AluDoomed(e)

\* The slot of what is late has bit 1 too.
LateSlot(s) == s.ready /\ 1 \in s.lpv =>
    \A t \in IntSlots : iq[t].valid /\ iq[t].op = s.reg => 1 \in Lpv(iq[t])
LateInv == \A s \in IntSlots : iq[s].valid /\ Alive(iq[s].op) =>
               LateSlot(iq[s].src1) /\ LateSlot(iq[s].src2)

\* An issued load.
LoadIssued(e) ==
    e.valid /\ e.issued /\ Kind(e.op) = "load" /\ Alive(e.op) =>
    /\ phase = "execute" => e.op \in NewLoads \cup Packs("lu") \cup {l2}
    /\ phase = "readreg" => e.op \in NewLoads \cup Level1Loads \cup {lu.op}
    /\ Past => \/ e.op \in Level0Loads \cup Level1Loads \cup {lu.op}
               \/ 0 \in Lpv(e) /\ lu.replay

\* A part of a store beyond the port of the queue.
PartOn(i, u) ==
    \/ u = "sau" /\ i \in addr
    \/ u = "sdu" /\ i \in data
    \/ i \in Packs(u)
    \/ \E p \in hold : p.op = i /\ p.unit = u
Parts == {"sau", "sdu"}
StoreSent(e) ==
    e.valid /\ Kind(e.op) = "store" /\ Alive(e.op) =>
    /\ e.parts \subseteq Parts /\ (e.issued => e.parts = Parts)
    /\ \A u \in e.parts :
         \/ PartOn(e.op, u)
         \/ ~Past /\ \E p \in lsu_port : p.op = e.op /\ p.unit = u
         \/ Past /\ 0 \in Lpv(e) /\ lu.replay

\* Every instruction is in its queue or will have its result.
AluThere(i) ==
    \/ \E s \in IntSlots : iq[s].valid /\ iq[s].op = i
    \/ i \in Results \cup Packs("alu")
    \/ ~Past /\ \E p \in int_port : p.op = i /\ p.lpv = {}
LoadThere(i) == (\E s \in LsuSlots : lq[s].valid /\ lq[s].op = i) \/ i \in Results
PartThere(i, u) == \/ PartOn(i, u)
                   \/ ~Past /\ \E p \in lsu_port : p.op = i /\ p.unit = u /\ p.lpv = {}
StoreThere(i) == \/ \E s \in LsuSlots : lq[s].valid /\ lq[s].op = i
                 \/ \A u \in Parts : PartThere(i, u)
ThereInv ==
    \A i \in entered : i \in Ops /\
         (Alive(i) => /\ Kind(i) = "alu" => AluThere(i)
                      /\ Kind(i) = "load" => LoadThere(i))

IssuedInv == /\ \A s \in IntSlots : AluIssued(iq[s])
             /\ \A s \in LsuSlots : LoadIssued(lq[s])
\* The arithmetic instructions come in order.
OrderInv == \A i \in entered, j \in Ops :
    Kind(i) = "alu" /\ Kind(j) = "alu" /\ j < i => j \in entered
Inv3 == LoadDone /\ PartInv /\ LateInv /\ IssuedInv /\ ThereInv /\ OrderInv

\* The same of stores.
StoreInv ==
    /\ \A s \in LsuSlots : StoreSent(lq[s])
    /\ \A i \in entered : Alive(i) /\ Kind(i) = "store" => StoreThere(i)


-----------------------------------------------------------------------------
(***************************************************************************)
(* Who leaves a queue.                                                     *)
(***************************************************************************)
\* The slot e of the integer queue is given up.
IntLeaves(e) == \/ Units(e) # {} /\ SentLpv(e) = {}
                \/ e.issued /\ ~IntBack(e) /\ Safe(Lpv(e))
\* The slot e of the load/store queue is given up.
LsuLeaves(e) == \/ LastUop(e) /\ Kind(e.op) = "store" /\ SentLpv(e) = {}
                \/ e.issued /\ ~LsuBack(e) /\ Safe(Lpv(e) \cup e.cur_lpv)
\* The parts a slot remembers as sent.
PartsNext(e) == IF lu.replay /\ AtLevel2(Lpv(e)) THEN {} ELSE e.parts \cup (Units(e) \ {"lu"})

\* There is an oldest one.
LEMMA OldestIs ==
    ASSUME NEW T \in SUBSET Nat, T # {}
    PROVE  Oldest(T) \in T /\ \A y \in T : Oldest(T) <= y
<1> DEFINE R == OpToRel(<, Nat)
<1>1. IsWellFoundedOn(R, Nat)
  BY NatLessThanWellFounded
<1>2. \A a, b \in Nat : a < b => <<a, b>> \in R
  BY DEF OpToRel
<1> HIDE DEF R
<1>3. PICK x \in T : \A y \in T : ~ (<<y, x>> \in R)
  BY <1>1, WFMin
<1>4. ASSUME NEW y \in T PROVE x <= y
  <2>1. x \in Nat /\ y \in Nat
    OBVIOUS
  <2>2. ~(y < x)
    BY <1>2, <1>3, <2>1, Zenon
  <2> QED BY <2>1, <2>2
<1> QED BY <1>4 DEF Oldest

\* A free slot is taken for a new entry.
LEMMA FreeIsFree ==
    ASSUME NEW S \in SUBSET Nat, NEW q, q = [s \in S |-> q[s]], FreeSlots(q) # {}
    PROVE  Oldest(FreeSlots(q)) \in S /\ ~q[Oldest(FreeSlots(q))].valid
<1>1. FreeSlots(q) \in SUBSET S /\ \A s \in FreeSlots(q) : ~q[s].valid
  BY DEF FreeSlots
<1>2. FreeSlots(q) \in SUBSET Nat
  BY <1>1
<1>3. Oldest(FreeSlots(q)) \in FreeSlots(q)
  BY <1>2, OldestIs
<1> QED BY <1>1, <1>3

\* The sizes of the queues are numbers.
LEMMA SlotsNat == IntSlots \in SUBSET Nat /\ LsuSlots \in SUBSET Nat
BY ConstAssumption DEF IntSlots, LsuSlots

\* A slot of the integer queue is given up in these cases only.
LEMMA IntWakeupStays ==
    ASSUME Types, NEW s \in IntSlots, iq[s].valid, iq[s].op <= cut, ~IntLeaves(iq[s])
    PROVE  IntWakeup(s).valid /\ IntWakeup(s).op = iq[s].op
<1> DEFINE e == iq[s]
           v == ~(Units(e) # {} /\ SentLpv(e) = {})
                /\ ~(e.issued /\ ~IntBack(e) /\ Safe(Lpv(e)))
           i == Units(e) # {} \/ (e.issued /\ ~IntBack(e))
           a == Woken(e.src1, TRUE)
           b == Woken(e.src2, TRUE)
<1>1. SlotType(e)
  BY DEF Types, QueueTypes
<1>2. e.valid /\ ~(e.op > cut)
  BY <1>1 DEF SlotType, Types, FlagTypes, Ops
<1>3. IntWakeup(s) = [e EXCEPT !.valid = v, !.issued = i, !.src1 = a, !.src2 = b]
  BY <1>2 DEF IntWakeup
<1>4. v
  BY DEF IntLeaves
<1> HIDE DEF e, v, i, a, b
<1>5. IntWakeup(s) = Slot(e.op, v, i, e.port, a, b, e.cur_lpv, e.parts, e.waits)
  BY <1>1, <1>3 DEF SlotType, Slot
<1> QED BY <1>4, <1>5 DEF Slot, e

\* A slot of the load/store queue is given up in these cases only, and counts its parts.
LEMMA LsuWakeupStays ==
    ASSUME Types, NEW s \in LsuSlots, lq[s].valid, lq[s].op <= cut
    PROVE  /\ LsuWakeup(s).op = lq[s].op /\ LsuWakeup(s).parts = PartsNext(lq[s])
           /\ ~LsuLeaves(lq[s]) => LsuWakeup(s).valid
<1> DEFINE e == lq[s]
           cur == IF "lu" \in Units(e) THEN INIT_LPV ELSE e.cur_lpv
           left == e.issued /\ ~LsuBack(e) /\ Safe(Lpv(e) \cup e.cur_lpv)
           v == ~(LastUop(e) /\ Kind(e.op) = "store" /\ SentLpv(e) = {}) /\ ~left
           i == LastUop(e) \/ (e.issued /\ ~LsuBack(e))
           k == IF e.issued THEN ShiftedLpv(cur) ELSE cur
           x == PartsNext(e)
           a == Woken(e.src1, FALSE)
           b == Woken(e.src2, FALSE)
           y == IF WaitingStores(lq) = {} \/ Oldest(WaitingStores(lq)) > e.waits THEN 0
                ELSE e.waits
<1>1. SlotType(e)
  BY DEF Types, QueueTypes
<1>2. e.valid /\ ~(e.op > cut)
  BY <1>1 DEF SlotType, Types, FlagTypes, Ops
<1>3. LsuWakeup(s) = [e EXCEPT !.valid = v, !.issued = i, !.cur_lpv = k, !.parts = x,
                               !.src1 = a, !.src2 = b, !.waits = y]
  BY <1>2 DEF LsuWakeup, PartsNext
<1>4. ~LsuLeaves(e) => v
  BY DEF LsuLeaves
<1> HIDE DEF e, v, i, k, x, a, b, y
<1>5. LsuWakeup(s) = Slot(e.op, v, i, e.port, a, b, k, x, y)
  BY <1>1, <1>3 DEF SlotType, Slot
<1>6. /\ LsuWakeup(s).op = e.op /\ LsuWakeup(s).parts = x
      /\ v => LsuWakeup(s).valid
  BY <1>5 DEF Slot
<1> QED BY <1>4, <1>6 DEF e, x

\* Who stays in the integer queue, and that what comes is in it.
LEMMA IntQueueStays ==
    ASSUME Types, NEW ints \in NextOne({"alu"}), NEW lsus, Issue(ints, lsus)
    PROVE  /\ \A s \in IntSlots :
                iq[s].valid /\ iq[s].op <= cut /\ ~IntLeaves(iq[s]) =>
                   iq'[s].valid /\ iq'[s].op = iq[s].op
           /\ \A i \in ints : \E s \in IntSlots : iq'[s].valid /\ iq'[s].op = i
<1> DEFINE q == [s \in IntSlots |-> IntWakeup(s)]
<1>1. /\ q = [s \in IntSlots |-> q[s]]
      /\ \A s \in IntSlots : SlotType(q[s])
  BY IntWakeupSlot
<1>2. \A s \in IntSlots : iq[s].valid /\ iq[s].op <= cut /\ ~IntLeaves(iq[s]) =>
                             q[s].valid /\ q[s].op = iq[s].op
  BY IntWakeupStays
<1>3. CASE ints = {}
  <2>1. iq' = Settled(q)
    BY <1>3 DEF Issue
  <2> HIDE DEF q
  <2>2. \A s \in IntSlots : q[s].valid => iq'[s] = q[s]
    BY <1>1, <2>1, SettledSlots
  <2> QED BY <1>2, <1>3, <2>2
<1>4. CASE ints # {}
  <2>1. /\ FreeSlots(q) # {}
        /\ \E port \in Ports : iq' = Settled(IntInput(q, Oldest(ints), port))
    BY <1>4 DEF Issue
  <2>2. PICK port \in Ports : iq' = Settled(IntInput(q, Oldest(ints), port))
    BY <2>1
  <2>3. PICK i : ints = {i}
    BY <1>4 DEF NextOne
  <2>4. i \in Ops
    <3>1. ints \subseteq Waiting({"alu"})
      BY DEF Issue
    <3>2. cut \in 0..N /\ N \in Nat
      BY ConstAssumption DEF Types, FlagTypes
    <3> QED BY <2>3, <3>1, <3>2 DEF Waiting, Upto, Ops
  <2>5. Oldest(ints) = i
    BY <2>3, <2>4, OldestOne DEF Ops
  <2> HIDE DEF q
  <2> DEFINE o == Oldest(FreeSlots(q))
             r == IntInput(q, i, port)
             g == [NewEntry(i) EXCEPT !.port = port]
  <2>6. o \in IntSlots /\ ~q[o].valid
    BY <1>1, <2>1, FreeIsFree, SlotsNat
  <2>7. r = [q EXCEPT ![o] = g]
    BY DEF IntInput
  <2>8. SlotType(NewEntry(i)) /\ NewEntry(i).op = i /\ NewEntry(i).valid
    BY <2>4, NewEntrySlot
  <2>9. SlotType(g) /\ g.op = i /\ g.valid
    <3>1. SlotType(g) /\ g.op = NewEntry(i).op
      BY <2>8, PortSlot
    <3>2. g.valid = NewEntry(i).valid
      BY <2>8 DEF SlotType
    <3> QED BY <2>8, <3>1, <3>2
  <2> HIDE DEF g, r, o
  <2>10. /\ r = [s \in IntSlots |-> r[s]]
         /\ \A s \in IntSlots : r[s] = IF s = o THEN g ELSE q[s]
    BY <1>1, <2>7
  <2>11. \A s \in IntSlots : SlotType(r[s])
    BY <1>1, <2>9, <2>10
  <2>12. iq' = Settled(r)
    BY <2>2, <2>5 DEF r
  <2>13. \A s \in IntSlots : r[s].valid => iq'[s] = r[s]
    BY <2>10, <2>11, <2>12, SettledSlots
  <2> QED BY <1>2, <2>3, <2>6, <2>9, <2>10, <2>13
<1> QED BY <1>3, <1>4

\* Who stays in the load/store queue, what a slot remembers, and that what comes is in it.
LEMMA LsuQueueStays ==
    ASSUME Types, NEW ints, NEW lsus \in NextOne({"load", "store"}), Issue(ints, lsus)
    PROVE  /\ \A s \in LsuSlots :
                lq[s].valid /\ lq[s].op <= cut /\ ~LsuLeaves(lq[s]) =>
                   lq'[s].valid /\ lq'[s].op = lq[s].op
           /\ \A i \in lsus : \E s \in LsuSlots : lq'[s].valid /\ lq'[s].op = i
           /\ \A s \in LsuSlots : lq'[s].valid =>
                \/ LsuKept(lq[s], lq'[s]) /\ lq'[s].parts = PartsNext(lq[s])
                \/ Fresh(lq'[s], {"load", "store"}) /\ lq'[s].parts = {}
<1> DEFINE q == [s \in LsuSlots |-> LsuWakeup(s)]
<1>1. /\ q = [s \in LsuSlots |-> q[s]]
      /\ \A s \in LsuSlots : SlotType(q[s]) /\ (q[s].valid => LsuKept(lq[s], q[s]))
  BY LsuWakeupSlot
<1>2. ASSUME NEW s \in LsuSlots
      PROVE  /\ lq[s].valid /\ lq[s].op <= cut /\ ~LsuLeaves(lq[s]) =>
                             q[s].valid /\ q[s].op = lq[s].op
             /\ q[s].valid => q[s].parts = PartsNext(lq[s])
  <2>1. q[s] = LsuWakeup(s)
    OBVIOUS
  <2>2. q[s].valid => lq[s].valid /\ lq[s].op <= cut
    BY <1>1 DEF LsuKept
  <2> HIDE DEF q
  <2> QED BY <2>1, <2>2, LsuWakeupStays
<1>3. CASE lsus = {}
  <2>1. lq' = Settled(q)
    BY <1>3 DEF Issue
  <2> HIDE DEF q
  <2>2. \A s \in LsuSlots : (q[s].valid \/ lq'[s].valid) => lq'[s] = q[s]
    BY <1>1, <2>1, SettledSlots
  <2> QED BY <1>1, <1>2, <1>3, <2>2
<1>4. CASE lsus # {}
  <2>1. /\ FreeSlots(q) # {}
        /\ \E wait \in BOOLEAN : lq' = Settled(LsuInput(q, Oldest(lsus), wait))
    BY <1>4 DEF Issue
  <2>2. PICK wait \in BOOLEAN : lq' = Settled(LsuInput(q, Oldest(lsus), wait))
    BY <2>1
  <2>3. PICK i : lsus = {i}
    BY <1>4 DEF NextOne
  <2>4. i \in Ops /\ i \in Waiting({"load", "store"})
    <3>1. lsus \subseteq Waiting({"load", "store"})
      BY DEF Issue
    <3>2. cut \in 0..N /\ N \in Nat
      BY ConstAssumption DEF Types, FlagTypes
    <3> QED BY <2>3, <3>1, <3>2 DEF Waiting, Upto, Ops
  <2>5. Oldest(lsus) = i
    BY <2>3, <2>4, OldestOne DEF Ops
  <2> HIDE DEF q
  <2> DEFINE o == Oldest(FreeSlots(q))
             r == LsuInput(q, i, wait)
             p == [q EXCEPT ![o] = NewEntry(i)]
             lpv == IF Kind(i) = "load" THEN INIT_LPV ELSE {}
             waits == IF wait /\ Kind(i) = "load" /\ (WaitingStores(p) \ {i}) # {}
                      THEN Youngest(WaitingStores(p) \ {i}) ELSE 0
             g == [NewEntry(i) EXCEPT !.cur_lpv = lpv, !.waits = waits]
  <2>6. o \in LsuSlots /\ ~q[o].valid
    BY <1>1, <2>1, FreeIsFree, SlotsNat
  <2>7. r = [p EXCEPT ![o].cur_lpv = lpv, ![o].waits = waits]
    BY DEF LsuInput
  <2>8. /\ SlotType(NewEntry(i)) /\ NewEntry(i).op = i /\ NewEntry(i).valid
        /\ NewEntry(i).issued = FALSE
        /\ NewEntry(i).src1 = Source(prog[i].src1, prog[i].src1 \in Available)
        /\ NewEntry(i).src2 = Source(prog[i].src2, prog[i].src2 \in Available)
    BY <2>4, NewEntrySlot
  <2>9. NewEntry(i).parts = {}
    BY DEF NewEntry, FreeSlot
  <2> HIDE DEF lpv, waits
  <2>10. g = WithLpv(NewEntry(i), lpv, waits)
    BY DEF WithLpv
  <2>11. /\ SlotType(g) /\ g.op = NewEntry(i).op /\ g.issued = NewEntry(i).issued
         /\ g.src1 = NewEntry(i).src1 /\ g.src2 = NewEntry(i).src2
         /\ g.valid = NewEntry(i).valid /\ g.parts = NewEntry(i).parts
    <3> HIDE DEF g
    <3>1. g.valid = NewEntry(i).valid /\ g.parts = NewEntry(i).parts
      BY <2>8, <2>10 DEF SlotType, WithLpv
    <3> QED BY <2>8, <2>10, <3>1, LpvSlot
  <2>12. SlotType(g) /\ Fresh(g, {"load", "store"}) /\ g.op = i /\ g.valid /\ g.parts = {}
    <3> HIDE DEF g
    <3> QED BY <2>4, <2>8, <2>9, <2>11 DEF Fresh
  <2> HIDE DEF o
  <2>13. /\ p = [s \in LsuSlots |-> p[s]]
         /\ \A s \in LsuSlots : p[s] = IF s = o THEN NewEntry(i) ELSE q[s]
    BY <1>1
  <2> HIDE DEF p, r
  <2>14. /\ r = [s \in LsuSlots |-> r[s]]
         /\ \A s \in LsuSlots : r[s] = IF s = o THEN g ELSE q[s]
    <3>1. r = [p EXCEPT ![o] = [p[o] EXCEPT !.cur_lpv = lpv, !.waits = waits]]
      BY <2>6, <2>7, <2>13
    <3>2. [p[o] EXCEPT !.cur_lpv = lpv, !.waits = waits] = g
      BY <2>6, <2>13
    <3> HIDE DEF g
    <3>3. r = [p EXCEPT ![o] = g]
      BY <3>1, <3>2
    <3> QED BY <2>13, <3>3
  <2> HIDE DEF g
  <2>15. \A s \in LsuSlots : SlotType(r[s])
    BY <1>1, <2>12, <2>14
  <2>16. lq' = Settled(r)
    BY <2>2, <2>5 DEF r
  <2>17. \A s \in LsuSlots : (r[s].valid \/ lq'[s].valid) => lq'[s] = r[s]
    BY <2>14, <2>15, <2>16, SettledSlots
  <2>18. ASSUME NEW s \in LsuSlots, lq'[s].valid
         PROVE  \/ LsuKept(lq[s], lq'[s]) /\ lq'[s].parts = PartsNext(lq[s])
                \/ Fresh(lq'[s], {"load", "store"}) /\ lq'[s].parts = {}
    BY <1>1, <1>2, <2>12, <2>14, <2>17, <2>18
  <2>19. ASSUME NEW s \in LsuSlots, lq[s].valid, lq[s].op <= cut, ~LsuLeaves(lq[s])
         PROVE  lq'[s].valid /\ lq'[s].op = lq[s].op
    BY <1>2, <2>6, <2>14, <2>17, <2>19
  <2>20. lq'[o].valid /\ lq'[o].op = i
    BY <2>6, <2>12, <2>14, <2>17
  <2> QED BY <2>3, <2>6, <2>18, <2>19, <2>20
<1> QED BY <1>3, <1>4


-----------------------------------------------------------------------------
(***************************************************************************)
(* The third invariant.                                                    *)
(***************************************************************************)
\* Initially nothing has come.
LEMMA Init3 == Init => Inv3 /\ StoreInv
<1> SUFFICES ASSUME Init PROVE Inv3 /\ StoreInv
  OBVIOUS
<1>1. /\ \A s \in IntSlots : iq[s].valid = FALSE
      /\ \A s \in LsuSlots : lq[s].valid = FALSE
      /\ phase = "execute" /\ lsu_port = {} /\ entered = {}
  BY DEF Init, FreeSlot
<1> QED BY <1>1 DEF Inv3, LoadDone, PartInv, LateInv, IssuedInv, ThereInv, OrderInv, AluIssued,
                    LoadIssued, StoreInv, StoreSent

\* The units run: what they do with parts of stores.
LEMMA ExecuteParts ==
    ASSUME Inv1, Inv2, NEW c \in 0..N, NEW stall \in BOOLEAN, Execute(c, stall)
    PROVE  /\ \A i \in Ops, u \in Parts : i <= c /\ PartOn(i, u) => PartOn(i, u)'
           /\ \A i \in Ops : i <= c /\ i \in Results \cup Packs("alu") => i \in Results'
<1>1. /\ addr' = (addr \cup Packs("sau")) \cap Upto(c)
      /\ data' = (data \cup Packs("sdu")) \cap Upto(c)
      /\ hold' = hold /\ phase = "execute" /\ phase' = "readreg"
  BY DEF Execute, readreg_vars
<1>2. /\ exec' = (Packs("alu") \cap Upto(c)) \cup (IF Live(c) /\ ~stall THEN {l2} ELSE {})
      /\ wb' = wb_port \cap Upto(c)
      /\ regs' = regs \cap Upto(c)
  BY ExecuteFacts
<1>3. \A i \in Ops : i <= c => i \in Upto(c)
  BY DEF Ops, Upto
<1>4. ASSUME NEW i \in Ops, NEW u \in Parts, i <= c, PartOn(i, u) PROVE PartOn(i, u)'
  BY <1>1, <1>3, <1>4 DEF PartOn, Parts
<1>5. ASSUME NEW i \in Ops, i <= c, i \in Results \cup Packs("alu") PROVE i \in Results'
  BY <1>1, <1>2, <1>3, <1>5 DEF Results
<1> QED BY <1>4, <1>5

\* The execution of the units preserves the third invariant.
LEMMA Execute3 ==
    ASSUME Inv1, Inv2, Inv3, NEW c \in 0..N, NEW stall \in BOOLEAN, Execute(c, stall)
    PROVE  Inv3'
<1>1. /\ Level1Loads' = Packs("lu") \cap Upto(c)
      /\ UNCHANGED <<prog, iq, lq, entered, int_port, lsu_port, busy, hold, rr_stall>>
      /\ phase = "execute" /\ phase' = "readreg" /\ cut' = c /\ ~Past /\ ~Past'
      /\ NewLoads' = NewLoads
  BY ExecuteResults
<1>2. /\ lu'.op = l2 /\ (lu'.stall <=> stall)
      /\ lu'.replay <=> l2_conflict_found \/ stall \/ (Live(c) /\ l2_last_last_stall)
      /\ lu'.following <=> Live(c) /\ (stall \/ l2_last_last_stall)
      /\ exec' = (Packs("alu") \cap Upto(c)) \cup (IF Live(c) /\ ~stall THEN {l2} ELSE {})
  BY ExecuteFacts
<1>3. /\ \A i \in Ops, u \in Parts : i <= c /\ PartOn(i, u) => PartOn(i, u)'
      /\ \A i \in Ops : i <= c /\ i \in Results \cup Packs("alu") => i \in Results'
  BY ExecuteParts
<1>4. /\ \A i : Kind(i)' = Kind(i) /\ Alive(i) /\ (Alive(i)' <=> i <= c)
      /\ \A e : Lpv(e)' = Lpv(e)
  BY <1>1 DEF Kind, Alive, Lpv
<1>5. /\ \A s \in IntSlots : iq[s].valid => iq[s].op \in Ops
      /\ \A s \in LsuSlots : lq[s].valid => lq[s].op \in Ops
  BY DEF Inv1, Types, QueueTypes, SlotType
<1>6. LoadDone'
  BY <1>1, <1>2 DEF LoadDone, Live
<1>7. PartInv'
  BY <1>1, <1>4 DEF Inv3, PartInv
<1>8. LateInv'
  BY <1>1, <1>4 DEF Inv3, LateInv, LateSlot
<1>9. ASSUME NEW e, e.valid => e.op \in Ops, AluIssued(e) PROVE AluIssued(e)'
  <2>1. SUFFICES ASSUME e.valid, e.issued, e.op <= c PROVE AluSent(e)' \/ AluDoomed(e)'
    BY <1>4 DEF AluIssued
  <2>2. AluSent(e) \/ AluDoomed(e)
    BY <1>4, <1>9, <2>1 DEF AluIssued
  <2>3. CASE AluSent(e)
    <3>1. \A x \in Available' : x \in Sure \cup {l2}
      BY SureNext
    <3>2. \A s : Dozes(s) => Dozes(s)'
      BY <1>1, <3>1 DEF Dozes, Sleeping
    <3> QED BY <1>1, <1>4, <2>3, <3>2 DEF AluSent
  <2>4. CASE AluDoomed(e)
    <3>1. Forced(e.op)
      BY <1>1, <2>4 DEF AluDoomed
    <3>2. lu'.replay
      BY <1>9, <2>1, <3>1, ForcedNext
    <3> QED BY <1>1, <1>4, <2>4, <3>2 DEF AluDoomed
  <2> QED BY <2>2, <2>3, <2>4
<1>10. ASSUME NEW e, e.valid => e.op \in Ops, LoadIssued(e) PROVE LoadIssued(e)'
  <2>1. SUFFICES ASSUME e.valid, e.issued, Kind(e.op) = "load", e.op <= c
                 PROVE  e.op \in NewLoads \cup Level1Loads' \cup {l2}
    BY <1>1, <1>2, <1>4 DEF LoadIssued
  <2>2. e.op \in NewLoads \cup Packs("lu") \cup {l2}
    BY <1>1, <1>4, <1>10, <2>1 DEF LoadIssued
  <2>3. e.op \in Upto(c)
    BY <1>10, <2>1 DEF Ops, Upto
  <2> QED BY <1>1, <2>2, <2>3
<1>12. IssuedInv'
  BY <1>1, <1>5, <1>9, <1>10 DEF Inv3, IssuedInv
<1>13. ThereInv'
  <2>1. SUFFICES ASSUME NEW i \in entered, i <= c
                 PROVE  /\ i \in Ops
                        /\ Kind(i) = "alu" => AluThere(i)'
                        /\ Kind(i) = "load" => LoadThere(i)'
    BY <1>1, <1>4 DEF Inv3, ThereInv
  <2>2. /\ i \in Ops
        /\ Kind(i) = "alu" => AluThere(i)
        /\ Kind(i) = "load" => LoadThere(i)
    BY <1>4 DEF Inv3, ThereInv
  <2>3. AluThere(i) => AluThere(i)'
    BY <1>1, <1>3, <2>1, <2>2 DEF AluThere
  <2>4. LoadThere(i) => LoadThere(i)'
    BY <1>1, <1>3, <2>1, <2>2 DEF LoadThere
  <2> QED BY <2>2, <2>3, <2>4
<1>14. OrderInv'
  BY <1>1, <1>4 DEF Inv3, OrderInv
<1> QED BY <1>6, <1>7, <1>8, <1>12, <1>13, <1>14 DEF Inv3


\* The execution of the units and stores.
LEMMA ExecuteStores ==
    ASSUME Inv1, Inv2, Inv3, StoreInv, NEW c \in 0..N, NEW stall \in BOOLEAN, Execute(c, stall)
    PROVE  StoreInv'
<1>1. /\ UNCHANGED <<prog, lq, entered, lsu_port>>
      /\ phase = "execute" /\ phase' = "readreg" /\ cut' = c /\ ~Past /\ ~Past'
  BY ExecuteResults
<1>2. \A i \in Ops, u \in Parts : i <= c /\ PartOn(i, u) => PartOn(i, u)'
  BY ExecuteParts
<1>3. \A i : Kind(i)' = Kind(i) /\ Alive(i) /\ (Alive(i)' <=> i <= c)
  BY <1>1 DEF Kind, Alive
<1>4. \A s \in LsuSlots : lq[s].valid => lq[s].op \in Ops
  BY DEF Inv1, Types, QueueTypes, SlotType
<1>5. ASSUME NEW e, e.valid => e.op \in Ops, StoreSent(e) PROVE StoreSent(e)'
  <2>1. SUFFICES ASSUME e.valid, Kind(e.op) = "store", e.op <= c
                 PROVE  /\ e.parts \subseteq Parts /\ (e.issued => e.parts = Parts)
                        /\ \A u \in e.parts : \/ PartOn(e.op, u)'
                                              \/ \E p \in lsu_port : p.op = e.op /\ p.unit = u
    BY <1>1, <1>3 DEF StoreSent
  <2> QED BY <1>1, <1>2, <1>3, <1>5, <2>1 DEF StoreSent
<1>6. ASSUME NEW i \in entered, i <= c, Kind(i) = "store" PROVE StoreThere(i)'
  <2>1. StoreThere(i) /\ i \in Ops
    BY <1>3, <1>6 DEF StoreInv, Inv3, ThereInv
  <2>2. \A u \in Parts : PartThere(i, u) => PartThere(i, u)'
    BY <1>1, <1>2, <1>6, <2>1 DEF PartThere
  <2> QED BY <1>1, <2>1, <2>2 DEF StoreThere
<1> QED BY <1>1, <1>3, <1>4, <1>5, <1>6 DEF StoreInv

\* readreg hands on or holds the parts of stores that pass, and keeps those it held.
LEMMA ReadregParts ==
    ASSUME Inv1, Inv2, Readreg
    PROVE  /\ \A p \in hold : p.op <= cut => p \in Arrived /\ Passes(p)
           /\ \A p \in lsu_port : p \in Arrived /\ ~busy
           /\ \A p \in Arrived : Passes(p) /\ p.unit \in Parts => PartOn(p.op, p.unit)'
           /\ \A i : \A u \in Parts : i <= cut /\ PartOn(i, u) => PartOn(i, u)'
<1>1. /\ hdff' = hdff \cup {p \in Sent(int_port) : p.ok}
                      \cup (IF lu.stall THEN {} ELSE Sent(Arrived))
      /\ hold' = IF lu.stall THEN {p \in Arrived : Passes(p)} ELSE {}
      /\ addr' = addr /\ data' = data /\ phase = "readreg"
  BY ReadregFacts DEF result_vars
<1>2. (busy => lsu_port = {}) /\ (~busy => hold = {})
  BY <1>1 DEF Inv2, FlightInv, Past
<1>3. ASSUME NEW p \in hold, p.op <= cut PROVE p \in Arrived /\ Passes(p)
  <2>1. 0 \notin p.lpv
    BY DEF Inv1, PacksInv, HoldInv
  <2> QED BY <1>2, <1>3, <2>1 DEF Arrived, Passes, AtLevel2
<1>4. \A p \in lsu_port : p \in Arrived /\ ~busy
  BY <1>2 DEF Arrived
<1>5. ASSUME NEW p \in Arrived, Passes(p), p.unit \in Parts PROVE PartOn(p.op, p.unit)'
  <2>1. CASE lu.stall
    BY <1>1, <1>5, <2>1 DEF PartOn
  <2>2. CASE ~lu.stall
    <3> DEFINE x == [op |-> p.op, unit |-> p.unit, ok |-> Needs(p) \subseteq Available]
    <3>1. x \in hdff'
      BY <1>1, <1>5, <2>2, SentDef
    <3>2. p.op \in Packs(p.unit)'
      BY <3>1, PacksDefNext
    <3> QED BY <3>2 DEF PartOn
  <2> QED BY <2>1, <2>2
<1>6. ASSUME NEW i, NEW u \in Parts, i <= cut, PartOn(i, u) PROVE PartOn(i, u)'
  <2>1. CASE i \in Packs(u)
    <3>1. i \in Packs(u)'
      BY <1>1, <2>1, PacksDef, PacksDefNext
    <3> QED BY <3>1 DEF PartOn
  <2>2. CASE \E p \in hold : p.op = i /\ p.unit = u
    BY <1>3, <1>5, <1>6, <2>2
  <2> QED BY <1>1, <1>6, <2>1, <2>2 DEF PartOn
<1> QED BY <1>3, <1>4, <1>5, <1>6

\* readreg preserves the third invariant.
LEMMA Readreg3 ==
    ASSUME Inv1, Inv2, Inv3, Readreg
    PROVE  Inv3'
<1>1. /\ phase = "readreg" /\ phase' = "output" /\ ~Past /\ Past'
      /\ (busy' <=> lu.stall) /\ (rr_stall' <=> busy)
      /\ UNCHANGED <<prog, cut, iq, lq, entered, int_port, lsu_port, l2, lu, exec>>
      /\ Results' = Results /\ Available' = Available
      /\ \A i : Kind(i)' = Kind(i) /\ (Alive(i)' <=> Alive(i))
      /\ Level0Loads' = Lus({p \in Arrived : Passes(p)})
      /\ Level1Loads' = Level1Loads
      /\ \A e : Lpv(e)' = Lpv(e)
  BY ReadregSame
<1>2. \A i : (Alive(i) <=> i <= cut) /\ (Behind(i)' <=> Behind(i))
  BY <1>1, ReadregLevels DEF Alive
<1>3. /\ \A p \in hold : p.op <= cut => p \in Arrived /\ Passes(p)
      /\ \A p \in lsu_port : p \in Arrived /\ ~busy
      /\ \A p \in Arrived : Passes(p) /\ p.unit \in Parts => PartOn(p.op, p.unit)'
      /\ \A i : \A u \in Parts : i <= cut /\ PartOn(i, u) => PartOn(i, u)'
  BY ReadregParts
<1>4. \A p \in int_port : p.op <= cut =>
                \/ p.op \in Packs("alu")'
                \/ lu.replay /\ 0 \in p.lpv
                \/ 1 \in p.lpv /\ Behind(p.op)
  BY ReadregPacks
<1>5. \A p : p.op <= cut => Passes(p) \/ (lu.replay /\ 0 \in p.lpv)
  BY DEF Passes, AtLevel2
<1>6. LoadDone'
  BY <1>1 DEF Inv3, LoadDone
<1>7. PartInv'
  BY <1>1 DEF Inv3, PartInv
<1>8. LateInv'
  BY <1>1 DEF Inv3, LateInv, LateSlot
<1>9. ASSUME NEW e, AluSlot(e), AluIssued(e) PROVE AluIssued(e)'
  <2>1. SUFFICES ASSUME e.valid, e.issued, e.op <= cut PROVE AluSent(e)' \/ AluDoomed(e)'
    BY <1>1, <1>2 DEF AluIssued
  <2>2. AluSent(e) \/ AluDoomed(e)
    BY <1>2, <1>9, <2>1 DEF AluIssued
  <2>3. CASE AluSent(e)
    <3>1. \A s : Dozes(s) => Dozes(s)'
      BY <1>1 DEF Dozes, Sleeping
    <3>2. PICK p \in int_port : p.op = e.op
      BY <1>1, <2>3 DEF AluSent
    <3>3. p.lpv = Lpv(e)
      BY <1>1, <1>2, <1>9, <2>1, <3>2 DEF AluSlot
    <3>4. \/ e.op \in Packs("alu")'
          \/ 0 \in Lpv(e) /\ lu.replay
          \/ 1 \in Lpv(e) /\ Behind(e.op)
      BY <1>4, <2>1, <3>2, <3>3
    <3> QED BY <1>1, <1>2, <2>3, <3>1, <3>4 DEF AluSent
  <2>4. CASE AluDoomed(e)
    BY <1>1, <2>4 DEF AluDoomed
  <2> QED BY <2>2, <2>3, <2>4
<1>10. ASSUME NEW e, LoadSlot(e), LoadIssued(e) PROVE LoadIssued(e)'
  <2>1. SUFFICES ASSUME e.valid, e.issued, Kind(e.op) = "load", e.op <= cut
                 PROVE  \/ e.op \in Level0Loads' \cup Level1Loads \cup {lu.op}
                        \/ 0 \in Lpv(e) /\ lu.replay
    BY <1>1, <1>2 DEF LoadIssued
  <2>2. e.op \in NewLoads \cup Level1Loads \cup {lu.op}
    BY <1>1, <1>2, <1>10, <2>1 DEF LoadIssued
  <2>3. CASE e.op \in NewLoads
    <3>1. PICK p \in lsu_port \cup hold : p.unit = "lu" /\ p.op = e.op
      BY <2>3, LusDef DEF NewLoads
    <3>2. p \in Arrived /\ Passes(p) => e.op \in Level0Loads'
      BY <1>1, <3>1, LusDef
    <3>3. p \in lsu_port => p.lpv = Lpv(e)
      BY <1>1, <1>2, <1>10, <2>1, <3>1 DEF LoadSlot
    <3> QED BY <1>3, <1>5, <2>1, <3>1, <3>2, <3>3
  <2> QED BY <2>2, <2>3
<1>12. IssuedInv'
  BY <1>1, <1>9, <1>10 DEF Inv3, IssuedInv, Inv2, AluInv, LoadInv
<1>13. ThereInv'
  <2>1. SUFFICES ASSUME NEW i \in entered, i <= cut
                 PROVE  /\ Kind(i) = "alu" => AluThere(i)'
                        /\ Kind(i) = "load" => LoadThere(i)'
    BY <1>1, <1>2 DEF Inv3, ThereInv
  <2>2. /\ Kind(i) = "alu" => AluThere(i)
        /\ Kind(i) = "load" => LoadThere(i)
    BY <1>2, <2>1 DEF Inv3, ThereInv
  <2>3. AluThere(i) => AluThere(i)'
    <3>1. i \in Packs("alu") => i \in Packs("alu")'
      BY ReadregFacts, PacksDef, PacksDefNext
    <3>2. \A p \in int_port : p.op = i /\ p.lpv = {} => i \in Packs("alu")'
      BY <1>4, <2>1
    <3> QED BY <1>1, <3>1, <3>2 DEF AluThere
  <2>4. LoadThere(i) => LoadThere(i)'
    BY <1>1 DEF LoadThere
  <2> QED BY <2>2, <2>3, <2>4
<1>14. OrderInv'
  BY <1>1 DEF Inv3, OrderInv
<1> QED BY <1>6, <1>7, <1>8, <1>12, <1>13, <1>14 DEF Inv3

\* readreg and stores, unless it loses a part of one.
LEMMA ReadregStores ==
    ASSUME Inv1, Inv2, StoreInv, ~PartLost, Readreg
    PROVE  StoreInv'
<1>1. /\ phase = "readreg" /\ phase' = "output" /\ ~Past /\ Past'
      /\ UNCHANGED <<prog, cut, lq, entered, lu>>
      /\ \A i : Kind(i)' = Kind(i) /\ (Alive(i)' <=> Alive(i))
      /\ \A e : Lpv(e)' = Lpv(e)
  BY ReadregSame
<1>2. \A i : Alive(i) <=> i <= cut
  BY <1>1 DEF Alive
<1>3. /\ \A p \in lsu_port : p \in Arrived /\ ~busy
      /\ \A p \in Arrived : Passes(p) /\ p.unit \in Parts => PartOn(p.op, p.unit)'
      /\ \A i : \A u \in Parts : i <= cut /\ PartOn(i, u) => PartOn(i, u)'
  BY ReadregParts
<1>4. \A p : p.op <= cut => Passes(p) \/ (lu.replay /\ 0 \in p.lpv)
  BY DEF Passes, AtLevel2
<1>5. ASSUME NEW s \in LsuSlots, NEW e, e = lq[s], StoreSent(e) PROVE StoreSent(e)'
  <2>1. SUFFICES ASSUME e.valid, Kind(e.op) = "store", e.op <= cut
                 PROVE  /\ e.parts \subseteq Parts /\ (e.issued => e.parts = Parts)
                        /\ \A u \in e.parts : \/ PartOn(e.op, u)'
                                              \/ 0 \in Lpv(e) /\ lu.replay
    BY <1>1, <1>2 DEF StoreSent
  <2>2. /\ e.parts \subseteq Parts /\ (e.issued => e.parts = Parts)
        /\ \A u \in e.parts : \/ PartOn(e.op, u)
                              \/ \E p \in lsu_port : p.op = e.op /\ p.unit = u
    BY <1>1, <1>2, <1>5, <2>1 DEF StoreSent
  <2>3. ASSUME NEW u \in e.parts, NEW p \in lsu_port, p.op = e.op, p.unit = u
        PROVE  PartOn(e.op, u)' \/ (0 \in Lpv(e) /\ lu.replay)
    <3>1. p \in Arrived /\ ~busy /\ u \in Parts
      BY <1>3, <2>2
    <3>2. CASE Passes(p)
      BY <1>3, <2>3, <3>1, <3>2
    <3>3. CASE lu.replay /\ 0 \in p.lpv
      <4>1. p.unit # "lu" /\ p.op <= cut
        BY <2>1, <2>3, <3>1 DEF Parts
      <4> QED BY <1>1, <1>5, <2>1, <2>3, <3>1, <3>3, <4>1 DEF PartLost
    <3> QED BY <1>4, <2>1, <2>3, <3>2, <3>3
  <2> QED BY <1>3, <2>1, <2>2, <2>3
<1>6. ASSUME NEW i \in entered, i <= cut, Kind(i) = "store" PROVE StoreThere(i)'
  <2>1. StoreThere(i)
    BY <1>2, <1>6 DEF StoreInv
  <2>2. ASSUME NEW u \in Parts, PartThere(i, u) PROVE PartThere(i, u)'
    <3>1. ASSUME NEW p \in lsu_port, p.op = i, p.unit = u, p.lpv = {}
          PROVE  PartOn(i, u)'
      <4>1. Passes(p)
        BY <1>4, <1>6, <3>1
      <4> QED BY <1>3, <3>1, <4>1
    <3> QED BY <1>1, <1>3, <1>6, <2>2, <3>1 DEF PartThere
  <2> QED BY <1>1, <2>1, <2>2 DEF StoreThere
<1> QED BY <1>1, <1>2, <1>5, <1>6 DEF StoreInv

\* run_output of the queues preserves the third invariant.
LEMMA Output3 ==
    ASSUME Inv1, Inv2, Inv3, Output
    PROVE  Inv3' /\ (StoreInv => StoreInv')
<1>1. /\ phase = "output" /\ phase' = "wakeup" /\ Past /\ Past'
      /\ UNCHANGED <<prog, cut, iq, lq, entered, busy, hold, rr_stall, hdff, l2, lu, exec>>
      /\ Results' = Results /\ Available' = Available
      /\ \A i : Kind(i)' = Kind(i) /\ (Alive(i)' <=> Alive(i))
      /\ \A u : Packs(u)' = Packs(u)
      /\ Level0Loads' = Level0Loads /\ Level1Loads' = Level1Loads
      /\ \A e : /\ Lpv(e)' = Lpv(e) /\ SentLpv(e)' = SentLpv(e)
                /\ MayIssue(e)' = MayIssue(e)
  BY OutputSame
<1>2. /\ UNCHANGED <<addr, data, l2_last_last_stall>>
  BY DEF Output, result_vars, lu_vars
<1>3. \A i : Behind(i)' <=> Behind(i)
  BY <1>1, <1>2 DEF Behind
<1>4. \A i, u : PartOn(i, u)' <=> PartOn(i, u)
  BY <1>1, <1>2 DEF PartOn
<1>5. LoadDone'
  BY <1>1 DEF Inv3, LoadDone
<1>6. PartInv'
  <2>1. ASSUME NEW p \in lsu_port'
        PROVE  /\ p.unit # "lu" => Kind(p.op) = "store"
               /\ ~lu.stall /\ ~rr_stall
               /\ \E s \in LsuSlots : MayIssue(lq[s]) /\ p.op = lq[s].op /\ p.lpv = SentLpv(lq[s])
    <3>1. Types
      BY DEF Inv1
    <3>2. /\ p.unit \in {"lu", "sau", "sdu"}
          /\ \E s \in LsuCandidates(p.unit) :
                p = [op |-> lq[s].op, unit |-> p.unit, lpv |-> SentLpv(lq[s])]
      BY <3>1, LsuSent
    <3>3. PICK s \in LsuCandidates(p.unit) :
                p = [op |-> lq[s].op, unit |-> p.unit, lpv |-> SentLpv(lq[s])]
      BY <3>2
    <3>4. /\ s \in LsuSlots /\ ~rr_stall /\ ~lu.stall /\ MayIssue(lq[s])
          /\ p.unit # "lu" => Kind(lq[s].op) = "store"
      BY <3>2, <3>3 DEF LsuCandidates
    <3>5. p.op = lq[s].op /\ p.lpv = SentLpv(lq[s])
      BY <3>3
    <3> QED BY <3>4, <3>5
  <2> QED BY <1>1, <2>1 DEF PartInv
<1>7. LateInv'
  BY <1>1 DEF Inv3, LateInv, LateSlot
<1>8. \A e : AluIssued(e) => AluIssued(e)'
  BY <1>1, <1>3 DEF AluIssued, AluSent, AluDoomed, Dozes, Sleeping
<1>9. \A e : LoadIssued(e) => LoadIssued(e)'
  BY <1>1 DEF LoadIssued
<1>10. \A e : StoreSent(e) => StoreSent(e)'
  BY <1>1, <1>4 DEF StoreSent
<1>11. IssuedInv'
  BY <1>1, <1>8, <1>9 DEF Inv3, IssuedInv
<1>12. ThereInv'
  BY <1>1, <1>4 DEF Inv3, ThereInv, AluThere, LoadThere
<1>13. OrderInv'
  BY <1>1 DEF Inv3, OrderInv
<1>14. StoreInv => StoreInv'
  BY <1>1, <1>4, <1>10 DEF StoreInv, StoreThere, PartThere
<1> QED BY <1>5, <1>6, <1>7, <1>11, <1>12, <1>13, <1>14 DEF Inv3


\* What was sent in this cycle came from a slot of the queue of its kind.
LEMMA SentUnits ==
    ASSUME Inv1, Inv2, PartInv, phase = "wakeup"
    PROVE  /\ \A s \in IntSlots : iq[s].valid /\ Units(iq[s]) # {} =>
                \E p \in int_port : p.op = iq[s].op /\ Sender(iq[s], p)
           /\ \A s \in LsuSlots : lq[s].valid => \A u \in Units(lq[s]) :
                /\ \E p \in lsu_port : p.op = lq[s].op /\ p.unit = u /\ p.lpv = SentLpv(lq[s])
                /\ MayIssue(lq[s])
                /\ Kind(lq[s].op) = "load" => u = "lu"
                /\ Kind(lq[s].op) = "store" => u \in Parts
<1>1. /\ \A p \in lsu_port : p.unit # "lu" => Kind(p.op) = "store"
      /\ \A p \in lsu_port : p.unit = "lu" => Kind(p.op) = "load"
      /\ \A p \in int_port : Kind(p.op) = "alu" /\ p.unit = "alu"
      /\ \A p \in lsu_port : p.unit \in {"lu", "sau", "sdu"}
  BY DEF PartInv, Inv1, Types, PackTypes, PackT, Inv2, PlacesInv, KindInv
<1>2. ASSUME NEW s \in IntSlots, iq[s].valid, Units(iq[s]) # {}
      PROVE  \E p \in int_port : p.op = iq[s].op /\ Sender(iq[s], p)
  <2>1. PICK p \in int_port \cup lsu_port : p.op = iq[s].op
    BY <1>2 DEF Units
  <2>2. Kind(p.op) = "alu"
    BY <1>2, <2>1 DEF Inv2, PlacesInv, KindInv
  <2>3. p \in int_port
    BY <1>1, <2>1, <2>2
  <2> QED BY <1>2, <2>1, <2>3, SentInt
<1>3. ASSUME NEW s \in LsuSlots, lq[s].valid, NEW u \in Units(lq[s])
      PROVE  /\ \E p \in lsu_port : p.op = lq[s].op /\ p.unit = u /\ p.lpv = SentLpv(lq[s])
             /\ MayIssue(lq[s])
             /\ Kind(lq[s].op) = "load" => u = "lu"
             /\ Kind(lq[s].op) = "store" => u \in Parts
  <2>1. PICK p \in int_port \cup lsu_port : p.op = lq[s].op /\ p.unit = u
    BY <1>3 DEF Units
  <2>2. Kind(p.op) # "alu"
    BY <1>3, <2>1 DEF Inv2, PlacesInv, KindInv
  <2>3. p \in lsu_port
    BY <1>1, <2>1, <2>2
  <2>4. PICK t \in LsuSlots : MayIssue(lq[t]) /\ p.op = lq[t].op /\ p.lpv = SentLpv(lq[t])
    BY <2>3 DEF PartInv
  <2>5. t = s
    BY <1>3, <2>1, <2>4 DEF Inv2, PlacesInv, Single, MayIssue
  <2> QED BY <1>1, <2>1, <2>3, <2>4, <2>5 DEF Parts
<1> QED BY <1>2, <1>3

\* An operand with bit 1 that is ready or asleep, over a wakeup: nobody wakes it.
LEMMA DozeNext ==
    ASSUME Inv1, Inv2, PartInv, phase = "wakeup", NEW x \in SourceT, IntSource(x), Dozes(x),
           NEW b \in BOOLEAN, b
    PROVE  /\ lu.stall /\ 1 \in x.lpv => ~Woken(x, b).ready
           /\ ~(lu.replay /\ 0 \in x.lpv) =>
                 Woken(x, b).lpv = IF lu.stall THEN x.lpv ELSE Shift(x.lpv)
<1>1. ASSUME 1 \in x.lpv PROVE x.reg \notin exec /\ \A p \in int_port : p.op # x.reg
  <2>1. (x.ready /\ Late(x)) \/ (~x.ready /\ Sleeping(x))
    BY <1>1 DEF IntSource, Dozes
  <2>2. x.reg \notin exec
    BY <2>1 DEF Late, Sleeping, Available, Past
  <2>3. ASSUME NEW p \in int_port, p.op = x.reg PROVE FALSE
    <3>1. AluPack(p)
      BY DEF Inv2, AluInv
    <3>2. PICK t \in IntSlots : Sender(iq[t], p)
      BY <3>1 DEF AluPack
    <3>3. /\ iq[t].valid /\ ~iq[t].issued /\ iq[t].op = x.reg
          /\ iq[t].src1.ready /\ iq[t].src2.ready
      BY <2>3, <3>2 DEF Sender, MayIssue
    <3> QED BY <2>1, <3>3 DEF Late, Sleeping
  <2> QED BY <2>2, <2>3
<1>2. ASSUME lu.stall, 1 \in x.lpv PROVE ~Woken(x, b).ready
  <2>1. Asleep(x)
    BY <1>2 DEF Asleep, Before2
  <2>2. Woken(x, b).ready =>
          \/ ~(b /\ Asleep(x))
          \/ \E p \in int_port : p.op = x.reg
          \/ x.reg \in exec
    BY WokenCases DEF Inv1, Types
  <2> QED BY <1>1, <1>2, <2>1, <2>2
<1>3. ASSUME ~(lu.replay /\ 0 \in x.lpv)
      PROVE  Woken(x, b).lpv = IF lu.stall THEN x.lpv ELSE Shift(x.lpv)
  <2>1. CASE x.ready
    BY <1>3, <2>1, SentSource
  <2>2. CASE ~x.ready
    <3>1. 1 \in x.lpv /\ Sleeping(x)
      BY <2>2 DEF Dozes
    <3>2. lu.stall \/ rr_stall
      BY <3>1 DEF Sleeping, Past
    <3>3. lsu_port = {}
      BY <3>2 DEF PartInv
    <3>4. Woken(x, b).lpv = ShiftedLpv(x.lpv)
      BY <1>1, <3>1, <3>3, WokenLpv
    <3> QED BY <1>3, <3>4, ShiftedCases DEF SourceT
  <2> QED BY <2>1, <2>2
<1> QED BY <1>2, <1>3

\* A wakeup and the packs of the load/store queue.
LEMMA IssueParts ==
    ASSUME Inv1, Inv2, Inv3, NEW ints, NEW lsus \in NextOne({"load", "store"}), Issue(ints, lsus)
    PROVE  PartInv'
<1>1. /\ phase = "wakeup" /\ phase' = "execute" /\ Past /\ ~Past'
      /\ UNCHANGED <<prog, int_port, lsu_port, busy, hold, hdff, l2>>
      /\ \A i : Kind(i)' = Kind(i)
  BY IssueSame
<1>2. ASSUME NEW p \in lsu_port, p.lpv # {}
      PROVE  \E s \in LsuSlots : lq'[s].valid /\ lq'[s].op = p.op
  <2>1. PICK s \in LsuSlots : MayIssue(lq[s]) /\ p.op = lq[s].op /\ p.lpv = SentLpv(lq[s])
    BY <1>1 DEF Inv3, PartInv
  <2>2. lq[s].valid /\ lq[s].op <= cut /\ ~LsuLeaves(lq[s])
    BY <1>2, <2>1 DEF MayIssue, LsuLeaves
  <2>3. lq'[s].valid /\ lq'[s].op = lq[s].op
    BY <2>2, LsuQueueStays DEF Inv1
  <2> QED BY <2>1, <2>3
<1> QED BY <1>1, <1>2 DEF Inv3, PartInv

\* An operand of the integer queue that is ready with bit 1 after a wakeup was woken by a
\* pack that is late itself, or waits for a load.
LEMMA WokenLateCases ==
    ASSUME Inv1, Inv2, phase = "wakeup",
           NEW i \in Ops, i <= cut, NEW s \in SourceT, SourceInv(i, s, FALSE),
           IntSource(s), Behind2(s),
           NEW w, 1 \in w.lpv,
           \/ /\ s.ready \/ s.shift = 1
              /\ ~Cancelled(s) /\ ~Asleep(s)
              /\ w.lpv = ShiftedLpv(s.lpv)
           \/ \E p \in int_port : p.op = s.reg /\ w.lpv = p.lpv
           \/ s.reg \in exec /\ w.lpv = {}
    PROVE  \/ Kind(s.reg) = "load"
           \/ \E p \in int_port : p.op = s.reg /\ 1 \in p.lpv
<1>1. CASE /\ s.ready \/ s.shift = 1
           /\ ~Cancelled(s) /\ ~Asleep(s)
           /\ w.lpv = ShiftedLpv(s.lpv)
  <2>0. s.lpv \in SUBSET Bits /\ phase # "execute" /\ Past
    BY DEF SourceT, Past
  <2>1. CASE lu.stall
    <3>1. w.lpv = s.lpv /\ s.lpv \subseteq {0}
      BY <1>1, <2>1 DEF ShiftedLpv, Asleep, Before2
    <3> QED BY <3>1
  <2>2. CASE ~lu.stall /\ lu.replay /\ 0 \in s.lpv
    <3>1. lu.following /\ s.reg = lu.op /\ w.lpv = s.lpv
      BY <1>1, <2>2 DEF Cancelled, AtLevel2, ShiftedLpv
    <3>2. s.ready
      BY <1>1, <2>0, <3>1 DEF Behind2
    <3> QED BY <2>0, <3>1, <3>2 DEF IntSource, Late
  <2>3. CASE ~lu.stall /\ ~(lu.replay /\ 0 \in s.lpv)
    <3>1. 2 \in s.lpv
      BY <1>1, <2>0, <2>3, ShiftedCases, ShiftBits
    <3>2. ~s.ready /\ s.shift = 1
      BY <1>1, <3>1 DEF IntSource
    <3>3. Coming2(s)
      BY <2>0, <3>2 DEF SourceInv
    <3>4. s.reg \in Packs("lu")
      BY <2>3, <3>3 DEF Coming2, Level0Loads
    <3> QED BY <3>4, KindsDiffer DEF Inv2, PlacesInv
  <2> QED BY <2>1, <2>2, <2>3
<1> QED BY <1>1

\* The same of a woken operand.
LEMMA WokenLate ==
    ASSUME Inv1, Inv2, phase = "wakeup",
           NEW i \in Ops, i <= cut, NEW s \in SourceT, SourceInv(i, s, FALSE),
           IntSource(s), Behind2(s),
           NEW b \in BOOLEAN, b, NEW w, w = Woken(s, b), w.ready, 1 \in w.lpv
    PROVE  /\ w.reg = s.reg
           /\ \/ Kind(s.reg) = "load"
              \/ \E p \in int_port : p.op = s.reg /\ 1 \in p.lpv
<1>1. /\ w.reg = s.reg
      /\ \/ /\ s.ready \/ s.shift = 1
            /\ ~Cancelled(s) /\ ~Asleep(s)
            /\ w.lpv = ShiftedLpv(s.lpv)
         \/ \E p \in int_port : p.op = s.reg /\ w.lpv = p.lpv
         \/ s.reg \in exec /\ w.lpv = {}
  BY WokenCases DEF Inv1, Types
<1> QED BY <1>1, WokenLateCases

\* A wakeup and the operands that are late.
LEMMA IssueLate ==
    ASSUME Inv1, Inv2, Inv3, NEW ints \in NextOne({"alu"}), NEW lsus \in NextOne({"load", "store"}),
           Issue(ints, lsus)
    PROVE  LateInv'
<1>1. /\ phase = "wakeup" /\ phase' = "execute" /\ Past /\ ~Past'
      /\ UNCHANGED <<prog, int_port, lsu_port, busy, hold, hdff, l2>>
      /\ \A i : Kind(i)' = Kind(i) /\ Alive(i)' /\ (Alive(i) <=> i <= cut)
      /\ \A e : Lpv(e)' = Lpv(e)
  BY IssueSame
<1>2. AluInv' /\ KindInv'
  BY IssueAlu, IssuePlaces DEF PlacesInv
<1>3. ASSUME NEW r, Kind(r) = "load" \/ \E p \in int_port : p.op = r /\ 1 \in p.lpv,
             NEW t \in IntSlots, iq'[t].valid, iq'[t].op = r
      PROVE  1 \in Lpv(iq'[t])
  <2>1. PICK f : f = iq'[t]
    OBVIOUS
  <2>2. Kind(r) = "alu"
    BY <1>1, <1>2, <1>3 DEF KindInv
  <2>3. AluSlot(f)'
    BY <1>2, <2>1 DEF AluInv
  <2>4. \A p \in int_port : p.op = f.op => p.lpv = Lpv(f)
    BY <1>1, <1>3, <2>1, <2>3 DEF AluSlot
  <2> QED BY <1>3, <2>1, <2>2, <2>4
<1>4. ASSUME NEW s \in IntSlots, NEW e, e = iq[s], NEW f, f = iq'[s], IntKept(e, f)
      PROVE  LateSlot(f.src1)' /\ LateSlot(f.src2)'
  <2>1. e.valid /\ e.op <= cut /\ e.op \in Ops /\ e.src1 \in SourceT /\ e.src2 \in SourceT
    BY <1>4 DEF IntKept, Inv1, Types, QueueTypes, SlotType
  <2>2. SourceInv(e.op, e.src1, FALSE) /\ SourceInv(e.op, e.src2, FALSE)
    BY <1>4, <2>1 DEF Inv1, SlotsInv, SlotInv
  <2>3. /\ IntSource(e.src1) /\ IntSource(e.src2)
        /\ Behind2(e.src1) /\ Behind2(e.src2)
    BY <1>1, <1>4, <2>1 DEF Inv2, SourcesInv
  <2>4. ASSUME NEW b \in BOOLEAN, b, NEW x \in {e.src1, e.src2}, NEW w, w = Woken(x, b)
        PROVE  LateSlot(w)'
    <3>1. ASSUME w.ready, 1 \in w.lpv
          PROVE  /\ w.reg = x.reg
                 /\ \/ Kind(x.reg) = "load"
                    \/ \E p \in int_port : p.op = x.reg /\ 1 \in p.lpv
      BY <1>1, <2>1, <2>2, <2>3, <2>4, <3>1, WokenLate
    <3>2. ASSUME w.ready, 1 \in w.lpv, NEW t \in IntSlots, iq'[t].valid, iq'[t].op = w.reg
          PROVE  1 \in Lpv(iq'[t])
      BY <1>3, <3>1, <3>2
    <3> HIDE <2>4
    <3> QED BY <3>2 DEF LateSlot, Lpv
  <2>5. f.src1 = Woken(e.src1, TRUE) /\ f.src2 = Woken(e.src2, TRUE)
    BY <1>4 DEF IntKept
  <2> QED BY <2>4, <2>5
<1>5. ASSUME NEW s \in IntSlots, NEW f, f = iq'[s], Fresh(f, {"alu"})
      PROVE  LateSlot(f.src1)' /\ LateSlot(f.src2)'
  <2>1. f.src1.lpv = {} /\ f.src2.lpv = {}
    BY <1>5 DEF Fresh, Source
  <2> QED BY <2>1 DEF LateSlot
<1>6. ASSUME NEW s \in IntSlots, iq'[s].valid
      PROVE  LateSlot(iq[s].src1)' /\ LateSlot(iq[s].src2)'
  <2>1. IntKept(iq[s], iq'[s]) \/ Fresh(iq'[s], {"alu"})
    BY <1>6, IntQueueNext DEF Inv1
  <2>2. PICK e, f : e = iq[s] /\ f = iq'[s]
    OBVIOUS
  <2>3. LateSlot(f.src1)' /\ LateSlot(f.src2)'
    BY <1>4, <1>5, <2>1, <2>2
  <2> QED BY <2>2, <2>3
<1> QED BY <1>6 DEF LateInv


\* An issued slot of the integer queue that a wakeup puts to sleep: its operand with bit 1 is
\* not ready, and the slot is issued or waits for it.
LEMMA IssueSleeping ==
    ASSUME Inv1, Inv2, Inv3, NEW ints \in NextOne({"alu"}), NEW lsus \in NextOne({"load", "store"}),
           Issue(ints, lsus), lu.stall,
           NEW e, e.op \in entered, Kind(e.op) = "alu", NEW x, x.reg < e.op,
           1 \in x.lpv, Late(x), LateSlot(x), x.ready, NEW w, w.reg = x.reg
    PROVE  Sleeping(w)'
<1>1. /\ phase = "wakeup" /\ phase' = "execute" /\ Past /\ ~Past'
      /\ UNCHANGED <<prog, int_port, lsu_port, busy, hold, hdff, l2>>
      /\ Sure' = Available \cup Packs("alu")
      /\ \A i : Alive(i) <=> i <= cut
  BY IssueSame
<1>2. busy /\ lu.op = l2
  BY <1>1 DEF Inv1, Links
<1>3. w.reg \notin Sure' \cup {l2}
  BY <1>1, <1>2 DEF Late
<1>4. ASSUME NEW t \in IntSlots, iq'[t].valid, iq'[t].op = x.reg, ~iq'[t].issued
      PROVE  ~iq'[t].src1.ready \/ ~iq'[t].src2.ready
  <2>1. PICK g, f : g = iq[t] /\ f = iq'[t]
    OBVIOUS
  <2>2. ~Fresh(f, {"alu"})
    <3>1. SUFFICES ASSUME Fresh(f, {"alu"}) PROVE FALSE
      OBVIOUS
    <3>2. f.op \in Waiting({"alu"}) /\ cut \in 0..N /\ N \in Nat
      BY <3>1, ConstAssumption DEF Fresh, Inv1, Types, FlagTypes
    <3>3. x.reg \in Ops /\ Kind(x.reg) = "alu" /\ x.reg \notin entered
      BY <1>4, <2>1, <3>2 DEF Waiting, Upto, Ops
    <3> QED BY <3>3 DEF Inv3, OrderInv
  <2>3. IntKept(g, f)
    BY <1>4, <2>1, <2>2, IntQueueNext DEF Inv1
  <2>4. g.valid /\ g.op <= cut /\ g.op = x.reg /\ Alive(g.op)
    BY <1>1, <1>4, <2>1, <2>3 DEF IntKept
  <2>5. g.issued /\ 1 \in Lpv(g)
    BY <2>1, <2>4 DEF Late, LateSlot
  <2>6. AluIssued(g)
    BY <2>1 DEF Inv3, IssuedInv
  <2>7. AluSent(g)
    BY <2>4, <2>5, <2>6 DEF AluIssued, AluDoomed
  <2>8. /\ Dozes(g.src1) /\ Dozes(g.src2)
        /\ IntSource(g.src1) /\ IntSource(g.src2)
        /\ g.src1 \in SourceT /\ g.src2 \in SourceT
    BY <2>1, <2>4, <2>7 DEF AluSent, Inv2, SourcesInv, Inv1, Types, QueueTypes, SlotType
  <2>9. ASSUME NEW b \in BOOLEAN, b, f.src1 = Woken(g.src1, b), f.src2 = Woken(g.src2, b)
        PROVE  ~f.src1.ready \/ ~f.src2.ready
    <3>1. PartInv
      BY DEF Inv3
    <3>2. CASE 1 \in g.src1.lpv
      <4>1. ~Woken(g.src1, b).ready
        BY <1>1, <2>8, <2>9, <3>1, <3>2, DozeNext
      <4> QED BY <2>9, <4>1
    <3>3. CASE 1 \in g.src2.lpv
      <4>1. ~Woken(g.src2, b).ready
        BY <1>1, <2>8, <2>9, <3>1, <3>3, DozeNext
      <4> QED BY <2>9, <4>1
    <3> QED BY <2>5, <3>2, <3>3 DEF Lpv
  <2>10. f.src1 = Woken(g.src1, TRUE) /\ f.src2 = Woken(g.src2, TRUE)
    BY <2>3 DEF IntKept
  <2>11. ~f.src1.ready \/ ~f.src2.ready
    BY <2>9, <2>10
  <2> QED BY <2>1, <2>11
<1> QED BY <1>1, <1>2, <1>3, <1>4 DEF Sleeping

\* A wakeup and a slot that has sent in this cycle.
LEMMA IssueAluSent ==
    ASSUME Inv1, Inv2, Inv3, NEW ints \in NextOne({"alu"}), NEW lsus \in NextOne({"load", "store"}),
           Issue(ints, lsus),
           NEW s \in IntSlots, NEW e, e = iq[s], NEW f, f = iq'[s], f.valid, IntKept(e, f),
           NEW p \in int_port, p.op = e.op
    PROVE  AluSent(f)'
<1>1. /\ phase = "wakeup" /\ phase' = "execute" /\ Past /\ ~Past'
      /\ UNCHANGED <<prog, int_port, lsu_port, busy, hold, hdff, l2>>
      /\ \A i : Alive(i) <=> i <= cut
      /\ \A g : Lpv(g)' = Lpv(g)
      /\ \A i : Alive(i)'
  BY IssueSame
<1>2. e.valid /\ e.op <= cut /\ f.op = e.op /\ SlotType(e) /\ e.op \in Ops
  BY DEF IntKept, Inv1, Types, QueueTypes, SlotType
<1>3. Sender(e, p) /\ p.lpv \subseteq {0, 1}
  BY <1>1, <1>2, SentInt
<1>4. e.src1.ready /\ e.src2.ready /\ ~(lu.replay /\ 0 \in Lpv(e))
  BY <1>3 DEF Sender, MayIssue, AtLevel2
<1>5. p.lpv = Lpv(f)
  <2>1. AluSlot(f)'
    BY IssueAlu DEF AluInv
  <2> QED BY <1>1, <1>2, <2>1 DEF AluSlot
<1>6. /\ IntSource(e.src1) /\ IntSource(e.src2) /\ LateSlot(e.src1) /\ LateSlot(e.src2)
      /\ e.op \in entered /\ Kind(e.op) = "alu"
  BY <1>1, <1>2 DEF Inv2, SourcesInv, Inv3, LateInv, PlacesInv, KindInv, EnteredInv
<1>7. /\ e.src1 \in SourceT /\ e.src2 \in SourceT
      /\ e.src1.reg < e.op /\ e.src2.reg < e.op
  <2>1. FlagTypes
    BY DEF Inv1, Types
  <2> QED BY <1>2, <2>1, SourcesOlder DEF SlotType
<1>8. ASSUME NEW b \in BOOLEAN, b, NEW x \in {e.src1, e.src2}, NEW w, w = Woken(x, b)
      PROVE  Dozes(w)'
  <2>1. /\ x \in SourceT /\ x.ready /\ ~(lu.replay /\ 0 \in x.lpv) /\ x.reg < e.op
        /\ IntSource(x) /\ LateSlot(x)
    BY <1>4, <1>6, <1>7 DEF Lpv
  <2>2. ~Cancelled(x)
    BY <2>1 DEF Cancelled, AtLevel2
  <2>3. w.reg = x.reg /\ (~(b /\ Asleep(x)) => w.ready)
    BY <1>8, <2>1, <2>2, WokenCases DEF Inv1, Types
  <2>4. CASE ~Asleep(x)
    <3> HIDE <1>8
    <3> QED BY <2>3, <2>4 DEF Dozes
  <2>5. CASE Asleep(x)
    <3>1. lu.stall /\ 1 \in x.lpv /\ Late(x)
      BY <2>1, <2>5 DEF Asleep, Before2, SourceT, Bits, IntSource
    <3>2. w.lpv = x.lpv
      BY <1>1, <1>8, <2>1, <3>1, SentSource
    <3> HIDE <1>8
    <3>3. Sleeping(w)'
      BY <1>6, <2>1, <2>3, <3>1, IssueSleeping
    <3> QED BY <3>1, <3>2, <3>3 DEF Dozes
  <2> QED BY <2>4, <2>5
<1>9. f.src1 = Woken(e.src1, TRUE) /\ f.src2 = Woken(e.src2, TRUE)
  BY DEF IntKept
<1>10. Dozes(f.src1)' /\ Dozes(f.src2)'
  BY <1>8, <1>9
<1> QED BY <1>1, <1>2, <1>3, <1>5, <1>10 DEF AluSent

\* A wakeup and a slot that has sent in an earlier cycle and does not go back.
LEMMA IssueAluDoomed ==
    ASSUME Inv1, Inv2, Inv3, NEW ints, NEW lsus, Issue(ints, lsus),
           NEW s \in IntSlots, NEW e, e = iq[s], NEW f, IntKept(e, f), e.issued, ~IntBack(e)
    PROVE  AluDoomed(f)'
<1>1. /\ phase = "wakeup" /\ phase' = "execute" /\ Past /\ ~Past'
      /\ \A i : Alive(i) <=> i <= cut
      /\ \A g : Lpv(g)' = Lpv(g)
  BY IssueSame
<1>2. e.valid /\ e.op <= cut /\ f.op = e.op /\ SlotType(e) /\ e.op \in Ops /\ ~Safe(Lpv(e))
  BY DEF IntKept, Inv1, Types, QueueTypes, SlotType
<1>3. ~(lu.replay /\ 0 \in Lpv(e)) /\ (lu.stall => Lpv(e) \ {0} = {})
  BY DEF IntBack, AtLevel2, Before2
<1>4. AluIssued(e) /\ AluSlot(e) /\ PartInv
  BY DEF Inv3, IssuedInv, Inv2, AluInv
<1>5. AluSent(e) /\ e.op \notin Packs("alu")
  BY <1>1, <1>2, <1>3, <1>4 DEF AluIssued, AluDoomed, AluSlot
<1>6. 1 \in Lpv(e) /\ Behind(e.op) /\ Lpv(e) \subseteq {0, 1}
  BY <1>1, <1>3, <1>5 DEF AluSent
<1>7. ~lu.stall
  BY <1>3, <1>6
<1>8. Forced(e.op)'
  <2>1. Forced(e.op)
    BY <1>6, <1>7 DEF Behind, Level1Loads, Forced
  <2> QED BY <2>1, IssueFacts
<1>9. /\ Dozes(e.src1) /\ Dozes(e.src2)
      /\ IntSource(e.src1) /\ IntSource(e.src2)
      /\ e.src1 \in SourceT /\ e.src2 \in SourceT
      /\ ~(lu.replay /\ 0 \in e.src1.lpv) /\ ~(lu.replay /\ 0 \in e.src2.lpv)
  BY <1>1, <1>2, <1>3, <1>5 DEF AluSent, Inv2, SourcesInv, SlotType, Lpv
<1>10. ASSUME NEW b \in BOOLEAN, b, f.src1 = Woken(e.src1, b), f.src2 = Woken(e.src2, b)
       PROVE  f.src1.lpv = Shift(e.src1.lpv) /\ f.src2.lpv = Shift(e.src2.lpv)
  BY <1>1, <1>4, <1>7, <1>9, <1>10, DozeNext
<1>11. f.src1 = Woken(e.src1, TRUE) /\ f.src2 = Woken(e.src2, TRUE)
  BY DEF IntKept
<1>12. f.src1.lpv = Shift(e.src1.lpv) /\ f.src2.lpv = Shift(e.src2.lpv)
  BY <1>10, <1>11
<1>13. Lpv(f) = {0}
  <2>1. \A l \in SUBSET {0, 1} : Shift(l) = IF 1 \in l THEN {0} ELSE {}
    BY DEF Shift
  <2>2. e.src1.lpv \in SUBSET {0, 1} /\ e.src2.lpv \in SUBSET {0, 1}
    BY <1>6 DEF Lpv
  <2> QED BY <1>6, <1>12, <2>1, <2>2 DEF Lpv
<1> QED BY <1>1, <1>2, <1>8, <1>13 DEF AluDoomed

\* A wakeup and the issued slots of the integer queue.
LEMMA IssueAluIssued ==
    ASSUME Inv1, Inv2, Inv3, NEW ints \in NextOne({"alu"}), NEW lsus \in NextOne({"load", "store"}),
           Issue(ints, lsus), NEW s \in IntSlots
    PROVE  AluIssued(iq[s])'
<1>1. PICK e, f : e = iq[s] /\ f = iq'[s]
  OBVIOUS
<1>2. f.valid => IntKept(e, f) \/ Fresh(f, {"alu"})
  BY <1>1, IntQueueNext DEF Inv1
<1>3. ASSUME f.valid, f.issued PROVE AluSent(f)' \/ AluDoomed(f)'
  <2>1. IntKept(e, f)
    BY <1>2, <1>3 DEF Fresh
  <2>2. CASE Units(e) # {}
    <3>1. e.valid /\ phase = "wakeup" /\ PartInv
      BY <2>1 DEF IntKept, Issue, Inv3
    <3>2. PICK p \in int_port : p.op = e.op
      BY <1>1, <2>2, <3>1, SentUnits
    <3> QED BY <1>1, <1>3, <2>1, <3>2, IssueAluSent
  <2>3. CASE Units(e) = {}
    <3>1. e.issued /\ ~IntBack(e)
      BY <1>3, <2>1, <2>3 DEF IntKept
    <3> QED BY <1>1, <2>1, <3>1, IssueAluDoomed
  <2> QED BY <2>2, <2>3
<1>4. AluIssued(f)'
  BY <1>3 DEF AluIssued
<1> QED BY <1>1, <1>4

\* A wakeup and the issued loads.
LEMMA IssueLoadIssued ==
    ASSUME Inv1, Inv2, Inv3, NEW ints, NEW lsus \in NextOne({"load", "store"}), Issue(ints, lsus),
           NEW s \in LsuSlots
    PROVE  LoadIssued(lq[s])'
<1>1. /\ phase = "wakeup" /\ phase' = "execute" /\ Past /\ ~Past'
      /\ UNCHANGED <<prog, int_port, lsu_port, busy, hold, hdff, l2>>
      /\ \A i : Kind(i)' = Kind(i) /\ (Alive(i) <=> i <= cut)
      /\ \A u : Packs(u)' = Packs(u)
      /\ NewLoads' = NewLoads
  BY IssueSame
<1>2. PICK e, f : e = lq[s] /\ f = lq'[s]
  OBVIOUS
<1>3. f.valid => LsuKept(e, f) \/ Fresh(f, {"load", "store"})
  BY <1>2, LsuQueueNext DEF Inv1
<1>4. ASSUME f.valid, f.issued, Kind(f.op) = "load" PROVE f.op \in NewLoads \cup Packs("lu") \cup {l2}
  <2>1. LsuKept(e, f)
    BY <1>3, <1>4 DEF Fresh
  <2>2. e.valid /\ e.op <= cut /\ f.op = e.op
    BY <2>1 DEF LsuKept
  <2>3. CASE LastUop(e)
    <3>1. PICK u : u \in Units(e)
      BY <2>3 DEF LastUop
    <3>2. PICK p \in lsu_port : p.op = e.op /\ p.unit = "lu"
      BY <1>1, <1>2, <1>4, <2>2, <3>1, SentUnits DEF Inv3
    <3> QED BY <2>2, <3>2, LusDef DEF NewLoads
  <2>4. CASE ~LastUop(e)
    <3>1. e.issued /\ ~LsuBack(e) /\ ~Safe(Lpv(e) \cup e.cur_lpv)
      BY <1>4, <2>1, <2>4 DEF LsuKept
    <3>2. LoadIssued(e) /\ LoadSlot(e)
      BY <1>2 DEF Inv3, IssuedInv, Inv2, LoadInv
    <3>3. e.op \in Level0Loads \cup Level1Loads \cup {lu.op}
      BY <1>1, <1>4, <2>2, <3>1, <3>2 DEF LoadIssued, LsuBack, AtLevel2
    <3>4. CASE e.op \in Level0Loads
      <4>1. e.op \in Lus(hold) \cup Packs("lu")
        BY <3>4 DEF Level0Loads
      <4>2. Lus(hold) \subseteq NewLoads
        BY LusDef DEF NewLoads
      <4> QED BY <2>2, <4>1, <4>2
    <3>5. CASE e.op \in Level1Loads
      BY <2>2, <3>5 DEF Level1Loads
    <3>6. CASE e.op = lu.op
      <4>1. CASE lu.stall
        BY <1>1, <2>2, <3>6, <4>1 DEF Inv1, Links
      <4>2. CASE ~lu.stall
        <5>1. e.cur_lpv = {0} /\ Lpv(e) = {}
          BY <1>1, <1>4, <2>2, <3>2, <3>6 DEF LoadSlot, Up
        <5> QED BY <3>1, <4>2, <5>1 DEF Safe
      <4> QED BY <4>1, <4>2
    <3> QED BY <3>3, <3>4, <3>5, <3>6
  <2> QED BY <2>3, <2>4
<1>5. LoadIssued(f)'
  BY <1>1, <1>4 DEF LoadIssued
<1> QED BY <1>2, <1>5


\* A wakeup and the parts of stores.
LEMMA IssueStoreSent ==
    ASSUME Inv1, Inv2, Inv3, StoreInv, NEW ints, NEW lsus \in NextOne({"load", "store"}), Issue(ints, lsus),
           NEW s \in LsuSlots
    PROVE  StoreSent(lq[s])'
<1>1. /\ phase = "wakeup" /\ phase' = "execute" /\ Past /\ ~Past'
      /\ UNCHANGED <<prog, int_port, lsu_port, busy, hold, hdff, l2>>
      /\ \A i : Kind(i)' = Kind(i) /\ (Alive(i) <=> i <= cut)
      /\ \A u : Packs(u)' = Packs(u)
  BY IssueSame
<1>2. \A i, u : PartOn(i, u)' <=> PartOn(i, u)
  <2>1. UNCHANGED <<addr, data>>
    BY DEF Issue
  <2> QED BY <1>1, <2>1 DEF PartOn
<1>3. PICK e, f : e = lq[s] /\ f = lq'[s]
  OBVIOUS
<1>4. f.valid => \/ LsuKept(e, f) /\ f.parts = PartsNext(e)
                 \/ Fresh(f, {"load", "store"}) /\ f.parts = {}
  BY <1>3, LsuQueueStays DEF Inv1
<1>5. ASSUME f.valid, Kind(f.op) = "store"
      PROVE  /\ f.parts \subseteq Parts /\ (f.issued => f.parts = Parts)
             /\ \A u \in f.parts : \/ PartOn(f.op, u)
                                   \/ \E p \in lsu_port : p.op = f.op /\ p.unit = u
  <2>1. CASE Fresh(f, {"load", "store"}) /\ f.parts = {}
    BY <2>1 DEF Fresh
  <2>2. CASE LsuKept(e, f) /\ f.parts = PartsNext(e)
    <3>1. /\ e.valid /\ e.op <= cut /\ f.op = e.op
          /\ f.issued <=> LastUop(e) \/ (e.issued /\ ~LsuBack(e))
      BY <2>2 DEF LsuKept
    <3>2. \A u \in Units(e) :
             /\ \E p \in lsu_port : p.op = e.op /\ p.unit = u
             /\ MayIssue(e) /\ u \in Parts
      BY <1>1, <1>3, <1>5, <3>1, SentUnits DEF Inv3
    <3>3. StoreSent(e)
      BY <1>3 DEF StoreInv
    <3>4. /\ e.parts \subseteq Parts /\ (e.issued => e.parts = Parts)
          /\ \A u \in e.parts : PartOn(e.op, u) \/ (0 \in Lpv(e) /\ lu.replay)
      BY <1>1, <1>5, <3>1, <3>3 DEF StoreSent
    <3>5. CASE lu.replay /\ 0 \in Lpv(e)
      <4>1. f.parts = {} /\ LsuBack(e)
        BY <2>2, <3>5 DEF PartsNext, LsuBack, AtLevel2
      <4>2. Units(e) = {}
        BY <3>2, <3>5 DEF MayIssue, AtLevel2
      <4>3. ~f.issued
        BY <3>1, <4>1, <4>2 DEF LastUop
      <4> QED BY <4>1, <4>3
    <3>6. CASE ~(lu.replay /\ 0 \in Lpv(e))
      <4>1. f.parts = e.parts \cup Units(e)
        <5>1. "lu" \notin Units(e)
          BY <3>2 DEF Parts
        <5> QED BY <2>2, <3>6, <5>1 DEF PartsNext, AtLevel2
      <4>2. f.parts \subseteq Parts
        BY <3>2, <3>4, <4>1
      <4>3. f.issued => f.parts = Parts
        BY <1>5, <3>1, <3>4, <4>1, <4>2 DEF LastUop, Parts
      <4>4. \A u \in f.parts : \/ PartOn(f.op, u)
                               \/ \E p \in lsu_port : p.op = f.op /\ p.unit = u
        BY <3>1, <3>2, <3>4, <3>6, <4>1
      <4> QED BY <4>2, <4>3, <4>4
    <3> QED BY <3>5, <3>6
  <2> QED BY <1>4, <1>5, <2>1, <2>2
<1>6. StoreSent(f)'
  BY <1>1, <1>2, <1>5 DEF StoreSent
<1> QED BY <1>3, <1>6

\* A wakeup gives up no slot whose instruction is not on its way.
LEMMA IssueThere ==
    ASSUME Inv1, Inv2, Inv3, NEW ints \in NextOne({"alu"}), NEW lsus \in NextOne({"load", "store"}),
           Issue(ints, lsus)
    PROVE  ThereInv'
<1>1. /\ phase = "wakeup" /\ phase' = "execute" /\ Past /\ ~Past'
      /\ UNCHANGED <<prog, int_port, lsu_port, busy, hold, hdff, l2>>
      /\ Results' = Results
      /\ entered' = (entered \cap Upto(cut)) \cup ints \cup lsus
      /\ \A i : Kind(i)' = Kind(i) /\ (Alive(i) <=> i <= cut)
      /\ \A u : Packs(u)' = Packs(u)
  BY IssueSame
<1>3. Types /\ PartInv /\ LoadDone
  BY DEF Inv1, Inv3
<1>4. /\ \A s \in IntSlots :
           iq[s].valid /\ iq[s].op <= cut /\ ~IntLeaves(iq[s]) =>
              iq'[s].valid /\ iq'[s].op = iq[s].op
      /\ \A i \in ints : \E s \in IntSlots : iq'[s].valid /\ iq'[s].op = i
  BY <1>3, IntQueueStays
<1>5. /\ \A s \in LsuSlots :
           lq[s].valid /\ lq[s].op <= cut /\ ~LsuLeaves(lq[s]) =>
              lq'[s].valid /\ lq'[s].op = lq[s].op
      /\ \A i \in lsus : \E s \in LsuSlots : lq'[s].valid /\ lq'[s].op = i
  BY <1>3, LsuQueueStays
<1>6. ASSUME NEW i \in entered, i <= cut, Kind(i) = "alu" PROVE AluThere(i)'
  <2>1. AluThere(i)
    BY <1>1, <1>6 DEF Inv3, ThereInv
  <2>2. CASE i \in Results \cup Packs("alu")
    BY <1>1, <2>2 DEF AluThere
  <2>3. ASSUME NEW s \in IntSlots, iq[s].valid, iq[s].op = i PROVE AluThere(i)'
    <3>1. CASE ~IntLeaves(iq[s])
      BY <1>4, <1>6, <2>3, <3>1 DEF AluThere
    <3>2. CASE Units(iq[s]) # {} /\ SentLpv(iq[s]) = {}
      <4>1. PICK p \in int_port : p.op = i /\ Sender(iq[s], p)
        BY <1>1, <1>3, <2>3, <3>2, SentUnits
      <4>2. p.lpv = {}
        BY <3>2, <4>1 DEF Sender
      <4> QED BY <1>1, <4>1, <4>2 DEF AluThere
    <3>3. CASE iq[s].issued /\ ~IntBack(iq[s]) /\ Safe(Lpv(iq[s]))
      <4>1. AluIssued(iq[s])
        BY DEF Inv3, IssuedInv
      <4>2. AluSent(iq[s]) \/ AluDoomed(iq[s])
        BY <1>1, <1>6, <2>3, <3>3, <4>1 DEF AluIssued
      <4>3. i \in Packs("alu")
        BY <1>1, <2>3, <3>3, <4>2 DEF AluSent, AluDoomed, IntBack, Safe, AtLevel2
      <4> QED BY <1>1, <4>3 DEF AluThere
    <3> QED BY <3>1, <3>2, <3>3 DEF IntLeaves
  <2> QED BY <1>1, <2>1, <2>2, <2>3 DEF AluThere
<1>7. ASSUME NEW i \in entered, i <= cut, Kind(i) = "load" PROVE LoadThere(i)'
  <2>1. LoadThere(i) /\ i \in Ops
    BY <1>1, <1>7 DEF Inv3, ThereInv
  <2>2. CASE i \in Results
    BY <1>1, <2>2 DEF LoadThere
  <2>3. ASSUME NEW s \in LsuSlots, lq[s].valid, lq[s].op = i PROVE LoadThere(i)'
    <3>1. CASE ~LsuLeaves(lq[s])
      BY <1>5, <1>7, <2>3, <3>1 DEF LoadThere
    <3>2. CASE LsuLeaves(lq[s])
      <4>1. PICK e : e = lq[s]
        OBVIOUS
      <4>2. e.op = i /\ e.valid /\ e.issued /\ ~LsuBack(e) /\ Safe(Lpv(e) \cup e.cur_lpv)
        BY <1>7, <2>3, <3>2, <4>1 DEF LsuLeaves
      <4>3. LoadIssued(e) /\ LoadSlot(e)
        BY <4>1 DEF Inv3, IssuedInv, Inv2, LoadInv
      <4>4. i \in Level0Loads \cup Level1Loads \cup {lu.op}
        BY <1>1, <1>7, <4>2, <4>3 DEF LoadIssued, LsuBack, AtLevel2
      <4>5. /\ i \in Level1Loads => e.cur_lpv = {1}
            /\ i = lu.op => e.cur_lpv = {0}
            /\ i \in Level0Loads => e.cur_lpv = {2}
        BY <1>1, <1>7, <4>2, <4>3 DEF LoadSlot, Up
      <4>6. i = lu.op /\ e.cur_lpv = {0}
        BY <4>2, <4>4, <4>5 DEF Safe
      <4>7. ~lu.stall /\ (lu.replay => lu.following)
        BY <4>2, <4>6 DEF Safe, LsuBack, AtLevel2
      <4>8. lu.op \in exec
        BY <1>1, <1>3, <1>7, <2>1, <4>6, <4>7 DEF LoadDone, Ops
      <4>9. i \in Results
        BY <1>1, <4>6, <4>8 DEF Results
      <4> QED BY <1>1, <4>9 DEF LoadThere
    <3> QED BY <3>1, <3>2
  <2> QED BY <2>1, <2>2, <2>3 DEF LoadThere
<1>9. ASSUME NEW i \in ints PROVE i \in Ops /\ Kind(i) = "alu" /\ AluThere(i)'
  <2>1. i \in Waiting({"alu"}) /\ cut \in 0..N /\ N \in Nat
    BY <1>3, ConstAssumption DEF Issue, Types, FlagTypes
  <2> QED BY <1>4, <2>1 DEF AluThere, Waiting, Upto, Ops
<1>10. ASSUME NEW i \in lsus PROVE i \in Ops /\ Kind(i) # "alu" /\ LoadThere(i)'
  <2>1. i \in Waiting({"load", "store"}) /\ cut \in 0..N /\ N \in Nat
    BY <1>3, ConstAssumption DEF Issue, Types, FlagTypes
  <2> QED BY <1>5, <2>1 DEF LoadThere, Waiting, Upto, Ops
<1>11. ASSUME NEW i \in entered'
       PROVE  /\ i \in Ops
              /\ Kind(i) = "alu" => AluThere(i)'
              /\ Kind(i) = "load" => LoadThere(i)'
  <2>1. CASE i \in entered /\ i \in Upto(cut)
    <3>1. i \in Ops /\ i <= cut
      BY <2>1 DEF Inv3, ThereInv, Upto
    <3> QED BY <1>6, <1>7, <2>1, <3>1
  <2>2. CASE i \in ints
    BY <1>9, <2>2
  <2>3. CASE i \in lsus
    BY <1>10, <2>3
  <2> QED BY <1>1, <1>11, <2>1, <2>2, <2>3
<1> QED BY <1>1, <1>11 DEF ThereInv

\* A wakeup gives up no store whose parts are not on their way.
LEMMA IssueStores ==
    ASSUME Inv1, Inv2, Inv3, StoreInv, NEW ints \in NextOne({"alu"}),
           NEW lsus \in NextOne({"load", "store"}), Issue(ints, lsus)
    PROVE  StoreInv'
<1>1. /\ phase = "wakeup" /\ phase' = "execute" /\ Past /\ ~Past'
      /\ UNCHANGED <<prog, int_port, lsu_port, busy, hold, hdff, l2>>
      /\ entered' = (entered \cap Upto(cut)) \cup ints \cup lsus
      /\ \A i : Kind(i)' = Kind(i) /\ (Alive(i) <=> i <= cut)
      /\ \A u : Packs(u)' = Packs(u)
  BY IssueSame
<1>2. \A i, u : PartOn(i, u)' <=> PartOn(i, u)
  <2>1. UNCHANGED <<addr, data>>
    BY DEF Issue
  <2> QED BY <1>1, <2>1 DEF PartOn
<1>3. Types /\ PartInv
  BY DEF Inv1, Inv3
<1>4. /\ \A s \in LsuSlots :
           lq[s].valid /\ lq[s].op <= cut /\ ~LsuLeaves(lq[s]) =>
              lq'[s].valid /\ lq'[s].op = lq[s].op
      /\ \A i \in lsus : \E s \in LsuSlots : lq'[s].valid /\ lq'[s].op = i
  BY <1>3, LsuQueueStays
<1>5. ASSUME NEW i \in entered, i <= cut, Kind(i) = "store" PROVE StoreThere(i)'
  <2>1. StoreThere(i)
    BY <1>1, <1>5 DEF StoreInv
  <2>2. CASE \A u \in Parts : PartThere(i, u)
    <3>1. \A u \in Parts : PartThere(i, u)'
      BY <1>1, <1>2, <2>2 DEF PartThere
    <3> QED BY <3>1 DEF StoreThere
  <2>3. ASSUME NEW s \in LsuSlots, lq[s].valid, lq[s].op = i PROVE StoreThere(i)'
    <3>1. CASE ~LsuLeaves(lq[s])
      BY <1>4, <1>5, <2>3, <3>1 DEF StoreThere
    <3>2. PICK e : e = lq[s]
      OBVIOUS
    <3>3. StoreSent(e) /\ e.valid /\ e.op = i
      BY <2>3, <3>2 DEF StoreInv
    <3>4. /\ e.parts \subseteq Parts /\ (e.issued => e.parts = Parts)
          /\ \A u \in e.parts : PartOn(i, u) \/ (0 \in Lpv(e) /\ lu.replay)
      BY <1>1, <1>5, <3>3 DEF StoreSent
    <3>5. CASE LastUop(e) /\ SentLpv(e) = {}
      <4>1. \A u \in Units(e) :
               /\ \E p \in lsu_port : p.op = i /\ p.unit = u /\ p.lpv = SentLpv(e)
               /\ MayIssue(e)
        BY <1>1, <1>3, <3>2, <3>3, SentUnits
      <4>2. ~(lu.replay /\ 0 \in Lpv(e))
        BY <3>5, <4>1 DEF LastUop, MayIssue, AtLevel2
      <4>3. e.parts \cup Units(e) = Parts
        BY <1>5, <3>3, <3>5 DEF LastUop, Parts
      <4>4. \A u \in Parts : PartThere(i, u)'
        BY <1>1, <1>2, <3>4, <3>5, <4>1, <4>2, <4>3 DEF PartThere
      <4> QED BY <4>4 DEF StoreThere
    <3>6. CASE e.issued /\ ~LsuBack(e)
      <4>1. \A u \in Parts : PartOn(i, u)
        BY <3>4, <3>6 DEF LsuBack, AtLevel2
      <4>2. \A u \in Parts : PartThere(i, u)'
        BY <1>2, <4>1 DEF PartThere
      <4> QED BY <4>2 DEF StoreThere
    <3> QED BY <3>1, <3>2, <3>5, <3>6 DEF LsuLeaves
  <2> QED BY <2>1, <2>2, <2>3 DEF StoreThere
<1>6. ASSUME NEW i \in lsus PROVE StoreThere(i)'
  BY <1>4 DEF StoreThere
<1>7. ASSUME NEW i \in entered', Kind(i) = "store" PROVE StoreThere(i)'
  <2>1. CASE i \in entered /\ i \in Upto(cut)
    BY <1>5, <1>7, <2>1 DEF Upto
  <2>2. i \notin ints
    BY <1>7 DEF Issue, Waiting
  <2> QED BY <1>1, <1>6, <1>7, <2>1, <2>2
<1>8. \A s \in LsuSlots : StoreSent(lq[s])'
  BY IssueStoreSent
<1> QED BY <1>1, <1>7, <1>8 DEF StoreInv

\* Instructions come to the integer queue in order.
LEMMA IssueOrder ==
    ASSUME Inv1, Inv2, Inv3, NEW ints \in NextOne({"alu"}), NEW lsus \in NextOne({"load", "store"}),
           Issue(ints, lsus)
    PROVE  OrderInv'
<1>1. /\ entered' = (entered \cap Upto(cut)) \cup ints \cup lsus
      /\ \A i : Kind(i)' = Kind(i)
  BY IssueSame
<1>2. cut \in 0..N /\ N \in Nat
  BY ConstAssumption DEF Inv1, Types, FlagTypes
<1>3. ASSUME NEW i \in entered', NEW j \in Ops, Kind(i) = "alu", Kind(j) = "alu", j < i
      PROVE  j \in entered'
  <2>1. i \notin lsus
    BY <1>3 DEF Issue, Waiting
  <2>2. CASE i \in entered /\ i \in Upto(cut)
    <3>1. j \in entered
      BY <1>3, <2>2 DEF Inv3, OrderInv
    <3>2. j \in Upto(cut)
      BY <1>2, <1>3, <2>2 DEF Upto, Ops
    <3> QED BY <1>1, <3>1, <3>2
  <2>3. CASE i \in ints
    <3>1. ints = {Oldest(Waiting({"alu"}))} /\ Waiting({"alu"}) # {}
      BY <2>3 DEF NextOne
    <3>2. Waiting({"alu"}) \in SUBSET Nat
      BY <1>2 DEF Waiting, Upto
    <3>3. i \in Waiting({"alu"}) /\ \A y \in Waiting({"alu"}) : i <= y
      BY <2>3, <3>1, <3>2, OldestIs
    <3>4. j \in Upto(cut) /\ ~(i <= j)
      BY <1>2, <1>3, <3>3 DEF Waiting, Upto, Ops
    <3>5. j \in entered
      BY <1>3, <3>3, <3>4 DEF Waiting
    <3> QED BY <1>1, <3>4, <3>5
  <2> QED BY <1>1, <1>3, <2>1, <2>2, <2>3
<1> QED BY <1>1, <1>3 DEF OrderInv

\* A wakeup preserves the third invariant.
LEMMA Issue3 ==
    ASSUME Inv1, Inv2, Inv3, NEW ints \in NextOne({"alu"}), NEW lsus \in NextOne({"load", "store"}),
           Issue(ints, lsus)
    PROVE  Inv3'
<1>1. LoadDone'
  <2>1. phase' = "execute"
    BY DEF Issue
  <2> QED BY <2>1 DEF LoadDone
<1>2. IssuedInv'
  <2>1. \A s \in IntSlots : AluIssued(iq[s])'
    BY IssueAluIssued
  <2>2. \A s \in LsuSlots : LoadIssued(lq[s])'
    BY IssueLoadIssued
  <2> QED BY <2>1, <2>2 DEF IssuedInv
<1> QED BY <1>1, <1>2, IssueParts, IssueLate, IssueThere, IssueOrder DEF Inv3

\* A stutter preserves the third invariant.
LEMMA Stutter3 ==
    ASSUME Inv3, UNCHANGED vars
    PROVE  Inv3' /\ (StoreInv => StoreInv')
<1>1. /\ UNCHANGED <<phase, prog, cut, iq, lq, entered, int_port, lsu_port, busy, hold, rr_stall>>
      /\ UNCHANGED <<hdff, l2, l2_conflict_found, l2_stall, l2_last_last_stall, lu>>
      /\ UNCHANGED <<exec, wb_port, wb, regs, addr, data>>
  BY DEF vars, queue_vars, readreg_vars, lu_vars, result_vars
<1>2. /\ \A i : Kind(i)' = Kind(i) /\ (Alive(i)' <=> Alive(i)) /\ (Past' <=> Past)
      /\ Results' = Results /\ Available' = Available /\ Sure' = Sure /\ NewLoads' = NewLoads
      /\ \A u : Packs(u)' = Packs(u)
      /\ Level0Loads' = Level0Loads /\ Level1Loads' = Level1Loads
      /\ \A e : Lpv(e)' = Lpv(e) /\ SentLpv(e)' = SentLpv(e) /\ (MayIssue(e)' <=> MayIssue(e))
  BY <1>1 DEF Kind, Alive, Past, Results, Available, Sure, NewLoads, Lus, Packs, Level0Loads,
              Level1Loads, Lpv, SentLpv, MayIssue, AtLevel2, Shift
<1>3. \A i : (Behind(i)' <=> Behind(i)) /\ (Forced(i)' <=> Forced(i))
  BY <1>1, <1>2 DEF Behind, Forced
<1>4. \A i, u : PartOn(i, u)' <=> PartOn(i, u)
  BY <1>1, <1>2 DEF PartOn
<1>5. LoadDone' /\ PartInv' /\ LateInv' /\ OrderInv'
  BY <1>1, <1>2 DEF Inv3, LoadDone, PartInv, LateInv, LateSlot, OrderInv
<1>6. \A e : AluIssued(e) => AluIssued(e)'
  BY <1>1, <1>2, <1>3 DEF AluIssued, AluSent, AluDoomed, Dozes, Sleeping
<1>7. \A e : LoadIssued(e) => LoadIssued(e)'
  BY <1>1, <1>2 DEF LoadIssued
<1>8. \A e : StoreSent(e) => StoreSent(e)'
  BY <1>1, <1>2, <1>4 DEF StoreSent
<1>9. IssuedInv'
  BY <1>1, <1>6, <1>7 DEF Inv3, IssuedInv
<1>10. ThereInv'
  BY <1>1, <1>2 DEF Inv3, ThereInv, AluThere, LoadThere
<1>11. StoreInv => StoreInv'
  BY <1>1, <1>2, <1>4, <1>8 DEF StoreInv, StoreThere, PartThere
<1> QED BY <1>5, <1>9, <1>10, <1>11 DEF Inv3

\* Every step preserves the third invariant.
THEOREM Inv3Correct == Spec => []Inv3
<1>1. ASSUME Inv1, Inv2, Inv3, [Next]_vars PROVE Inv3'
  <2>1. CASE Proceed
    <3>1. N \in 0..N /\ FALSE \in BOOLEAN
      BY ConstAssumption
    <3> QED BY <1>1, <2>1, <3>1, Execute3 DEF Proceed
  <2>2. CASE Stall
    <3>1. N \in 0..N /\ TRUE \in BOOLEAN
      BY ConstAssumption
    <3> QED BY <1>1, <2>2, <3>1, Execute3 DEF Stall
  <2>3. CASE Flush
    <3>1. PICK c \in 0..(N - 1), stall \in BOOLEAN : Execute(c, stall)
      BY <2>3 DEF Flush
    <3>2. c \in 0..N
      BY ConstAssumption
    <3> QED BY <1>1, <3>1, <3>2, Execute3
  <2>4. CASE Readreg
    BY <1>1, <2>4, Readreg3
  <2>5. CASE Output
    BY <1>1, <2>5, Output3
  <2>6. CASE IssueCycle
    BY <1>1, <2>6, Issue3 DEF IssueCycle
  <2>7. CASE UNCHANGED vars
    BY <1>1, <2>7, Stutter3
  <2> QED BY <1>1, <2>1, <2>2, <2>3, <2>4, <2>5, <2>6, <2>7 DEF Next
<1> QED BY <1>1, Init3, Inv1Correct, Inv2Correct, PTL DEF Spec

\* Every step keeps what is said of stores, unless readreg loses a part of one.
LEMMA StoresNext == Inv1 /\ Inv2 /\ Inv3 /\ StoreInv /\ ~PartLost /\ [Next]_vars => StoreInv'
<1>1. SUFFICES ASSUME Inv1, Inv2, Inv3, StoreInv, ~PartLost, [Next]_vars PROVE StoreInv'
  OBVIOUS
<1>2. CASE Proceed
  <2>1. N \in 0..N /\ FALSE \in BOOLEAN
    BY ConstAssumption
  <2> QED BY <1>1, <1>2, <2>1, ExecuteStores DEF Proceed
<1>3. CASE Stall
  <2>1. N \in 0..N /\ TRUE \in BOOLEAN
    BY ConstAssumption
  <2> QED BY <1>1, <1>3, <2>1, ExecuteStores DEF Stall
<1>4. CASE Flush
  <2>1. PICK c \in 0..(N - 1), stall \in BOOLEAN : Execute(c, stall)
    BY <1>4 DEF Flush
  <2>2. c \in 0..N
    BY ConstAssumption
  <2> QED BY <1>1, <2>1, <2>2, ExecuteStores
<1>5. CASE Readreg
  BY <1>1, <1>5, ReadregStores
<1>6. CASE Output
  BY <1>1, <1>6, Output3
<1>7. CASE IssueCycle
  BY <1>1, <1>7, IssueStores DEF IssueCycle
<1>8. CASE UNCHANGED vars
  BY <1>1, <1>8, Stutter3
<1> QED BY <1>1, <1>2, <1>3, <1>4, <1>5, <1>6, <1>7, <1>8 DEF Next

\* What an instruction that has come and has not executed is found in.
Found == Done \cup InQueue \cup InPacks \cup {l2}

\* What the invariants say of an instruction is more than that.
LEMMA FoundAll ==
    ASSUME Inv1, Inv3, phase = "execute"
    PROVE  /\ \A i \in entered : Kind(i) # "store" => i \in Found
           /\ StoreInv => NoneDropped
<1>1. /\ \A s \in IntSlots : iq[s].valid => iq[s].op \in InQueue
      /\ \A s \in LsuSlots : lq[s].valid => lq[s].op \in InQueue
      /\ \A p \in int_port \cup lsu_port \cup hold \cup hdff : p.op \in InPacks
  BY DEF InQueue, InPacks
<1>2. /\ Results \subseteq Done
      /\ \A u : Packs(u) \subseteq InPacks
  BY <1>1, PacksDef DEF Results, Done
<1>3. ASSUME NEW i \in entered PROVE Kind(i) \in Kinds
  BY SourcesOlder DEF Inv1, Types, Inv3, ThereInv
<1>4. ASSUME NEW i \in entered, Kind(i) # "store" PROVE i \in Found
  <2>1. CASE Kind(i) = "alu"
    <3>1. AluThere(i)
      BY <2>1 DEF Inv3, ThereInv, Alive
    <3> QED BY <1>1, <1>2, <3>1 DEF AluThere, Found
  <2>2. CASE Kind(i) = "load"
    <3>1. LoadThere(i)
      BY <2>2 DEF Inv3, ThereInv, Alive
    <3> QED BY <1>1, <1>2, <3>1 DEF LoadThere, Found
  <2> QED BY <1>3, <1>4, <2>1, <2>2 DEF Kinds
<1>5. ASSUME StoreInv, NEW i \in entered, Kind(i) = "store" PROVE i \in Found
  <2>1. StoreThere(i)
    BY <1>5 DEF StoreInv, Alive
  <2>2. CASE \A u \in Parts : PartThere(i, u)
    <3>1. PartThere(i, "sau") /\ PartThere(i, "sdu")
      BY <2>2 DEF Parts
    <3>2. i \in addr \/ i \in InPacks
      BY <1>1, <1>2, <3>1 DEF PartThere, PartOn
    <3>3. i \in data \/ i \in InPacks
      BY <1>1, <1>2, <3>1 DEF PartThere, PartOn
    <3> QED BY <3>2, <3>3 DEF Done, Found
  <2> QED BY <1>1, <2>1, <2>2 DEF StoreThere, Found
<1> QED BY <1>4, <1>5 DEF NoneDropped, Found

\* No arithmetic instruction and no load is dropped between dispatch and its execution, for
\* every program, queue size and width and in every behaviour: a slot of the queues is given
\* up, and a pack dropped at readreg, only if the instruction will execute or is sent again.
THEOREM OnlyStoresDropped ==
    Spec => [](phase = "execute" => {i \in entered : Kind(i) # "store"} \subseteq Found)
<1>1. Inv1 /\ Inv3 => (phase = "execute" => {i \in entered : Kind(i) # "store"} \subseteq Found)
  BY FoundAll
<1> QED BY <1>1, Inv1Correct, Inv3Correct, PTL

\* No store is dropped either, as long as readreg has not taken back a part of one behind
\* the queue's back (lsu_issue.cpp 188 and 355).
THEOREM NoneUntilLost == Spec /\ []~PartLost => []NoneDropped
<1>1. Inv1 /\ Inv3 /\ StoreInv => NoneDropped
  BY FoundAll DEF NoneDropped
<1> QED BY <1>1, Init3, StoresNext, Inv1Correct, Inv2Correct, Inv3Correct, PTL DEF Spec

\* A program without stores.
NoStores == \A i \in Ops : Kind(i) # "store"

\* Without stores no instruction is dropped in any behaviour.
THEOREM NoneCorrect == Spec /\ NoStores => []NoneDropped
<1>1. NoStores /\ [Next]_vars => NoStores'
  <2>1. [Next]_vars => prog' = prog
    BY DEF Next, Proceed, Stall, Flush, Execute, Readreg, Output, IssueCycle, Issue, vars
  <2> QED BY <2>1 DEF NoStores, Kind
<1>2. Inv1 /\ Inv3 /\ NoStores => NoneDropped
  <2>1. SUFFICES ASSUME Inv1, Inv3, NoStores, phase = "execute" PROVE entered \subseteq Found
    BY DEF NoneDropped, Found
  <2> QED BY <2>1, FoundAll DEF NoStores, Inv3, ThereInv
<1> QED BY <1>1, <1>2, Inv1Correct, Inv3Correct, PTL DEF Spec
=============================================================================
