------------------------------- MODULE Wakeup -------------------------------
(***************************************************************************)
(* Speculative wakeup: the integer and the load/store issue queue, their   *)
(* readreg stages, and the load unit that replays and stalls.  An issued   *)
(* instruction wakes those that read its result before it has executed; a  *)
(* load does so hoping to have its data two cycles later, and everything   *)
(* woken on that hope is followed by load position vectors (lpv): here the *)
(* set of the numbers of cycles after which a load it depends on is at     *)
(* level 2 of lu.  Bit 2^k of the code is element k.                       *)
(*                                                                         *)
(* Instructions are numbered in program order and name the instructions    *)
(* they read from (0: none, the value is there).  After a flush the same   *)
(* instructions come again; a flush may come behind any instruction, since *)
(* branches stand anywhere between those modelled.  A cycle is the phases  *)
(* execute, readreg, output and wakeup, in the order of cycle_model::run.  *)
(* Units with a latency of one cycle only (all but div); instructions come *)
(* to a queue one per cycle, when dispatch likes, and an arithmetic one to *)
(* any port, which covers the alternation of next_port_index.              *)
(***************************************************************************)
EXTENDS Naturals

CONSTANTS N,            \* instructions of a program
          Programs,
          INTEGER_ISSUE_QUEUE_SIZE, INTEGER_ISSUE_WIDTH,
          LSU_ISSUE_QUEUE_SIZE

Ops == 1..N
Kinds == {"alu", "load", "store"}
INIT_LPV == {2}

ASSUME ConstAssumption ==
    /\ N \in Nat \ {0}
    /\ \A p \in Programs : p \in [Ops -> [kind : Kinds, src1 : 0..N, src2 : 0..N]]
    /\ \A p \in Programs : \A i \in Ops : p[i].src1 < i /\ p[i].src2 < i
    /\ INTEGER_ISSUE_WIDTH \in Nat \ {0} /\ LSU_ISSUE_QUEUE_SIZE \in Nat \ {0}
    /\ INTEGER_ISSUE_QUEUE_SIZE \in Nat /\ INTEGER_ISSUE_QUEUE_SIZE >= INTEGER_ISSUE_WIDTH

VARIABLES
    phase,
    prog,
    cut,        \* the flush of this cycle: what is younger goes; N if there is none
    iq, lq,     \* the issue queues, by slot
    entered,    \* the instructions that have come to a queue
    int_port, lsu_port, \* issue to readreg: packs
    busy, hold, rr_stall,       \* lsu_readreg, and its feedback
    hdff,       \* readreg to the units: packs
    l2, l2_conflict_found, l2_stall, l2_last_last_stall,        \* lu
    lu,         \* lu_feedback_pack
    exec, wb_port, wb,  \* results of this cycle, waiting for wb, and of wb
    regs,       \* registers with valid data, by producer
    addr, data  \* stores whose address, whose data has been executed

queue_vars == <<iq, lq, entered>>
readreg_vars == <<int_port, lsu_port, busy, hold, rr_stall>>
lu_vars == <<l2, l2_conflict_found, l2_stall, l2_last_last_stall, lu>>
result_vars == <<exec, wb_port, wb, regs, addr, data>>
vars == <<phase, prog, cut, queue_vars, readreg_vars, hdff, lu_vars, result_vars>>

IntSlots == 0 .. (INTEGER_ISSUE_QUEUE_SIZE - 1)
LsuSlots == 0 .. (LSU_ISSUE_QUEUE_SIZE - 1)
Ports == 0 .. (INTEGER_ISSUE_WIDTH - 1)

\* A source operand.  lpv and shift: src_lpv and wakeup_shift_src.
Source(r, ready) == [reg |-> r, ready |-> ready, shift |-> 0, lpv |-> {}]

\* A slot.  parts: the parts of a store that were sent; waits: the store a load waits
\* for by order of the wait table (0: none).
FreeSlot == [op |-> 0, valid |-> FALSE, issued |-> FALSE, port |-> 0,
             src1 |-> Source(0, FALSE), src2 |-> Source(0, FALSE),
             cur_lpv |-> {}, parts |-> {}, waits |-> 0]

NoFeedback == [op |-> 0, stall |-> FALSE, replay |-> FALSE, following |-> FALSE]

Init ==
    /\ phase = "execute" /\ prog \in Programs /\ cut = N
    /\ iq = [s \in IntSlots |-> FreeSlot] /\ lq = [s \in LsuSlots |-> FreeSlot]
    /\ entered = {}
    /\ int_port = {} /\ lsu_port = {} /\ busy = FALSE /\ hold = {} /\ rr_stall = FALSE
    /\ hdff = {}
    /\ l2 = 0 /\ l2_conflict_found = FALSE /\ l2_stall = FALSE /\ l2_last_last_stall = FALSE
    /\ lu = NoFeedback
    /\ exec = {} /\ wb_port = {} /\ wb = {} /\ regs = {} /\ addr = {} /\ data = {}

Kind(i) == prog[i].kind
Upto(c) == 1..c
Oldest(S) == CHOOSE i \in S : \A j \in S : i <= j

\* "& 1", ">> 1" and "lpv >> 1 != 0" of load position vectors.
AtLevel2(lpv) == 0 \in lpv
Shift(lpv) == {k - 1 : k \in lpv \ {0}}
Before2(lpv) == lpv \ {0} # {}
Lpv(e) == e.src1.lpv \cup e.src2.lpv

-----------------------------------------------------------------------------
(***************************************************************************)
(* wb::run, alu::run, lu::run, sau::run, sdu::run.                         *)
(***************************************************************************)
Packs(unit) == {p.op : p \in {q \in hdff : q.unit = unit}}

\* Level 2 has a load to hand on; stall: the bus has no data for it yet.
Live(c) == l2 # 0 /\ ~l2_conflict_found /\ l2 <= c

\* A load meets a store whose address is known and whose data is not.  The first pass
\* of sau runs before lu, sdu runs after it.
MayConflict(i) ==
    \E s \in Upto(i - 1) : Kind(s) = "store" /\ s \in addr \cup Packs("sau") /\ s \notin data

\* Level 1 does not move while level 2 stalls.
Level1(c, stall) ==
    IF stall THEN UNCHANGED <<l2, l2_conflict_found>>
    ELSE LET came == Packs("lu") \cap Upto(c)
         IN /\ l2' = IF came = {} THEN 0 ELSE Oldest(came)
            /\ IF came = {} THEN UNCHANGED l2_conflict_found
               ELSE \E found \in BOOLEAN :
                      /\ found => MayConflict(Oldest(came))
                      /\ l2_conflict_found' = found

Execute(c, stall) ==
    /\ phase = "execute"
    /\ stall => Live(c)
    /\ cut' = c
    /\ wb' = wb_port \cap Upto(c)
    /\ exec' = (Packs("alu") \cap Upto(c)) \cup (IF Live(c) /\ ~stall THEN {l2} ELSE {})
    /\ wb_port' = exec'
    /\ lu' = [op |-> l2, stall |-> stall,
              replay |-> l2_conflict_found \/ stall \/ (Live(c) /\ l2_last_last_stall),
              following |-> Live(c) /\ (stall \/ l2_last_last_stall)]
    /\ l2_last_last_stall' = (~stall /\ l2_stall)
    /\ l2_stall' = stall
    /\ Level1(c, stall)
    /\ addr' = (addr \cup Packs("sau")) \cap Upto(c)
    /\ data' = (data \cup Packs("sdu")) \cap Upto(c)
    /\ regs' = regs \cap Upto(c)
    /\ hdff' = IF stall THEN {p \in hdff : p.unit = "lu" /\ p.op <= c} ELSE {}
    /\ phase' = "readreg"
    /\ UNCHANGED <<prog, queue_vars, readreg_vars>>

Proceed == Execute(N, FALSE)
Stall == Execute(N, TRUE)
Flush == \E c \in 0..(N - 1) : \E stall \in BOOLEAN : Execute(c, stall)

-----------------------------------------------------------------------------
(***************************************************************************)
(* integer_readreg::run and lsu_readreg::run.                              *)
(***************************************************************************)
Available == exec \cup wb \cup regs \cup {0}

\* Faulty variant: readreg lets through what a replay takes back.
PassesReplayed(p) == p.op <= cut

\* A pack that is not flushed or taken back by a replay.
Passes(p) == p.op <= cut /\ ~(lu.replay /\ AtLevel2(p.lpv))

\* What a unit reads.
Needs(p) == CASE p.unit = "sau" -> {prog[p.op].src1}
              [] p.unit = "sdu" -> {prog[p.op].src2}
              [] OTHER -> {prog[p.op].src1, prog[p.op].src2}

Sent(packs) == {[op |-> p.op, unit |-> p.unit, ok |-> Needs(p) \subseteq Available] :
                    p \in {q \in packs : Passes(q)}}

\* An integer pack without its operands is sent disabled, a load/store pack as it is,
\* unless lu stalls: then it is held.
Readreg ==
    /\ phase = "readreg"
    /\ LET ints == {p \in Sent(int_port) : p.ok}
           packs == IF busy THEN hold ELSE lsu_port
       IN /\ hdff' = hdff \cup ints \cup (IF lu.stall THEN {} ELSE Sent(packs))
          /\ hold' = IF lu.stall THEN {p \in packs : Passes(p)} ELSE {}
    /\ busy' = lu.stall
    /\ rr_stall' = busy
    /\ phase' = "output"
    /\ UNCHANGED <<prog, cut, queue_vars, int_port, lsu_port, lu_vars, result_vars>>

-----------------------------------------------------------------------------
(***************************************************************************)
(* run_output of integer_issue and lsu_issue: the selected slots.          *)
(***************************************************************************)
\* Not flushed, not issued, not to be replayed.
MayIssue(e) == /\ e.valid /\ ~e.issued /\ e.op <= cut
               /\ ~(lu.replay /\ AtLevel2(Lpv(e)))

\* While lu stalls the test is of the slot with the number of the port.
IntCandidates(port) ==
    {s \in IntSlots : /\ MayIssue(iq[s]) /\ iq[s].port = port
                      /\ iq[s].src1.ready /\ iq[s].src2.ready
                      /\ lu.stall => Lpv(iq[port]) = {}}

LsuCandidates(unit) ==
    {s \in LsuSlots :
        LET e == lq[s]
        IN /\ ~rr_stall /\ ~lu.stall /\ MayIssue(e) /\ e.waits = 0
           /\ CASE unit = "lu" -> Kind(e.op) = "load" /\ e.src1.ready /\ e.src2.ready
                [] unit = "sau" -> Kind(e.op) = "store" /\ e.src1.ready /\ "sau" \notin e.parts
                [] unit = "sdu" -> Kind(e.op) = "store" /\ e.src2.ready /\ "sdu" \notin e.parts}

OldestSlot(q, S) == {s \in S : \A t \in S : q[s].op <= q[t].op}
SentLpv(e) == IF lu.stall THEN Lpv(e) ELSE Shift(Lpv(e))
Packed(q, unit, slots) ==
    {[op |-> q[s].op, unit |-> unit, lpv |-> SentLpv(q[s])] : s \in OldestSlot(q, slots)}

\* The oldest that is ready, for each port.
Output ==
    /\ phase = "output"
    /\ int_port' = UNION {Packed(iq, "alu", IntCandidates(p)) : p \in Ports}
    /\ lsu_port' = UNION {Packed(lq, u, LsuCandidates(u)) : u \in {"lu", "sau", "sdu"}}
    /\ phase' = "wakeup"
    /\ UNCHANGED <<prog, cut, queue_vars, busy, hold, rr_stall, hdff, lu_vars, result_vars>>

\* The wakeup feedback of what was sent.
Wake(p) == [rd |-> p.op, shift |-> IF p.unit = "lu" THEN 1 ELSE 0,
            lpv |-> IF p.unit = "lu" THEN p.lpv \cup INIT_LPV ELSE p.lpv]
Wakes == {Wake(p) : p \in {q \in int_port \cup lsu_port : q.unit \in {"alu", "lu"}}}

\* The units an instruction was sent to in this cycle.  A store is issued when its
\* last part is.
Units(e) == {p.unit : p \in {q \in int_port \cup lsu_port : q.op = e.op}}
LastUop(e) == Units(e) # {} /\ (Kind(e.op) = "store" => e.parts \cup Units(e) = {"sau", "sdu"})

-----------------------------------------------------------------------------
(***************************************************************************)
(* run_wakeup of both queues, first a source operand.                      *)
(***************************************************************************)
\* What a replayed or stalled load was to deliver is not ready; if the load itself
\* goes on (following), what reads its result directly is.
Cancelled(s) == lu.replay /\ AtLevel2(s.lpv) /\ ~(lu.following /\ s.reg = lu.op)
Asleep(s) == lu.stall /\ Before2(s.lpv)

Checked(s, sleeps) ==
    IF Cancelled(s) \/ (sleeps /\ Asleep(s))
    THEN [s EXCEPT !.ready = FALSE, !.shift = 0] ELSE s

ShiftedLpv(lpv) ==
    IF lu.stall \/ (lu.replay /\ lu.following /\ AtLevel2(lpv)) THEN lpv ELSE Shift(lpv)

Delayed(s) ==
    IF ~s.ready /\ s.shift > 0
    THEN [s EXCEPT !.ready = s.shift = 1, !.shift = @ \div 2] ELSE s

WokenByIssue(s) ==
    IF ~s.ready /\ \E w \in Wakes : w.rd = s.reg
    THEN LET w == CHOOSE v \in Wakes : v.rd = s.reg
         IN [s EXCEPT !.ready = w.shift = 0, !.shift = IF w.shift = 0 THEN @ ELSE w.shift,
                      !.lpv = w.lpv]
    ELSE s

\* Faulty variant: a result wakes nobody; the wakeup at issue is relied on.
WokenByResultNever(s) == s

WokenByResult(s) ==
    IF ~s.ready /\ s.reg \in exec THEN [s EXCEPT !.ready = TRUE, !.lpv = {}] ELSE s

Woken(s, sleeps) ==
    LET c == Checked(s, sleeps)
    IN WokenByResult(WokenByIssue(Delayed([c EXCEPT !.lpv = ShiftedLpv(@)])))

\* An issued instruction goes back, or leaves when no load can call it back any more.
IntBack(e) == \/ lu.replay /\ AtLevel2(Lpv(e))
              \/ lu.stall /\ Before2(Lpv(e))

\* Faulty variant: a load that goes on by itself (following) is replayed too.
LsuBackFollowing(e) == lu.replay /\ AtLevel2(Lpv(e) \cup e.cur_lpv)

LsuBack(e) == lu.replay /\ (AtLevel2(Lpv(e)) \/ (AtLevel2(e.cur_lpv) /\ ~lu.following))

\* Faulty variant: the slot is given up while the load is still at level 1.
SafeEarly(lpv) == lpv \subseteq {0, 1}

Safe(lpv) == lpv = {} \/ (lpv \subseteq {0} /\ ~lu.stall)

IntWakeup(s) ==
    LET e == iq[s]
        popped == Units(e) # {} /\ SentLpv(e) = {}
        left == e.issued /\ ~IntBack(e) /\ Safe(Lpv(e))
    IN IF ~e.valid THEN e
       ELSE IF e.op > cut THEN [e EXCEPT !.valid = FALSE]
       ELSE [e EXCEPT !.valid = ~popped /\ ~left,
                      !.issued = Units(e) # {} \/ (e.issued /\ ~IntBack(e)),
                      !.src1 = Woken(@, TRUE), !.src2 = Woken(@, TRUE)]

\* The stores that are not issued.
WaitingStores(q) == {q[s].op : s \in {t \in LsuSlots : lq[t].valid /\ ~lq[t].issued
                                                       /\ Kind(q[t].op) = "store"}}

LsuWakeup(s) ==
    LET e == lq[s]
        cur == IF "lu" \in Units(e) THEN INIT_LPV ELSE e.cur_lpv
        popped == LastUop(e) /\ Kind(e.op) = "store" /\ SentLpv(e) = {}
        left == e.issued /\ ~LsuBack(e) /\ Safe(Lpv(e) \cup e.cur_lpv)
        stores == WaitingStores(lq)
    IN IF ~e.valid THEN e
       ELSE IF e.op > cut THEN [e EXCEPT !.valid = FALSE]
       ELSE [e EXCEPT !.valid = ~popped /\ ~left,
                      !.issued = LastUop(e) \/ (e.issued /\ ~LsuBack(e)),
                      !.cur_lpv = IF e.issued THEN ShiftedLpv(cur) ELSE cur,
                      !.parts = IF lu.replay /\ AtLevel2(Lpv(e)) THEN {} ELSE @ \cup (Units(e) \ {"lu"}),
                      !.src1 = Woken(@, FALSE), !.src2 = Woken(@, FALSE),
                      !.waits = IF stores = {} \/ Oldest(stores) > @ THEN 0 ELSE @]

-----------------------------------------------------------------------------
(***************************************************************************)
(* run_input of both queues: the next instruction, if it comes and a slot  *)
(* is free.                                                                *)
(***************************************************************************)
Waiting(kinds) == {i \in Upto(cut) : Kind(i) \in kinds /\ i \notin entered}
FreeSlots(q) == {s \in DOMAIN q : ~q[s].valid}

NewEntry(i) == [FreeSlot EXCEPT !.op = i, !.valid = TRUE,
                                !.src1 = Source(prog[i].src1, prog[i].src1 \in Available),
                                !.src2 = Source(prog[i].src2, prog[i].src2 \in Available)]

IntInput(q, i, port) == [q EXCEPT ![Oldest(FreeSlots(q))] = [NewEntry(i) EXCEPT !.port = port]]

Youngest(S) == CHOOSE i \in S : \A j \in S : j <= i
LsuInput(q, i, wait) ==
    LET p == [q EXCEPT ![Oldest(FreeSlots(q))] = NewEntry(i)]
        stores == WaitingStores(p) \ {i}
        lpv == IF Kind(i) = "load" THEN INIT_LPV ELSE {}
    IN [p EXCEPT ![Oldest(FreeSlots(q))].cur_lpv = lpv,
                 ![Oldest(FreeSlots(q))].waits =
                     IF wait /\ Kind(i) = "load" /\ stores # {} THEN Youngest(stores) ELSE 0]

\* Of a free slot only the lpv is ever looked at.
Settled(q) == [s \in DOMAIN q |->
    IF q[s].valid THEN q[s]
    ELSE [FreeSlot EXCEPT !.src1.lpv = q[s].src1.lpv, !.src2.lpv = q[s].src2.lpv]]

Issue(ints, lsus) ==
    /\ phase = "wakeup"
    /\ ints \subseteq Waiting({"alu"}) /\ lsus \subseteq Waiting({"load", "store"})
    /\ LET q == [s \in IntSlots |-> IntWakeup(s)]
       IN IF ints = {} THEN iq' = Settled(q)
          ELSE /\ FreeSlots(q) # {}
               /\ \E port \in Ports : iq' = Settled(IntInput(q, Oldest(ints), port))
    /\ LET q == [s \in LsuSlots |-> LsuWakeup(s)]
       IN IF lsus = {} THEN lq' = Settled(q)
          ELSE /\ FreeSlots(q) # {}
               /\ \E wait \in BOOLEAN : lq' = Settled(LsuInput(q, Oldest(lsus), wait))
    /\ entered' = (entered \cap Upto(cut)) \cup ints \cup lsus
    /\ regs' = regs \cup wb
    /\ exec' = {} /\ wb' = {} /\ lu' = NoFeedback /\ cut' = N /\ rr_stall' = FALSE
    /\ phase' = "execute"
    /\ UNCHANGED <<prog, int_port, lsu_port, busy, hold, hdff, l2, l2_conflict_found, l2_stall,
                   l2_last_last_stall, wb_port, addr, data>>

\* What dispatch may send to a queue in one cycle.
NextOne(kinds) == IF Waiting(kinds) = {} THEN {{}} ELSE {{}, {Oldest(Waiting(kinds))}}

IssueCycle == \E ints \in NextOne({"alu"}) : \E lsus \in NextOne({"load", "store"}) :
                  Issue(ints, lsus)

Next == Proceed \/ Stall \/ Flush \/ Readreg \/ Output \/ IssueCycle
Spec == Init /\ [][Next]_vars

-----------------------------------------------------------------------------
(***************************************************************************)
(* Properties.                                                             *)
(***************************************************************************)
Done == exec \cup wb_port \cup wb \cup regs \cup (addr \cap data)

\* A load or store reaches its unit with the operands it needs, whatever was woken,
\* replayed or held before (the commented verify_only of lsu_readreg.cpp).
OperandsReady == \A p \in hdff : p.ok

\* No instruction is executed a second time once its result is there.
ExecutedOnce == exec \cap (wb \cup regs) = {}

InPacks == {p.op : p \in int_port \cup lsu_port \cup hold \cup hdff}
InQueue == {iq[s].op : s \in {t \in IntSlots : iq[t].valid}}
           \cup {lq[s].op : s \in {t \in LsuSlots : lq[t].valid}}

\* No instruction is dropped: until it has executed it is in its queue or on its way,
\* although packs are dropped at readreg and slots given up before execution.
NoneDropped ==
    phase = "execute" => entered \subseteq Done \cup InQueue \cup InPacks \cup {l2}

\* The clock ticks and memory answers.
Fairness == /\ SF_vars(Proceed)
            /\ WF_vars(Readreg) /\ WF_vars(Output) /\ WF_vars(IssueCycle)
LiveSpec == Spec /\ Fairness

\* Every instruction that has come to a queue, with all older ones, is executed and its
\* slot given back, however often it was replayed, unless flushes go on for ever.
Complete == {i \in entered : Upto(i) \subseteq entered}
AllExecuted == []<>((Complete \subseteq Done /\ Complete \cap InQueue = {}) \/ cut < N)
=============================================================================
