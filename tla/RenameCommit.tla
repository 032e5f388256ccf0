---------------------------- MODULE RenameCommit ----------------------------
(***************************************************************************)
(* Register renaming, speculation and its recovery: the stages rename,     *)
(* bru, wb and commit over the state they share, namely the free list of   *)
(* physical registers, the speculative and the retirement register         *)
(* allocation tables, the reorder buffer, the checkpoint buffer and the    *)
(* validity and age bits of the physical register file.                    *)
(*                                                                         *)
(* cycle_model::run calls the stages of a cycle in a fixed order; phase    *)
(* says which one is next.  Issue, operand read and the execution units    *)
(* are abstracted to: any instruction in the reorder buffer may execute in *)
(* any cycle, and its result reaches wb and commit one cycle later.        *)
(*                                                                         *)
(* All flip-flops here are written by one stage and read by later ones of  *)
(* the same cycle, except where a view mixes new and current pointers:     *)
(* the pointers with suffix 0 are those current values.                    *)
(***************************************************************************)
EXTENDS Naturals, FiniteSets, Ring

CONSTANTS Phys,             \* physical registers
          Arch,             \* architectural registers other than x0 (numbers)
          ROB_SIZE,
          CHECKPOINT_BUFFER_SIZE,
          RENAME_WIDTH,
          COMMIT_WIDTH,
          Units,            \* the kinds of instructions programs are made of
          NoReg,            \* not a physical register
          MaxInst,          \* bound: instructions on the program's path
          MaxTrap,          \* bound: instructions of the path that trap
          FaultRd           \* may an instruction with a destination trap?

ASSUME ConstAssumption ==
    /\ IsFiniteSet(Phys) /\ NoReg \notin Phys
    /\ Arch \subseteq (Nat \ {0}) /\ IsFiniteSet(Arch)
    /\ ROB_SIZE \in Nat \ {0}
    /\ CHECKPOINT_BUFFER_SIZE \in Nat \ {0}
    /\ RENAME_WIDTH \in Nat \ {0}
    /\ COMMIT_WIDTH \in Nat \ {0}
    /\ Units \subseteq {"alu", "bru", "lu", "sdu"}
    /\ FaultRd \in BOOLEAN
    \* config.h: PHY_REG_NUM = 128 >= 31 + ROB_SIZE
    /\ Cardinality(Phys) >= Cardinality(Arch) + ROB_SIZE

PHY_REG_NUM == Cardinality(Phys)
Slots(n) == 0..(n - 1)

VARIABLES
    phase,          \* the stage that runs next
    slot,           \* iteration of its loop
    flush,          \* recovery requested in this cycle: "none", "bru", "commit"
    flush_pos,      \* for "bru": position of the branch in the reorder buffer
    exec,           \* positions executing in this cycle
    port,           \* positions on the write-back and commit ports
    port_exception, \* those of them that report an exception
    \* phy_id_free_list
    fl_buffer, fl_w, fl_w0, fl_r, fl_r0, free_list_set,
    \* speculative_rat and retire_rat: valid bits and physical-to-arch table
    srat_valid, srat_table, rrat_valid, rrat_table,
    \* rob
    rob, rob_w, rob_r, rob_r0,
    \* checkpoint_buffer
    cpb, cp_w, cp_r, cp_r0,
    \* phy_regfile
    reg_valid, reg_data, reg_oldest, reg_age,
    \* the path the program takes: number of the next instruction of it to be
    \* renamed, whether the front end is off it, the last one completed, traps
    next_inst, wrong_path, done, traps,
    \* a verify() of the code has failed
    aborted

fl_vars == <<fl_buffer, fl_w, fl_w0, fl_r, fl_r0, free_list_set>>
rat_vars == <<srat_valid, srat_table, rrat_valid, rrat_table>>
rob_vars == <<rob, rob_w, rob_r, rob_r0>>
cp_vars == <<cpb, cp_w, cp_r, cp_r0>>
reg_vars == <<reg_valid, reg_data, reg_oldest, reg_age>>
path_vars == <<next_inst, wrong_path, done, traps>>
pipe_vars == <<exec, port, port_exception>>
vars == <<phase, slot, flush, flush_pos, pipe_vars, fl_vars, rat_vars, rob_vars,
          cp_vars, reg_vars, path_vars, aborted>>

\* Faulty variant: no unit is told.
CarriesNone(unit) == FALSE
\* Does the checkpoint of an instruction travel with it to its execution unit?
\* The pack dispatch builds for the load/store queue has no predictor record.
CarriesCheckpoint(unit) == unit \notin {"lu", "sdu"}

-----------------------------------------------------------------------------
(***************************************************************************)
(* Register allocation tables (rat.h).                                     *)
(***************************************************************************)

\* The physical registers an architectural one maps to; one if all is well.
Mapped(valid, table, a) == {p \in valid : table[p] = a}
get_phy_id(valid, table, a) == CHOOSE p \in Mapped(valid, table, a) : TRUE

\* The verify() conditions of producer_get_phy_id() and set_map().
MapVerified(valid, table, a) == Cardinality(Mapped(valid, table, a)) = 1
set_map_verified(valid, table, a, p) ==
    p \notin valid /\ MapVerified(valid, table, a)

\* Faulty variant: the old mapping stays valid.
set_map_valid_keep(valid, table, a, p) == valid \cup {p}

set_map_valid(valid, table, a, p) == (valid \ Mapped(valid, table, a)) \cup {p}
set_map_table(table, a, p) == [table EXCEPT ![p] = a]

-----------------------------------------------------------------------------
(***************************************************************************)
(* Reorder buffer and other queues: positions of their elements.           *)
(***************************************************************************)
RobItem(p) == rob[RingSlot(p, ROB_SIZE)]
RobCount == RingCount(rob_w, rob_r, ROB_SIZE)
RobAt(k) == RingAdd(rob_r, k, ROB_SIZE)
RobLive == {RobAt(k) : k \in 0..(RobCount - 1)}

FlCount == RingCount(fl_w, fl_r, PHY_REG_NUM)
FlAt(k) == fl_buffer[RingSlot(RingAdd(fl_r, k, PHY_REG_NUM), PHY_REG_NUM)]

EmptyItem == [unit |-> "alu", rd |-> 0, old_phy |-> NoReg, new_phy |-> NoReg,
              old_fl_r |-> 0, new_fl_r |-> 0, cp_valid |-> FALSE, cp_id |-> 0,
              finish |-> FALSE, exception |-> FALSE, bp_cp_valid |-> FALSE,
              missed |-> FALSE, inst |-> 0]

EmptyCheckpoint == [valid |-> {}, new_fl_r |-> 0, new_cp_w |-> 0]

-----------------------------------------------------------------------------
\* cycle_model::reset(): the free list holds all registers; one is popped and
\* mapped, in both tables, for each architectural register.  The registers are
\* interchangeable, so any order of the free list may be taken as 0, 1, 2...
Init ==
    /\ phase = "bru" /\ slot = 0 /\ flush = "none" /\ flush_pos = 0
    /\ exec = {} /\ port = {} /\ port_exception = {}
    /\ fl_buffer \in {f \in [Slots(PHY_REG_NUM) -> Phys] :
                        \A i, j \in Slots(PHY_REG_NUM) : i # j => f[i] # f[j]}
    /\ fl_r = Cardinality(Arch) /\ fl_r0 = fl_r
    /\ fl_w = PHY_REG_NUM /\ fl_w0 = fl_w
    /\ free_list_set = {fl_buffer[i] : i \in fl_r..(PHY_REG_NUM - 1)}
    /\ \E idx \in [Arch -> 0..(Cardinality(Arch) - 1)] :
          /\ \A a, b \in Arch : a < b => idx[a] < idx[b]
          /\ srat_valid = {fl_buffer[idx[a]] : a \in Arch}
          /\ srat_table = [p \in Phys |->
                             IF \E a \in Arch : p = fl_buffer[idx[a]]
                             THEN CHOOSE a \in Arch : p = fl_buffer[idx[a]] ELSE 0]
    /\ rrat_valid = srat_valid /\ rrat_table = srat_table
    /\ rob = [i \in Slots(ROB_SIZE) |-> EmptyItem]
    /\ rob_w = 0 /\ rob_r = 0 /\ rob_r0 = 0
    /\ cpb = [i \in Slots(CHECKPOINT_BUFFER_SIZE) |-> EmptyCheckpoint]
    /\ cp_w = 0 /\ cp_r = 0 /\ cp_r0 = 0
    /\ reg_valid = srat_valid
    /\ reg_data = [p \in Phys |-> 0]
    /\ reg_oldest = Phys
    /\ reg_age = [p \in Phys |-> 0]
    /\ next_inst = 1 /\ wrong_path = FALSE /\ done = 0 /\ traps = 0
    /\ aborted = FALSE

-----------------------------------------------------------------------------
(***************************************************************************)
(* Free list (free_list.h).  The set shadows the queue for verify().       *)
(***************************************************************************)

\* push(p) on write position w and shadow set s, as the new values.
fl_push_verified(s, p) == p \notin s
fl_push_buffer(w, p) == [fl_buffer EXCEPT ![RingSlot(w, PHY_REG_NUM)] = p]

\* What lies between a saved read position and the current one.
fl_returned(pos) ==
    {fl_buffer[RingSlot(RingAdd(pos, k, PHY_REG_NUM), PHY_REG_NUM)] :
        k \in 0..(RingCount(fl_r0, pos, PHY_REG_NUM) - 1)}

\* restore(pos), when w and s are the write position and shadow set by then.
fl_restore_verified(pos, w, s) ==
    /\ RingCount(w, fl_r0, PHY_REG_NUM) = Cardinality(s)
    /\ fl_returned(pos) \cap s = {}
    /\ RingCount(w, pos, PHY_REG_NUM) = Cardinality(s \cup fl_returned(pos))
\* Faulty variant: the read pointer is not moved back.
fl_restore_nothing(pos, s) == UNCHANGED <<fl_r, free_list_set>>

fl_restore(pos, s) ==
    /\ fl_r' = pos
    /\ free_list_set' = s \cup fl_returned(pos)

-----------------------------------------------------------------------------
(***************************************************************************)
(* BRU and other execution units, first pass: the instructions that execute *)
(* in this cycle are known, and with them the request of a mispredicted    *)
(* branch that owns a checkpoint.  There is one branch unit.               *)
(***************************************************************************)
Waiting == {p \in RobLive : ~RobItem(p).finish /\ p \notin port}

\* Faulty variant: no recovery in the branch unit.
BruFlushNever(p) == FALSE

BruFlush(p) == /\ RobItem(p).unit = "bru"
               /\ RobItem(p).missed
               /\ RobItem(p).cp_valid

BruFeedback ==
    /\ phase = "bru"
    /\ \E E \in SUBSET Waiting :
         /\ \A p, q \in E : RobItem(p).unit = "bru" /\ RobItem(q).unit = "bru" => p = q
         /\ exec' = E
         /\ IF \E p \in E : BruFlush(p)
            THEN flush' = "bru" /\ flush_pos' = CHOOSE p \in E : BruFlush(p)
            ELSE UNCHANGED <<flush, flush_pos>>
    /\ phase' = "commit"
    /\ UNCHANGED <<slot, port, port_exception, fl_vars, rat_vars, rob_vars, cp_vars,
                   reg_vars, path_vars, aborted>>

-----------------------------------------------------------------------------
(***************************************************************************)
(* commit::run: one iteration of the retirement loop per action.           *)
(***************************************************************************)
Head == RobItem(rob_r)
CanCommit == /\ phase = "commit" /\ flush # "commit" /\ slot < COMMIT_WIDTH
             /\ rob_r # rob_w /\ Head.finish

\* Faulty variant: the speculative table is not reloaded.
FlushAllKeepMap ==
    /\ flush' = "commit"
    /\ UNCHANGED <<srat_valid, srat_table>>
    /\ reg_valid' = rrat_valid'
    /\ rob_w' = 0 /\ rob_r' = 0
    /\ cp_w' = 0 /\ cp_r' = 0
    /\ wrong_path' = FALSE
    /\ UNCHANGED <<rob, rob_r0, cpb, cp_r0>>

\* The part of a flush that all causes share: everything speculative is dropped
\* and the speculative state becomes the retired state (with its new values).
FlushAll ==
    /\ flush' = "commit"
    /\ srat_valid' = rrat_valid' /\ srat_table' = rrat_table'
    /\ reg_valid' = rrat_valid'
    /\ rob_w' = 0 /\ rob_r' = 0
    /\ cp_w' = 0 /\ cp_r' = 0
    /\ wrong_path' = FALSE
    /\ UNCHANGED <<rob, rob_r0, cpb, cp_r0>>

\* An exception, of any instruction or reported by the bus for a store: the
\* instruction does not retire; the free list is restored to the read position
\* after its own allocation.
CommitTrap ==
    /\ CanCommit
    /\ Head.exception \/ (Head.unit = "sdu" /\ slot = 0 /\ traps < MaxTrap)
    /\ traps' = IF Head.exception THEN traps ELSE traps + 1
    /\ UNCHANGED <<rrat_valid, rrat_table>>
    /\ FlushAll
    /\ fl_restore(Head.new_fl_r, free_list_set)
    /\ aborted' = (aborted \/ ~fl_restore_verified(Head.new_fl_r, fl_w, free_list_set))
    /\ done' = Head.inst
    /\ next_inst' = Head.inst + 1
    /\ phase' = "commit"
    /\ UNCHANGED <<slot, flush_pos, pipe_vars, fl_buffer, fl_w, fl_w0, fl_r0,
                   reg_data, reg_oldest, reg_age>>

\* A store that is not first in the cycle, that finds no room in the retired
\* store buffer, or that waits for the bus, ends the loop.
CommitStorePause ==
    /\ CanCommit
    /\ ~Head.exception /\ Head.unit = "sdu"
    /\ slot' = COMMIT_WIDTH
    /\ UNCHANGED <<phase, flush, flush_pos, pipe_vars, fl_vars, rat_vars, rob_vars,
                   cp_vars, reg_vars, path_vars, aborted>>

\* A load that executed before an older store to the same address, and has no
\* checkpoint, is fetched again with all that follows it: the free list goes
\* back to before its own allocation.
CommitConflict ==
    /\ CanCommit
    /\ ~Head.exception /\ Head.unit = "lu" /\ ~Head.bp_cp_valid
    /\ UNCHANGED <<rrat_valid, rrat_table>>
    /\ FlushAll
    /\ fl_restore(Head.old_fl_r, free_list_set)
    /\ aborted' = (aborted \/ ~fl_restore_verified(Head.old_fl_r, fl_w, free_list_set))
    /\ next_inst' = Head.inst
    /\ UNCHANGED <<phase, slot, flush_pos, pipe_vars, fl_buffer, fl_w, fl_w0, fl_r0,
                   reg_data, reg_oldest, reg_age, done, traps>>

\* Faulty variant: the retirement table is not updated.
RetireMapForgotten == UNCHANGED <<rrat_valid, rrat_table>>

\* The head retires: its mapping becomes architectural, the register it
\* replaces goes back to the free list.
RetireMap ==
    IF Head.rd = 0
    THEN UNCHANGED <<rrat_valid, rrat_table>>
    ELSE /\ rrat_valid' = set_map_valid(rrat_valid, rrat_table, Head.rd, Head.new_phy)
         /\ rrat_table' = set_map_table(rrat_table, Head.rd, Head.new_phy)

\* The free list after the push: write position and shadow set.
retired_w == IF Head.rd = 0 THEN fl_w ELSE RingNext(fl_w, PHY_REG_NUM)
retired_set == IF Head.rd = 0 THEN free_list_set ELSE free_list_set \cup {Head.old_phy}

RetireVerified ==
    Head.rd # 0 =>
        /\ set_map_verified(rrat_valid, rrat_table, Head.rd, Head.new_phy)
        /\ fl_push_verified(free_list_set, Head.old_phy)
        /\ ~RingFull(fl_w, fl_r0, PHY_REG_NUM)
        /\ RingCount(retired_w, fl_r, PHY_REG_NUM) = Cardinality(retired_set)

RetirePush ==
    /\ fl_buffer' = IF Head.rd = 0 THEN fl_buffer ELSE fl_push_buffer(fl_w, Head.old_phy)
    /\ fl_w' = retired_w
    /\ reg_oldest' = IF Head.rd = 0 THEN reg_oldest
                     ELSE reg_oldest \cup {Head.old_phy, Head.new_phy}
    /\ reg_data' = IF Head.rd = 0 THEN reg_data ELSE [reg_data EXCEPT ![Head.old_phy] = 0]
    /\ reg_age' = IF Head.rd = 0 THEN reg_age
                  ELSE [reg_age EXCEPT ![Head.old_phy] = 0, ![Head.new_phy] = 0]
    /\ UNCHANGED <<fl_w0, fl_r0>>

\* A mispredicted branch that had no checkpoint retires and flushes.
CommitMispredict ==
    /\ CanCommit
    /\ ~Head.exception /\ Head.unit = "bru" /\ Head.missed /\ ~Head.bp_cp_valid
    /\ RetireMap /\ RetirePush
    /\ FlushAll
    /\ fl_restore(Head.new_fl_r, retired_set)
    /\ aborted' = (aborted \/ ~RetireVerified
                           \/ ~fl_restore_verified(Head.new_fl_r, retired_w, retired_set))
    /\ done' = Head.inst
    /\ next_inst' = Head.inst + 1
    /\ UNCHANGED <<phase, slot, flush_pos, pipe_vars, traps>>

\* Everything else just retires; a branch ends the loop, and an instruction
\* that owns a checkpoint takes the oldest one out of the checkpoint buffer.
CommitRetire ==
    /\ CanCommit
    /\ ~Head.exception
    /\ Head.unit = "sdu" => slot = 0
    /\ Head.unit = "bru" => ~Head.missed \/ Head.bp_cp_valid
    /\ RetireMap /\ RetirePush
    /\ free_list_set' = retired_set
    /\ reg_valid' = IF Head.rd = 0 THEN reg_valid ELSE reg_valid \ {Head.old_phy}
    /\ rob_r' = RingNext(rob_r, ROB_SIZE)
    /\ cp_r' = IF Head.bp_cp_valid /\ cp_r # cp_w
               THEN RingNext(cp_r, CHECKPOINT_BUFFER_SIZE) ELSE cp_r
    /\ slot' = IF Head.unit = "bru" THEN COMMIT_WIDTH ELSE slot + 1
    /\ aborted' = (aborted \/ ~RetireVerified)
    /\ done' = Head.inst
    /\ UNCHANGED <<phase, flush, flush_pos, pipe_vars, fl_r, srat_valid, srat_table,
                   rob, rob_w, rob_r0, cpb, cp_w, cp_r0, next_inst, wrong_path, traps>>

\* An interrupt is taken when the reorder buffer has drained: the front end is
\* flushed and resumes with the instruction it would have renamed next.
CommitInterrupt ==
    /\ phase = "commit" /\ slot = 0 /\ flush = "none" /\ rob_r = rob_w
    /\ flush' = "commit"
    /\ UNCHANGED <<phase, slot, flush_pos, pipe_vars, fl_vars, rat_vars, rob_vars,
                   cp_vars, reg_vars, path_vars, aborted>>

\* The end of commit::run: unless it flushed, the results on the ports are
\* entered into the reorder buffer, by index, whatever is there.
CommitFinish ==
    /\ phase = "commit"
    /\ flush = "commit" \/ slot = COMMIT_WIDTH \/ rob_r = rob_w \/ ~Head.finish
    /\ rob' = IF flush = "commit" THEN rob
              ELSE [i \in Slots(ROB_SIZE) |->
                      IF \E p \in port : RingSlot(p, ROB_SIZE) = i
                      THEN [rob[i] EXCEPT
                              !.finish = TRUE,
                              !.exception = \E p \in port_exception :
                                                RingSlot(p, ROB_SIZE) = i,
                              !.bp_cp_valid = rob[i].cp_valid /\
                                              CarriesCheckpoint(rob[i].unit)]
                      ELSE rob[i]]
    /\ phase' = "wb"
    /\ slot' = 0
    /\ UNCHANGED <<flush, flush_pos, pipe_vars, fl_vars, rat_vars, rob_w, rob_r, rob_r0,
                   cp_vars, reg_vars, path_vars, aborted>>

-----------------------------------------------------------------------------
(***************************************************************************)
(* wb::run: the results on the ports are written to the register file,     *)
(* except those younger than a mispredicted branch of this cycle.          *)
(***************************************************************************)
Written == {p \in port : /\ flush # "commit"
                         /\ flush = "bru" => ~RingYounger(p, flush_pos, ROB_SIZE)
                         /\ p \notin port_exception
                         /\ RobItem(p).rd # 0}

Wb == /\ phase = "wb"
      /\ LET writer(r) == CHOOSE p \in Written : RobItem(p).new_phy = r
             regs == {RobItem(p).new_phy : p \in Written}
         IN  /\ reg_valid' = reg_valid \cup regs
             /\ reg_oldest' = reg_oldest \ regs
             /\ reg_data' = [r \in Phys |-> IF r \in regs THEN RobItem(writer(r)).inst
                                            ELSE reg_data[r]]
             /\ reg_age' = [r \in Phys |-> IF r \in regs THEN writer(r) ELSE reg_age[r]]
      /\ phase' = "execute"
      /\ UNCHANGED <<slot, flush, flush_pos, pipe_vars, fl_vars, rat_vars, rob_vars,
                     cp_vars, path_vars, aborted>>

-----------------------------------------------------------------------------
(***************************************************************************)
(* The execution units.  A flush of commit empties them and cancels the    *)
(* request of the branch unit; a mispredicted branch drops what is younger *)
(* and restores the state of its checkpoint.                               *)
(***************************************************************************)
\* Faulty variant: a misprediction does not stop younger instructions.
ExecutedYounger == IF flush = "commit" THEN {} ELSE exec

Executed == CASE flush = "commit" -> {}
              [] flush = "bru" -> {p \in exec : ~RingYounger(p, flush_pos, ROB_SIZE)}
              [] OTHER -> exec

\* Which of them may report an exception (the bound counts the program's path).
MayTrap(p) == /\ RobItem(p).unit # "bru"
              /\ RobItem(p).rd # 0 => FaultRd
              /\ RobItem(p).inst # 0 => traps < MaxTrap

\* Faulty variant: results of younger instructions stay readable.
SquashedRegsNone == {}

\* phy_regfile->restore(rob_id): what was written by younger instructions is
\* invalid again.  (It reads current bits; those of a younger register are not
\* written in this cycle.)
SquashedRegs == {r \in reg_valid \ reg_oldest :
                    RingYounger(reg_age[r], flush_pos, ROB_SIZE)}

RestoreCheckpoint ==
    LET b == RobItem(flush_pos)
        cp == cpb[b.cp_id]
    IN  /\ srat_valid' = cp.valid
        /\ rob_w' = RingNext(flush_pos, ROB_SIZE)
        /\ reg_valid' = reg_valid \ SquashedRegs
        /\ reg_oldest' = reg_oldest \cup SquashedRegs
        /\ cp_w' = cp.new_cp_w
        /\ fl_restore(cp.new_fl_r, free_list_set)
        /\ aborted' = (aborted \/ ~fl_restore_verified(cp.new_fl_r, fl_w, free_list_set))
        /\ wrong_path' = (b.inst = 0)
        /\ next_inst' = IF b.inst = 0 THEN next_inst ELSE b.inst + 1

Execute ==
    /\ phase = "execute"
    /\ port' = Executed
    /\ exec' = {}
    /\ \E X \in SUBSET {p \in Executed : MayTrap(p)} :
         /\ Cardinality({p \in X : RobItem(p).inst # 0}) <= 1
         /\ port_exception' = X
         /\ traps' = traps + Cardinality({p \in X : RobItem(p).inst # 0})
    /\ IF flush = "bru"
       THEN RestoreCheckpoint
       ELSE UNCHANGED <<srat_valid, rob_w, reg_valid, reg_oldest, cp_w, fl_r,
                        free_list_set, aborted, wrong_path, next_inst>>
    /\ phase' = "rename"
    /\ UNCHANGED <<slot, flush, flush_pos, fl_buffer, fl_w, fl_w0, fl_r0, srat_table,
                   rrat_valid, rrat_table, rob, rob_r, rob_r0, cpb, cp_r, cp_r0,
                   reg_data, reg_age, done>>

-----------------------------------------------------------------------------
(***************************************************************************)
(* rename::run: one iteration of its loop per action.                      *)
(***************************************************************************)

\* The room rename tests for: it is the free list's producer view and the
\* reorder buffer's producer view.
CanRename == /\ phase = "rename" /\ flush = "none" /\ slot < RENAME_WIDTH
             /\ fl_w # fl_r0
             /\ ~RingFull(rob_w, rob_r0, ROB_SIZE)

\* The front of the decode queue: what it may be, and whether the program takes
\* another way than predicted after it.
\* (A branch fetched without a prediction takes no
\* checkpoint and stops fetch until it retires: it is like an "alu" here.)
Decoded == [unit : Units, rd : Arch \cup {0}, missed : BOOLEAN]
FrontOfDecode == {d \in Decoded : /\ d.missed => d.unit = "bru"
                                  /\ d.unit = "sdu" => d.rd = 0}

\* Faulty variant: the checkpoint buffer is not looked at.
TakesCheckpointAlways(unit) == unit \in {"bru", "lu"}

\* A predicted branch or a load takes a checkpoint if there is room for one.
TakesCheckpoint(unit) == /\ unit \in {"bru", "lu"}
                         /\ ~RingFull(cp_w, cp_r0, CHECKPOINT_BUFFER_SIZE)

RenameOne ==
    /\ CanRename
    /\ wrong_path \/ next_inst <= MaxInst
    /\ \E d \in FrontOfDecode :
         LET new_phy == IF d.rd = 0 THEN NoReg ELSE FlAt(0)
             old_phy == IF d.rd = 0 THEN NoReg ELSE get_phy_id(srat_valid, srat_table, d.rd)
             new_fl_r == IF d.rd = 0 THEN fl_r ELSE RingNext(fl_r, PHY_REG_NUM)
             valid == IF d.rd = 0 THEN srat_valid
                      ELSE set_map_valid(srat_valid, srat_table, d.rd, new_phy)
             cp == TakesCheckpoint(d.unit)
         IN
         /\ aborted' = (aborted \/ (d.rd # 0 /\
                          ~( /\ fl_r # fl_w0
                             /\ new_phy \in free_list_set
                             /\ set_map_verified(srat_valid, srat_table, d.rd, new_phy))))
         /\ fl_r' = new_fl_r
         /\ free_list_set' = free_list_set \ {new_phy}
         /\ srat_valid' = valid
         /\ srat_table' = IF d.rd = 0 THEN srat_table
                          ELSE set_map_table(srat_table, d.rd, new_phy)
         /\ rob' = [rob EXCEPT ![RingSlot(rob_w, ROB_SIZE)] =
                      [unit |-> d.unit, rd |-> d.rd, old_phy |-> old_phy,
                       new_phy |-> new_phy, old_fl_r |-> fl_r, new_fl_r |-> new_fl_r,
                       cp_valid |-> cp,
                       cp_id |-> IF cp THEN RingSlot(cp_w, CHECKPOINT_BUFFER_SIZE) ELSE 0,
                       finish |-> FALSE, exception |-> FALSE, bp_cp_valid |-> FALSE,
                       missed |-> d.missed, inst |-> IF wrong_path THEN 0 ELSE next_inst]]
         /\ rob_w' = RingNext(rob_w, ROB_SIZE)
         /\ IF cp
            THEN /\ cpb' = [cpb EXCEPT ![RingSlot(cp_w, CHECKPOINT_BUFFER_SIZE)] =
                              [valid |-> valid, new_fl_r |-> new_fl_r,
                               new_cp_w |-> RingNext(cp_w, CHECKPOINT_BUFFER_SIZE)]]
                 /\ cp_w' = RingNext(cp_w, CHECKPOINT_BUFFER_SIZE)
            ELSE UNCHANGED <<cpb, cp_w>>
         /\ wrong_path' = (wrong_path \/ d.missed)
    /\ next_inst' = IF wrong_path THEN next_inst ELSE next_inst + 1
    /\ slot' = slot + 1
    /\ UNCHANGED <<phase, flush, flush_pos, pipe_vars, fl_buffer, fl_w, fl_w0, fl_r0,
                   rrat_valid, rrat_table, rob_r, rob_r0, cp_r, cp_r0, reg_vars,
                   done, traps>>

\* Rename stops: the decode queue is empty, dispatch stalls, an interrupt waits,
\* there is no room, or the cycle had a flush.  dff_base::sync_all() follows.
Sync ==
    /\ phase = "rename"
    /\ fl_w0' = fl_w /\ fl_r0' = fl_r
    /\ rob_r0' = rob_r /\ cp_r0' = cp_r
    /\ flush' = "none" /\ flush_pos' = 0
    /\ slot' = 0
    /\ phase' = "bru"
    /\ UNCHANGED <<pipe_vars, fl_buffer, fl_w, fl_r, free_list_set, rat_vars, rob, rob_w,
                   rob_r, cpb, cp_w, cp_r, reg_vars, path_vars, aborted>>

Commit == \/ CommitTrap \/ CommitStorePause \/ CommitConflict \/ CommitMispredict
          \/ CommitRetire \/ CommitInterrupt \/ CommitFinish

Next == BruFeedback \/ Commit \/ Wb \/ Execute \/ RenameOne \/ Sync

Spec == Init /\ [][Next]_vars

-----------------------------------------------------------------------------
(***************************************************************************)
(* Properties.                                                             *)
(***************************************************************************)

Items == [unit : Units \cup {"alu"}, rd : Arch \cup {0}, old_phy : Phys \cup {NoReg},
          new_phy : Phys \cup {NoReg}, old_fl_r : Positions(PHY_REG_NUM),
          new_fl_r : Positions(PHY_REG_NUM), cp_valid : BOOLEAN,
          cp_id : Slots(CHECKPOINT_BUFFER_SIZE), finish : BOOLEAN,
          exception : BOOLEAN, bp_cp_valid : BOOLEAN, missed : BOOLEAN, inst : Nat]

\* Type invariant.
TypeOK ==
    /\ phase \in {"bru", "commit", "wb", "execute", "rename"}
    /\ slot \in Nat
    /\ flush \in {"none", "bru", "commit"}
    /\ flush_pos \in Positions(ROB_SIZE)
    /\ exec \subseteq Positions(ROB_SIZE)
    /\ port \subseteq Positions(ROB_SIZE) /\ port_exception \subseteq port
    /\ fl_buffer \in [Slots(PHY_REG_NUM) -> Phys]
    /\ {fl_w, fl_w0, fl_r, fl_r0} \subseteq Positions(PHY_REG_NUM)
    /\ free_list_set \subseteq Phys
    /\ srat_valid \subseteq Phys /\ srat_table \in [Phys -> Arch \cup {0}]
    /\ rrat_valid \subseteq Phys /\ rrat_table \in [Phys -> Arch \cup {0}]
    /\ rob \in [Slots(ROB_SIZE) -> Items]
    /\ {rob_w, rob_r, rob_r0} \subseteq Positions(ROB_SIZE)
    /\ cpb \in [Slots(CHECKPOINT_BUFFER_SIZE) ->
                  [valid : SUBSET Phys, new_fl_r : Positions(PHY_REG_NUM),
                   new_cp_w : Positions(CHECKPOINT_BUFFER_SIZE)]]
    /\ {cp_w, cp_r, cp_r0} \subseteq Positions(CHECKPOINT_BUFFER_SIZE)
    /\ reg_valid \subseteq Phys /\ reg_oldest \subseteq Phys
    /\ reg_data \in [Phys -> Nat] /\ reg_age \in [Phys -> Positions(ROB_SIZE)]
    /\ {next_inst, done, traps} \subseteq Nat
    /\ wrong_path \in BOOLEAN /\ aborted \in BOOLEAN

\* No verify() of rename, free_list, rat or commit ever fails, so the simulator
\* never aborts: the pop after the emptiness test of rename succeeds, a register
\* is never freed twice nor handed out while mapped, the shadow set agrees with
\* the queue after every push, pop and restore.
NoAbort == ~aborted

\* The mapping of architectural register a after the k oldest instructions in
\* the reorder buffer: the youngest writer among them, or the retired one.
MapAfter(k, a) ==
    LET writers == {n \in 0..(k - 1) : RobItem(RobAt(n)).rd = a}
        youngest == CHOOSE n \in writers : \A m \in writers : m <= n
    IN  IF writers = {} THEN Mapped(rrat_valid, rrat_table, a)
        ELSE {RobItem(RobAt(youngest)).new_phy}

\* At the end of every cycle the speculative table is the retired table
\* followed by the instructions in the reorder buffer, in their order; each
\* register has one mapping.  Recovery, by checkpoint or by flush, may not leave
\* a trace of the instructions it removed.
SpeculativeMapExact ==
    phase = "bru" => \A a \in Arch :
        /\ Mapped(srat_valid, srat_table, a) = MapAfter(RobCount, a)
        /\ Cardinality(Mapped(rrat_valid, rrat_table, a)) = 1

\* As long as a branch can still be found mispredicted its checkpoint is in the
\* buffer and, read with the table of today, is the mapping right after the
\* branch; the read position it saved is the one in the reorder buffer.
CheckpointExact ==
    phase \in {"bru", "execute"} /\ flush # "commit" => \A k \in 0..(RobCount - 1) :
        LET b == RobItem(RobAt(k))
            cp == cpb[b.cp_id]
        IN  b.unit = "bru" /\ b.cp_valid /\ ~b.finish =>
              /\ \E n \in 0..(RingCount(cp_w, cp_r, CHECKPOINT_BUFFER_SIZE) - 1) :
                   /\ b.cp_id = RingSlot(RingAdd(cp_r, n, CHECKPOINT_BUFFER_SIZE),
                                         CHECKPOINT_BUFFER_SIZE)
                   /\ cp.new_cp_w = RingAdd(cp_r, n + 1, CHECKPOINT_BUFFER_SIZE)
              /\ \A a \in Arch : Mapped(cp.valid, srat_table, a) = MapAfter(k + 1, a)
              /\ cp.new_fl_r = b.new_fl_r

Free == {FlAt(k) : k \in 0..(FlCount - 1)}
InFlight == {RobItem(p).new_phy : p \in {q \in RobLive : RobItem(q).rd # 0}}

\* A physical register has one role at a time: free, holding an architectural
\* value, or the destination of one instruction in flight.
OneRole ==
    /\ Cardinality(Free) = FlCount
    /\ Free \cap (rrat_valid \cup InFlight) = {}
    /\ rrat_valid \cap InFlight = {}
    /\ \A p, q \in RobLive : RobItem(p).rd # 0 /\ RobItem(q).rd # 0 /\ p # q =>
           RobItem(p).new_phy # RobItem(q).new_phy

\* Every physical register has a role: none is ever lost.
NoneLost == phase = "bru" => Free \cup rrat_valid \cup InFlight = Phys

\* Between cycles a register is readable exactly when it holds an architectural
\* value or the result of an instruction in flight: a register that is free or
\* whose instruction has not executed is never taken for ready.
ReadableExact ==
    phase = "bru" =>
        reg_valid = rrat_valid \cup
            {RobItem(p).new_phy : p \in {q \in RobLive : /\ RobItem(q).rd # 0
                                                         /\ RobItem(q).finish
                                                         /\ ~RobItem(q).exception}}

\* A result on a port belongs to an instruction still in the reorder buffer and
\* not finished: commit enters it by index without looking.
ResultsLive == phase \in {"bru", "commit"} /\ flush # "commit" => 
    port \cup exec \subseteq {p \in RobLive : ~RobItem(p).finish}

\* The core looks like a machine that executes in order: instructions complete
\* in program order, none of a mispredicted path does, none is skipped or done
\* twice, and the retired registers hold the results of the right ones.
Architectural == INSTANCE InOrder WITH
    regs <- [a \in Arch |-> reg_data[get_phy_id(rrat_valid, rrat_table, a)]]
LooksInOrder == Architectural!Spec

\* Every checkpoint in the buffer belongs to an instruction in flight, so none is
\* kept for ever.  (Not so for the checkpoint of a load: CarriesCheckpoint.)
CheckpointsOwned ==
    phase = "bru" =>
        RingCount(cp_w, cp_r, CHECKPOINT_BUFFER_SIZE) =
            Cardinality({p \in RobLive : RobItem(p).cp_valid})
=============================================================================
