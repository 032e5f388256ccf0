--------------------------- MODULE MCRenameCommit ---------------------------
(***************************************************************************)
(* RenameCommit with interchangeable physical registers.  Two states are   *)
(* one to TLC when they differ only in slots no pointer reaches and in     *)
(* bits of registers that are not in use: no step and no property reads    *)
(* them before they are written again.                                     *)
(***************************************************************************)
EXTENDS RenameCommit, TLC

PhysSymmetry == Permutations(Phys)

\* The free list from the oldest read position that can be restored.
FlBase == IF RobCount > 0 THEN Head.old_fl_r ELSE fl_r
FlReach == [k \in 0..(RingCount(fl_w, FlBase, PHY_REG_NUM) - 1) |->
              fl_buffer[RingSlot(RingAdd(FlBase, k, PHY_REG_NUM), PHY_REG_NUM)]]

Reachable ==
    <<phase, slot, flush, flush_pos, exec, port, port_exception,
      FlReach, fl_w, fl_w0, fl_r, fl_r0, free_list_set,
      srat_valid, [p \in Phys \ Free |-> srat_table[p]],
      rrat_valid, [p \in rrat_valid |-> rrat_table[p]],
      [k \in 0..(RobCount - 1) |-> RobItem(RobAt(k))], rob_w, rob_r, rob_r0,
      [k \in {n \in 0..(RobCount - 1) : RobItem(RobAt(n)).cp_valid} |->
          cpb[RobItem(RobAt(k)).cp_id]], cp_w, cp_r, cp_r0,
      reg_valid, [p \in reg_valid |-> <<reg_data[p], p \in reg_oldest>>],
      [p \in reg_valid \ reg_oldest |-> reg_age[p]],
      path_vars, aborted>>
=============================================================================
