---------------------------- MODULE MCFrontEnd ----------------------------
(* Instances of FrontEnd for TLC: programs of a few instructions. *)
EXTENDS FrontEnd

FromZero(s) == [p \in 0..(Len(s) - 1) |-> s[p + 1]]

\* A conditional branch over a store to a fence.i; two branches, the first over a
\* plain instruction to the second; an indirect jump.  Instruction 3, an mret, is
\* the trap handler; 4 is misaligned, and reached by a jump or from 3.
FenceProgram == FromZero(<<"branch", "store", "fence_i", "mret", "plain">>)
BranchProgram == FromZero(<<"branch", "plain", "branch", "mret", "plain">>)
JumpProgram == FromZero(<<"jalr", "plain", "plain", "mret", "plain">>)
MCPrograms == {FenceProgram, BranchProgram, JumpProgram}

MCTarget == [p \in Pcs |-> 2]
=============================================================================
