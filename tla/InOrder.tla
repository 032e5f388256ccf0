------------------------------- MODULE InOrder -------------------------------
(***************************************************************************)
(* The machine a program sees: instructions take effect one after the      *)
(* other, in program order, each of them at most once.  This is what       *)
(* isa_model computes and what the out-of-order core has to look like.     *)
(*                                                                         *)
(* Instructions are numbered along the path the program really takes.  The *)
(* value an instruction writes is its own number, so that a register says  *)
(* which instruction wrote it last.                                        *)
(***************************************************************************)
EXTENDS Naturals

CONSTANTS Arch          \* architectural registers other than x0

VARIABLES done,         \* number of the instruction completed last
          regs          \* regs[a]: the instruction whose result a holds

vars == <<done, regs>>

Init == done = 0 /\ regs = [a \in Arch |-> 0]

\* An instruction with destination a, one without, one that traps.
Write(a) == /\ done' = done + 1
            /\ regs' = [regs EXCEPT ![a] = done + 1]

NoWrite == /\ done' = done + 1
           /\ UNCHANGED regs

Next == (\E a \in Arch : Write(a)) \/ NoWrite

Spec == Init /\ [][Next]_vars
=============================================================================
