------------------------------ MODULE MCWakeup ------------------------------
(***************************************************************************)
(* Programs for Wakeup: chains and joins of loads, with stores in between, *)
(* that let the load position vectors of several loads meet in one operand *)
(* or in one instruction.                                                  *)
(***************************************************************************)
EXTENDS Wakeup

I(kind, src1, src2) == [kind |-> kind, src1 |-> src1, src2 |-> src2]
Alu(a, b) == I("alu", a, b)
Load(a) == I("load", a, 0)
Store(a, d) == I("store", a, d)

MCPrograms ==
    { \* two loads that meet in one instruction, directly and through another
      <<Load(0), Load(0), Alu(1, 2), Alu(3, 2)>>,
      <<Load(0), Load(1), Alu(2, 1), Alu(3, 0)>>,
      <<Load(0), Load(0), Alu(2, 0), Alu(2, 3)>>,
      \* three loads in a row, dependent and independent
      <<Load(0), Load(1), Load(2), Alu(3, 1)>>,
      <<Load(0), Load(0), Load(0), Alu(3, 2)>>,
      \* a load that may meet a store without data and is replayed, and what reads it
      <<Load(0), Store(0, 1), Load(0), Load(3)>>,
      <<Load(0), Store(0, 1), Load(0), Alu(3, 1)>>,
      <<Alu(0, 0), Store(0, 1), Load(0), Store(3, 3)>>,
      \* a store whose address comes from a load, and a load behind it
      <<Load(0), Store(1, 0), Load(0), Alu(3, 1)>>,
      <<Alu(0, 0), Load(1), Store(1, 2), Load(2)>>,
      \* a load whose address depends on a load through arithmetic
      <<Load(0), Alu(1, 0), Load(2), Store(3, 2)>>,
      <<Load(0), Alu(1, 0), Alu(2, 0), Load(3)>> }
=============================================================================
