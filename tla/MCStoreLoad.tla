---------------------------- MODULE MCStoreLoad ----------------------------
(***************************************************************************)
(* StoreLoad with interchangeable byte values: no step looks at one.       *)
(***************************************************************************)
EXTENDS StoreLoad, TLC

ValSymmetry == Permutations(Vals)
=============================================================================
