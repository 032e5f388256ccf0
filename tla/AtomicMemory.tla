---------------------------- MODULE AtomicMemory ----------------------------
(***************************************************************************)
(* The memory a program sees: loads and stores take effect one after the   *)
(* other, each at once.  last is the operation that took effect in this    *)
(* step of the program, if one did.                                        *)
(***************************************************************************)
CONSTANTS Bytes,        \* byte addresses
          Accesses,     \* the sets of bytes one instruction may access
          Vals,         \* values of a byte
          NoOp          \* no operation

VARIABLES memory, last

vars == <<memory, last>>

Init == memory \in [Bytes -> Vals] /\ last = NoOp

Load(acc) == /\ last' = [op |-> "load", acc |-> acc, val |-> [b \in acc |-> memory[b]]]
             /\ UNCHANGED memory

Store(acc, v) == /\ memory' = [b \in Bytes |-> IF b \in acc THEN v ELSE memory[b]]
                 /\ last' = [op |-> "store", acc |-> acc, val |-> [b \in acc |-> v]]

Idle == last' = NoOp /\ UNCHANGED memory

Next == \/ \E acc \in Accesses : Load(acc) \/ \E v \in Vals : Store(acc, v)
        \/ Idle

Spec == Init /\ [][Next]_vars
=============================================================================
