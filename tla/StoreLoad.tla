----------------------------- MODULE StoreLoad -----------------------------
(***************************************************************************)
(* Loads and stores between rename and memory: store buffer, load queue,   *)
(* retired store buffer, the load, store-address and store-data units, and *)
(* what commit does with memory instructions.  Loads run ahead of older    *)
(* stores whose address is not known yet; the store finds out later.       *)
(*                                                                         *)
(* window holds the memory instructions in the reorder buffer, oldest      *)
(* first: index order is age_compare (Fifo, Ring), and the store buffer    *)
(* and the load queue are its stores and its loads.  An address is the     *)
(* set of bytes it covers.  Which instruction issues when (operands, wait  *)
(* table, selection) is left open, as is the delay with which a result     *)
(* reaches the reorder buffer and memory answers.  phase is the stage      *)
(* cycle_model::run calls next.                                            *)
(***************************************************************************)
EXTENDS Naturals, Sequences, FiniteSets

CONSTANTS ROB_SIZE, LOAD_QUEUE_SIZE, STORE_BUFFER_SIZE,
          RETIRED_STORE_BUFFER_SIZE,
          COMMIT_WIDTH,
          Bytes,        \* byte addresses
          Accesses,     \* the sets of bytes one instruction may access
          Vals          \* values of a byte

ASSUME ConstAssumption ==
    /\ {ROB_SIZE, LOAD_QUEUE_SIZE, STORE_BUFFER_SIZE} \subseteq Nat \ {0}
    /\ RETIRED_STORE_BUFFER_SIZE \in Nat \ {0}
    /\ COMMIT_WIDTH \in Nat \ {0}
    /\ Accesses \subseteq (SUBSET Bytes) \ {{}}

VARIABLES
    phase,
    slot,       \* iteration of commit's loop
    flush,      \* commit or the branch unit has flushed in this cycle
    window,     \* memory instructions in the reorder buffer, oldest first
    leaving,    \* what commit popped in this cycle: still in the producers' views
    rsb,        \* retired_store_buffer
    ack,        \* its bus write: "none", "wait" (is_waiting_ack), "ack"
    mem,        \* memory.mem
    last        \* what the last iteration of commit retired

unit_vars == <<slot, flush, rsb, ack, mem, last>>
vars == <<phase, window, leaving, unit_vars>>

NoVal == <<>>
NoOp == [op |-> "none", acc |-> {}, val |-> NoVal]

(***************************************************************************)
(* An instruction.  at is the position of a load, or of the address part   *)
(* of a store; dat that of the data part of a store.  known is addr_valid  *)
(* of the load queue or store buffer item; a store's val is what its data  *)
(* part wrote, a load's what its last read put together.                   *)
(***************************************************************************)
New(op, acc) == [op |-> op, acc |-> acc, at |-> "wait",
                 dat |-> IF op = "store" THEN "wait" ELSE "none",
                 known |-> FALSE, conflict |-> FALSE, found |-> FALSE, val |-> NoVal]

Init ==
    /\ phase = "sau_feedback" /\ slot = 0 /\ flush = FALSE
    /\ window = <<>> /\ leaving = <<>>
    /\ rsb = <<>> /\ ack = "none"
    /\ mem \in [Bytes -> Vals]
    /\ last = NoOp

IsLoad(e) == e.op = "load"
IsStore(e) == e.op = "store"
HasData(e) == e.dat = "done"
Overlap(e, f) == e.acc \cap f.acc # {}
Finished(e) == e.at = "done" /\ (IsStore(e) => HasData(e))

\* The items of the load queue and of the store buffer among some instructions.
Loads(s) == {j \in DOMAIN s : IsLoad(s[j])}
Stores(s) == {j \in DOMAIN s : IsStore(s[j])}

\* The instruction a unit holds, if it holds one.
LoadAt(where) == {i \in DOMAIN window : IsLoad(window[i]) /\ window[i].at = where}
AddressPart == {i \in DOMAIN window : IsStore(window[i]) /\ window[i].at = "unit"}
DataPart == {i \in DOMAIN window : window[i].dat = "unit"}

-----------------------------------------------------------------------------
(***************************************************************************)
(* store_buffer::get_feedback_value, retired_store_buffer::                *)
(* get_feedback_value and their combination in lu::run.  older: what is    *)
(* older than the load, as the producer's view of the store buffer; loads  *)
(* in between have no data part.                                           *)
(***************************************************************************)
Older(i) == leaving \o SubSeq(window, 1, i - 1)

Blocked(older, e) ==
    \E j \in DOMAIN older : /\ IsStore(older[j]) /\ older[j].known
                            /\ ~HasData(older[j]) /\ Overlap(older[j], e)

Writers(s, b) == {j \in DOMAIN s : b \in s[j].acc}

Newest(s, js) == CHOOSE j \in js : \A k \in js : k <= j

\* Faulty variant: the retired stores win.
ReadByteRetiredWins(older, b) ==
    LET pending == {j \in Writers(older, b) : older[j].known /\ HasData(older[j])}
        retired == Writers(rsb, b)
    IN IF retired # {} THEN rsb[Newest(rsb, retired)].val[b]
       ELSE IF pending # {} THEN older[Newest(older, pending)].val[b] ELSE mem[b]
\* Byte b of a load whose older stores are given.
ReadByte(older, b) ==
    LET pending == {j \in Writers(older, b) : older[j].known /\ HasData(older[j])}
        retired == Writers(rsb, b)
    IN IF pending # {} THEN older[Newest(older, pending)].val[b]
       ELSE IF retired # {} THEN rsb[Newest(rsb, retired)].val[b] ELSE mem[b]

(***************************************************************************)
(* load_queue::get_conflict_item and write_conflict: of the younger loads  *)
(* that have read an overlapping address, the oldest is marked.            *)
(***************************************************************************)
Conflicting(w, i) == {j \in DOMAIN w : /\ j > i /\ IsLoad(w[j])
                                       /\ w[j].known /\ Overlap(w[j], w[i])}

MarkConflict(w, i) ==
    LET js == Conflicting(w, i)
    IN IF js = {} THEN w
       ELSE [w EXCEPT ![CHOOSE j \in js : \A k \in js : j <= k].conflict = TRUE]

\* What both passes of sau::run write for the store i.
AddressKnown(i) == MarkConflict([window EXCEPT ![i].known = TRUE], i)

(***************************************************************************)
(* sau::run, first pass of the cycle: it looks at the pack without popping *)
(* it, and does not know yet whether the store is on a mispredicted path.  *)
(***************************************************************************)
SauFeedback ==
    /\ phase = "sau_feedback"
    /\ window' = IF AddressPart = {} THEN window
                 ELSE AddressKnown(CHOOSE i \in AddressPart : TRUE)
    /\ phase' = "commit"
    /\ UNCHANGED <<leaving, unit_vars>>

-----------------------------------------------------------------------------
(***************************************************************************)
(* commit::run, one iteration of its loop per action.                      *)
(***************************************************************************)
CanCommit == /\ phase = "commit" /\ ~flush /\ slot < COMMIT_WIDTH
             /\ window # <<>> /\ Finished(Head(window))

RetireHead ==
    /\ last' = [op |-> Head(window).op, acc |-> Head(window).acc, val |-> Head(window).val]
    /\ leaving' = Append(leaving, Head(window))
    /\ window' = Tail(window)
    /\ slot' = slot + 1

CommitLoad ==
    /\ CanCommit /\ IsLoad(Head(window)) /\ ~Head(window).conflict
    /\ RetireHead
    /\ UNCHANGED <<phase, flush, rsb, ack, mem>>

\* The load read too early: it is fetched again, with all that follows.
CommitConflict ==
    /\ CanCommit /\ IsLoad(Head(window)) /\ Head(window).conflict
    /\ window' = <<>> /\ flush' = TRUE /\ last' = NoOp
    /\ UNCHANGED <<phase, slot, leaving, rsb, ack, mem>>

\* A store retires only as the first of a cycle, into the retired store buffer.
CommitStore ==
    /\ CanCommit /\ IsStore(Head(window)) /\ slot = 0
    /\ Len(rsb) < RETIRED_STORE_BUFFER_SIZE
    /\ RetireHead
    /\ rsb' = Append(rsb, [acc |-> Head(window).acc, val |-> Head(window).val])
    /\ UNCHANGED <<phase, flush, ack, mem>>

\* The loop ends: nothing is finished, the head is a store that has to wait, or
\* the result of the head has not arrived yet.
CommitEnd ==
    /\ phase = "commit"
    /\ phase' = "bru" /\ slot' = 0 /\ last' = NoOp
    /\ UNCHANGED <<flush, window, leaving, rsb, ack, mem>>

-----------------------------------------------------------------------------
(***************************************************************************)
(* Second pass of bru::run (external): a mispredicted branch anywhere in   *)
(* the window rolls the queues back behind it.                             *)
(***************************************************************************)
Bru ==
    /\ phase = "bru"
    /\ \/ UNCHANGED <<window, flush>>
       \/ /\ ~flush
          /\ \E n \in 0..(Len(window) - 1) : window' = SubSeq(window, 1, n)
          /\ flush' = TRUE
    /\ phase' = "lu"
    /\ UNCHANGED <<leaving, slot, rsb, ack, mem, last>>

(***************************************************************************)
(* lu::run.  Level 2: a load that met a store without data goes back to    *)
(* the issue queue; another one completes when the bus has its value, and  *)
(* until then level 1 stands still.  Level 1: the read, and the item of    *)
(* the load queue.  The bus value is that of memory at the request, so     *)
(* both levels of forwarding and the bus combine here.                     *)
(***************************************************************************)
Level2(w) == [i \in DOMAIN w |->
    IF i \notin LoadAt("l2") THEN w[i]
    ELSE IF w[i].found THEN [w[i] EXCEPT !.at = "wait", !.found = FALSE]
    ELSE [w[i] EXCEPT !.at = "done"]]

\* Faulty variant: a store without data does not hold the load back.
ReadThrough(i) ==
    LET e == window[i]
    IN [e EXCEPT !.at = "l2", !.known = TRUE, !.conflict = FALSE,
                 !.val = [b \in e.acc |-> ReadByte(Older(i), b)]]
Read(i) ==
    LET e == window[i]
        older == Older(i)
    IN [e EXCEPT !.at = "l2", !.known = TRUE, !.conflict = FALSE,
                 !.found = Blocked(older, e),
                 !.val = IF Blocked(older, e) THEN NoVal
                         ELSE [b \in e.acc |-> ReadByte(older, b)]]

Lu ==
    /\ phase = "lu"
    /\ \/ /\ \E i \in LoadAt("l2") : ~window[i].found
          /\ UNCHANGED window
       \/ window' = [i \in DOMAIN window |->
                        IF i \in LoadAt("lu") THEN Read(i) ELSE Level2(window)[i]]
    /\ phase' = "sau"
    /\ UNCHANGED <<leaving, unit_vars>>

\* sau::run, second pass: the pack is popped and the part is done.
Sau ==
    /\ phase = "sau"
    /\ window' = IF AddressPart = {} THEN window
                 ELSE LET i == CHOOSE i \in AddressPart : TRUE
                      IN [AddressKnown(i) EXCEPT ![i].at = "done"]
    /\ phase' = "sdu"
    /\ UNCHANGED <<leaving, unit_vars>>

\* sdu::run: the data, for the bytes the store covers.
Sdu ==
    /\ phase = "sdu"
    /\ IF DataPart = {} THEN UNCHANGED window
       ELSE LET i == CHOOSE i \in DataPart : TRUE
            IN \E v \in Vals :
                 window' = [window EXCEPT ![i].dat = "done",
                                          ![i].val = [b \in window[i].acc |-> v]]
    /\ phase' = "issue"
    /\ UNCHANGED <<leaving, unit_vars>>

-----------------------------------------------------------------------------
(***************************************************************************)
(* lsu_issue and lsu_readreg (external): a waiting load, address part or   *)
(* data part may go to its unit if the unit's flip-flop is free.           *)
(***************************************************************************)
Waiting(kind) ==
    {i \in DOMAIN window :
        CASE kind = "load" -> IsLoad(window[i]) /\ window[i].at = "wait" /\ LoadAt("lu") = {}
          [] kind = "sau" -> IsStore(window[i]) /\ window[i].at = "wait"
          [] OTHER -> window[i].dat = "wait"}

Issue ==
    /\ phase = "issue"
    /\ \E L \in SUBSET Waiting("load"), A \in SUBSET Waiting("sau"), D \in SUBSET Waiting("sdu") :
         /\ Cardinality(L) <= 1 /\ Cardinality(A) <= 1 /\ Cardinality(D) <= 1
         /\ window' = [i \in DOMAIN window |->
              [window[i] EXCEPT !.at = IF i \in L THEN "lu" ELSE IF i \in A THEN "unit" ELSE @,
                                !.dat = IF i \in D THEN "unit" ELSE @]]
    /\ phase' = "rename"
    /\ UNCHANGED <<leaving, unit_vars>>

(***************************************************************************)
(* rename::run pushes the items of the reorder buffer, the load queue and  *)
(* the store buffer, if the producer's view of each has room.              *)
(***************************************************************************)
HasRoom(op) ==
    LET live == leaving \o window
    IN /\ Len(live) < ROB_SIZE
       /\ IF op = "load" THEN Cardinality(Loads(live)) < LOAD_QUEUE_SIZE
          ELSE Cardinality(Stores(live)) < STORE_BUFFER_SIZE

Rename ==
    /\ phase = "rename"
    /\ \/ UNCHANGED window
       \/ /\ ~flush
          /\ \E op \in {"load", "store"}, acc \in Accesses :
                HasRoom(op) /\ window' = Append(window, New(op, acc))
    /\ phase' = "memory"
    /\ UNCHANGED <<leaving, unit_vars>>

(***************************************************************************)
(* memory::run_post, then retired_store_buffer::run, then the end of the   *)
(* cycle.  Memory applies a write and acknowledges it in one step; the     *)
(* buffer sees that a cycle later, pops the store and sends the next one.  *)
(***************************************************************************)
Written(s) == [b \in Bytes |-> IF b \in s.acc THEN s.val[b] ELSE mem[b]]

\* The front as the customer sees it: not what was pushed in this cycle.
HasFront(s) == Len(s) > Cardinality(Stores(leaving))

Memory ==
    /\ phase = "memory"
    /\ \/ /\ ack = "wait"
          /\ ack' = "ack" /\ mem' = Written(Head(rsb))
          /\ UNCHANGED rsb
       \/ /\ ack = "wait" /\ UNCHANGED <<ack, mem, rsb>>
       \/ /\ ack # "wait"
          /\ rsb' = IF ack = "ack" THEN Tail(rsb) ELSE rsb
          /\ ack' = IF HasFront(rsb') THEN "wait" ELSE "none"
          /\ UNCHANGED mem
    /\ phase' = "sau_feedback" /\ flush' = FALSE /\ leaving' = <<>>
    /\ UNCHANGED <<slot, window, last>>

Next == \/ SauFeedback
        \/ CommitLoad \/ CommitConflict \/ CommitStore \/ CommitEnd
        \/ Bru \/ Lu \/ Sau \/ Sdu \/ Issue \/ Rename \/ Memory

Spec == Init /\ [][Next]_vars

-----------------------------------------------------------------------------
(***************************************************************************)
(* Properties.                                                             *)
(***************************************************************************)

\* Memory as the retired stores leave it.
VisibleByte(b) == LET js == Writers(rsb, b)
                  IN IF js = {} THEN mem[b] ELSE rsb[Newest(rsb, js)].val[b]
VisibleMemory == [b \in Bytes |-> VisibleByte(b)]

\* What the loads and stores that retire do is what a memory does that performs
\* them at once and in program order: the contents are memory with the retired
\* stores over it, through every order of execution, forwarding from three
\* places, replay, conflict flush, rollback and write to memory.
Atomic == INSTANCE AtomicMemory WITH memory <- VisibleMemory
InOrderMemory == Atomic!Spec

\* Byte b as the program defines it for the instruction at i.
ProgramByte(i, b) ==
    LET js == {j \in Writers(window, b) : j < i /\ IsStore(window[j])}
    IN IF js = {} THEN VisibleByte(b) ELSE window[Newest(window, js)].val[b]

\* A load that has read too early is caught: once all older stores have executed, a
\* load that will not be replayed has the value the program defines, or it or an
\* older load is marked, so that commit will fetch it again (load_queue.h marks only
\* one load per store).
StaleLoadCaught ==
    \A i \in DOMAIN window :
        (/\ IsLoad(window[i]) /\ window[i].at \in {"l2", "done"} /\ ~window[i].found
         /\ \A j \in 1..(i - 1) : IsStore(window[j]) => Finished(window[j]))
        => \/ \A b \in window[i].acc : window[i].val[b] = ProgramByte(i, b)
           \/ \E j \in 1..i : window[j].conflict

\* A load retires with the bytes the retired stores left (main.cpp compares every
\* register with the isa_model after each retirement).
LoadsExact == last.op = "load" => \A b \in last.acc : last.val[b] = VisibleByte(b)
=============================================================================
