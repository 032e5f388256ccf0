------------------------------ MODULE FrontEnd ------------------------------
(***************************************************************************)
(* fetch1, fetch2 and decode, from the fetch pc to decode_rename_fifo, and *)
(* the redirects that compete for the pc: of commit, of the branch unit    *)
(* and of the second level of prediction in fetch2.  phase is the stage    *)
(* cycle_model::run calls next.                                            *)
(*                                                                         *)
(* An instruction is its pc, its kind, the pc the predictors gave for its  *)
(* successor, whether it was read fresh, and, open before rename, its      *)
(* outcome and whether it has a checkpoint.  Which prediction they give is *)
(* left open, as is how many instructions rename takes and when an         *)
(* instruction is finished.  The two fifos are sequences; their producer   *)
(* does not see before the end of the cycle what their customer took       *)
(* (Fifo): see f2d_popped, d2r_popped.                                     *)
(***************************************************************************)
EXTENDS Naturals, Sequences

CONSTANTS FETCH_WIDTH, DECODE_WIDTH, RENAME_WIDTH, COMMIT_WIDTH,
          FETCH2_DECODE_FIFO_SIZE, DECODE_RENAME_FIFO_SIZE, ROB_SIZE,
          RETIRED_STORE_BUFFER_SIZE,
          PC_NUM,       \* pcs are 0..PC_NUM - 1, in units of an instruction
          NoPc,
          Programs,     \* the programs that may be in memory
          Target,       \* target of the conditional branch at a pc
          Misaligned,   \* pcs memory does not answer
          TrapPc        \* CSR_MTVEC

Pcs == 0 .. (PC_NUM - 1)
Kinds == {"plain", "store", "branch", "jalr", "mret", "fence_i"}

ASSUME ConstAssumption ==
    /\ {FETCH_WIDTH, DECODE_WIDTH, RENAME_WIDTH, COMMIT_WIDTH} \subseteq Nat \ {0}
    /\ {FETCH2_DECODE_FIFO_SIZE, DECODE_RENAME_FIFO_SIZE, ROB_SIZE} \subseteq Nat \ {0}
    /\ RETIRED_STORE_BUFFER_SIZE \in Nat \ {0}
    /\ PC_NUM \in Nat \ {0} /\ NoPc \notin Pcs
    /\ Programs \subseteq [Pcs -> Kinds] /\ Target \in [Pcs -> Pcs]
    /\ Misaligned \subseteq Pcs /\ TrapPc \in Pcs

VARIABLES
    phase,
    code,       \* the program
    pc, jump_wait,      \* fetch1
    value,      \* instruction_value of the bus: "none" (not valid), "fresh", or
                \* "stale" if an older store had not reached memory at the read
    port,       \* fetch1_fetch2_port
    busy, rev_pack,     \* fetch2
    f2d, f2d_popped,    \* fetch2_decode_fifo
    d2r, d2r_popped,    \* decode_rename_fifo
    rob, slot,  \* reorder buffer, iteration of commit's loop
    rsb, ack,   \* retired stores, and the front's write: "none", "wait", "ack"
    fb,         \* the feedback packs of this cycle
    arch_pc     \* the pc of the instruction the program executes next

fetch_vars == <<pc, jump_wait, value, port>>
queue_vars == <<busy, rev_pack, f2d, f2d_popped, d2r, d2r_popped>>
back_vars == <<rob, slot, rsb, ack, arch_pc>>
vars == <<phase, code, fetch_vars, queue_vars, back_vars, fb>>

\* flush: who flushes, "none", "commit" or "bru"; to: the pc it asks for.  at,
\* actual: the branch the branch unit holds and its outcome.  jump_to: jump_next_pc
\* of an mret.  pushed: a store has retired.  redirect: new_pc of fetch2.
NoFeedback == [flush |-> "none", to |-> NoPc, at |-> 0, actual |-> NoPc, jump_to |-> NoPc,
               pushed |-> FALSE, redirect |-> NoPc, stall |-> FALSE,
               commit_idle |-> TRUE, rename_idle |-> TRUE, decode_idle |-> TRUE,
               fetch2_idle |-> TRUE]

Init ==
    /\ phase = "bru"
    /\ code \in Programs
    /\ pc = 0 /\ jump_wait = FALSE /\ value = "none" /\ port = <<>>
    /\ busy = FALSE /\ rev_pack = <<>>
    /\ f2d = <<>> /\ f2d_popped = 0 /\ d2r = <<>> /\ d2r_popped = 0
    /\ rob = <<>> /\ slot = 0 /\ rsb = 0 /\ ack = "none"
    /\ fb = NoFeedback /\ arch_pc = 0

Inc(p) == (p + 1) % PC_NUM
IsJump(k) == k \in {"branch", "jalr"}

\* The successors an instruction may have.
Successors(p) == CASE code[p] = "branch" -> {Inc(p), Target[p]}
                   [] code[p] \in {"jalr", "mret"} -> Pcs
                   [] OTHER -> {Inc(p)}

\* What the predictors may say of it; an mret is not predicted.
Predictions(p) == IF code[p] = "mret" THEN {NoPc} ELSE Successors(p)

-----------------------------------------------------------------------------
(***************************************************************************)
(* bru::run, first pass: the outcome of a branch, and whether it flushes.  *)
(***************************************************************************)
Bru ==
    /\ phase = "bru"
    /\ \/ UNCHANGED fb
       \/ \E i \in DOMAIN rob :
            /\ rob[i].actual = NoPc /\ (IsJump(rob[i].kind) \/ rob[i].kind = "mret")
            /\ \E p \in Successors(rob[i].pc) :
                 fb' = [fb EXCEPT !.at = i, !.actual = p,
                                  !.flush = IF rob[i].cp /\ p # rob[i].next THEN "bru" ELSE @,
                                  !.to = IF rob[i].cp /\ p # rob[i].next THEN p ELSE @]
    /\ phase' = "interrupt"
    /\ UNCHANGED <<code, fetch_vars, queue_vars, back_vars>>

(***************************************************************************)
(* commit::run.  An interrupt is taken when the reorder buffer is empty:   *)
(* CSR_MEPC is the pc of the oldest decoded instruction.                   *)
(***************************************************************************)
\* Faulty variant: the flush of the branch unit is not cancelled.
CommitFlushBoth(target) ==
    /\ fb' = [fb EXCEPT !.flush = "commit", !.to = IF @ = NoPc THEN target ELSE @]
    /\ rob' = <<>>
    /\ phase' = "resolve" /\ slot' = 0
CommitFlush(target) ==
    /\ fb' = [fb EXCEPT !.flush = "commit", !.to = target]
    /\ rob' = <<>>
    /\ phase' = "resolve" /\ slot' = 0

Interrupt ==
    /\ phase = "interrupt" /\ rob = <<>> /\ d2r # <<>>
    /\ CommitFlush(TrapPc)
    /\ arch_pc' = TrapPc
    /\ UNCHANGED <<code, fetch_vars, queue_vars, rsb, ack>>

NoInterrupt ==
    /\ phase = "interrupt"
    /\ fb' = [fb EXCEPT !.commit_idle = rob = <<>>]
    /\ phase' = "commit"
    /\ UNCHANGED <<code, fetch_vars, queue_vars, back_vars>>

\* An unfinished instruction stays; the loop ends after a jump.
CanCommit == phase = "commit" /\ slot < COMMIT_WIDTH /\ rob # <<>>
Resolved == Head(rob).actual # NoPc

RetireHead(target) ==
    /\ rob' = Tail(rob)
    /\ arch_pc' = target
    /\ slot' = IF IsJump(Head(rob).kind) \/ Head(rob).kind = "mret" THEN COMMIT_WIDTH
               ELSE slot + 1
    /\ fb' = [fb EXCEPT !.at = IF @ > 0 THEN @ - 1 ELSE 0,
                        !.pushed = @ \/ Head(rob).kind = "store",
                        !.jump_to = IF Head(rob).kind = "mret" THEN target ELSE @]

CommitPlain ==
    /\ CanCommit /\ Head(rob).kind \in {"plain", "fence_i"}
    /\ RetireHead(Inc(Head(rob).pc))
    /\ UNCHANGED <<phase, code, fetch_vars, queue_vars, rsb, ack>>

CommitStore ==
    /\ CanCommit /\ Head(rob).kind = "store" /\ slot = 0
    /\ rsb < RETIRED_STORE_BUFFER_SIZE
    /\ RetireHead(Inc(Head(rob).pc))
    /\ rsb' = rsb + 1
    /\ UNCHANGED <<phase, code, fetch_vars, queue_vars, ack>>

\* An mret reports its target, and nobody has to flush: fetch1 waits for it.
CommitJump ==
    /\ CanCommit /\ Resolved
    /\ Head(rob).kind = "mret" \/ Head(rob).cp \/ Head(rob).actual = Head(rob).next
    /\ RetireHead(Head(rob).actual)
    /\ UNCHANGED <<phase, code, fetch_vars, queue_vars, rsb, ack>>

\* A mispredicted branch that has no checkpoint is repaired here.
CommitMispredicted ==
    /\ CanCommit /\ IsJump(Head(rob).kind) /\ Resolved
    /\ ~Head(rob).cp /\ Head(rob).actual # Head(rob).next
    /\ CommitFlush(Head(rob).actual)
    /\ arch_pc' = Head(rob).actual
    /\ UNCHANGED <<code, fetch_vars, queue_vars, rsb, ack>>

CommitTrap ==
    /\ CanCommit /\ ~IsJump(Head(rob).kind) /\ Head(rob).kind # "mret"
    /\ CommitFlush(TrapPc)
    /\ arch_pc' = TrapPc
    /\ UNCHANGED <<code, fetch_vars, queue_vars, rsb, ack>>

\* A load that read too early is fetched again.
CommitConflict ==
    /\ CanCommit /\ Head(rob).kind = "plain"
    /\ CommitFlush(Head(rob).pc)
    /\ UNCHANGED <<code, fetch_vars, queue_vars, rsb, ack, arch_pc>>

CommitEnd ==
    /\ phase = "commit"
    /\ phase' = "resolve" /\ slot' = 0
    /\ UNCHANGED <<code, fetch_vars, queue_vars, rob, rsb, ack, arch_pc, fb>>

(***************************************************************************)
(* bru::run, second pass: the result, and the rollback unless commit       *)
(* flushes (rob->update_wptr).                                             *)
(***************************************************************************)
BruResolve ==
    /\ phase = "resolve"
    /\ rob' = IF fb.flush = "commit" \/ fb.at = 0 THEN rob
              ELSE LET done == [rob EXCEPT ![fb.at].actual = fb.actual]
                   IN IF fb.flush = "bru" THEN SubSeq(done, 1, fb.at) ELSE done
    /\ phase' = "rename"
    /\ UNCHANGED <<code, fetch_vars, queue_vars, slot, rsb, ack, arch_pc, fb>>

(***************************************************************************)
(* rename::run (external): some of the decoded instructions enter the      *)
(* reorder buffer; a predicted one gets a checkpoint if there is room.     *)
(***************************************************************************)
Rename ==
    /\ phase = "rename"
    /\ fb' = [fb EXCEPT !.rename_idle = d2r = <<>>]
    /\ IF fb.flush # "none" THEN UNCHANGED <<rob, d2r, d2r_popped>>
       ELSE \E n \in 0..RENAME_WIDTH, cp \in BOOLEAN :
              /\ n <= Len(d2r) /\ Len(rob) + n <= ROB_SIZE
              /\ rob' = rob \o [i \in 1..n |->
                                   [d2r[i] EXCEPT !.cp = IsJump(d2r[i].kind) /\ cp]]
              /\ d2r' = SubSeq(d2r, n + 1, Len(d2r))
              /\ d2r_popped' = n
    /\ phase' = "decode"
    /\ UNCHANGED <<code, fetch_vars, busy, rev_pack, f2d, f2d_popped, slot, rsb, ack, arch_pc>>

-----------------------------------------------------------------------------
Min2(a, b) == IF a < b THEN a ELSE b

\* Room a producer sees in a fifo of the given size.
Free(size, q, popped) == size - Len(q) - popped

\* decode::run: every instruction is one uop.
Decode ==
    /\ phase = "decode"
    /\ fb' = [fb EXCEPT !.decode_idle = f2d = <<>>]
    /\ IF fb.flush # "none"
       THEN d2r' = <<>> /\ UNCHANGED <<f2d, f2d_popped>>
       ELSE LET n == Min2(DECODE_WIDTH,
                          Min2(Len(f2d), Free(DECODE_RENAME_FIFO_SIZE, d2r, d2r_popped)))
            IN /\ d2r' = d2r \o SubSeq(f2d, 1, n)
               /\ f2d' = SubSeq(f2d, n + 1, Len(f2d))
               /\ f2d_popped' = n
    /\ phase' = "fetch2"
    /\ UNCHANGED <<code, fetch_vars, busy, rev_pack, d2r_popped, back_vars>>

(***************************************************************************)
(* fetch2::run.  A pack taken from the port may meet another opinion of    *)
(* the second level on a conditional branch: what follows it is dropped    *)
(* and fetch1 redirected.  What does not fit the fifo is kept.             *)
(***************************************************************************)
Repredicted(i, pack) ==
    [k \in 1..i |-> IF k = i
                    THEN [pack[i] EXCEPT !.next =
                             CHOOSE p \in Predictions(pack[i].pc) : p # pack[i].next]
                    ELSE pack[k]]

\* The branches of the pack whose prediction the second level can change.
Changeable(pack) == {i \in DOMAIN pack : /\ pack[i].kind = "branch"
                                         /\ Target[pack[i].pc] # Inc(pack[i].pc)}

Push(pack, redirect) ==
    LET n == Min2(Len(pack), Free(FETCH2_DECODE_FIFO_SIZE, f2d, f2d_popped))
    IN /\ f2d' = f2d \o SubSeq(pack, 1, n)
       /\ busy' = (n < Len(pack))
       /\ rev_pack' = SubSeq(pack, n + 1, Len(pack))
       /\ fb' = [fb EXCEPT !.stall = busy, !.redirect = redirect, !.fetch2_idle = pack = <<>>]

Fetch2Flush ==
    /\ phase = "fetch2" /\ fb.flush # "none"
    /\ busy' = FALSE /\ rev_pack' = <<>> /\ f2d' = <<>>
    /\ fb' = [fb EXCEPT !.stall = busy]
    /\ phase' = "fetch1"
    /\ UNCHANGED <<code, fetch_vars, f2d_popped, d2r, d2r_popped, back_vars>>

Fetch2Busy ==
    /\ phase = "fetch2" /\ fb.flush = "none" /\ busy
    /\ Push(rev_pack, NoPc)
    /\ phase' = "fetch1"
    /\ UNCHANGED <<code, fetch_vars, f2d_popped, d2r, d2r_popped, back_vars>>

Fetch2Agree ==
    /\ phase = "fetch2" /\ fb.flush = "none" /\ ~busy
    /\ Push(port, NoPc)
    /\ phase' = "fetch1"
    /\ UNCHANGED <<code, fetch_vars, f2d_popped, d2r, d2r_popped, back_vars>>

Fetch2Redirect ==
    /\ phase = "fetch2" /\ fb.flush = "none" /\ ~busy
    /\ \E i \in Changeable(port) :
         Push(Repredicted(i, port), Repredicted(i, port)[i].next)
    /\ phase' = "fetch1"
    /\ UNCHANGED <<code, fetch_vars, f2d_popped, d2r, d2r_popped, back_vars>>

-----------------------------------------------------------------------------
(***************************************************************************)
(* fetch1::run.                                                            *)
(***************************************************************************)
\* A store among some instructions.
Outstanding(ops) == \E i \in DOMAIN ops : ops[i].kind = "store"

\* Faulty variant: the retired stores are forgotten.
FenceIgnoresRetired ==
    ~Outstanding(rob) /\ fb.fetch2_idle /\ fb.decode_idle /\ fb.rename_idle /\ fb.commit_idle
\* A fence.i is sent only when nothing else is in the machine.  The store buffer holds
\* the stores of the reorder buffer.
FenceMayGo == /\ fb.fetch2_idle /\ fb.decode_idle /\ fb.rename_idle /\ fb.commit_idle
              /\ ~Outstanding(rob) /\ rsb = 0

Ends(op) == \/ op.kind \in {"fence_i", "mret"}
            \/ IsJump(op.kind) /\ op.next # Inc(op.pc)

\* The k-th pc of the group.
GroupPc(k) == (pc + k - 1) % PC_NUM

\* The n instructions of a group with the predictions nx.
Ops(n, nx) == [k \in 1..n |-> [pc |-> GroupPc(k), kind |-> code[GroupPc(k)],
                               next |-> nx[k], fresh |-> value = "fresh",
                               actual |-> NoPc, cp |-> FALSE]]

\* The loop over the group stops before a fence.i that may not go, and after an
\* instruction that ends it.
IsGroup(g) ==
    /\ \A k \in DOMAIN g : g[k].kind = "fence_i" => k = 1 /\ FenceMayGo
    /\ \A k \in 1..(Len(g) - 1) : ~Ends(g[k])
    /\ \/ Len(g) = FETCH_WIDTH
       \/ Len(g) > 0 /\ Ends(g[Len(g)])
       \/ code[GroupPc(Len(g) + 1)] = "fence_i" /\ (Len(g) > 0 \/ ~FenceMayGo)

\* bus::read_instruction at the end of fetch1::run: the stores that are still to be
\* written are older than what is read.
ReadInstruction ==
    value' = IF pc' \in Misaligned THEN "none"
             ELSE IF \/ rsb > (IF ack = "ack" THEN 1 ELSE 0)
                     \/ Outstanding(rob) \/ Outstanding(d2r) \/ Outstanding(f2d)
                     \/ Outstanding(rev_pack) \/ Outstanding(port')
                  THEN "stale" ELSE "fresh"

\* Faulty variant: the wait goes on.
Fetch1RedirectedWaiting ==
    /\ phase = "fetch1" /\ (fb.flush # "none" \/ fb.redirect # NoPc)
    /\ pc' = IF fb.flush # "none" THEN fb.to ELSE fb.redirect
    /\ port' = <<>> /\ UNCHANGED jump_wait
    /\ ReadInstruction
    /\ phase' = "end"
    /\ UNCHANGED <<code, queue_vars, back_vars, fb>>
Fetch1Redirected ==
    /\ phase = "fetch1" /\ (fb.flush # "none" \/ fb.redirect # NoPc)
    /\ pc' = IF fb.flush # "none" THEN fb.to ELSE fb.redirect
    /\ jump_wait' = FALSE /\ port' = <<>>
    /\ ReadInstruction
    /\ phase' = "end"
    /\ UNCHANGED <<code, queue_vars, back_vars, fb>>

Fetch1Runs == phase = "fetch1" /\ fb.flush = "none" /\ fb.redirect = NoPc

\* Faulty variant: what commit reports is missed.
Fetch1WaitDeaf ==
    /\ Fetch1Runs /\ jump_wait
    /\ port' = IF fb.stall THEN port ELSE <<>>
    /\ UNCHANGED <<pc, jump_wait>>
    /\ ReadInstruction
    /\ phase' = "end"
    /\ UNCHANGED <<code, queue_vars, back_vars, fb>>
\* The port keeps its pack while fetch2 is stalled.
Fetch1Wait ==
    /\ Fetch1Runs /\ jump_wait
    /\ jump_wait' = (fb.jump_to = NoPc)
    /\ pc' = IF fb.jump_to = NoPc THEN pc ELSE fb.jump_to
    /\ port' = IF fb.stall THEN port ELSE <<>>
    /\ ReadInstruction
    /\ phase' = "end"
    /\ UNCHANGED <<code, queue_vars, back_vars, fb>>

\* Faulty variant: an empty pack is sent although fetch2 has not taken the last.
Fetch1IdleDrops ==
    /\ Fetch1Runs /\ ~jump_wait /\ (fb.stall \/ value = "none")
    /\ port' = <<>>
    /\ UNCHANGED <<pc, jump_wait>>
    /\ ReadInstruction
    /\ phase' = "end"
    /\ UNCHANGED <<code, queue_vars, back_vars, fb>>
Fetch1Idle ==
    /\ Fetch1Runs /\ ~jump_wait /\ (fb.stall \/ value = "none")
    /\ port' = IF fb.stall THEN port ELSE <<>>
    /\ UNCHANGED <<pc, jump_wait>>
    /\ ReadInstruction
    /\ phase' = "end"
    /\ UNCHANGED <<code, queue_vars, back_vars, fb>>

Fetch1Send ==
    /\ Fetch1Runs /\ ~jump_wait /\ ~fb.stall /\ value # "none"
    /\ \E n \in 0..FETCH_WIDTH : \E nx \in [1..n -> Pcs \cup {NoPc}] :
         /\ \A k \in 1..n : nx[k] \in Predictions(GroupPc(k))
         /\ IsGroup(Ops(n, nx))
         /\ port' = Ops(n, nx)
         /\ jump_wait' = (n > 0 /\ code[GroupPc(n)] = "mret")
         /\ pc' = IF n = 0 THEN pc ELSE IF nx[n] = NoPc THEN GroupPc(n + 1) ELSE nx[n]
    /\ ReadInstruction
    /\ phase' = "end"
    /\ UNCHANGED <<code, queue_vars, back_vars, fb>>

(***************************************************************************)
(* memory::run_post, retired_store_buffer::run and the clock edge.         *)
(***************************************************************************)
ClockEdge ==
    /\ phase = "end"
    /\ \/ ack = "wait" /\ ack' = "ack" /\ UNCHANGED rsb
       \/ ack = "wait" /\ UNCHANGED <<ack, rsb>>
       \/ /\ ack # "wait"
          /\ rsb' = IF ack = "ack" THEN rsb - 1 ELSE rsb
          /\ ack' = IF rsb' > (IF fb.pushed THEN 1 ELSE 0) THEN "wait" ELSE "none"
    /\ f2d_popped' = 0 /\ d2r_popped' = 0
    /\ fb' = NoFeedback
    /\ phase' = "bru"
    /\ UNCHANGED <<code, fetch_vars, busy, rev_pack, f2d, d2r, rob, slot, arch_pc>>

Next == \/ Bru \/ Interrupt \/ NoInterrupt
        \/ CommitPlain \/ CommitStore \/ CommitJump
        \/ CommitMispredicted \/ CommitTrap \/ CommitConflict \/ CommitEnd
        \/ BruResolve \/ Rename \/ Decode
        \/ Fetch2Flush \/ Fetch2Busy \/ Fetch2Agree \/ Fetch2Redirect
        \/ Fetch1Redirected \/ Fetch1Wait \/ Fetch1Idle \/ Fetch1Send
        \/ ClockEdge

Spec == Init /\ [][Next]_vars

-----------------------------------------------------------------------------
(***************************************************************************)
(* Properties.  They are about the state between two cycles.               *)
(***************************************************************************)
\* Everything fetched and not retired, oldest first.
Stream == rob \o d2r \o f2d \o rev_pack \o port
Newest == Stream[Len(Stream)]

\* The pc the machine goes on with after an instruction of the stream.
GoesOnAt(op) == IF op.cp /\ op.actual # NoPc THEN op.actual ELSE op.next

\* No instruction is lost, doubled or reordered between the fetch pc and the
\* reorder buffer, through stalls, kept packs and redirects of three sources: each
\* is the predicted successor of the one before it, and the fetch pc continues the
\* last.  Nothing behind would notice a gap: bru and commit compare an outcome
\* with the prediction, not with what was fetched next.
StreamUnbroken ==
    phase = "bru" =>
        /\ \A i \in 1..(Len(Stream) - 1) : GoesOnAt(Stream[i]) = Stream[i + 1].pc
        /\ (Stream # <<>> /\ ~jump_wait) => GoesOnAt(Newest) = pc

\* fetch1 waits only for an mret that is still to retire, and for every one.
WaitOwned ==
    phase = "bru" => (jump_wait <=> Stream # <<>> /\ Newest.kind = "mret")

\* The oldest instruction in the machine, or the next one fetched, is the one the
\* program executes next: no redirect is lost to another one, and an interrupt
\* (CSR_MEPC) returns to the right place.
OldestIsNext ==
    phase = "bru" => arch_pc = (IF Stream = <<>> THEN pc ELSE Stream[1].pc)

\* What follows a fence.i was read from memory after every older store had been
\* written to it.
FenceFresh ==
    phase = "bru" =>
        \A i \in 1..(Len(Stream) - 1) : Stream[i].kind = "fence_i" => Stream[i + 1].fresh

\* The clock ticks; instructions finish, rename takes them and memory answers.
Fairness ==
    /\ WF_vars(Next)
    /\ SF_vars(Bru /\ fb'.at = 1)
    /\ SF_vars(CommitPlain \/ CommitStore \/ CommitJump)
    /\ SF_vars(Rename /\ rob' # rob)
    /\ SF_vars(ClockEdge /\ ack' = "ack")

LiveSpec == Spec /\ Fairness

\* Fetching goes on: instructions keep coming to the reorder buffer, unless commit
\* keeps flushing.  A fence.i gets its turn, and the wait for an mret ends.  The one
\* exception is a pc to fetch from that memory does not answer (slave_base.h).
FetchProgress == []<>(rob # <<>> \/ fb.flush = "commit" \/ (pc \in Misaligned /\ ~jump_wait))
=============================================================================
