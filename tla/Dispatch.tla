------------------------------ MODULE Dispatch ------------------------------
(***************************************************************************)
(* The path of an instruction from rename to the issue queues: the stages  *)
(* rename, dispatch and the input side of integer_issue and lsu_issue, with *)
(* the packs they hold back when the next one is busy, and the two waits of *)
(* dispatch: for a csr, mret or fence to retire, and, after a fence, for    *)
(* the store buffer to be empty.                                           *)
(*                                                                         *)
(* An instruction is its position in the reorder buffer.  Execution is     *)
(* abstracted to: what is in an issue queue executes in some later cycle,  *)
(* and a predicted branch may then turn out mispredicted.  phase is the    *)
(* stage that cycle_model::run calls next.  A pack is a sequence without   *)
(* its disabled entries; the code's busy flags of held packs are "not      *)
(* empty".                                                                 *)
(***************************************************************************)
EXTENDS Naturals, Sequences, FiniteSets, Ring

CONSTANTS ROB_SIZE,
          DISPATCH_WIDTH,       \* also RENAME_WIDTH
          COMMIT_WIDTH,
          ISSUE_QUEUE_SIZE,     \* of each of the two issue queues
          Kinds                 \* the kinds of instructions of the program

ASSUME ConstAssumption ==
    /\ ROB_SIZE \in Nat \ {0, 1}
    /\ DISPATCH_WIDTH \in Nat \ {0}
    /\ COMMIT_WIDTH \in Nat \ {0}
    /\ ISSUE_QUEUE_SIZE \in Nat \ {0}
    /\ Kinds \subseteq {"int", "bru", "csr", "fence", "load", "store"}

VARIABLES
    phase, slot,
    rob, rob_w, rob_r, rob_r0,
    exec,               \* what executes in this cycle
    flush, flush_pos,   \* recovery of this cycle, the mispredicted branch
    committed,          \* commit_feedback_pack.committed_rob_id
    next_handle,        \* commit_feedback_pack.next_handle_rob_id, or NoPos
    rename_dispatch_port,
    rev_pack, busy,     \* the pack dispatch has taken and not sent
    hold_integer, hold_lsu,
    inst_waiting, stbuf_waiting,        \* positions, or NoPos
    stall,              \* dispatch_feedback_pack.stall
    integer_port, lsu_port,             \* dispatch_*_issue_port
    integer_rev, lsu_rev,               \* hold_rev_pack of the issue stages
    integer_stall, lsu_stall,           \* their feedback to dispatch
    integer_queue, lsu_queue,
    send_pack           \* the pack rename is building

rob_vars == <<rob, rob_w, rob_r, rob_r0>>
commit_vars == <<committed, next_handle>>
hold_vars == <<rev_pack, busy, hold_integer, hold_lsu, inst_waiting, stbuf_waiting,
               integer_port, lsu_port>>
dispatch_vars == <<hold_vars, stall>>
queue_vars == <<integer_rev, lsu_rev, integer_queue, lsu_queue>>
issue_vars == <<queue_vars, integer_stall, lsu_stall>>
rename_vars == <<rename_dispatch_port, send_pack>>
vars == <<phase, slot, rob_vars, exec, flush, flush_pos, commit_vars,
          dispatch_vars, issue_vars, rename_vars>>

NoPos == 2 * ROB_SIZE
Pos == Positions(ROB_SIZE)

Item(p) == rob[RingSlot(p, ROB_SIZE)]
Kind(p) == Item(p).kind
RobCount == RingCount(rob_w, rob_r, ROB_SIZE)
RobLive == {RingAdd(rob_r, k, ROB_SIZE) : k \in 0..(RobCount - 1)}
Younger(p, q) == RingYounger(p, q, ROB_SIZE)

IsLsu(p) == Kind(p) \in {"load", "store"}
IsInteger(p) == ~IsLsu(p)
IsFence(p) == Kind(p) = "fence"
Elements(s) == {s[i] : i \in DOMAIN s}

\* What a mispredicted branch of this cycle leaves alone.
Kept == {p \in Pos : flush = "bru" => ~Younger(p, flush_pos)}

\* The members of S in a pack, in their order.  (SelectSeq, in a form that can be
\* reasoned about.)
Filter(pack, S) ==
    LET F[i \in 0..Len(pack)] ==
          IF i = 0 THEN <<>>
          ELSE IF pack[i] \in S THEN Append(F[i - 1], pack[i]) ELSE F[i - 1]
    IN  F[Len(pack)]

Init ==
    /\ phase = "execute" /\ slot = 0
    /\ rob = [i \in 0..(ROB_SIZE - 1) |-> [kind |-> "int", finish |-> FALSE]]
    /\ rob_w = 0 /\ rob_r = 0 /\ rob_r0 = 0
    /\ exec = {} /\ flush = "none" /\ flush_pos = 0
    /\ committed = {} /\ next_handle = NoPos
    /\ rename_dispatch_port = <<>> /\ send_pack = <<>>
    /\ rev_pack = <<>> /\ busy = FALSE
    /\ hold_integer = <<>> /\ hold_lsu = <<>>
    /\ inst_waiting = NoPos /\ stbuf_waiting = NoPos
    /\ stall = FALSE
    /\ integer_port = <<>> /\ lsu_port = <<>>
    /\ integer_rev = <<>> /\ lsu_rev = <<>>
    /\ integer_stall = FALSE /\ lsu_stall = FALSE
    /\ integer_queue = {} /\ lsu_queue = {}

-----------------------------------------------------------------------------
(***************************************************************************)
(* Execution (external to this module).  At most one branch per cycle      *)
(* flushes.                                                                *)
(***************************************************************************)
Execute ==
    /\ phase = "execute"
    /\ exec' \in SUBSET (integer_queue \cup lsu_queue)
    /\ \/ UNCHANGED <<flush, flush_pos>>
       \/ \E p \in exec' : Kind(p) = "bru" /\ flush' = "bru" /\ flush_pos' = p
    /\ next_handle' = IF rob_r = rob_w THEN NoPos ELSE RingSlot(rob_r, ROB_SIZE)
    /\ phase' = "commit"
    /\ UNCHANGED <<slot, rob_vars, committed, dispatch_vars, issue_vars, rename_vars>>

-----------------------------------------------------------------------------
(***************************************************************************)
(* commit::run, one iteration of its loop per action, as far as dispatch   *)
(* sees it.  The head is reported as committed, and its successor as next, *)
(* before it is known whether the head retires.                            *)
(***************************************************************************)
CanCommit == /\ phase = "commit" /\ flush # "commit" /\ slot < COMMIT_WIDTH
             /\ rob_r # rob_w /\ Item(rob_r).finish

ReportHead ==
    /\ committed' = committed \cup {RingSlot(rob_r, ROB_SIZE)}
    /\ next_handle' = IF RobCount > 1
                      THEN RingSlot(RingNext(rob_r, ROB_SIZE), ROB_SIZE) ELSE NoPos

\* A store that is not first in the cycle, or waits for room or for the bus.
CommitPause ==
    /\ CanCommit /\ Kind(rob_r) = "store"
    /\ ReportHead
    /\ slot' = COMMIT_WIDTH
    /\ UNCHANGED <<phase, rob_vars, exec, flush, flush_pos, dispatch_vars, issue_vars,
                   rename_vars>>

\* The head retires (a store also leaves the store buffer); a branch is the
\* last one of the cycle.
CommitRetire ==
    /\ CanCommit
    /\ Kind(rob_r) = "store" => slot = 0
    /\ ReportHead
    /\ rob_r' = RingNext(rob_r, ROB_SIZE)
    /\ slot' = IF Kind(rob_r) = "bru" THEN COMMIT_WIDTH ELSE slot + 1
    /\ UNCHANGED <<phase, rob, rob_w, rob_r0, exec, flush, flush_pos, dispatch_vars,
                   issue_vars, rename_vars>>

\* An exception, a load that has to be repeated, a mispredicted branch without
\* a checkpoint.
CommitFlush ==
    /\ CanCommit
    /\ ReportHead
    /\ flush' = "commit"
    /\ UNCHANGED <<phase, slot, rob_vars, exec, flush_pos, dispatch_vars, issue_vars,
                   rename_vars>>

CommitFinish ==
    /\ phase = "commit"
    /\ flush = "commit" \/ slot = COMMIT_WIDTH \/ rob_r = rob_w \/ ~Item(rob_r).finish
    /\ phase' = "issue" /\ slot' = 0
    /\ UNCHANGED <<rob_vars, exec, flush, flush_pos, commit_vars, dispatch_vars,
                   issue_vars, rename_vars>>

-----------------------------------------------------------------------------
(***************************************************************************)
(* integer_issue and lsu_issue: what has executed leaves the queue, then   *)
(* run_input takes the pack it held back, or else the one on its port, and *)
(* holds back what finds no room.                                          *)
(***************************************************************************)
\* Faulty variant: the port is read before the pack held back.
ArrivingPortFirst(rev, port) == Filter(IF port # <<>> THEN port ELSE rev, Kept)
Arriving(rev, port) == Filter(IF rev # <<>> THEN rev ELSE port, Kept)
Remaining(queue) == (queue \ exec) \cap Kept

\* How many of a pack find room.
Entering(queue, pack) ==
    LET room == ISSUE_QUEUE_SIZE - Cardinality(Remaining(queue))
    IN  IF Len(pack) <= room THEN Len(pack) ELSE room

Entered(queue, pack) ==
    Remaining(queue) \cup {pack[i] : i \in 1..Entering(queue, pack)}
HeldBack(queue, pack) == SubSeq(pack, Entering(queue, pack) + 1, Len(pack))

Issue ==
    /\ phase = "issue"
    /\ integer_stall' = (integer_rev # <<>>)
    /\ lsu_stall' = (lsu_rev # <<>>)
    /\ IF flush = "commit"
       THEN /\ integer_queue' = {} /\ lsu_queue' = {}
            /\ integer_rev' = <<>> /\ lsu_rev' = <<>>
            /\ UNCHANGED rob
       ELSE LET ipack == Arriving(integer_rev, integer_port)
                lpack == Arriving(lsu_rev, lsu_port)
            IN  /\ integer_queue' = Entered(integer_queue, ipack)
                /\ integer_rev' = HeldBack(integer_queue, ipack)
                /\ lsu_queue' = Entered(lsu_queue, lpack)
                /\ lsu_rev' = HeldBack(lsu_queue, lpack)
                /\ rob' = [i \in DOMAIN rob |->
                             IF \E p \in exec \cap Kept : RingSlot(p, ROB_SIZE) = i
                             THEN [rob[i] EXCEPT !.finish = TRUE] ELSE rob[i]]
    /\ exec' = {}
    /\ phase' = "dispatch"
    /\ UNCHANGED <<slot, rob_w, rob_r, rob_r0, flush, flush_pos, commit_vars,
                   dispatch_vars, rename_vars>>

-----------------------------------------------------------------------------
(***************************************************************************)
(* dispatch::run: one action per branch of the code.                       *)
(***************************************************************************)

\* store_buffer->customer_is_empty(): it holds the stores renamed before this
\* cycle and not retired.
StoreBufferEmpty == \A p \in RobLive : Kind(p) # "store"

inst_waiting_ok == RingSlot(inst_waiting, ROB_SIZE) \in committed

\* Faulty variant: rename is not stopped while a pack is kept for later.
StallNotWhenBusy == \/ hold_integer # <<>> \/ hold_lsu # <<>>
                    \/ inst_waiting # NoPos /\ ~inst_waiting_ok
                    \/ stbuf_waiting # NoPos /\ ~StoreBufferEmpty

Stall == \/ hold_integer # <<>> \/ hold_lsu # <<>> \/ busy
         \/ inst_waiting # NoPos /\ ~inst_waiting_ok
         \/ stbuf_waiting # NoPos /\ ~StoreBufferEmpty

\* Held packs and ports after the filter of a mispredicted branch.  All that is
\* left here of the integer side came after the branch.
IntegerKept(pack) == IF flush = "bru" THEN <<>> ELSE pack
LsuKept(pack) == Filter(pack, Kept)

\* A port is written unless the issue stage behind it is busy.
SetInteger(pack) == integer_port' = IF integer_stall THEN IntegerKept(integer_port) ELSE pack
SetLsu(pack) == lsu_port' = IF lsu_stall THEN LsuKept(lsu_port) ELSE pack

\* Faulty variant: only the store buffer is waited for.
WaitOverStores == stbuf_waiting = NoPos \/ StoreBufferEmpty

WaitOver == /\ inst_waiting = NoPos \/ inst_waiting_ok
            /\ stbuf_waiting = NoPos \/ StoreBufferEmpty

Held == IntegerKept(hold_integer) # <<>> \/ LsuKept(hold_lsu) # <<>>

\* The pack to send: what is on the port unless the last one is still here.
\* After a misprediction it is dropped.
Pack == IF flush = "bru" THEN <<>> ELSE IF busy THEN rev_pack ELSE rename_dispatch_port
IntegerPart == Filter(Pack, {p \in Pos : IsInteger(p)})
LsuPart == Filter(Pack, {p \in Pos : IsLsu(p)})
FoundCsr == Pack # <<>> /\ Kind(Pack[1]) = "csr"
Fences == {i \in DOMAIN Pack : IsFence(Pack[i])}
LastFence == Pack[CHOOSE i \in Fences : \A j \in Fences : j <= i]

\* Faulty variant: a csr goes as soon as there is room.
CsrReadyEarly == ~integer_stall

\* A csr or mret goes when it is what commit handles next and there is room; a
\* pack with a fence goes as a whole or not at all.
CsrReady == ~integer_stall /\ next_handle = RingSlot(Pack[1], ROB_SIZE)
FenceBlocked == /\ Fences # {}
                /\ \/ IntegerPart # <<>> /\ integer_stall
                   \/ LsuPart # <<>> /\ lsu_stall

CanDispatch == phase = "dispatch" /\ flush # "commit"
AfterDispatch ==
    /\ stall' = Stall
    /\ phase' = "rename"
    /\ UNCHANGED <<slot, rob_vars, exec, flush, flush_pos, commit_vars, issue_vars,
                   rename_vars>>

DispatchFlush ==
    /\ phase = "dispatch" /\ flush = "commit"
    /\ integer_port' = <<>> /\ lsu_port' = <<>>
    /\ hold_integer' = <<>> /\ hold_lsu' = <<>>
    /\ rev_pack' = <<>> /\ busy' = FALSE
    /\ inst_waiting' = NoPos /\ stbuf_waiting' = NoPos
    /\ AfterDispatch

DispatchHeld ==
    /\ CanDispatch /\ WaitOver /\ Held
    /\ SetInteger(IntegerKept(hold_integer))
    /\ SetLsu(LsuKept(hold_lsu))
    /\ hold_integer' = IF integer_stall THEN IntegerKept(hold_integer) ELSE <<>>
    /\ hold_lsu' = IF lsu_stall THEN LsuKept(hold_lsu) ELSE <<>>
    /\ inst_waiting' = NoPos /\ stbuf_waiting' = NoPos
    /\ UNCHANGED <<rev_pack, busy>>
    /\ AfterDispatch

DispatchCsr ==
    /\ CanDispatch /\ WaitOver /\ ~Held
    /\ FoundCsr /\ CsrReady
    /\ SetInteger(<<Pack[1]>>) /\ SetLsu(<<>>)
    /\ inst_waiting' = Pack[1] /\ stbuf_waiting' = NoPos
    /\ busy' = FALSE /\ rev_pack' = <<>>
    /\ hold_integer' = <<>> /\ hold_lsu' = <<>>
    /\ AfterDispatch

DispatchLater ==
    /\ CanDispatch /\ WaitOver /\ ~Held
    /\ IF FoundCsr THEN ~CsrReady ELSE FenceBlocked
    /\ SetInteger(<<>>) /\ SetLsu(<<>>)
    /\ busy' = TRUE /\ rev_pack' = Pack
    /\ inst_waiting' = NoPos /\ stbuf_waiting' = NoPos
    /\ hold_integer' = <<>> /\ hold_lsu' = <<>>
    /\ AfterDispatch

DispatchPack ==
    /\ CanDispatch /\ WaitOver /\ ~Held
    /\ ~FoundCsr /\ ~FenceBlocked
    /\ inst_waiting' = IF Fences # {} THEN LastFence ELSE NoPos
    /\ stbuf_waiting' = IF Fences # {} THEN LastFence ELSE NoPos
    /\ SetInteger(IntegerPart) /\ SetLsu(LsuPart)
    /\ hold_integer' = IF integer_stall THEN IntegerPart ELSE <<>>
    /\ hold_lsu' = IF lsu_stall THEN LsuPart ELSE <<>>
    /\ busy' = FALSE /\ rev_pack' = <<>>
    /\ AfterDispatch

\* Faulty variant: a misprediction does not end a wait.
SquashedNever(w) == FALSE

\* Waiting; a misprediction older than the cause of the wait ends it.
Squashed(w) == flush = "bru" /\ Younger(w, flush_pos)
InstWaitEnds == inst_waiting = NoPos \/ inst_waiting_ok \/ Squashed(inst_waiting)

DispatchWait ==
    /\ CanDispatch /\ ~WaitOver
    /\ SetInteger(<<>>) /\ SetLsu(<<>>)
    /\ inst_waiting' = IF InstWaitEnds THEN NoPos ELSE inst_waiting
    /\ stbuf_waiting' = IF /\ stbuf_waiting # NoPos /\ InstWaitEnds
                           /\ StoreBufferEmpty \/ Squashed(stbuf_waiting)
                        THEN NoPos ELSE stbuf_waiting
    /\ hold_integer' = IntegerKept(hold_integer)
    /\ hold_lsu' = LsuKept(hold_lsu)
    /\ UNCHANGED <<rev_pack, busy>>
    /\ AfterDispatch

-----------------------------------------------------------------------------
(***************************************************************************)
(* rename::run, as far as the shape of packs goes; one iteration of its    *)
(* loop per action.                                                        *)
(***************************************************************************)
FoundFence == \E i \in DOMAIN send_pack : IsFence(send_pack[i])

\* A csr or mret is alone in its pack; no load or store follows a fence.
FitsPack(kind) == /\ kind = "csr" => slot = 0
                  /\ kind \in {"load", "store"} => ~FoundFence

RenameOne(kind) ==
    /\ phase = "rename" /\ flush = "none" /\ ~stall
    /\ slot < DISPATCH_WIDTH
    /\ ~RingFull(rob_w, rob_r0, ROB_SIZE)
    /\ FitsPack(kind)
    /\ rob' = [rob EXCEPT ![RingSlot(rob_w, ROB_SIZE)] = [kind |-> kind, finish |-> FALSE]]
    /\ rob_w' = RingNext(rob_w, ROB_SIZE)
    /\ send_pack' = Append(send_pack, rob_w)
    /\ slot' = IF kind = "csr" THEN DISPATCH_WIDTH ELSE slot + 1
    /\ UNCHANGED <<phase, rob_r, rob_r0, exec, flush, flush_pos, commit_vars,
                   dispatch_vars, issue_vars, rename_dispatch_port>>

\* Rename ends: nothing decoded, no room, an interrupt waits, a stall or a
\* flush.  The end of the cycle makes the recovery of the reorder buffer, and
\* with it of the store buffer, visible.  The feedback between stages is made
\* anew in each cycle.
Sync ==
    /\ phase = "rename"
    /\ rename_dispatch_port' = IF flush # "none" THEN <<>>
                               ELSE IF stall THEN rename_dispatch_port ELSE send_pack
    /\ send_pack' = <<>>
    /\ rob_w' = CASE flush = "commit" -> 0
                  [] flush = "bru" -> RingNext(flush_pos, ROB_SIZE)
                  [] OTHER -> rob_w
    /\ rob_r' = IF flush = "commit" THEN 0 ELSE rob_r
    /\ rob_r0' = rob_r'
    /\ flush' = "none" /\ flush_pos' = 0
    /\ committed' = {} /\ next_handle' = NoPos
    /\ stall' = FALSE /\ integer_stall' = FALSE /\ lsu_stall' = FALSE
    /\ slot' = 0
    /\ phase' = "execute"
    /\ UNCHANGED <<rob, exec, hold_vars, queue_vars>>

Commit == CommitPause \/ CommitRetire \/ CommitFlush \/ CommitFinish
DispatchRun == \/ DispatchFlush \/ DispatchHeld \/ DispatchCsr \/ DispatchLater
               \/ DispatchPack \/ DispatchWait
Rename == (\E kind \in Kinds : RenameOne(kind)) \/ Sync

Next == Execute \/ Commit \/ Issue \/ DispatchRun \/ Rename

\* The oldest instruction in the issue queues has all its operands and is
\* selected sooner or later.
ExecuteOldest ==
    LET queued == integer_queue \cup lsu_queue
    IN  /\ queued # {}
        /\ Execute
        /\ (CHOOSE p \in queued : \A q \in queued : ~Younger(p, q)) \in exec'

\* cycle_model::run is called in a loop; a store at the head finds room or its
\* acknowledge sooner or later, since the bus always answers.
Fairness == /\ WF_vars(Next)
            /\ SF_vars(ExecuteOldest)
            /\ SF_vars(CommitRetire)

Spec == Init /\ [][Next]_vars
FairSpec == Spec /\ Fairness

-----------------------------------------------------------------------------
(***************************************************************************)
(* Properties.                                                             *)
(***************************************************************************)
\* The places an instruction passes, those of the integer side and those of the
\* load/store side from the youngest to the oldest.
BeforeDispatch == <<rename_dispatch_port, rev_pack>>
IntegerPath == <<hold_integer, integer_port, integer_rev>>
LsuPath == <<hold_lsu, lsu_port, lsu_rev>>
Queued == integer_queue \cup lsu_queue

\* How often p occurs in a sequence of packs.
Copies(packs, p) ==
    Cardinality({x \in (DOMAIN packs) \X (1..DISPATCH_WIDTH) :
                    x[2] \in DOMAIN packs[x[1]] /\ packs[x[1]][x[2]] = p})

\* Between cycles every instruction of the reorder buffer that has not executed
\* is in exactly one place between rename and the issue queues, and no place
\* holds anything else: whatever stalls and recoveries fall together, no pack
\* is lost, sent twice, or survives the misprediction that removed it.
PlacedOnce ==
    phase = "execute" => \A p \in Pos :
        Copies(BeforeDispatch \o IntegerPath \o LsuPath, p)
          + (IF p \in Queued THEN 1 ELSE 0)
        = (IF p \in RobLive /\ ~Item(p).finish THEN 1 ELSE 0)

\* Program order is kept on each side: what is behind in the path is younger
\* than what is in front of it and than all that has reached the queue.  The
\* recovery of a misprediction relies on it: it clears the integer side before
\* the queue without comparing ages.
PathOrdered(path, queue) ==
    LET line == path[3] \o path[2] \o path[1]
    IN  \A i \in DOMAIN line :
            /\ \A j \in DOMAIN line : i < j => Younger(line[j], line[i])
            /\ \A q \in queue : Younger(line[i], q)
DispatchOrder ==
    phase = "execute" => /\ PathOrdered(IntegerPath, integer_queue)
                         /\ PathOrdered(LsuPath, lsu_queue)

Dispatched(p) == p \in RobLive /\ Copies(BeforeDispatch, p) = 0

\* A branch that was executed lies behind fence f in the same pack, with room for
\* a further fence behind it.
BranchBehind(f, b) == /\ Kind(b) = "bru" /\ Item(b).finish
                      /\ Younger(b, f) /\ RingCount(b, f, ROB_SIZE) + 2 <= DISPATCH_WIDTH

\* No load or store younger than a fence leaves dispatch before the fence has
\* retired, and with it every older store has left the store buffer.  Dispatch
\* waits for the last fence of a pack only.  If a misprediction removes that one,
\* what follows the branch no longer waits for an earlier fence of the pack.
FenceBarrier ==
    phase = "execute" => \A f, p \in RobLive :
        IsFence(f) /\ IsLsu(p) /\ Younger(p, f) /\ Dispatched(p) =>
            \E b \in RobLive : BranchBehind(f, b) /\ Younger(p, b)

\* A csr or mret instruction leaves dispatch only when every older instruction
\* has executed, and while it is in flight nothing younger leaves dispatch.
CsrIsolated ==
    phase = "execute" => \A c, p \in RobLive :
        Kind(c) = "csr" /\ Dispatched(c) /\ p # c =>
            IF Younger(p, c) THEN ~Dispatched(p) ELSE Item(p).finish

\* The wait of the dispatch_fence run: a store that was renamed behind the fence is
\* in the store buffer, and dispatch waits for the buffer to be empty.
FenceStuck == stbuf_waiting # NoPos /\ \E p \in RobLive :
                 Kind(p) = "store" /\ Younger(p, stbuf_waiting)

\* The head of the reorder buffer always retires or is flushed: no combination of
\* held packs, stalls and waits stops the core, but for that one.
HeadRetires == []<>(rob_r = rob_w \/ rob_r # rob_r0 \/ flush = "commit" \/ FenceStuck)

\* Dispatch takes the next pack, or is flushed.
Opens == phase = "dispatch" /\ (WaitOver \/ flush = "commit")

\* A wait of dispatch for a csr, mret or fence ends, but for that one.
WaitEnds == []<>(Opens \/ FenceStuck)

\* docs/pipeline_behavior.md: after a fence dispatch waits until the fence has
\* completed and the store buffer is empty, and then sends the next pack.
FencePassed == []<>Opens
=============================================================================
