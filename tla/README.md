# DreamCoreV2: a TLA+ verification project

DreamCoreV2 (`src/model/model`) is a cycle-accurate simulator of an out-of-order,
superscalar RV32IM core. A cycle is one call of `cycle_model::run`, which calls the
pipeline stages from the back of the pipeline to the front in a fixed order; all state
that crosses a cycle is kept in flip-flops (`dff.h`) whose new values become current
when `dff_base::sync_all` ends the cycle. The program is single-threaded, but inside a
cycle a stage reads a mix of current and new values, and a mispredicted branch, a
retirement, a trap and the arrival of results may all fall into the same cycle. That
is where this kind of code goes wrong, and what the modules here are about.

## The system

| part | state | operations | correct when |
|---|---|---|---|
| `fifo.h`, `dff.h`, `age_compare.h` | slots, read/write pointer with a stage bit, each as current/new | push, pop, flush, update_wptr, sync | a bounded queue with a one-cycle delay both ways; age, count and validity can be read off index and stage bit |
| `free_list.h`, `rat.h`, `checkpoint.h`, `rob.h`, `regfile.h` | free physical registers, speculative and retirement map, saved maps, instructions in flight, validity and age of registers | save/restore, set_map, load, checkpoint, restore by age | one role per register, one mapping per architectural register, exact recovery |
| `rename.cpp` | none of its own | allocate registers, reorder buffer entry, checkpoint | never takes what is not there; packs of a legal shape |
| `execute/bru.cpp` | none of its own | report a misprediction (first pass), restore a checkpoint (second pass) | nothing of the wrong path is left, nothing older is hurt |
| `wb.cpp` | none of its own | write results | only live results are written |
| `commit.cpp` | `is_waiting_ack` | retire, trap, conflict flush, misprediction flush, interrupt, enter results | the core looks in-order |
| `dispatch.cpp` | kept pack, two held packs, two waits | split a pack, hold, wait, filter | nothing lost, doubled, reordered; fence and csr are barriers; never stuck |
| `integer_issue.cpp`, `lsu_issue.cpp` | queue, held pack, wakeup state | select, wake up, replay, enter | as above; no instruction issues with operands that do not come |
| `readreg`, execution units | handshake registers | read operands with bypass, compute | the right operands |
| `lu`, `sau`, `sdu`, `load_queue.h`, `store_buffer.h`, `retired_store_buffer.h`, `wait_table.h` | loads, stores and retired stores in flight | forward, detect a conflict, drain | loads see the youngest older store |
| `fetch1/2`, `decode`, `ras.h`, predictors | pc, fetch and decode queues, prediction tables | fetch, redirect, decode, predict | the program's path is fetched after every redirect |
| `bus.h`, slaves, `clint.h`, `interrupt_interface.h`, `csrfile.h` | requests, memory, timers, csr registers | arbitrate, answer, interrupt | every request answered once |
| `isa_model`, `main`, `network`, controller | reference machine, command loop | step, compare, debug | – |

Stages interact through ports (flip-flops between neighbours), through the shared
structures of rows 1 and 2, and through feedback packs passed as arguments within the
cycle (stall, flush, ids of retired instructions). `PROJECT.json` lists the hazards of
this code, line by line, with the properties that cover each, or the reason why none does: where the code does go wrong and the
run leaves the case out (`dispatch.cpp` 217 and 417, `clint.h` 109, `slave_base.h` 274, see the deviations below) no property is named.

## Modules

| module | models |
|---|---|
| `Ring` | an index with its stage bit as one number below 2n (`fifo.h`, `age_compare.h`) |
| `TwoPhaseQueue` | what a clocked fifo promises (abstract) |
| `Fifo` | `fifo.h` over `dff.h`, pointer by pointer; implements `TwoPhaseQueue` |
| `FifoProofs` | theorems about `Fifo` |
| `InOrder` | the machine a program sees (abstract) |
| `RenameCommit` | rename, bru, wb, commit over free list, tables, reorder buffer, checkpoints, register file; implements `InOrder` |
| `RenameCommitProofs` | theorems about `RenameCommit`: registers, tables, checkpoints, and on top of those register file, path of the program, refinement of `InOrder` |
| `MCRenameCommit` | symmetry and view for TLC |
| `Dispatch` | rename's packs, dispatch, input side of the issue stages, the part of commit that dispatch sees |
| `DispatchProofs` | theorems about `Dispatch` |
| `Wakeup` | both issue queues from selection to wakeup, both readreg stages, stall and replay of the load unit |
| `WakeupProofs` | theorems about `Wakeup` |
| `MCWakeup` | the programs for TLC |
| `AtomicMemory` | the memory a program sees (abstract) |
| `StoreLoad` | store buffer, load queue, retired store buffer, lu, sau, sdu, memory and commit of memory instructions; implements `AtomicMemory` |
| `StoreLoadProofs` | theorems about `StoreLoad`: stale loads, refinement of `AtomicMemory` |
| `MCStoreLoad` | symmetry for TLC |
| `LoadBus` | lu's requests and revocations against `bus.h`, memory and clint |
| `LoadBusProofs` | theorems about `LoadBus` |
| `StoreBus` | commit and the retired store buffer as writers on both buses |
| `StoreBusProofs` | theorems about `StoreBus` |
| `FrontEnd` | fetch1, fetch2, decode and every redirect of the pc |
| `MCFrontEnd` | the programs for TLC |
| `FrontEndProofs` | theorems about `FrontEnd` |

Each module has its own window onto the pipeline and leaves what the others model open:
`StoreLoad` lets any ready memory instruction issue (`Wakeup` restricts that), `Wakeup` lets the
load unit stall when it likes (`LoadBus` says when), `FrontEnd` lets an instruction finish
when it likes (`RenameCommit`, `Dispatch`). What holds under the open choice holds
under the narrower one; liveness states as fairness what the neighbour provides. In
every module `phase` is the stage that `cycle_model::run` calls next.

**Fifo.** `cur` and `new` are the two values of the pointers `wptr`, `wstage`, `rptr`,
`rstage`; every view is a write pointer from one and a read pointer from the other
(producer: new/current, customer: current/new). `closed` says that the fifo was
flushed or rolled back in this cycle: the stages do not use it again before the next,
because rename, the only producer, runs last and does nothing after a flush. A `Push`
or `Pop` that the code refuses is a step that changes nothing.

**RenameCommit.** The phases are `BruFeedback` (first pass of the branch unit: what
executes in this cycle is chosen, a mispredicted branch with a checkpoint asks for a flush), the
commit loop, one action per iteration and outcome (`CommitTrap`, `CommitStorePause`,
`CommitConflict`, `CommitMispredict`, `CommitRetire`, `CommitInterrupt`,
`CommitFinish`), `Wb`, `Execute` (execution units, second pass of the branch unit),
`RenameOne` per instruction, and `Sync`. Pointers are positions of `Ring`; a suffix 0
marks a current value where a view mixes the two. Issue and operand read are
abstracted to: an instruction in the reorder buffer may execute in any cycle. A value
is the number of the instruction that computed it on the program's path (0 for the
wrong path). Every `verify()` of the code that the module meets sets `aborted`
when it fails.

**Dispatch.** An instruction is its position in the reorder buffer and a pack a sequence of
them. Each branch of `dispatch::run` is an action: `DispatchFlush`, `DispatchHeld`,
`DispatchCsr`, `DispatchLater` (kept for the next cycle), `DispatchPack`,
`DispatchWait`. Disabling entries of a pack, for a misprediction or to split it by side, is `Filter`; `Kept` is what a
misprediction of this cycle leaves alone. `Issue` is `run_input` of both issue stages; selection, operand read and
execution are the external action `Execute`. The recovery flag of the store address unit is
left out: `sau.cpp` (line 158) raises it only for a load whose queue entry has a checkpoint, the
entry takes that bit from the branch information of the lsu pack (`lu.cpp`, line 377), and dispatch never
fills that in, so the flag is never raised.

**Wakeup.** Instructions are numbered and name the instructions they read from. A queue entry
has, per source, a ready bit, a delay (`shift`) and the load position vector, here the set
of the distances of the loads it hopes for (bit 2^k of the code is element k). `Proceed`,
`Stall` and `Flush` are the execution units and `lu` in a cycle that goes on, in one that
stalls, and in one with a flush; `Readreg` is both readreg stages (operands from the units of this cycle, from
write back, or from the register file; the pack that `lsu_readreg` holds when the
handshake register is full); `Output` selects, oldest first per port; `IssueCycle` is
`run_wakeup` and `run_input` of both queues. Whether a level-2 load meets a store without data,
which makes it replay, is open whenever a store is older, has its address (that of this cycle included: the first pass of `sau` runs
before `lu`) and lacks its data. Abstracted: only
units of latency one, at most one new instruction per queue and cycle, a free choice of port.
After a flush the cancelled instructions come again.

**StoreLoad.** `window` is the memory instructions in the reorder buffer by age; the store buffer and the load
queue are its stores and its loads. `SauFeedback`, the commit loop (`CommitLoad`, `CommitConflict`,
`CommitStore`, `CommitEnd`), `Bru` (rollback), `Lu`, `Sau`, `Sdu`, `Issue`, `Rename`,
`Memory` follow the order of the cycle: `leaving` is what commit popped in this cycle and other
stages still see. A read (`ReadByte`) is put together byte by byte from the youngest
older store in the store buffer, the retired store buffer and memory.

**LoadBus, StoreBus.** Answers on a bus are one flip-flop each for value or acknowledgement: they are there for
one cycle and carry no name. In the models the answer carries the tag of its request as history that no
guard reads, so that properties can say whose it was. Memory answers in order
after any delay, where the code has a fixed latency; so no result depends on the configured
latency. `LoadBus` leaves out no outcome of `lu::run`: level 2 delivers, stalls, replays or is
squashed, and in the last two cases revokes its request, which makes the bus drop an answer later.

**FrontEnd.** An instruction is its pc, its kind and the predicted pc of its successor; a
prediction is any possible successor. `Fetch1Redirected`, `Fetch1Wait`, `Fetch1Idle` and
`Fetch1Send` are the outcomes of `fetch1::run`, `Fetch2Flush`, `Fetch2Busy`, `Fetch2Agree`,
`Fetch2Redirect` those of `fetch2::run`; `Decode`, `Rename` and the commit actions move
instructions on. `fb` is the feedback packs of the cycle. `value` says whether
the instructions on the bus were read before or after the older stores reached memory.

## Runs

| run | result | states | bounds |
|---|---|---|---|
| `fifo` | pass | 1e4 | 3 slots, 2 elements: all wraps, full with either stage bit |
| `rename_commit` | pass | 1e6 | 5 physical, 2 architectural registers, reorder buffer 2, 2 checkpoints, 3 instructions on the path, 1 trap, all units |
| `rename_branches` | pass | 1e6 | reorder buffer 3, 2 checkpoints, 4 instructions: three branches in flight, one of them without a checkpoint |
| `dispatch` | pass, liveness | 4e5 | reorder buffer 3, packs of 2, issue queues of 1 (so that they are often busy), all kinds |
| `wakeup` | pass, liveness | 4e5 | 12 programs of 4 instructions, queues of 3, 2 integer ports |
| `store_load` | pass | 4e6 | 1 load and 2 stores in flight, accesses of one and two bytes, retired store buffer 1 |
| `load_bus` | pass, liveness | 1e4 | 4 tags, 3 reads in memory, every kind of address but a byte read of the clint |
| `store_bus` | pass, liveness | 2e4 | 4 stores of every kind, retired store buffer 2 |
| `front_end` | pass, liveness | 3e5 | 3 programs of 5 instructions, groups of 2, queues of 2 and 1, reorder buffer 2 |
| `rename_fault` | violation of `NoneLost` | | a faulting load loses its physical register |
| `dispatch_fence` | violation of `FencePassed` | | a store right behind a fence: dispatch waits for ever |
| `store_load_lost` | violation of `LoadsExact` | | 2 loads and 2 stores: a stale load retires |

The last three disagree with a document or an assertion; `findings` in `PROJECT.json` quotes both sides.
What the passing runs claim beside them:

* `fifo`: a clocked fifo is a bounded queue with a delay of one cycle both ways (`ImplementsQueue`);
  counts, validity of ids and `Ring`'s positions are exact.
* `rename_commit`, `rename_branches`: no `verify()` fails, the maps, readable registers and
  checkpoints are exact through every recovery, and the core looks in-order
  (`LooksInOrder`). `NoneLost` is only claimed without traps, `NoAbort` for as many traps as leave
  the free list long enough.
* `dispatch`: each instruction reaches one queue, once and in order; fence and csr are barriers
  (the exception in `FenceBarrier`, see below, needs packs of three, so it never applies in this run and the barrier is checked without it; with `DISPATCH_WIDTH` 3 and `ISSUE_QUEUE_SIZE` 2
  TLC reaches the exception and finds no other, but then no pack is ever held back (`hold_integer`, `hold_lsu`), so that is not the size of this run);
  the head retires and every wait ends, except the wait of `dispatch_fence`, which `FenceStuck` describes.
* `wakeup`: no unit gets an instruction whose operand has not come (`OperandsReady`), nothing is
  executed again once its result is there, nothing is dropped, everything is executed in the end. The last two hold for
  the programs of this run, not for all (`lsu_issue.cpp` 188 under the deviations).
* `store_load`: retired loads and stores are those of an atomic memory (`InOrderMemory`) and a
  load that read too early is marked (`StaleLoadCaught`) — with one load in flight; two are what
  `store_load_lost` needs.
* `load_bus`, `store_bus`: every answer is taken by whoever asked, revoked answers are dropped exactly,
  each store is written once and in order, loads and stores are answered.
* `front_end`: no instruction is lost or doubled between pc and reorder buffer, fetch1 waits only
  for an instruction that exists (`WaitOwned`), the oldest instruction is the program's next one,
  code behind a `fence.i` was read after the older stores reached memory, and fetching goes on.
  The one exception in `FetchProgress` is a misaligned pc (see below).

**Bounds.** `MaxInst` bounds the instructions on the program's path (wrong-path
instructions are unbounded) and `MaxTrap` the traps among them; pointers wrap many times within these bounds,
since flushes and rollbacks let instructions be renamed again. The smallest interesting
instance has more than one instruction in flight behind a branch, a second misprediction
under the first, a wrapped buffer and a full checkpoint buffer; the two rename runs
have all of these between them. `MaxReads`, `MaxStores` bound requests: a second revoked read
behind a first, and a device store between two buffered ones, need 3. The programs of `MCWakeup` let the vectors of two or
three loads meet in one operand or one instruction; with larger limits the safety
properties were also run on all programs of three instructions, and all four on five
programs of five instructions with several stores (both outside the list of runs, 6e5 and 7e5 states).

`PhysSymmetry` is sound: registers are only compared for equality, and the initial order
of the free list is any. `ValSymmetry` is sound: byte values are only copied. (Neither is used with
liveness.) `VIEW Reachable` leaves out slots outside
the pointers and bits of free registers; each such slot is written before it is
read, and no property looks at it.

**Fairness.** `cycle_model::run` is called in a loop, so every stage has its turn (`WF` of `Next`, or of
each stage). What a neighbour provides is strong fairness, because the condition comes and goes with the cycle:

* memory performs what it was sent, after a fixed number of cycles (`memory.h`): `SF` of
  `MemoryAnswers`, `MemoryWrites`, of the acknowledging `ClockEdge` in `FrontEnd`, and of `Proceed` in
  `Wakeup`, where a stall of the load unit is a wait for memory;
* the oldest instruction in the issue queues has all its operands and selection is by age, so it
  executes (`SF(ExecuteOldest)`; `Wakeup`'s `AllExecuted` is the detailed form of this);
* a finished store at the head may be turned away in many cycles, but the bus answers and the
  retired store buffer drains without help from the pipeline (`SF(CommitRetire)`, shown by
  `StoresFinish`); in `FrontEnd` finished instructions retire, the branch unit gets to
  the oldest branch, and rename takes what it can.

Nothing is assumed of programs: rename may have nothing to do for ever.

## Proofs

`FifoProofs` proves, for every `Size` of at least 1 and every `Data`, that `Spec` implies
`TypeOK`, `ViewsNested`, `AgeOrder`, `IdValidExact`, `UsedSpaceExact`, `VisibleSettled` and
`RingExact` always. The inductive invariant `IInv` is type correctness with `ViewsNested`:
that a view is ordered is not inductive by itself, because a pop moves the read pointer that the
producer's view will only see after the end of the cycle, so the distances of all four views have to be
related. Each action has its lemma; the facts about age, validity and used space are then
arithmetic consequences. `VisibleSettled` needs one fact more: a push writes a slot the
customer does not see (`PushFreshSlot`). `RingExact` carries the results over to `RenameCommit` and
`Dispatch`, whose pointers are the positions of `Ring`. Stage bits are the numbers 0 and 1 rather than
Booleans, which lets the solver handle them together with the arithmetic.

`LoadBusProofs` proves `TypeOK`, `OwnAnswer` and `RevokeExact` for every set of tags, any mixture of addresses and any number of
requests in memory. `RevokeExact` (the bus has to drop as many answers as memory
holds reads of loads that are gone, and the live one is the last) is almost inductive: it needs
`AnswerIsL2s`, that an answer on either bus belongs to the load level 2 holds and came on the bus that load
asked, and `BusQuiet`, that nobody has used the bus before `lu::run`.

`StoreBusProofs` proves `AckOwn`, `WrittenOnce` and `WriteOrder` for every size of the buffer, any number of stores and every
mixture. None of them is inductive. `IInv` says where a store can be: at the head of the reorder
buffer, and only the newest is (`HeadLast`), with its request sent or answered (`Device`); in the
retired store buffer, which holds with a store every later one (`Buffer`), and whose
front alone is on the bus, with memory, being answered, or answered (`Sender`); or done with, and
written as often as is due (`Done`). `WriteOrder` then follows: a later store that was written is
the front of the buffer or has left it, so an earlier one has left it.

`FifoProofs` also proves the refinement, `QueueCorrect`: `Spec` implies `ImplementsQueue`. The contents of the
abstract queue are the slots from the read to the write pointer; a push appends to them because it writes
none of them (`PushFreshSlot` again), a pop takes the first, a rollback cuts them, and the synchronisation makes the new
contents the current ones, which needs `VisibleSettled`.

`FrontEndProofs` proves `StreamUnbroken`, `WaitOwned`, `OldestIsNext` and `FenceFresh` for every width, every size of
the fifos, every program and every prediction. None of them is inductive, because in the middle of a cycle the feedback of
one stage contradicts the contents of another: a flush is known while the younger instructions are still
queued, a redirect is decided while `fetch1` still has the old pc. The invariant therefore speaks of `Live`, the
stream as it will be when the feedback of the cycle has taken effect: the reorder buffer with the outcome the branch
unit holds and cut at a misprediction (`LiveRob`), then, unless there is a flush, the fifos, the kept pack and the port in front of
it. `Sound` says that each instruction of `Live` follows the one before (`Chain`), that the first is what the program
executes next, and that `fetch1` goes on (`GoOn`, `Waits`) behind the last. With it come what makes
the feedback consistent (`FeedbackInv`, `BranchInv`, `ClearedInv`), what the idle flags, each set
by its own stage, say together (`IdleInv`: an mret is only resumed when nothing is in flight), and the room in the fifos
(`RoomInv`, which is the theorem `FifosFit`). Every action then leaves `Live` alone, appends to it, takes from its
head or cuts it; these are the lemmas about `Sound`.

`DispatchProofs` proves `PlacedOnce`, `DispatchOrder`, `FenceBarrier` and `CsrIsolated` for every size of the reorder buffer and
the issue queues, every width of packs and of commit, and every mixture of kinds. All four speak of the state between cycles; within
one, a port that was read still holds its old pack, commit has reported instructions that are still there, and a
misprediction is known while the wrong path is still queued. `IInv` therefore has, beside types, room (`RoomInv`) and the ring
(`RingInv`: what was retired in this cycle still takes its place):

* the packs that dispatch has not sent (`Front`, `FrontInv`: consecutive positions, of a legal shape, younger than all that was `Sent`) and the two
  lines of packs behind it (`LineInv`: each pack in order and behind the one before, of one kind only), with the ports left out once
  they have been read (`LiveFront`, `LivePort`);
* `CompleteInv`, that nothing unexecuted is elsewhere, except what the misprediction of this cycle removes, and `BruInv`,
  how far that removal has come at each stage. The integer side is emptied without comparing ages; the proof that nothing older than the branch
  is lost is that the branch has left the integer queue, so all that is in the line behind it is younger;
* the waits: what commit reports as retired (`CommittedInv`, with the store that waits at the head as the exception), that dispatch waits for
  something it has sent (`WaitInv`), and for each fence that was sent either that dispatch waits for it or for a later one of its pack
  (`WaitedFor`), or that a branch in its pack was mispredicted (`Uncovered`); for a csr, that it is alone (`CsrInv`).

Whether one position is younger than another does not depend on the state, so order survives every step that leaves two packs alone; the lemmas
`SpanOrder`, `SpanGrows`, `SpanShrinks`, `SpanCut` say when it is a total order and what retirement, renaming and recovery do to it. That
`Filter` keeps order and members (`FilterFacts`) needs induction over its recursive function; the proof uses the well-foundedness of
the natural numbers for a set of indices (`Least`, `Induction`), since the induction theorems of the library are out of the provers' reach.

`RenameCommitProofs` proves `TypeOK`, `OneRole`, `SpeculativeMapExact`, `CheckpointExact`, `ResultsLive`, `NoAbort` and `NoneLost` for
every number of registers, every size of reorder buffer and checkpoint buffer, all widths and every program. Instructions are named by their place in the reorder
buffer (`It(k)`, 0 for the oldest), so that retirement is a shift of all places, a recovery a cut behind a place and renaming an
extension; there are lemmas for what each of the three does to each part of `IInv` (`Shift...`, `Cut...`, `Grow...`):

* `PointerInv`: new and current read pointers are nested, which is what lets a view mix them; `ShapeInv`: what kinds of entries
  there are; `PipeInv`: what executes or is on a port is in the reorder buffer, at each stage with the finish bit it should have, until a flush has been asked for;
* `ChainInv`: the read positions saved by the instructions in flight are a chain through the free list, from that of the oldest up to the present one,
  one step for each destination. All restores (to before or behind an instruction, or to a checkpoint) go to a member of this chain, so they give back exactly the
  registers of what is removed;
* `FreeInv`: the registers from the oldest saved position to the write position are all different and none is architectural. Free registers
  alone would not do, since a restore brings back those before the read pointer;
* `Table`: the retired table maps one to one; `MapInv`: what an architectural register maps to after the `k` oldest (`Maps`), for every `k`, since any
  of them may become the present through a recovery; the physical-to-architectural table is never restored, so it has to be right for all of them at once;
* `CheckInv`: checkpoints lie in the order of their branches and hold the mapping behind theirs;
* `LossInv`: without lost registers, the free list and the retired table together are all of `Phys`, and the pushes of this cycle
  are no more than the retirements. This is what the verify() for a full list needs.

The theorems have the form `NoAbort => ...`, since a failed verify() ends the simulator. `NoAbort` and `NoneLost` assume `~FaultRd`,
no trap of an instruction with a destination: with one, both are false (`rename_fault`, and the first of the deviations below). That rename finds a
register whenever it has a place in the reorder buffer uses `PHY_REG_NUM >= 31 + ROB_SIZE`, in `ConstAssumption` as in `config.h`.

Its second part goes on from `IInv` to what the program sees. It proves `ReadableExact`, `CheckpointsOwned` and the refinement
`LooksInOrder` from a second inductive invariant `IInv2`, relative to the first:

* `RegInv`: the register of an instruction in flight is readable exactly if its result has been written (`Resulted`), and then holds
  that result and its age; all other readable registers are architectural ones, marked oldest. Results are entered into the reorder buffer one stage before the register
  file, and those younger than a branch mispredicted in this cycle are withheld (`Late`), so for two stages a finished instruction may have an unreadable register;
  restore(rob_id) of the register file then removes exactly the registers of what leaves the reorder buffer;
* `MissInv`: an executing branch that will recover is the one of the present request, and a finished one has reported its checkpoint to commit;
* `PathInv`: the oldest instruction is the one after `done`, and each one is followed by the next of the path, or by one off the path if it is off it itself
  or a misprediction not yet repaired (`OffPath`). The front of the decode queue counts as the last place (`InstAt`, `Front`), which relates
  `next_inst` and `wrong_path` to the reorder buffer also when it is empty;
* `OwnInv`: the number of checkpoints, and how deep that of each branch lies, is the number of holders (`HoldersTo`). It is stated for programs
  without loads, since a load does not give its checkpoint back (`CarriesCheckpoint`, and the deviations below), and so is `OwnedCorrect`.

The refinement maps `regs` to the register file read through the retired table, and `done` to itself. `CommitTrap`, `CommitMispredict` and
`CommitRetire` are steps of `InOrder`: by `PathInv` the head is the next instruction, by `RegInv` its register holds its result, and by the facts on `Table` the push of the register it replaces clears
no register that is still mapped. All other steps stutter; write back only reaches registers of instructions in flight, which are not architectural by `OneRole`.
`InOrderUntilAbort` is `Spec /\ []NoAbort => LooksInOrder`; `InOrderCorrect` is `Spec => LooksInOrder` under `~FaultRd`.

`StoreLoadProofs` proves `StaleLoadCaught`, `LoadsExact` and the refinement `InOrderMemory` for every size, every set of accesses, every
value and any number of loads in flight, in every behaviour without a `MarkLost`. A store that executes marks only the oldest of the younger loads that
have read its bytes; the mark stands for all loads behind it, since commit will fetch them again too. `MarkLost` is the state in which `lu::run` reads
a marked load a second time and thereby clears its mark (`write_conflict(..., false)`) while a younger load has a value: the counterexample of `store_load_lost`
goes through it, and the theorems (`StaleUntilLost`, `LoadsUntilLost`, `MemoryUntilLost`) say that there is no other way to retire a stale value. Since
`Spec` allows a behaviour to stop, they also cover every behaviour up to its first lost mark. Without that condition they are false as soon as there
are two loads, and nothing unconditional is claimed. `StaleLoadCaught` is not inductive, since it only speaks of loads whose older stores have all executed. `IInv` has:

* `CaughtInv`, at any time and for every load with a value: it is marked (`Marked`, itself or through an older load), or `Fresh`: no older store that is known to overlap lacks its data, and
  the value is what a read would give now (`Now`: the newest older store with address and data, else what is visible in the retired store buffer and memory).
  A store whose address becomes known therefore changes nothing for a load it does not mark or cover by a mark, and data that arrive later belong to a store whose address was unknown or which does not overlap;
* `ShapeInv`: what an instruction can be (a load has no data part, a store is never marked, its data are one value for the bytes it covers);
* `LeaveInv`: a store that commit popped in this cycle is still in the store buffer as the load unit sees it, and already the last of the retired ones, so that it does not matter
  that a load finds it in both (`ReadIsNow`);
* `AckInv`: the front of the retired store buffer may already be in memory, and then memory has its bytes; so neither the write nor the later pop changes what is visible (`VisibleWrite`, `VisiblePop`).

When an instruction retires all places shift by one, and what it wrote becomes visible to all: `TailNow` says that this leaves every `Now` as it was. The refinement
maps the memory of `AtomicMemory` to `VisibleMemory`; `CommitLoad` and `CommitStore` are its loads and stores, everything else leaves it alone.

`WakeupProofs` proves `OperandsReady` and `ExecutedOnce` for every program, every size of the two queues and every width of the integer queue. The code wakes
the users of a load before the load has answered, and calls them back through the load position vector if it does not answer in time; an operand that is marked
ready is therefore not always there. `Inv1` says for every phase of a cycle what such a mark may rest on:

* the value is there, or an arithmetic unit has it on its way (`Sure`, `SureNow`), or a pack of the integer port that itself carries no more than this operand's vector (`ByPort`);
* or the load is where the vector says: bit 2 for one that is sent or held in readreg, bit 1 for one in the first level of `lu`, bit 0 for one in the second (`Ready0`, `Ready1`, `Ready2`);
* or a replay that takes the mark back is certain: level 2 is occupied after a stall by an older load (`Forced`), or an older load waits in level 1 behind a stalled
  one (`StalledBehind`, `Behind`). An age comparison decides which replays reach whom, so both are stated with the age.

The same is said of the packs on the port and in `readreg`'s hold registers (`PackInv`, `HoldInv`), and `OperandsReady` follows for what readreg passes to a unit.

`ExecutedOnce` needs the converse, that what is called back has nothing on its way, since a replay marks a slot unissued that has been sent. `Inv2`, relative to `Inv1`, has:

* `PlacesInv`: an instruction has one slot, in the queue of its kind; what a flush cut off is nowhere any more;
* `AluInv`: a slot with a pack on its way has the pack's vector; one whose pack will execute or has executed leaves the queue in this cycle and is not called back before;
* `SourcesInv`: an operand that is ready with bit 1 in its vector is not there within this cycle (`Late`), so readreg drops what depends on it exactly when the queue calls it back;
* `FlightInv`: a load is at one place only of port, hold registers, first level, second level and results;
* `LoadInv`: the slot of a load on its way is issued, and the bit of `cur_lpv` is its place (`Up`), so it is not called back by a replay that its pack survives.

`NoneDropped` is false for some programs, because of stores only (the deviation at `lsu_issue.cpp` 188 below). `OnlyStoresDropped` proves it for all other instructions, without condition;
`NoneUntilLost` proves it for all, as long as `PartLost` has not happened: readreg takes back a part of a store for bit 0 of its vector while the slot of the store, which still waits for it, does not have
that bit. So that deviation is the only way to drop an instruction. Since `Spec` allows a behaviour to stop, the theorem also covers every behaviour up to its first lost part. Programs without stores never
come to it (`NoneCorrect`). A slot is given up before its instruction has executed, and a pack dropped at readreg is only sent again if its slot is called back; so `Inv3`, relative to the other two, says what an issued slot counts on:

* `AluIssued`: an issued slot of the integer queue has its pack on the way or was executed in this cycle, or is called back in this cycle, or, with bit 1, in the next one (`Behind`). That its pack is dropped first and its slot called
  back a cycle later is seen by `AluDoomed`: all it has is bit 0, and a replay is certain (`Forced`). In between nobody may wake it, although one of its operands may be put to sleep in the cycle in which it was sent (`Sleeping`);
* `LateInv`: the slot of the producer of a late operand (`Late`) is late too, so both go to sleep together when the load unit stalls; `OrderInv` (instructions come to a queue in order) excludes a producer that comes only now;
* `LoadIssued`, `LoadDone`: an issued load is at one of the places of `FlightInv` or is called back, and one that lu neither keeps nor replays has its result;
* `ThereInv`: who is not in a queue has a result or a pack that nothing can take back any more.

`StoreInv` says the same of each part of a store (`StoreSent`, `StoreThere`); it is the only part that a `PartLost` ends.

The assumptions are the named `ConstAssumption` of each module (sizes are positive, kinds are known
ones); TLC evaluates them in every run.

Only model-checked: everything about liveness, which this prover cannot handle. Of the invariants, `NoneDropped` holds for the programs of `wakeup`, which have stores, without the condition of
`NoneUntilLost` by TLC only.

## Deviations met while modelling

Beside the three findings with a run, reading and modelling the code met these; those marked (run) were
reproduced by TLC on a variant of a configuration, the others are read off the code.

* `rename.cpp` 63/156 (run): after registers were lost as in `rename_fault`, the test for an empty free
  list passes and the `verify()` of the pop fails.
* `dispatch.cpp` 217 (run): a load may get a checkpoint in rename, but dispatch does not pass it on, so it is
  not released before commit; `docs/pipeline_behavior.md` 548 expects otherwise. `rename_branches`, which checks `CheckpointsOwned`, has no loads.
* `dispatch.cpp` 417 (run): dispatch waits for the last fence of a pack. In a pack of a fence, a branch and a second fence, a misprediction of the
  branch removes the second fence and ends the wait while the first has not retired, and a load or store may be
  sent before it; `docs/pipeline_behavior.md` 154 says that the retirement of the fence is waited for so that loads and stores cannot overtake it. It needs packs of at least three (the code's are
  of four) and is the exception in `FenceBarrier`, which `FenceCorrect` shows to be the only one.
* `commit.cpp` 168 (run): a csr is sent when it is next to commit in number while an older store may still
  wait at the head (`docs/pipeline_behavior.md` 129).
* `clint.h` 109 (run): a byte or half-word read of the clint is never answered. The load stalls until it is flushed, and
  its revocation then swallows the answer of a later word read. `load_bus` leaves that kind out.
* `slave_base.h` 35, 274 (run): a misaligned pc is never answered; fetching stops until a redirect. This is
  the exception in `FetchProgress`.
* `commit.cpp` 499–527, `sau.cpp` 127–141: the results of the address and the data part of a misaligned store
  that arrive in the same cycle are both entered, and the second overwrites the exception.
* `integer_issue.cpp` 135 tests the stall with the index of the port instead of the slot; modelled as
  it stands, harmless. `lsu_issue.cpp` 748 uses a pack index where the slot is meant, in a branch that is not reached.
* `lsu_issue.cpp` 188, 355–362 with `lu.cpp` 60 (run): the part of a store that is sent carries the vectors of both operands, also that of the operand the other part still waits for, which
  may be left over from an earlier wakeup. If that operand is woken anew in the same cycle its vector is replaced, while the part on its way keeps the old one. `l2_conflict_found` outlives the load
  it was found for (`lu` reports a replay also when level 2 is empty), so in the next cycle readreg may drop the part for a bit the slot no longer has, and the queue
  does not mark it as unsent: the store is never executed and retirement stops at it. TLC finds this in seven instructions (two of them stores,
  with integer queue 2, width 1, load/store queue 5, no flush: `Alu(0,0), Store(0,1), Load(0), Load(0), Load(3), Alu(0,0), Store(6,5)`) as a
  violation of `NoneDropped` 65 states deep. This is the only way: `NoneUntilLost`, `OnlyStoresDropped`.
* `main.cpp` 281: a pause that the receiving thread notes between a handled continue and the assignment that
  clears `pause_detected` is wiped out.

## Not modelled

* Values: instruction semantics of the execution units and of `isa_model`, csr contents, what predictors and the return
  address stack learn. They are data to the properties here; predictions are any possible successor.
* Units with more than one cycle of latency (div) and their idle counters in `integer_issue.cpp`; the alternation of ports.
* The timer and the priorities of interrupts: an interrupt may be pending in any cycle.
* The command loop, the network threads and the controller: debugging tools around the core. Threads
  and main loop share a few flags and two queues; no document says what a command may expect.
* Vendored code, test programs and the ELF loader. They make up nearly all lines of the repository; the modules map the
  core under `src/model/model`, which is a small part of it.

## Plan

1. Global history repair of the predictors.
2. Multi-cycle units and idle counters in `Wakeup`.
