------------------------------ MODULE LoadBus ------------------------------
(***************************************************************************)
(* The data read side of the two buses: lu::run asks at level 1 and takes  *)
(* the answer at level 2, in a later cycle; answers carry no name.  A load *)
(* that is squashed or replayed revokes its request, and the bus drops as  *)
(* many answers as were revoked.                                           *)
(*                                                                         *)
(* The cacheable bus has the memory, which answers in order and after any  *)
(* delay (the code's is a fixed number of cycles); the other bus has the   *)
(* clint, which answers at once or, for lb and lh, never.  An address no   *)
(* slave is mapped at is answered at once by the bus itself.  The value of *)
(* an answer is the tag of its request.                                    *)
(***************************************************************************)
EXTENDS Naturals, Sequences

CONSTANTS Tags,         \* names of requests
          NoTag,
          Kinds,        \* what the program reads: see Reads
          MaxReads      \* bound: requests memory may hold

Reads == {"memory", "clint32", "clint8", "hole", "misaligned"}

ASSUME ConstAssumption ==
    /\ NoTag \notin Tags
    /\ Kinds \subseteq Reads
    /\ MaxReads \in Nat

VARIABLES
    phase,
    l2,         \* l2_rev_pack: tag (NoTag: empty), bus, exception
    l2_conflict_found,
    reads,      \* the memory's pipeline of reads, oldest first
    value,      \* data_value of each bus, NoTag when data_value_valid is not set
    value_new,  \* what the flip-flop takes at the end of the cycle
    revoke_cnt, \* revoke_data_cnt of each bus
    got         \* the load completed in this cycle and the value it took

vars == <<phase, l2, l2_conflict_found, reads, value, value_new, revoke_cnt, got>>

Buses == {"cacheable", "noncacheable"}
Empty == [tag |-> NoTag, bus |-> "cacheable", exception |-> FALSE]
Nothing == [tag |-> NoTag, value |-> NoTag]

Init ==
    /\ phase = "lu"
    /\ l2 = Empty /\ l2_conflict_found = FALSE
    /\ reads = <<>>
    /\ value = [b \in Buses |-> NoTag] /\ value_new = [b \in Buses |-> NoTag]
    /\ revoke_cnt = [b \in Buses |-> 0]
    /\ got = Nothing

\* The buses a read may go to: pma_unit::is_cacheable.
BusesOf(kind) == CASE kind = "memory" -> {"cacheable"}
                   [] kind \in {"clint32", "clint8"} -> {"noncacheable"}
                   [] OTHER -> Buses

-----------------------------------------------------------------------------
\* Level 2 may hand its load on unless the load is flushed or has to be replayed.
Sends(squash) == l2.tag # NoTag /\ ~l2_conflict_found /\ ~squash
Answered == l2.exception \/ value[l2.bus] # NoTag
Stalls(squash) == Sends(squash) /\ ~Answered
Revokes(squash) == l2.tag # NoTag /\ ~Sends(squash) /\ ~l2.exception

\* Faulty variant: an answer that is there already is counted too.
RevokedAlways(squash) ==
    IF Revokes(squash)
    THEN [revoke_cnt EXCEPT ![l2.bus] = @ + 1] ELSE revoke_cnt
\* bus::revoke_data_request.
Revoked(squash) ==
    IF Revokes(squash) /\ value[l2.bus] = NoTag
    THEN [revoke_cnt EXCEPT ![l2.bus] = @ + 1] ELSE revoke_cnt

Deliver(squash) ==
    got' = IF Sends(squash) /\ Answered
           THEN [tag |-> l2.tag, value |-> IF l2.exception THEN l2.tag ELSE value[l2.bus]]
           ELSE Nothing

\* Level 1 has no load, or commit flushes.
LuEmpty ==
    /\ phase = "lu"
    /\ \E squash \in BOOLEAN :
         /\ ~Stalls(squash)
         /\ Deliver(squash)
         /\ revoke_cnt' = Revoked(squash)
    /\ l2' = Empty
    /\ phase' = "memory"
    /\ UNCHANGED <<l2_conflict_found, reads, value, value_new>>

\* Level 2 waits for the bus; level 1 does not move.
LuStall ==
    /\ phase = "lu" /\ Stalls(FALSE)
    /\ got' = Nothing
    /\ phase' = "memory"
    /\ UNCHANGED <<l2, l2_conflict_found, reads, value, value_new, revoke_cnt>>

\* Level 1 takes a load and asks the bus; it may have met a store without data.
\* The clint answers through bus::set_data_value, the bus itself does not.
LuRead ==
    /\ phase = "lu"
    /\ \E squash \in BOOLEAN, kind \in Kinds, found \in BOOLEAN,
          t \in Tags \ ({l2.tag} \cup {reads[i] : i \in DOMAIN reads}) :
         /\ ~Stalls(squash)
         /\ Deliver(squash)
         /\ \E bus \in BusesOf(kind) :
            LET dropped == kind = "clint32" /\ Revoked(squash)[bus] > 0
            IN /\ l2' = [tag |-> t, bus |-> bus, exception |-> kind = "misaligned"]
               /\ IF kind = "memory"
                  THEN Len(reads) < MaxReads /\ reads' = Append(reads, t)
                  ELSE UNCHANGED reads
               /\ value_new' = IF kind = "hole" \/ (kind = "clint32" /\ ~dropped)
                               THEN [value_new EXCEPT ![bus] = t] ELSE value_new
               /\ revoke_cnt' = IF dropped THEN [Revoked(squash) EXCEPT ![bus] = @ - 1]
                                ELSE Revoked(squash)
         /\ l2_conflict_found' = found
    /\ phase' = "memory"
    /\ UNCHANGED value

-----------------------------------------------------------------------------
\* Faulty variant: a revoked answer is not dropped.
AnswerKept ==
    /\ value_new' = [value_new EXCEPT !["cacheable"] = Head(reads)]
    /\ UNCHANGED revoke_cnt
\* bus::set_data_value for the memory's oldest read.
Answer ==
    IF revoke_cnt["cacheable"] > 0
    THEN /\ revoke_cnt' = [revoke_cnt EXCEPT !["cacheable"] = @ - 1]
         /\ UNCHANGED value_new
    ELSE /\ value_new' = [value_new EXCEPT !["cacheable"] = Head(reads)]
         /\ UNCHANGED revoke_cnt

\* memory::run_post, as far as reads go.
MemoryAnswers ==
    /\ phase = "memory" /\ reads # <<>>
    /\ Answer
    /\ reads' = Tail(reads)
    /\ phase' = "end"
    /\ UNCHANGED <<l2, l2_conflict_found, value, got>>

MemorySilent ==
    /\ phase = "memory"
    /\ phase' = "end"
    /\ UNCHANGED <<l2, l2_conflict_found, reads, value, value_new, revoke_cnt, got>>

\* bus::run and the clock edge: an answer is there for one cycle.
BusRun ==
    /\ phase = "end"
    /\ value' = value_new
    /\ value_new' = [b \in Buses |-> NoTag]
    /\ got' = Nothing
    /\ phase' = "lu"
    /\ UNCHANGED <<l2, l2_conflict_found, reads, revoke_cnt>>

Next == \/ LuEmpty \/ LuStall \/ LuRead
        \/ MemoryAnswers \/ MemorySilent
        \/ BusRun

Spec == Init /\ [][Next]_vars

-----------------------------------------------------------------------------
(***************************************************************************)
(* Properties.                                                             *)
(***************************************************************************)
TagsOrNone == Tags \cup {NoTag}

\* The variables have their types.
TypeOK ==
    /\ phase \in {"lu", "memory", "end"}
    /\ l2 \in [tag : TagsOrNone, bus : Buses, exception : BOOLEAN]
    /\ l2_conflict_found \in BOOLEAN
    /\ reads \in Seq(Tags)
    /\ value \in [Buses -> TagsOrNone] /\ value_new \in [Buses -> TagsOrNone]
    /\ revoke_cnt \in [Buses -> Nat]
    /\ got \in [tag : TagsOrNone, value : TagsOrNone]

\* A load completes with the answer to its own request, whatever was revoked or
\* replayed before it.
OwnAnswer == got.value = got.tag

\* The answer level 2 will find when lu::run is called next.
AnswerOn(b) == IF phase = "lu" THEN value[b] ELSE value_new[b]

\* Level 2 holds a load that memory has not answered.
Waits == l2.tag # NoTag /\ l2.bus = "cacheable" /\ ~l2.exception
         /\ AnswerOn("cacheable") = NoTag

\* The bus has counted every read whose load is gone, and no other: what memory
\* still holds is the revoked reads and the one level 2 waits for, which is the
\* last of them (bus.h: revoke_data_cnt).
RevokeExact ==
    /\ Len(reads) = revoke_cnt["cacheable"] + (IF Waits THEN 1 ELSE 0)
    /\ Waits => reads[Len(reads)] = l2.tag

\* The clock ticks, and memory answers every read.
Fairness == WF_vars(Next) /\ SF_vars(MemoryAnswers)
LiveSpec == Spec /\ Fairness

\* A load does not stay in level 2 for ever: its answer comes, also when answers
\* were revoked before (main.cpp reports a retire timeout otherwise).
EveryLoadAnswered == \A t \in Tags : l2.tag = t ~> l2.tag # t
=============================================================================
