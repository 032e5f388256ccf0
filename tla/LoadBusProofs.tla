--------------------------- MODULE LoadBusProofs ---------------------------
(***************************************************************************)
(* The read side of the buses, for any number of requests in flight and    *)
(* any mixture of memory, devices and addresses without a slave.           *)
(***************************************************************************)
EXTENDS LoadBus, TLAPS

\* An answer that level 2 will find is the answer to the load it holds, on the
\* bus that load was sent to.
AnswerIsL2s ==
    \A b \in Buses : AnswerOn(b) # NoTag =>
        AnswerOn(b) = l2.tag /\ b = l2.bus /\ ~l2.exception

\* When lu::run is called, nobody has used the bus in this cycle.
BusQuiet == phase = "lu" => value_new = [b \in Buses |-> NoTag]

IInv == TypeOK /\ AnswerIsL2s /\ BusQuiet /\ RevokeExact /\ OwnAnswer

-----------------------------------------------------------------------------
\* Sequences: the last element after an append, and after the head is taken.
LEMMA AppendLast ==
    ASSUME NEW S, NEW q \in Seq(S), NEW e \in S
    PROVE  /\ Append(q, e) \in Seq(S)
           /\ Len(Append(q, e)) = Len(q) + 1
           /\ Append(q, e)[Len(q) + 1] = e
    OBVIOUS

LEMMA TailLast ==
    ASSUME NEW S, NEW q \in Seq(S), q # <<>>
    PROVE  /\ Head(q) \in S /\ Tail(q) \in Seq(S)
           /\ Len(q) \in Nat /\ Len(q) >= 1 /\ Len(Tail(q)) = Len(q) - 1
           /\ Head(q) = q[1]
           /\ Len(q) > 1 => Tail(q)[Len(Tail(q))] = q[Len(q)]
    OBVIOUS

-----------------------------------------------------------------------------
\* bus::revoke_data_request raises the counter exactly if level 2 gives up a load
\* that memory still owes an answer.
LEMMA RevokedCounts ==
    ASSUME IInv, phase = "lu", NEW squash \in BOOLEAN, ~Stalls(squash)
    PROVE  /\ Revoked(squash) \in [Buses -> Nat]
           /\ Revoked(squash)["cacheable"] = Len(reads)
<1>1. revoke_cnt \in [Buses -> Nat] /\ l2.bus \in Buses
    BY DEF IInv, TypeOK
<1>2. Revoked(squash) \in [Buses -> Nat]
    BY <1>1 DEF Revoked
<1>3. Waits <=> l2.tag # NoTag /\ l2.bus = "cacheable" /\ ~l2.exception
                /\ value["cacheable"] = NoTag
    BY DEF Waits, AnswerOn
<1>4. CASE Waits
    <2>1. Revokes(squash) /\ value[l2.bus] = NoTag /\ l2.bus = "cacheable"
        BY <1>3, <1>4 DEF Revokes, Stalls, Sends, Answered
    <2>2. Revoked(squash)["cacheable"] = revoke_cnt["cacheable"] + 1
        BY <2>1, <1>1 DEF Revoked, Buses
    <2>3. Len(reads) = revoke_cnt["cacheable"] + 1
        BY <1>4 DEF IInv, RevokeExact
    <2> QED BY <1>2, <2>2, <2>3
<1>5. CASE ~Waits
    <2>1. ~(Revokes(squash) /\ value[l2.bus] = NoTag /\ l2.bus = "cacheable")
        BY <1>3, <1>5 DEF Revokes
    <2>2. Revoked(squash)["cacheable"] = revoke_cnt["cacheable"]
        BY <2>1, <1>1 DEF Revoked, Buses
    <2>3. Len(reads) = revoke_cnt["cacheable"] + 0
        BY <1>5 DEF IInv, RevokeExact
    <2>4. revoke_cnt["cacheable"] \in Nat
        BY <1>1 DEF Buses
    <2> QED BY <1>2, <2>2, <2>3, <2>4
<1> QED BY <1>4, <1>5

\* What level 2 hands on is the load with its own answer.
LEMMA DeliverOwn ==
    ASSUME IInv, phase = "lu", NEW squash \in BOOLEAN, Deliver(squash)
    PROVE  /\ OwnAnswer'
           /\ got' \in [tag : TagsOrNone, value : TagsOrNone]
<1>1. l2.tag \in TagsOrNone /\ l2.bus \in Buses
    BY DEF IInv, TypeOK
<1>2. CASE Sends(squash) /\ Answered
    <2>1. ~l2.exception => value[l2.bus] = l2.tag
        BY <1>1, <1>2 DEF IInv, AnswerIsL2s, AnswerOn, Answered
    <2>2. got' = [tag |-> l2.tag, value |-> l2.tag]
        BY <1>2, <2>1 DEF Deliver
    <2> QED BY <1>1, <2>2 DEF OwnAnswer
<1>3. CASE ~(Sends(squash) /\ Answered)
    <2>1. got' = Nothing
        BY <1>3 DEF Deliver
    <2> QED BY <2>1 DEF OwnAnswer, Nothing, TagsOrNone
<1> QED BY <1>2, <1>3

\* The initial state satisfies the invariant.
LEMMA InitIInv == Init => IInv
<1> SUFFICES ASSUME Init PROVE IInv
    OBVIOUS
<1>1. TypeOK
    <2>1. /\ phase \in {"lu", "memory", "end"}
          /\ l2_conflict_found \in BOOLEAN
        BY DEF Init
    <2>2. l2 \in [tag : TagsOrNone, bus : Buses, exception : BOOLEAN]
        BY DEF Init, Empty, Buses, TagsOrNone
    <2>3. reads \in Seq(Tags)
        BY DEF Init
    <2>4. /\ value \in [Buses -> TagsOrNone]
          /\ value_new \in [Buses -> TagsOrNone]
        BY DEF Init, TagsOrNone
    <2>5. revoke_cnt \in [Buses -> Nat]
        BY DEF Init
    <2>6. got \in [tag : TagsOrNone, value : TagsOrNone]
        BY DEF Init, Nothing, TagsOrNone
    <2> QED BY <2>1, <2>2, <2>3, <2>4, <2>5, <2>6 DEF TypeOK
<1>2. AnswerIsL2s /\ BusQuiet /\ OwnAnswer
    BY DEF Init, AnswerIsL2s, AnswerOn, BusQuiet, OwnAnswer, Nothing
<1>3. ~Waits
    BY DEF Init, Waits, Empty
<1>4. Len(reads) = 0 /\ revoke_cnt["cacheable"] = 0
    BY DEF Init, Buses
<1>5. RevokeExact
    BY <1>3, <1>4 DEF RevokeExact
<1> QED BY <1>1, <1>2, <1>5 DEF IInv

-----------------------------------------------------------------------------
\* Level 2 empties and level 1 sends nothing.
LEMMA LuEmptyIInv == IInv /\ LuEmpty => IInv'
<1> SUFFICES ASSUME IInv, LuEmpty PROVE IInv'
    OBVIOUS
<1>1. PICK squash \in BOOLEAN : ~Stalls(squash) /\ Deliver(squash)
                                /\ revoke_cnt' = Revoked(squash)
    BY DEF LuEmpty
<1>2. /\ phase = "lu" /\ phase' = "memory" /\ l2' = Empty
      /\ UNCHANGED <<l2_conflict_found, reads, value, value_new>>
    BY DEF LuEmpty
<1>3. OwnAnswer' /\ got' \in [tag : TagsOrNone, value : TagsOrNone]
    BY <1>1, <1>2, DeliverOwn
<1>4. revoke_cnt' \in [Buses -> Nat] /\ revoke_cnt'["cacheable"] = Len(reads)
    BY <1>1, <1>2, RevokedCounts
<1>5. l2' \in [tag : TagsOrNone, bus : Buses, exception : BOOLEAN]
    BY <1>2 DEF Empty, Buses, TagsOrNone
<1>6. TypeOK'
    BY <1>2, <1>3, <1>4, <1>5 DEF IInv, TypeOK
<1>7. AnswerIsL2s' /\ BusQuiet'
    BY <1>2 DEF IInv, AnswerIsL2s, AnswerOn, BusQuiet
<1>8. ~Waits'
    BY <1>2 DEF Waits, Empty
<1>9. Len(reads) \in Nat
    BY DEF IInv, TypeOK
<1>10. RevokeExact'
    BY <1>2, <1>4, <1>8, <1>9 DEF RevokeExact
<1> QED BY <1>3, <1>6, <1>7, <1>10 DEF IInv

\* Level 2 waits.
LEMMA LuStallIInv == IInv /\ LuStall => IInv'
<1> SUFFICES ASSUME IInv, LuStall PROVE IInv'
    OBVIOUS
<1>1. /\ phase = "lu" /\ phase' = "memory" /\ got' = Nothing
      /\ UNCHANGED <<l2, l2_conflict_found, reads, value, value_new, revoke_cnt>>
    BY DEF LuStall
<1>2. ~l2.exception /\ value[l2.bus] = NoTag /\ l2.tag # NoTag
    BY DEF LuStall, Stalls, Sends, Answered
<1>3. OwnAnswer' /\ got' \in [tag : TagsOrNone, value : TagsOrNone]
    BY <1>1 DEF OwnAnswer, Nothing, TagsOrNone
<1>4. TypeOK'
    BY <1>1, <1>3 DEF IInv, TypeOK
<1>5. AnswerIsL2s' /\ BusQuiet'
    BY <1>1 DEF IInv, AnswerIsL2s, AnswerOn, BusQuiet
<1>6. Waits' <=> Waits
    BY <1>1, <1>2 DEF IInv, BusQuiet, Waits, AnswerOn, Buses
<1>7. RevokeExact'
    BY <1>1, <1>6 DEF IInv, RevokeExact
<1> QED BY <1>3, <1>4, <1>5, <1>7 DEF IInv

\* Level 1 sends a load: the last of memory's reads if it goes to memory, else one
\* that is answered at once, never asked for, or the clint's to keep.
LEMMA LuReadIInv == IInv /\ LuRead => IInv'
<1> SUFFICES ASSUME IInv, LuRead PROVE IInv'
    OBVIOUS
<1>1. PICK squash \in BOOLEAN, kind \in Kinds, found \in BOOLEAN, t \in Tags :
         /\ ~Stalls(squash)
         /\ Deliver(squash)
         /\ \E bus \in BusesOf(kind) :
            LET dropped == kind = "clint32" /\ Revoked(squash)[bus] > 0
            IN /\ l2' = [tag |-> t, bus |-> bus, exception |-> kind = "misaligned"]
               /\ IF kind = "memory"
                  THEN Len(reads) < MaxReads /\ reads' = Append(reads, t)
                  ELSE UNCHANGED reads
               /\ value_new' = IF kind = "hole" \/ (kind = "clint32" /\ ~dropped)
                               THEN [value_new EXCEPT ![bus] = t] ELSE value_new
               /\ revoke_cnt' = IF dropped THEN [Revoked(squash) EXCEPT ![bus] = @ - 1]
                                ELSE Revoked(squash)
         /\ l2_conflict_found' = found
    BY DEF LuRead
<1> DEFINE dropped(bus) == kind = "clint32" /\ Revoked(squash)[bus] > 0
<1>2. PICK bus \in BusesOf(kind) :
         /\ l2' = [tag |-> t, bus |-> bus, exception |-> kind = "misaligned"]
         /\ IF kind = "memory" THEN reads' = Append(reads, t) ELSE UNCHANGED reads
         /\ value_new' = IF kind = "hole" \/ (kind = "clint32" /\ ~dropped(bus))
                         THEN [value_new EXCEPT ![bus] = t] ELSE value_new
         /\ revoke_cnt' = IF dropped(bus) THEN [Revoked(squash) EXCEPT ![bus] = @ - 1]
                          ELSE Revoked(squash)
    BY <1>1
<1>3. phase = "lu" /\ phase' = "memory" /\ UNCHANGED value
    BY DEF LuRead
<1>4. OwnAnswer' /\ got' \in [tag : TagsOrNone, value : TagsOrNone]
    BY <1>1, <1>3, DeliverOwn
<1>5. Revoked(squash) \in [Buses -> Nat] /\ Revoked(squash)["cacheable"] = Len(reads)
    BY <1>1, <1>3, RevokedCounts
<1>6. kind \in Reads /\ bus \in Buses
    BY <1>2, ConstAssumption DEF BusesOf, Buses
<1>7. /\ kind = "clint32" => bus = "noncacheable"
      /\ kind = "clint8" => bus = "noncacheable"
      /\ kind = "memory" => bus = "cacheable"
    BY <1>2 DEF BusesOf
<1>8. revoke_cnt' \in [Buses -> Nat] /\ revoke_cnt'["cacheable"] = Len(reads)
    BY <1>2, <1>5, <1>6, <1>7 DEF Buses
<1>9. t \in TagsOrNone /\ t # NoTag
    BY ConstAssumption DEF TagsOrNone
<1>10. TypeOK'
    <2>1. l2' \in [tag : TagsOrNone, bus : Buses, exception : BOOLEAN]
        BY <1>2, <1>6, <1>9
    <2>2. reads' \in Seq(Tags)
        <3>1. reads \in Seq(Tags)
            BY DEF IInv, TypeOK
        <3>2. reads' = Append(reads, t) \/ reads' = reads
            BY <1>2
        <3> QED BY <3>1, <3>2, AppendLast
    <2>3. value_new' \in [Buses -> TagsOrNone]
        BY <1>2, <1>6, <1>9 DEF IInv, TypeOK
    <2>4. l2_conflict_found' \in BOOLEAN
        BY <1>1
    <2>5. value' \in [Buses -> TagsOrNone]
        BY <1>3 DEF IInv, TypeOK
    <2> QED BY <1>3, <1>4, <1>8, <2>1, <2>2, <2>3, <2>4, <2>5 DEF TypeOK
<1>11. value_new = [b \in Buses |-> NoTag]
    BY <1>3 DEF IInv, BusQuiet
<1>12. AnswerIsL2s'
    <2> SUFFICES ASSUME NEW b \in Buses, value_new'[b] # NoTag
                 PROVE  value_new'[b] = l2'.tag /\ b = l2'.bus /\ ~l2'.exception
        BY <1>3 DEF AnswerIsL2s, AnswerOn
    <2>1. kind \in {"hole", "clint32"} /\ value_new' = [value_new EXCEPT ![bus] = t]
        BY <1>2, <1>11
    <2>2. b = bus /\ value_new'[b] = t
        BY <2>1, <1>6, <1>11
    <2> QED BY <1>2, <2>1, <2>2
<1>13. BusQuiet'
    BY <1>3 DEF BusQuiet
<1>14. RevokeExact'
    <2>1. Waits' <=> kind = "memory"
        <3>1. Waits' <=> /\ bus = "cacheable" /\ kind # "misaligned"
                         /\ value_new'["cacheable"] = NoTag
            BY <1>2, <1>3, <1>9 DEF Waits, AnswerOn
        <3>2. CASE kind = "memory"
            <4>1. value_new'["cacheable"] = NoTag
                BY <1>2, <1>11, <3>2 DEF Buses
            <4> QED BY <3>1, <3>2, <4>1, <1>7
        <3>3. CASE kind = "hole"
            <4>1. value_new'[bus] = t
                BY <1>2, <1>6, <1>11, <3>3
            <4> QED BY <3>1, <3>3, <4>1, <1>9
        <3>4. CASE kind \in {"clint32", "clint8", "misaligned"}
            BY <3>1, <3>4, <1>7
        <3> QED BY <1>6, <3>2, <3>3, <3>4 DEF Reads
    <2>2. reads \in Seq(Tags) /\ Len(reads) \in Nat
        BY DEF IInv, TypeOK
    <2>3. CASE kind = "memory"
        <3>1. reads' = Append(reads, t) /\ l2'.tag = t
            BY <1>2, <2>3
        <3>2. Len(reads') = Len(reads) + 1 /\ reads'[Len(reads) + 1] = t
            BY <2>2, <3>1, AppendLast
        <3> QED BY <1>8, <2>1, <2>2, <2>3, <3>1, <3>2 DEF RevokeExact
    <2>4. CASE kind # "memory"
        <3>1. reads' = reads
            BY <1>2, <2>4
        <3> QED BY <1>8, <2>1, <2>2, <2>4, <3>1 DEF RevokeExact
    <2> QED BY <2>3, <2>4
<1> QED BY <1>4, <1>10, <1>12, <1>13, <1>14 DEF IInv

\* Memory answers its oldest read: a revoked one if any is left, else the one level
\* 2 waits for.
LEMMA MemoryAnswersIInv == IInv /\ MemoryAnswers => IInv'
<1> SUFFICES ASSUME IInv, MemoryAnswers PROVE IInv'
    OBVIOUS
<1>1. /\ phase = "memory" /\ phase' = "end" /\ reads # <<>> /\ reads' = Tail(reads)
      /\ UNCHANGED <<l2, l2_conflict_found, value, got>>
    BY DEF MemoryAnswers
<1>2. reads \in Seq(Tags) /\ revoke_cnt \in [Buses -> Nat]
    BY DEF IInv, TypeOK
<1>3. /\ Head(reads) \in Tags /\ reads' \in Seq(Tags)
      /\ Len(reads) \in Nat /\ Len(reads) >= 1 /\ Len(reads') = Len(reads) - 1
      /\ Head(reads) = reads[1]
      /\ Len(reads) > 1 => reads'[Len(reads')] = reads[Len(reads)]
    BY <1>1, <1>2, TailLast
<1>4. Waits <=> l2.tag # NoTag /\ l2.bus = "cacheable" /\ ~l2.exception
                /\ value_new["cacheable"] = NoTag
    BY <1>1 DEF Waits, AnswerOn
<1>5. revoke_cnt["cacheable"] \in Nat
    BY <1>2 DEF Buses
<1>6. OwnAnswer' /\ BusQuiet'
    BY <1>1 DEF IInv, OwnAnswer, BusQuiet
<1>7. CASE revoke_cnt["cacheable"] > 0
    <2>1. /\ revoke_cnt' = [revoke_cnt EXCEPT !["cacheable"] = @ - 1]
          /\ value_new' = value_new
        BY <1>7 DEF MemoryAnswers, Answer
    <2>2. revoke_cnt' \in [Buses -> Nat]
          /\ revoke_cnt'["cacheable"] = revoke_cnt["cacheable"] - 1
        BY <1>2, <1>5, <1>7, <2>1 DEF Buses
    <2>3. TypeOK'
        BY <1>1, <1>3, <2>1, <2>2 DEF IInv, TypeOK
    <2>4. AnswerIsL2s'
        BY <1>1, <2>1 DEF IInv, AnswerIsL2s, AnswerOn
    <2>5. Waits' <=> Waits
        BY <1>1, <2>1 DEF Waits, AnswerOn
    <2>6. RevokeExact'
        BY <1>1, <1>3, <1>5, <1>7, <2>2, <2>5 DEF IInv, RevokeExact
    <2> QED BY <1>6, <2>3, <2>4, <2>6 DEF IInv
<1>8. CASE ~(revoke_cnt["cacheable"] > 0)
    <2>1. revoke_cnt' = revoke_cnt
          /\ value_new' = [value_new EXCEPT !["cacheable"] = Head(reads)]
        BY <1>8 DEF MemoryAnswers, Answer
    <2>2. revoke_cnt["cacheable"] = 0
        BY <1>5, <1>8
    <2>3. Waits /\ Len(reads) = 1 /\ reads[1] = l2.tag
        BY <1>3, <2>2 DEF IInv, RevokeExact
    <2>4. value_new' \in [Buses -> TagsOrNone] /\ value_new'["cacheable"] = l2.tag
          /\ value_new'["noncacheable"] = value_new["noncacheable"]
        BY <1>3, <2>1, <2>3 DEF IInv, TypeOK, Buses, TagsOrNone
    <2>5. TypeOK'
        BY <1>1, <1>3, <2>1, <2>4 DEF IInv, TypeOK
    <2>6. AnswerIsL2s'
        BY <1>1, <1>4, <2>3, <2>4 DEF IInv, AnswerIsL2s, AnswerOn, Buses
    <2>7. ~Waits'
        BY <1>1, <1>4, <2>3, <2>4 DEF Waits, AnswerOn
    <2>8. RevokeExact'
        BY <1>3, <2>1, <2>2, <2>3, <2>7 DEF RevokeExact
    <2> QED BY <1>6, <2>5, <2>6, <2>8 DEF IInv
<1> QED BY <1>7, <1>8

\* Memory says nothing in this cycle.
LEMMA MemorySilentIInv == IInv /\ MemorySilent => IInv'
<1> SUFFICES ASSUME IInv, MemorySilent PROVE IInv'
    OBVIOUS
<1>1. /\ phase = "memory" /\ phase' = "end"
      /\ UNCHANGED <<l2, l2_conflict_found, reads, value, value_new, revoke_cnt, got>>
    BY DEF MemorySilent
<1>2. TypeOK' /\ OwnAnswer' /\ BusQuiet'
    BY <1>1 DEF IInv, TypeOK, OwnAnswer, BusQuiet
<1>3. AnswerIsL2s'
    BY <1>1 DEF IInv, AnswerIsL2s, AnswerOn
<1>4. Waits' <=> Waits
    BY <1>1 DEF Waits, AnswerOn
<1>5. RevokeExact'
    BY <1>1, <1>4 DEF IInv, RevokeExact
<1> QED BY <1>2, <1>3, <1>5 DEF IInv

\* The clock edge moves the answers to where level 2 looks.
LEMMA BusRunIInv == IInv /\ BusRun => IInv'
<1> SUFFICES ASSUME IInv, BusRun PROVE IInv'
    OBVIOUS
<1>1. /\ phase = "end" /\ phase' = "lu" /\ value' = value_new
      /\ value_new' = [b \in Buses |-> NoTag] /\ got' = Nothing
      /\ UNCHANGED <<l2, l2_conflict_found, reads, revoke_cnt>>
    BY DEF BusRun
<1>2. OwnAnswer' /\ BusQuiet' /\ got' \in [tag : TagsOrNone, value : TagsOrNone]
    BY <1>1 DEF OwnAnswer, BusQuiet, Nothing, TagsOrNone
<1>3. value_new' \in [Buses -> TagsOrNone]
    BY <1>1 DEF TagsOrNone
<1>4. TypeOK'
    BY <1>1, <1>2, <1>3 DEF IInv, TypeOK
<1>5. AnswerIsL2s'
    BY <1>1 DEF IInv, AnswerIsL2s, AnswerOn
<1>6. Waits' <=> Waits
    BY <1>1 DEF Waits, AnswerOn
<1>7. RevokeExact'
    BY <1>1, <1>6 DEF IInv, RevokeExact
<1> QED BY <1>2, <1>4, <1>5, <1>7 DEF IInv

\* Every step keeps the invariant.
LEMMA NextIInv == IInv /\ [Next]_vars => IInv'
<1> SUFFICES ASSUME IInv, [Next]_vars PROVE IInv'
    OBVIOUS
<1>1. CASE UNCHANGED vars
    <2>1. /\ phase' = phase /\ l2' = l2 /\ l2_conflict_found' = l2_conflict_found
          /\ reads' = reads /\ value' = value /\ value_new' = value_new
          /\ revoke_cnt' = revoke_cnt /\ got' = got
        BY <1>1 DEF vars
    <2>2. TypeOK' /\ OwnAnswer' /\ BusQuiet' /\ AnswerIsL2s'
        BY <2>1 DEF IInv, TypeOK, OwnAnswer, BusQuiet, AnswerIsL2s, AnswerOn
    <2>3. Waits' <=> Waits
        BY <2>1 DEF Waits, AnswerOn
    <2>4. RevokeExact'
        BY <2>1, <2>3 DEF IInv, RevokeExact
    <2> QED BY <2>2, <2>4 DEF IInv
<1>2. CASE Next
    BY <1>2, LuEmptyIInv, LuStallIInv, LuReadIInv, MemoryAnswersIInv,
       MemorySilentIInv, BusRunIInv DEF Next
<1> QED BY <1>1, <1>2

LEMMA Invariance == Spec => []IInv
BY InitIInv, NextIInv, PTL DEF Spec

-----------------------------------------------------------------------------
\* For every set of requests and mixture of slaves the variables keep their types:
\* no revoke counter is decremented below zero (bus::set_data_value).
THEOREM TypeCorrect == Spec => []TypeOK
<1>1. IInv => TypeOK
    BY DEF IInv
<1> QED BY <1>1, Invariance, PTL

\* For every set of requests and mixture of slaves a load that lu::run completes has
\* the answer to its own request.
THEOREM OwnAnswerCorrect == Spec => []OwnAnswer
<1>1. IInv => OwnAnswer
    BY DEF IInv
<1> QED BY <1>1, Invariance, PTL

\* For every set of requests and mixture of slaves revoke_data_cnt of the cacheable
\* bus is the number of memory's reads whose load is gone.
THEOREM RevokeCorrect == Spec => []RevokeExact
<1>1. IInv => RevokeExact
    BY DEF IInv
<1> QED BY <1>1, Invariance, PTL
=============================================================================
