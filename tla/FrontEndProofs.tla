--------------------------- MODULE FrontEndProofs ---------------------------
(***************************************************************************)
(* Proofs about FrontEnd, for every width, every size and every program.   *)
(*                                                                         *)
(* The properties speak of the state between two cycles.  Within a cycle   *)
(* the queues also hold what a redirect has condemned and what fetch2 has  *)
(* taken but fetch1 not yet overwritten.  Live is the stream without them, *)
(* as the rest of the cycle will leave it, and GoOn the pc it will leave;  *)
(* with these two the properties hold between any two stages.              *)
(***************************************************************************)
EXTENDS FrontEnd, Integers, SequenceTheorems, TLAPS

Phases == {"bru", "interrupt", "commit", "resolve", "rename", "decode",
           "fetch2", "fetch1", "end"}

\* An instruction as fetch1 makes it of the program, and as the stages behind
\* rename complete it.
Records == [pc : Pcs, kind : Kinds, next : Pcs \cup {NoPc}, fresh : BOOLEAN,
            actual : Pcs \cup {NoPc}, cp : BOOLEAN]
Fetched == {op \in Records : /\ op.kind = code[op.pc]
                             /\ op.next \in Predictions(op.pc)
                             /\ op.cp => IsJump(op.kind)
                             /\ op.actual # NoPc => IsJump(op.kind) \/ op.kind = "mret"}
Unrenamed == {op \in Fetched : op.actual = NoPc /\ ~op.cp}

Feedbacks == [flush : {"none", "commit", "bru"}, to : Pcs \cup {NoPc}, at : Nat,
              actual : Pcs \cup {NoPc}, jump_to : Pcs \cup {NoPc}, pushed : BOOLEAN,
              redirect : Pcs \cup {NoPc}, stall : BOOLEAN, commit_idle : BOOLEAN,
              rename_idle : BOOLEAN, decode_idle : BOOLEAN, fetch2_idle : BOOLEAN]

-----------------------------------------------------------------------------
(***************************************************************************)
(* The inductive invariant.                                                *)
(***************************************************************************)

TypeInv ==
    /\ phase \in Phases
    /\ code \in Programs
    /\ pc \in Pcs
    /\ jump_wait \in BOOLEAN
    /\ value \in {"none", "fresh", "stale"}
    /\ rob \in Seq(Fetched)
    /\ d2r \in Seq(Unrenamed) /\ f2d \in Seq(Unrenamed)
    /\ rev_pack \in Seq(Unrenamed) /\ port \in Seq(Unrenamed)
    /\ busy \in BOOLEAN
    /\ rsb \in Nat
    /\ ack \in {"none", "wait", "ack"}
    /\ fb \in Feedbacks

\* The fifos never hold, nor reckon with, more than their size; a kept pack is
\* never empty; a write that memory has been asked for is still in its buffer.
RoomInv ==
    /\ d2r_popped \in Nat /\ f2d_popped \in Nat
    /\ Len(d2r) + d2r_popped <= DECODE_RENAME_FIFO_SIZE
    /\ Len(f2d) + f2d_popped <= FETCH2_DECODE_FIFO_SIZE
    /\ phase \in {"bru", "interrupt", "commit", "resolve", "rename"} => d2r_popped = 0
    /\ phase \in {"bru", "interrupt", "commit", "resolve", "rename", "decode"} => f2d_popped = 0
    /\ busy <=> rev_pack # <<>>
    /\ ack # "none" => rsb > 0

\* The branch the branch unit holds is in the reorder buffer and unresolved until
\* the second pass, whatever commit retires in between.
BranchInv ==
    phase \in {"interrupt", "commit", "resolve"} /\ fb.flush # "commit" =>
        /\ fb.flush = "bru" => fb.at > 0
        /\ fb.at > 0 =>
              /\ fb.at \in 1..Len(rob)
              /\ rob[fb.at].actual = NoPc
              /\ IsJump(rob[fb.at].kind) \/ rob[fb.at].kind = "mret"
              /\ fb.actual \in Pcs
              /\ fb.flush = "bru" <=> rob[fb.at].cp /\ fb.actual # rob[fb.at].next
              /\ fb.flush = "bru" => fb.to = fb.actual

\* What a flush has cleared so far.
ClearedInv ==
    fb.flush # "none" =>
        /\ phase \in {"fetch2", "fetch1", "end"} => d2r = <<>>
        /\ phase \in {"fetch1", "end"} => f2d = <<>> /\ rev_pack = <<>>
        /\ phase = "end" => port = <<>>

\* What the idle flags of the stages, each set in its turn, say together.
IdleInv ==
    fb.flush = "none" =>
        /\ phase \in {"commit", "resolve", "rename"} /\ fb.commit_idle => rob = <<>>
        /\ phase = "decode" /\ fb.commit_idle /\ fb.rename_idle => rob = <<>> /\ d2r = <<>>
        /\ phase = "fetch2" /\ fb.commit_idle /\ fb.rename_idle /\ fb.decode_idle =>
               rob = <<>> /\ d2r = <<>> /\ f2d = <<>>
        /\ phase = "fetch1" /\ fb.commit_idle /\ fb.rename_idle /\ fb.decode_idle
                            /\ fb.fetch2_idle =>
               rob = <<>> /\ d2r = <<>> /\ f2d = <<>> /\ rev_pack = <<>>

\* The reorder buffer as the second pass of the branch unit will leave it.
Resolving == phase \in {"interrupt", "commit", "resolve"} /\ fb.flush # "commit" /\ fb.at > 0
Outcome == [rob EXCEPT ![fb.at] = [rob[fb.at] EXCEPT !.actual = fb.actual]]
LiveRob == IF ~Resolving THEN rob
           ELSE IF fb.flush = "bru" THEN SubSeq(Outcome, 1, fb.at) ELSE Outcome

\* The queues in front of rename as the flush and fetch1 will leave them.
LivePort == IF phase = "fetch1" /\ ~fb.stall THEN <<>> ELSE port
LiveFront == IF fb.flush # "none" THEN <<>> ELSE d2r \o (f2d \o (rev_pack \o LivePort))

Live == LiveRob \o LiveFront

\* The pc fetch1 will go on with, and whether it will still wait for an mret.
GoOn == IF phase = "end" THEN pc
        ELSE IF fb.flush # "none" THEN fb.to
        ELSE IF fb.redirect # NoPc THEN fb.redirect
        ELSE IF fb.jump_to # NoPc THEN fb.jump_to
        ELSE pc
Waits == /\ jump_wait
         /\ phase # "end" =>
               fb.flush = "none" /\ fb.redirect = NoPc /\ fb.jump_to = NoPc

\* Which feedback can be there when.
FeedbackInv ==
    /\ phase = "bru" => fb = NoFeedback
    /\ phase = "interrupt" => fb.jump_to = NoPc
    /\ fb.flush # "none" => fb.to \in Pcs /\ fb.redirect = NoPc /\ fb.jump_to = NoPc
    /\ phase \notin {"fetch1", "end"} => fb.redirect = NoPc /\ ~fb.stall
    /\ fb.jump_to # NoPc => fb.redirect = NoPc
    /\ fb.redirect # NoPc => ~fb.stall
    /\ fb.jump_to # NoPc /\ phase # "end" => jump_wait /\ Live = <<>>
    /\ fb.flush = "commit" => rob = <<>> /\ phase \notin {"bru", "interrupt", "commit"}

\* b may follow a.
Follows(a, b) == /\ GoesOnAt(a) = b.pc
                 /\ a.kind = "fence_i" => b.fresh
                 /\ b.kind # "fence_i"
Chain(s) == \A i \in 1..(Len(s) - 1) : Follows(s[i], s[i + 1])

\* A stream s, fetch1 waiting or not (w), the pc to go on with (g), what was read
\* there (v), the pc the program is at (a) and the number of retired stores not
\* yet written (r).
LastSound(op, w, g, v) ==
    IF op.kind = "mret" THEN w
    ELSE ~w /\ GoesOnAt(op) = g /\ (op.kind = "fence_i" => v # "stale")
Sound(s, w, g, v, a, r) ==
    /\ Chain(s)
    /\ s = <<>> => ~w /\ a = g
    /\ s # <<>> => /\ a = s[1].pc
                   /\ s[1].kind = "fence_i" => r = 0
                   /\ LastSound(s[Len(s)], w, g, v)

StreamInv == Sound(Live, Waits, GoOn, value, arch_pc, rsb)

IInv == /\ TypeInv /\ RoomInv /\ FeedbackInv /\ BranchInv /\ ClearedInv /\ IdleInv
        /\ StreamInv

-----------------------------------------------------------------------------
(***************************************************************************)
(* Streams: any set S of instructions.                                     *)
(***************************************************************************)

\* Names the provers may leave unexpanded.
Cat(s, t) == s \o t
Take(q, n) == SubSeq(q, 1, n)
Drop(q, n) == SubSeq(q, n + 1, Len(q))

\* Two instructions that differ in what has been added to the record, but go on
\* at the same pc.
Alike(a, b) == /\ a.pc = b.pc /\ a.kind = b.kind /\ a.fresh = b.fresh
               /\ GoesOnAt(a) = GoesOnAt(b)

Similar(s, t) == Len(s) = Len(t) /\ \A i \in 1..Len(s) : Alike(s[i], t[i])

\* Streams that are alike instruction by instruction are equally sound.
LEMMA SoundAlike ==
  ASSUME NEW S, NEW s \in Seq(S), NEW t \in Seq(S), Similar(s, t),
         NEW w, NEW g, NEW v, NEW a, NEW r, Sound(s, w, g, v, a, r)
  PROVE  Sound(t, w, g, v, a, r)
<1> USE DEF Similar
<1>1. Chain(t)
  <2> SUFFICES ASSUME NEW i \in 1..(Len(t) - 1) PROVE Follows(t[i], t[i + 1])
    BY DEF Chain
  <2>1. i \in 1..Len(s) /\ i + 1 \in 1..Len(s) /\ i \in 1..(Len(s) - 1)
    OBVIOUS
  <2>2. Follows(s[i], s[i + 1])
    BY <2>1 DEF Sound, Chain
  <2>3. Alike(s[i], t[i]) /\ Alike(s[i + 1], t[i + 1])
    BY <2>1
  <2>4. QED
    BY <2>2, <2>3 DEF Follows, Alike
<1>2. t = <<>> => ~w /\ a = g
  BY DEF Sound
<1>3. ASSUME t # <<>>
      PROVE  a = t[1].pc /\ (t[1].kind = "fence_i" => r = 0) /\ LastSound(t[Len(t)], w, g, v)
  <2>1. s # <<>> /\ 1 \in 1..Len(s) /\ Len(s) \in 1..Len(s)
    BY <1>3
  <2>2. Alike(s[1], t[1]) /\ Alike(s[Len(s)], t[Len(t)])
    BY <2>1
  <2>3. QED
    BY <2>1, <2>2 DEF Sound, LastSound, Alike
<1>4. QED
  BY <1>1, <1>2, <1>3 DEF Sound

\* When the oldest instruction leaves, the program is where it goes on.
LEMMA SoundTail ==
  ASSUME NEW S, NEW s \in Seq(S), s # <<>>,
         NEW w, NEW g, NEW v, NEW a, NEW r, Sound(s, w, g, v, a, r),
         NEW q, Len(s) > 1 \/ s[1].kind # "mret"
  PROVE  Sound(Tail(s), w, g, v, GoesOnAt(s[1]), q)
<1> DEFINE t == Tail(s)
<1>1. t \in Seq(S) /\ Len(t) = Len(s) - 1 /\ \A i \in 1..Len(t) : t[i] = s[i + 1]
  BY HeadTailProperties
<1> HIDE DEF t
<1>2. Chain(t)
  <2> SUFFICES ASSUME NEW i \in 1..(Len(t) - 1) PROVE Follows(t[i], t[i + 1])
    BY DEF Chain
  <2>1. t[i] = s[i + 1] /\ t[i + 1] = s[(i + 1) + 1] /\ i + 1 \in 1..(Len(s) - 1)
    BY <1>1
  <2>2. QED
    BY <2>1 DEF Sound, Chain
<1>3. ASSUME t = <<>> PROVE Sound(t, w, g, v, GoesOnAt(s[1]), q)
  <2>1. Len(s) = 1
    BY <1>1, <1>3
  <2>2. QED
    BY <1>2, <1>3, <2>1 DEF Sound, LastSound
<1>4. ASSUME t # <<>> PROVE Sound(t, w, g, v, GoesOnAt(s[1]), q)
  <2>1. Len(s) > 1 /\ 1 \in 1..(Len(s) - 1) /\ 1 \in 1..Len(t) /\ Len(t) \in 1..Len(t)
    BY <1>1, <1>4
  <2>2. t[1] = s[1 + 1] /\ t[Len(t)] = s[Len(s)]
    BY <1>1, <2>1
  <2>3. Follows(s[1], t[1])
    BY <2>1, <2>2 DEF Sound, Chain
  <2>4. QED
    BY <1>2, <1>4, <2>2, <2>3 DEF Sound, Follows
<1>5. QED
  BY <1>3, <1>4 DEF t

\* A stream cut after instruction n, which now goes on elsewhere.
LEMMA SoundCut ==
  ASSUME NEW S, NEW s \in Seq(S), NEW n \in 1..Len(s), NEW t \in Seq(S), Len(t) = n,
         \A i \in 1..(n - 1) : t[i] = s[i],
         t[n].pc = s[n].pc, t[n].kind = s[n].kind, t[n].fresh = s[n].fresh,
         NEW w, NEW g, NEW v, NEW a, NEW r, Sound(s, w, g, v, a, r),
         NEW w2, NEW g2, NEW v2, LastSound(t[n], w2, g2, v2)
  PROVE  Sound(t, w2, g2, v2, a, r)
<1>1. Chain(t)
  <2> SUFFICES ASSUME NEW i \in 1..(Len(t) - 1) PROVE Follows(t[i], t[i + 1])
    BY DEF Chain
  <2>1. i \in 1..(n - 1) /\ i \in 1..(Len(s) - 1) /\ (i + 1 = n \/ i + 1 \in 1..(n - 1))
    OBVIOUS
  <2>2. Follows(s[i], s[i + 1])
    BY <2>1 DEF Sound, Chain
  <2>3. t[i] = s[i]
    BY <2>1
  <2>4. t[i + 1].pc = s[i + 1].pc /\ t[i + 1].kind = s[i + 1].kind /\ t[i + 1].fresh = s[i + 1].fresh
    BY <2>1
  <2>5. QED
    BY <2>2, <2>3, <2>4 DEF Follows
<1>2. t[1].pc = s[1].pc /\ t[1].kind = s[1].kind
  <2>1. n = 1 \/ 1 \in 1..(n - 1)
    OBVIOUS
  <2>2. QED
    BY <2>1
<1>3. s # <<>> /\ t # <<>>
  OBVIOUS
<1>4. QED
  BY <1>1, <1>2, <1>3 DEF Sound

\* A stream is continued by a chain t that starts where it goes on.
LEMMA SoundAppend ==
  ASSUME NEW S, NEW s \in Seq(S), NEW t \in Seq(S), t # <<>>, Chain(t),
         NEW g, NEW v, NEW a, NEW r, Sound(s, FALSE, g, v, a, r),
         t[1].pc = g, t[1].kind = "fence_i" => s = <<>> /\ r = 0,
         v # "stale" => t[1].fresh,
         NEW w2, NEW g2, NEW v2, LastSound(t[Len(t)], w2, g2, v2)
  PROVE  Sound(Cat(s, t), w2, g2, v2, a, r)
<1> DEFINE u == s \o t
<1>1. /\ u \in Seq(S) /\ Len(u) = Len(s) + Len(t)
      /\ \A i \in 1..(Len(s) + Len(t)) : u[i] = IF i <= Len(s) THEN s[i] ELSE t[i - Len(s)]
  BY ConcatProperties
<1> HIDE DEF u
<1>2. Len(s) \in Nat /\ Len(t) \in Nat \ {0}
  OBVIOUS
<1>3. Chain(u)
  <2> SUFFICES ASSUME NEW i \in 1..(Len(u) - 1) PROVE Follows(u[i], u[i + 1])
    BY DEF Chain
  <2>1. CASE i < Len(s)
    <3>1. u[i] = s[i] /\ u[i + 1] = s[i + 1] /\ i \in 1..(Len(s) - 1)
      BY <1>1, <1>2, <2>1
    <3>2. QED
      BY <3>1 DEF Sound, Chain
  <2>2. CASE i = Len(s)
    <3>1. u[i] = s[Len(s)] /\ u[i + 1] = t[1] /\ s # <<>>
      BY <1>1, <1>2, <2>2
    <3>2. LastSound(s[Len(s)], FALSE, g, v)
      BY <3>1 DEF Sound
    <3>3. QED
      BY <3>1, <3>2 DEF LastSound, Follows
  <2>3. CASE i > Len(s)
    <3>1. /\ u[i] = t[i - Len(s)] /\ u[i + 1] = t[(i - Len(s)) + 1]
          /\ i - Len(s) \in 1..(Len(t) - 1)
      BY <1>1, <1>2, <2>3
    <3>2. QED
      BY <3>1 DEF Chain
  <2>4. QED
    BY <1>2, <2>1, <2>2, <2>3
<1>4. u # <<>> /\ u[Len(u)] = t[Len(t)]
  BY <1>1, <1>2
<1>5. a = u[1].pc /\ (u[1].kind = "fence_i" => r = 0)
  <2>1. CASE s = <<>>
    <3>1. u[1] = t[1]
      BY <1>1, <1>2, <2>1
    <3>2. QED
      BY <2>1, <3>1 DEF Sound
  <2>2. CASE s # <<>>
    <3>1. u[1] = s[1]
      BY <1>1, <1>2, <2>2
    <3>2. QED
      BY <2>2, <3>1 DEF Sound
  <2>3. QED
    BY <2>1, <2>2
<1>6. QED
  BY <1>3, <1>4, <1>5 DEF Sound, u, Cat

\* Alike parts make alike streams.
LEMMA SimilarConcat ==
  ASSUME NEW S, NEW s \in Seq(S), NEW s2 \in Seq(S), NEW t \in Seq(S), NEW t2 \in Seq(S),
         Similar(s, s2), Similar(t, t2)
  PROVE  Similar(s \o t, s2 \o t2)
<1>1. /\ Len(s \o t) = Len(s) + Len(t)
      /\ \A i \in 1..(Len(s) + Len(t)) : (s \o t)[i] = IF i <= Len(s) THEN s[i] ELSE t[i - Len(s)]
  BY ConcatProperties
<1>2. /\ Len(s2 \o t2) = Len(s2) + Len(t2)
      /\ \A i \in 1..(Len(s2) + Len(t2)) :
            (s2 \o t2)[i] = IF i <= Len(s2) THEN s2[i] ELSE t2[i - Len(s2)]
  BY ConcatProperties
<1>3. ASSUME NEW i \in 1..(Len(s) + Len(t)) PROVE Alike((s \o t)[i], (s2 \o t2)[i])
  <2>1. CASE i <= Len(s)
    BY <1>1, <1>2, <2>1 DEF Similar
  <2>2. CASE i > Len(s)
    <3>1. (s \o t)[i] = t[i - Len(s)] /\ (s2 \o t2)[i] = t2[i - Len(s)]
      BY <1>1, <1>2, <2>2 DEF Similar
    <3>2. i - Len(s) \in 1..Len(t)
      BY <2>2
    <3>3. QED
      BY <3>1, <3>2 DEF Similar
  <2>3. i <= Len(s) \/ i > Len(s)
    OBVIOUS
  <2>4. QED
    BY <2>1, <2>2, <2>3, Zenon
<1>4. QED
  BY <1>1, <1>2, <1>3 DEF Similar

\* A stream is alike itself.
LEMMA SimilarSelf == ASSUME NEW s PROVE Similar(s, s)
BY DEF Similar, Alike

-----------------------------------------------------------------------------
(***************************************************************************)
(* Instructions.                                                           *)
(***************************************************************************)

\* The sets of instructions depend on nothing but the program.
LEMMA SameCode == ASSUME code' = code PROVE Fetched' = Fetched /\ Unrenamed' = Unrenamed
BY DEF Fetched, Unrenamed, Predictions, Successors

\* A pc has a successor.
LEMMA IncType == \A p \in Pcs : Inc(p) \in Pcs
BY ConstAssumption DEF Inc, Pcs

\* Where an instruction may go on, by its kind.
LEMMA InstructionFacts ==
  ASSUME code \in Programs, NEW op \in Fetched
  PROVE  /\ op.pc \in Pcs
         /\ op.kind \in {"plain", "store", "fence_i"} =>
               GoesOnAt(op) = Inc(op.pc) /\ op.actual = NoPc /\ ~op.cp
         /\ op.kind = "mret" => GoesOnAt(op) = NoPc /\ ~op.cp
         /\ IsJump(op.kind) => op.next \in Pcs /\ op.next \in Successors(op.pc)
         /\ op.kind \in {"plain", "store", "fence_i", "mret"} \/ IsJump(op.kind)
         /\ Successors(op.pc) \subseteq Pcs
<1>1. /\ op \in Records /\ op.kind = code[op.pc] /\ op.next \in Predictions(op.pc)
      /\ op.cp => IsJump(op.kind)
      /\ op.actual # NoPc => IsJump(op.kind) \/ op.kind = "mret"
  BY DEF Fetched
<1>2. op.pc \in Pcs /\ op.kind \in Kinds /\ Target[op.pc] \in Pcs /\ Inc(op.pc) \in Pcs
  BY <1>1, IncType, ConstAssumption DEF Records
<1>3. Successors(op.pc) \subseteq Pcs
  BY <1>1, <1>2 DEF Successors, Kinds
<1>4. op.kind \in {"plain", "store", "fence_i", "mret"} \/ IsJump(op.kind)
  BY <1>2 DEF Kinds, IsJump
<1>5. ASSUME op.kind \in {"plain", "store", "fence_i"}
      PROVE  GoesOnAt(op) = Inc(op.pc) /\ op.actual = NoPc /\ ~op.cp
  <2>1. op.next = Inc(op.pc)
    BY <1>1, <1>5 DEF Predictions, Successors
  <2>2. op.actual = NoPc /\ ~op.cp
    BY <1>1, <1>5 DEF IsJump
  <2>3. QED
    BY <2>1, <2>2 DEF GoesOnAt
<1>6. ASSUME op.kind = "mret" PROVE GoesOnAt(op) = NoPc /\ ~op.cp
  <2>1. op.next = NoPc
    BY <1>1, <1>6 DEF Predictions
  <2>2. ~op.cp
    BY <1>1, <1>6 DEF IsJump
  <2>3. QED
    BY <2>1, <2>2 DEF GoesOnAt
<1>7. ASSUME IsJump(op.kind) PROVE op.next \in Pcs /\ op.next \in Successors(op.pc)
  BY <1>1, <1>3, <1>7 DEF Predictions, IsJump
<1>8. QED
  BY <1>2, <1>3, <1>4, <1>5, <1>6, <1>7

\* The outcome of a branch, entered in its record.
LEMMA OutcomeEntered ==
  ASSUME code \in Programs, NEW op \in Fetched, NEW p \in Pcs, op.actual = NoPc,
         IsJump(op.kind) \/ op.kind = "mret"
  PROVE  /\ [op EXCEPT !.actual = p] \in Fetched
         /\ [op EXCEPT !.actual = p].pc = op.pc
         /\ [op EXCEPT !.actual = p].kind = op.kind
         /\ [op EXCEPT !.actual = p].fresh = op.fresh
         /\ ~(op.cp /\ p # op.next) => Alike(op, [op EXCEPT !.actual = p])
         /\ op.cp => GoesOnAt([op EXCEPT !.actual = p]) = p
<1> DEFINE o == [op EXCEPT !.actual = p]
<1>1. op \in Records
  BY DEF Fetched
<1>2. /\ o \in Records /\ o.pc = op.pc /\ o.kind = op.kind /\ o.fresh = op.fresh
      /\ o.next = op.next /\ o.cp = op.cp /\ o.actual = p
  BY <1>1 DEF Records
<1> HIDE DEF o
<1>3. o \in Fetched
  BY <1>2 DEF Fetched
<1>4. p # NoPc
  BY ConstAssumption
<1>5. op.cp => GoesOnAt(o) = p
  BY <1>2, <1>4 DEF GoesOnAt
<1>6. ~(op.cp /\ p # op.next) => Alike(op, o)
  BY <1>2, <1>4 DEF GoesOnAt, Alike
<1>7. QED
  BY <1>2, <1>3, <1>5, <1>6 DEF o

-----------------------------------------------------------------------------
(***************************************************************************)
(* The parts of the live stream.                                           *)
(***************************************************************************)

\* An instruction not yet renamed is one fetched.
LEMMA UnrenamedFetched == ASSUME NEW s \in Seq(Unrenamed) PROVE s \in Seq(Fetched)
<1>1. Unrenamed \subseteq Fetched
  BY DEF Unrenamed
<1> HIDE DEF Unrenamed, Fetched
<1>2. QED
  BY <1>1

\* The parts of the stream are streams of instructions.
LEMMA LiveType ==
  ASSUME TypeInv, BranchInv
  PROVE  /\ LiveRob \in Seq(Fetched) /\ LiveFront \in Seq(Fetched) /\ Live \in Seq(Fetched)
         /\ LivePort \in Seq(Unrenamed)
         /\ d2r \in Seq(Fetched) /\ f2d \in Seq(Fetched) /\ rev_pack \in Seq(Fetched)
         /\ port \in Seq(Fetched) /\ LivePort \in Seq(Fetched)
         /\ rev_pack \o LivePort \in Seq(Fetched)
         /\ f2d \o (rev_pack \o LivePort) \in Seq(Fetched)
         /\ Resolving => /\ fb.at \in 1..Len(rob) /\ fb.actual \in Pcs
                         /\ Outcome \in Seq(Fetched) /\ Len(Outcome) = Len(rob)
                         /\ \A i \in 1..Len(rob) : i # fb.at => Outcome[i] = rob[i]
                         /\ Outcome[fb.at] = [rob[fb.at] EXCEPT !.actual = fb.actual]
<1>1. rob \in Seq(Fetched) /\ code \in Programs
  BY DEF TypeInv
<1>2. LivePort \in Seq(Unrenamed)
  <2>1. <<>> \in Seq(Unrenamed) /\ port \in Seq(Unrenamed)
    BY DEF TypeInv
  <2>2. QED
    BY <2>1 DEF LivePort
<1>3. /\ d2r \in Seq(Fetched) /\ f2d \in Seq(Fetched) /\ rev_pack \in Seq(Fetched)
      /\ port \in Seq(Fetched) /\ LivePort \in Seq(Fetched)
  BY <1>2, UnrenamedFetched DEF TypeInv
<1>4. rev_pack \o LivePort \in Seq(Fetched)
  BY <1>3, ConcatProperties
<1>5. f2d \o (rev_pack \o LivePort) \in Seq(Fetched)
  BY <1>3, <1>4, ConcatProperties
<1>6. LiveFront \in Seq(Fetched)
  <2>1. d2r \o (f2d \o (rev_pack \o LivePort)) \in Seq(Fetched)
    BY <1>3, <1>5, ConcatProperties
  <2>2. <<>> \in Seq(Fetched)
    OBVIOUS
  <2>3. QED
    BY <2>1, <2>2 DEF LiveFront
<1>7. ASSUME Resolving
      PROVE  /\ fb.at \in 1..Len(rob) /\ fb.actual \in Pcs
             /\ Outcome \in Seq(Fetched) /\ Len(Outcome) = Len(rob)
             /\ \A i \in 1..Len(rob) : i # fb.at => Outcome[i] = rob[i]
             /\ Outcome[fb.at] = [rob[fb.at] EXCEPT !.actual = fb.actual]
  <2>1. /\ fb.at \in 1..Len(rob) /\ rob[fb.at].actual = NoPc /\ fb.actual \in Pcs
        /\ IsJump(rob[fb.at].kind) \/ rob[fb.at].kind = "mret"
    BY <1>7 DEF Resolving, BranchInv
  <2>2. rob[fb.at] \in Fetched
    BY <1>1, <2>1
  <2>3. [rob[fb.at] EXCEPT !.actual = fb.actual] \in Fetched
    BY <1>1, <2>1, <2>2, OutcomeEntered
  <2> DEFINE o == [rob[fb.at] EXCEPT !.actual = fb.actual]
  <2>4. Outcome = [rob EXCEPT ![fb.at] = o]
    BY DEF Outcome
  <2> HIDE DEF o
  <2>5. o \in Fetched
    BY <2>3 DEF o
  <2>6. /\ Outcome \in Seq(Fetched) /\ Len(Outcome) = Len(rob)
        /\ \A i \in 1..Len(rob) : i # fb.at => Outcome[i] = rob[i]
        /\ Outcome[fb.at] = o
    BY <1>1, <2>1, <2>4, <2>5
  <2>7. QED
    BY <2>1, <2>6 DEF o
<1>8. LiveRob \in Seq(Fetched)
  <2>1. ASSUME Resolving PROVE SubSeq(Outcome, 1, fb.at) \in Seq(Fetched)
    BY <1>7, <2>1
  <2>2. QED
    BY <1>1, <1>7, <2>1 DEF LiveRob
<1>9. Live \in Seq(Fetched)
  BY <1>6, <1>8, ConcatProperties DEF Live
<1>10. QED
  BY <1>2, <1>3, <1>4, <1>5, <1>6, <1>7, <1>8, <1>9

\* When nothing is in flight the queues are empty.
LEMMA LiveEmpty ==
  ASSUME TypeInv, BranchInv, Live = <<>>
  PROVE  /\ LiveRob = <<>> /\ rob = <<>>
         /\ fb.flush = "none" => d2r = <<>> /\ f2d = <<>> /\ rev_pack = <<>> /\ LivePort = <<>>
<1>1. LiveRob = <<>> /\ LiveFront = <<>>
  BY LiveType, ConcatEqualIffEmpty DEF Live
<1>2. rob = <<>>
  <2>1. CASE Resolving
    <3>1. fb.at \in 1..Len(rob) /\ Outcome \in Seq(Fetched) /\ Len(Outcome) = Len(rob)
      BY <2>1, LiveType
    <3>2. Len(LiveRob) >= 1
      BY <2>1, <3>1 DEF LiveRob
    <3>3. QED
      BY <1>1, <3>2
  <2>2. CASE ~Resolving
    BY <1>1, <2>2 DEF LiveRob
  <2>3. QED
    BY <2>1, <2>2
<1>3. ASSUME fb.flush = "none"
      PROVE  d2r = <<>> /\ f2d = <<>> /\ rev_pack = <<>> /\ LivePort = <<>>
  <2>1. d2r \o (f2d \o (rev_pack \o LivePort)) = <<>>
    BY <1>1, <1>3 DEF LiveFront
  <2>2. d2r = <<>> /\ f2d \o (rev_pack \o LivePort) = <<>>
    BY <2>1, LiveType, ConcatEqualIffEmpty
  <2>3. f2d = <<>> /\ rev_pack \o LivePort = <<>>
    BY <2>2, LiveType, ConcatEqualIffEmpty
  <2>4. rev_pack = <<>> /\ LivePort = <<>>
    BY <2>3, LiveType, ConcatEqualIffEmpty
  <2>5. QED
    BY <2>2, <2>3, <2>4
<1>4. QED
  BY <1>1, <1>2, <1>3

-----------------------------------------------------------------------------
(***************************************************************************)
(* The initial state and the steps of the back end.                        *)
(***************************************************************************)

\* The feedback of a cycle that has just begun.
LEMMA NoFeedbackType == NoFeedback \in Feedbacks
BY DEF NoFeedback, Feedbacks

\* reset() establishes the invariant.
LEMMA InitIInv == Init => IInv
<1> SUFFICES ASSUME Init PROVE IInv
  OBVIOUS
<1> USE DEF Init
<1>1. TypeInv
  <2>1. <<>> \in Seq(Fetched) /\ <<>> \in Seq(Unrenamed)
    OBVIOUS
  <2>2. 0 \in Pcs
    BY ConstAssumption DEF Pcs
  <2>3. QED
    BY <2>1, <2>2, NoFeedbackType DEF TypeInv, Phases
<1>2. RoomInv
  BY ConstAssumption DEF RoomInv
<1>3. BranchInv /\ ClearedInv /\ IdleInv
  BY DEF BranchInv, ClearedInv, IdleInv, NoFeedback
<1>4. /\ fb.flush = "none" /\ fb.redirect = NoPc /\ fb.jump_to = NoPc /\ ~fb.stall
  BY DEF NoFeedback
<1>5. FeedbackInv
  BY <1>4 DEF FeedbackInv
<1>6. Live = <<>>
  <2>1. LiveRob = <<>>
    BY DEF LiveRob, Resolving
  <2>2. LivePort = <<>>
    BY DEF LivePort
  <2>3. LiveFront = <<>>
    BY <1>4, <2>2 DEF LiveFront
  <2>4. QED
    BY <2>1, <2>3 DEF Live
<1>7. StreamInv
  <2>1. ~Waits /\ GoOn = arch_pc
    BY <1>4 DEF Waits, GoOn
  <2>2. Chain(<<>>)
    BY DEF Chain
  <2>3. QED
    BY <1>6, <2>1, <2>2 DEF StreamInv, Sound
<1>8. QED
  BY <1>1, <1>2, <1>3, <1>5, <1>7 DEF IInv

\* The branch unit, first pass: a branch that will flush cuts the stream behind it.
LEMMA BruInv == ASSUME IInv, Bru PROVE IInv'
<1>1. /\ TypeInv /\ RoomInv /\ FeedbackInv /\ BranchInv /\ ClearedInv /\ IdleInv /\ StreamInv
      /\ phase = "bru" /\ phase' = "interrupt" /\ fb = NoFeedback
      /\ code' = code /\ pc' = pc /\ jump_wait' = jump_wait /\ value' = value /\ port' = port
      /\ busy' = busy /\ rev_pack' = rev_pack /\ f2d' = f2d /\ f2d_popped' = f2d_popped
      /\ d2r' = d2r /\ d2r_popped' = d2r_popped
      /\ rob' = rob /\ rsb' = rsb /\ ack' = ack /\ arch_pc' = arch_pc
  BY DEF Bru, IInv, FeedbackInv, fetch_vars, queue_vars, back_vars
<1>2. Fetched' = Fetched /\ Unrenamed' = Unrenamed
  BY <1>1, SameCode
<1>3. /\ fb.flush = "none" /\ fb.redirect = NoPc /\ fb.jump_to = NoPc /\ ~fb.stall
      /\ fb.at = 0 /\ fb.to = NoPc /\ fb \in Feedbacks
  BY <1>1, NoFeedbackType DEF NoFeedback
<1>4. RoomInv'
  BY <1>1 DEF RoomInv
<1>5. LiveRob = rob /\ LivePort' = LivePort /\ GoOn = pc /\ Waits = jump_wait
  BY <1>1, <1>3 DEF LiveRob, Resolving, LivePort, GoOn, Waits, TypeInv
<1>6. CASE fb' = fb
  <2>1. TypeInv'
    BY <1>1, <1>2, <1>6 DEF TypeInv, Phases
  <2>2. BranchInv' /\ ClearedInv' /\ IdleInv'
    BY <1>1, <1>3, <1>6 DEF BranchInv, ClearedInv, IdleInv
  <2>3. Live' = Live
    <3>1. LiveRob' = LiveRob
      BY <1>1, <1>3, <1>5, <1>6 DEF LiveRob, Resolving
    <3>2. LiveFront' = LiveFront
      BY <1>1, <1>5, <1>6 DEF LiveFront
    <3>3. QED
      BY <3>1, <3>2 DEF Live
  <2>4. GoOn' = GoOn /\ Waits' = Waits
    BY <1>1, <1>3, <1>6 DEF GoOn, Waits
  <2>5. FeedbackInv'
    BY <1>1, <1>3, <1>6 DEF FeedbackInv
  <2>6. StreamInv'
    BY <1>1, <2>3, <2>4 DEF StreamInv
  <2>7. QED
    BY <1>4, <2>1, <2>2, <2>5, <2>6 DEF IInv
<1>7. ASSUME NEW i \in DOMAIN rob, rob[i].actual = NoPc,
             IsJump(rob[i].kind) \/ rob[i].kind = "mret",
             NEW p \in Successors(rob[i].pc),
             fb' = [fb EXCEPT !.at = i, !.actual = p,
                              !.flush = IF rob[i].cp /\ p # rob[i].next THEN "bru" ELSE @,
                              !.to = IF rob[i].cp /\ p # rob[i].next THEN p ELSE @]
      PROVE  IInv'
  <2>1. rob \in Seq(Fetched) /\ i \in 1..Len(rob) /\ i \in Nat /\ i > 0 /\ code \in Programs
    BY <1>1, <1>7 DEF TypeInv
  <2>2. rob[i] \in Fetched
    BY <2>1
  <2>3. p \in Pcs /\ p # NoPc
    BY <1>7, <2>1, <2>2, InstructionFacts, ConstAssumption
  <2>4. /\ fb' \in Feedbacks /\ fb'.at = i /\ fb'.actual = p
        /\ fb'.redirect = NoPc /\ fb'.jump_to = NoPc /\ ~fb'.stall
        /\ IF rob[i].cp /\ p # rob[i].next THEN fb'.flush = "bru" /\ fb'.to = p
           ELSE fb'.flush = "none"
    BY <1>3, <1>7, <2>1, <2>3 DEF Feedbacks
  <2>5. TypeInv'
    BY <1>1, <1>2, <2>4 DEF TypeInv, Phases
  <2>6. BranchInv'
    BY <1>1, <1>7, <2>1, <2>3, <2>4 DEF BranchInv
  <2>7. ClearedInv' /\ IdleInv'
    BY <1>1 DEF ClearedInv, IdleInv
  <2>8. FeedbackInv'
    BY <1>1, <2>3, <2>4 DEF FeedbackInv
  <2>9. Resolving' /\ LiveFront = d2r \o (f2d \o (rev_pack \o LivePort))
    BY <1>1, <1>3, <2>1, <2>4 DEF Resolving, LiveFront
  <2> DEFINE o == [rob[i] EXCEPT !.actual = p]
  <2>10. Outcome' = [rob EXCEPT ![i] = o]
    BY <1>1, <2>4 DEF Outcome
  <2>11. /\ o \in Fetched /\ o.pc = rob[i].pc /\ o.kind = rob[i].kind
         /\ o.fresh = rob[i].fresh
         /\ ~(rob[i].cp /\ p # rob[i].next) => Alike(rob[i], o)
         /\ rob[i].cp => GoesOnAt(o) = p
    BY <1>7, <2>1, <2>2, <2>3, OutcomeEntered
  <2> HIDE DEF o
  <2>12. /\ Outcome' \in Seq(Fetched) /\ Len(Outcome') = Len(rob)
         /\ \A j \in 1..Len(rob) : j # i => Outcome'[j] = rob[j]
         /\ Outcome'[i] = o
    BY <2>1, <2>10, <2>11
  <2>13. Live = rob \o LiveFront /\ LiveFront \in Seq(Fetched) /\ Live \in Seq(Fetched)
    BY <1>1, <1>5, LiveType DEF Live
  <2>14. ASSUME ~(rob[i].cp /\ p # rob[i].next) PROVE StreamInv'
    <3>1. Live' = Outcome' \o LiveFront
      BY <1>1, <1>5, <2>4, <2>9, <2>14 DEF Live, LiveRob, LiveFront
    <3>2. Similar(rob, Outcome')
      BY <2>1, <2>11, <2>12, <2>14 DEF Similar, Alike
    <3>3. Similar(Live, Live') /\ Live' \in Seq(Fetched)
      BY <2>1, <2>12, <2>13, <3>1, <3>2, SimilarConcat, SimilarSelf, ConcatProperties
    <3>4. GoOn' = GoOn /\ Waits' = Waits
      BY <1>1, <1>3, <2>4, <2>14 DEF GoOn, Waits
    <3>5. Sound(Live', Waits, GoOn, value, arch_pc, rsb)
      BY <1>1, <2>13, <3>3, SoundAlike DEF StreamInv
    <3>6. QED
      BY <1>1, <3>4, <3>5 DEF StreamInv
  <2>15. ASSUME rob[i].cp /\ p # rob[i].next PROVE StreamInv'
    <3> DEFINE t == SubSeq(Outcome', 1, i)
    <3>1. /\ t \in Seq(Fetched) /\ Len(t) = i /\ \A j \in 1..i : t[j] = Outcome'[j]
      BY <2>1, <2>12
    <3>2. Live' = t
      <4>1. LiveRob' = t /\ LiveFront' = <<>>
        BY <2>4, <2>9, <2>15 DEF LiveRob, LiveFront
      <4>2. QED
        BY <3>1, <4>1, ConcatEmptySeq DEF Live
    <3> HIDE DEF t
    <3>3. /\ Len(Live) = Len(rob) + Len(LiveFront) /\ i \in 1..Len(Live)
          /\ \A j \in 1..Len(rob) : Live[j] = rob[j]
      BY <2>1, <2>13, ConcatProperties
    <3>4. \A j \in 1..(i - 1) : t[j] = Live[j]
      BY <2>1, <2>12, <3>1, <3>3
    <3>5. t[i] = o /\ Live[i] = rob[i]
      BY <2>1, <2>12, <3>1, <3>3
    <3>6. GoOn' = p /\ ~Waits'
      BY <1>1, <2>4, <2>15 DEF GoOn, Waits
    <3>7. IsJump(rob[i].kind)
      BY <2>2, <2>15 DEF Fetched
    <3>8. LastSound(o, Waits', GoOn', value)
      BY <2>11, <2>15, <3>6, <3>7 DEF LastSound, IsJump
    <3>9. t[i].pc = Live[i].pc /\ t[i].kind = Live[i].kind /\ t[i].fresh = Live[i].fresh
      BY <2>11, <3>5
    <3>10. LastSound(t[i], Waits', GoOn', value)
      BY <3>5, <3>8
    <3>11. Sound(Live, Waits, GoOn, value, arch_pc, rsb)
      BY <1>1 DEF StreamInv
    <3>12. Sound(t, Waits', GoOn', value, arch_pc, rsb)
      BY <2>13, <3>1, <3>3, <3>4, <3>9, <3>10, <3>11, SoundCut
    <3>13. QED
      BY <1>1, <3>2, <3>12 DEF StreamInv
  <2>16. QED
    BY <1>4, <2>5, <2>6, <2>7, <2>8, <2>14, <2>15 DEF IInv
<1>8. QED
  BY <1>6, <1>7 DEF Bru

\* A flush of commit: nothing is live, and the machine goes on at the target.
LEMMA CommitFlushInv ==
  ASSUME IInv, phase \in {"interrupt", "commit"}, NEW target \in Pcs, CommitFlush(target),
         fb.jump_to = NoPc, arch_pc' = target, rsb' = rsb, ack' = ack,
         UNCHANGED <<code, fetch_vars, queue_vars>>
  PROVE  IInv'
<1>1. /\ TypeInv /\ RoomInv /\ FeedbackInv /\ BranchInv
      /\ phase' = "resolve" /\ rob' = <<>> /\ phase \notin {"fetch1", "end"}
      /\ code' = code /\ pc' = pc /\ jump_wait' = jump_wait /\ value' = value /\ port' = port
      /\ busy' = busy /\ rev_pack' = rev_pack /\ f2d' = f2d /\ f2d_popped' = f2d_popped
      /\ d2r' = d2r /\ d2r_popped' = d2r_popped
  BY DEF CommitFlush, IInv, fetch_vars, queue_vars
<1>2. Fetched' = Fetched /\ Unrenamed' = Unrenamed
  BY <1>1, SameCode
<1>3. fb \in Feedbacks /\ fb' = [fb EXCEPT !.flush = "commit", !.to = target]
  BY <1>1 DEF TypeInv, CommitFlush
<1>4. /\ fb' \in Feedbacks /\ fb'.flush = "commit" /\ fb'.to = target
      /\ fb'.jump_to = fb.jump_to /\ fb'.redirect = fb.redirect /\ fb'.stall = fb.stall
  BY <1>3 DEF Feedbacks
<1>5. TypeInv'
  BY <1>1, <1>2, <1>4 DEF TypeInv, Phases
<1>6. RoomInv'
  BY <1>1 DEF RoomInv
<1>7. BranchInv' /\ ClearedInv' /\ IdleInv'
  BY <1>1, <1>4 DEF BranchInv, ClearedInv, IdleInv
<1>8. FeedbackInv'
  BY <1>1, <1>4 DEF FeedbackInv
<1>9. Live' = <<>>
  <2>1. LiveRob' = <<>> /\ LiveFront' = <<>>
    BY <1>1, <1>4 DEF LiveRob, Resolving, LiveFront
  <2>2. QED
    BY <2>1 DEF Live
<1>10. GoOn' = target /\ ~Waits'
  BY <1>1, <1>4 DEF GoOn, Waits
<1>11. StreamInv'
  BY <1>9, <1>10 DEF StreamInv, Sound, Chain
<1>12. QED
  BY <1>5, <1>6, <1>7, <1>8, <1>11 DEF IInv

\* What commit finds at the head of the reorder buffer when it has not flushed.
LEMMA HeadFacts ==
  ASSUME IInv, CanCommit
  PROVE  /\ phase = "commit" /\ rob \in Seq(Fetched) /\ Len(rob) \in Nat \ {0}
         /\ Head(rob) = rob[1] /\ rob[1] \in Fetched
         /\ code \in Programs /\ fb.flush # "commit" /\ fb.jump_to = NoPc
         /\ Live # <<>> /\ LiveRob # <<>> /\ LiveRob \in Seq(Fetched)
         /\ LiveFront \in Seq(Fetched) /\ Live \in Seq(Fetched)
         /\ Live[1] = LiveRob[1] /\ arch_pc = rob[1].pc /\ rob[1].pc \in Pcs
         /\ fb.at # 1 => LiveRob[1] = rob[1]
<1>1. /\ TypeInv /\ FeedbackInv /\ BranchInv /\ StreamInv /\ phase = "commit" /\ rob # <<>>
  BY DEF IInv, CanCommit
<1>2. rob \in Seq(Fetched) /\ Len(rob) \in Nat \ {0} /\ Head(rob) = rob[1] /\ rob[1] \in Fetched
  BY <1>1 DEF TypeInv
<1>3. code \in Programs /\ fb.flush # "commit"
  BY <1>1 DEF TypeInv, FeedbackInv
<1>4. Live # <<>>
  BY <1>1, LiveEmpty
<1>5. fb.jump_to = NoPc
  BY <1>1, <1>4 DEF FeedbackInv
<1>6. /\ LiveRob \in Seq(Fetched) /\ LiveFront \in Seq(Fetched) /\ Live \in Seq(Fetched)
  BY <1>1, LiveType
<1>7. LiveRob # <<>> /\ LiveRob[1].pc = rob[1].pc /\ (fb.at # 1 => LiveRob[1] = rob[1])
  <2>1. CASE Resolving
    <3>1. /\ fb.at \in 1..Len(rob) /\ Outcome \in Seq(Fetched) /\ Len(Outcome) = Len(rob)
          /\ \A i \in 1..Len(rob) : i # fb.at => Outcome[i] = rob[i]
          /\ Outcome[fb.at] = [rob[fb.at] EXCEPT !.actual = fb.actual]
      BY <1>1, <2>1, LiveType
    <3>2. LiveRob # <<>> /\ LiveRob[1] = Outcome[1]
      BY <2>1, <3>1 DEF LiveRob
    <3>3. fb.at # 1 => Outcome[1] = rob[1]
      BY <1>2, <3>1
    <3>4. Outcome[1].pc = rob[1].pc
      <4>1. CASE fb.at = 1
        <5>1. rob[1] \in Records
          BY <1>2 DEF Fetched
        <5>2. QED
          BY <3>1, <4>1, <5>1 DEF Records
      <4>2. QED
        BY <3>3, <4>1
    <3>5. QED
      BY <3>2, <3>3, <3>4
  <2>2. CASE ~Resolving
    BY <1>1, <2>2 DEF LiveRob
  <2>3. QED
    BY <2>1, <2>2
<1>8. Live[1] = LiveRob[1]
  BY <1>6, <1>7, ConcatProperties DEF Live
<1>9. arch_pc = rob[1].pc
  BY <1>1, <1>4, <1>7, <1>8 DEF StreamInv, Sound
<1>10. rob[1].pc \in Pcs
  BY <1>2, <1>3, InstructionFacts
<1>11. QED
  BY <1>1, <1>2, <1>3, <1>4, <1>5, <1>6, <1>7, <1>8, <1>9, <1>10

\* Cutting and dropping the first instruction commute.
LEMMA CutTail ==
  ASSUME NEW S, NEW s \in Seq(S), NEW t \in Seq(S), Len(t) = Len(s) - 1,
         NEW k \in 2..Len(s), \A i \in 1..Len(t) : t[i] = s[i + 1]
  PROVE  SubSeq(t, 1, k - 1) = Tail(SubSeq(s, 1, k))
<1> DEFINE u == SubSeq(t, 1, k - 1)
           c == SubSeq(s, 1, k)
           v == Tail(c)
<1>1. u \in Seq(S) /\ Len(u) = k - 1 /\ \A i \in 1..(k - 1) : u[i] = t[i]
  OBVIOUS
<1>2. c \in Seq(S) /\ Len(c) = k /\ \A i \in 1..k : c[i] = s[i]
  OBVIOUS
<1> HIDE DEF c
<1>3. v \in Seq(S) /\ Len(v) = k - 1 /\ \A i \in 1..(k - 1) : v[i] = c[i + 1]
  <2>1. c # <<>>
    BY <1>2
  <2>2. QED
    BY <1>2, <2>1, HeadTailProperties
<1> HIDE DEF u, v
<1>4. ASSUME NEW i \in 1..(k - 1) PROVE u[i] = v[i]
  <2>1. i \in 1..Len(t) /\ i + 1 \in 1..k
    OBVIOUS
  <2>2. QED
    BY <1>1, <1>2, <1>3, <2>1
<1>5. u = v
  BY <1>1, <1>3, <1>4
<1>6. QED
  BY <1>5 DEF u, v, c

\* When the head retires the live stream loses its first instruction, also while a
\* branch behind it is about to flush.
LEMMA LiveRetired ==
  ASSUME TypeInv, BranchInv, phase = "commit", phase' = phase, rob # <<>>, rob' = Tail(rob),
         fb.flush # "commit", fb'.flush = fb.flush, fb.at # 1, fb \in Feedbacks,
         fb'.at = (IF fb.at > 0 THEN fb.at - 1 ELSE 0), fb'.actual = fb.actual
  PROVE  LiveRob' = Tail(LiveRob)
<1>1. /\ rob \in Seq(Fetched) /\ Tail(rob) \in Seq(Fetched) /\ Len(Tail(rob)) = Len(rob) - 1
      /\ Len(rob) \in Nat \ {0} /\ fb.at \in Nat
      /\ \A i \in 1..Len(Tail(rob)) : Tail(rob)[i] = rob[i + 1]
  BY HeadTailProperties DEF TypeInv, Feedbacks
<1>2. CASE ~Resolving
  <2>1. fb.at = 0
    BY <1>1, <1>2 DEF Resolving
  <2>2. ~Resolving'
    BY <2>1 DEF Resolving
  <2>3. QED
    BY <1>2, <2>2 DEF LiveRob
<1>3. CASE Resolving
  <2>1. /\ fb.at \in 2..Len(rob) /\ Outcome \in Seq(Fetched) /\ Len(Outcome) = Len(rob)
        /\ \A i \in 1..Len(rob) : i # fb.at => Outcome[i] = rob[i]
        /\ Outcome[fb.at] = [rob[fb.at] EXCEPT !.actual = fb.actual]
    BY <1>1, <1>3, LiveType
  <2>2. fb'.at = fb.at - 1 /\ Resolving'
    BY <1>3, <2>1 DEF Resolving
  <2> DEFINE k == fb.at
             o == [rob[k] EXCEPT !.actual = fb.actual]
  <2>3. Outcome' = [Tail(rob) EXCEPT ![k - 1] = o]
    <3>1. Tail(rob)[k - 1] = rob[k]
      BY <1>1, <2>1
    <3>2. QED
      BY <2>2, <3>1 DEF Outcome
  <2>4. Outcome = [rob EXCEPT ![k] = o]
    BY DEF Outcome
  <2> HIDE DEF o, k
  <2>5. k \in 2..Len(rob) /\ Outcome[k] = o /\ \A i \in 1..Len(rob) : i # k => Outcome[i] = rob[i]
    BY <2>1 DEF k, o
  <2>6. o \in Fetched
    BY <2>1, <2>5
  <2>7. Outcome' \in Seq(Fetched) /\ Len(Outcome') = Len(rob) - 1
    BY <1>1, <2>3, <2>5, <2>6
  <2>8. \A i \in 1..(Len(rob) - 1) : Outcome'[i] = Outcome[i + 1]
    <3> SUFFICES ASSUME NEW i \in 1..(Len(rob) - 1) PROVE Outcome'[i] = Outcome[i + 1]
      OBVIOUS
    <3>1. i \in 1..Len(Tail(rob)) /\ i + 1 \in 1..Len(rob) /\ k - 1 \in 1..Len(Tail(rob))
      BY <1>1, <2>5
    <3>2. CASE i = k - 1
      BY <1>1, <2>3, <2>5, <3>1, <3>2
    <3>3. CASE i # k - 1
      <4>1. Outcome'[i] = Tail(rob)[i] /\ Tail(rob)[i] = rob[i + 1]
        <5> DEFINE T == Tail(rob)
        <5>1. T \in Seq(Fetched) /\ i \in 1..Len(T) /\ Outcome' = [T EXCEPT ![k - 1] = o]
          BY <1>1, <2>3, <3>1
        <5> HIDE DEF T
        <5>2. Outcome'[i] = T[i]
          BY <3>3, <5>1
        <5>3. QED
          BY <1>1, <3>1, <5>2 DEF T
      <4>2. i + 1 # k
        BY <2>5, <3>3
      <4>3. QED
        BY <2>5, <3>1, <4>1, <4>2
    <3>4. QED
      BY <3>2, <3>3
  <2>9. Outcome' = Tail(Outcome)
    BY <1>1, <2>1, <2>7, <2>8
  <2>10. CASE fb.flush = "bru"
    <3>1. SubSeq(Outcome', 1, k - 1) = Tail(SubSeq(Outcome, 1, k))
      <4>1. Len(Outcome') = Len(Outcome) - 1 /\ k \in 2..Len(Outcome)
        BY <2>1, <2>5, <2>7
      <4>2. \A i \in 1..Len(Outcome') : Outcome'[i] = Outcome[i + 1]
        BY <2>7, <2>8
      <4>3. Outcome \in Seq(Fetched) /\ Outcome' \in Seq(Fetched)
        BY <2>1, <2>7
      <4>4. QED
        BY <4>1, <4>2, <4>3, CutTail, Zenon
    <3>2. LiveRob = SubSeq(Outcome, 1, k) /\ LiveRob' = SubSeq(Outcome', 1, k - 1)
      BY <1>3, <2>2, <2>10 DEF LiveRob, k
    <3>3. QED
      BY <3>1, <3>2
  <2>11. CASE fb.flush # "bru"
    BY <1>3, <2>2, <2>9, <2>11 DEF LiveRob
  <2>12. QED
    BY <2>10, <2>11
<1>4. QED
  BY <1>2, <1>3

\* The head retires: the program is where the head goes on.
LEMMA RetireInv ==
  ASSUME IInv, CanCommit, NEW target \in Pcs, RetireHead(target), fb.at # 1,
         rob[1].kind = "mret" \/ GoesOnAt(rob[1]) = target,
         phase' = phase, UNCHANGED <<code, fetch_vars, queue_vars>>,
         ack' = ack, rsb' \in Nat, rsb' >= rsb
  PROVE  IInv'
<1>1. /\ TypeInv /\ RoomInv /\ FeedbackInv /\ BranchInv /\ ClearedInv /\ IdleInv /\ StreamInv
      /\ phase = "commit" /\ phase' = "commit" /\ rob # <<>>
      /\ code' = code /\ pc' = pc /\ jump_wait' = jump_wait /\ value' = value /\ port' = port
      /\ busy' = busy /\ rev_pack' = rev_pack /\ f2d' = f2d /\ f2d_popped' = f2d_popped
      /\ d2r' = d2r /\ d2r_popped' = d2r_popped
      /\ rob' = Tail(rob) /\ arch_pc' = target
  BY DEF RetireHead, CanCommit, IInv, fetch_vars, queue_vars
<1>2. Fetched' = Fetched /\ Unrenamed' = Unrenamed
  BY <1>1, SameCode
<1>3. /\ rob \in Seq(Fetched) /\ Len(rob) \in Nat \ {0}
      /\ Head(rob) = rob[1] /\ rob[1] \in Fetched
      /\ code \in Programs /\ fb.flush # "commit" /\ fb.jump_to = NoPc
      /\ Live # <<>> /\ LiveRob # <<>> /\ LiveRob \in Seq(Fetched)
      /\ LiveFront \in Seq(Fetched) /\ Live \in Seq(Fetched)
      /\ Live[1] = rob[1]
  BY HeadFacts
<1>4. /\ fb' \in Feedbacks /\ fb'.at = (IF fb.at > 0 THEN fb.at - 1 ELSE 0)
      /\ fb'.jump_to = (IF rob[1].kind = "mret" THEN target ELSE fb.jump_to)
      /\ fb'.flush = fb.flush /\ fb'.to = fb.to /\ fb'.actual = fb.actual
      /\ fb'.redirect = fb.redirect /\ fb'.stall = fb.stall
      /\ fb'.commit_idle = fb.commit_idle
  <2>1. fb \in Feedbacks
    BY <1>1 DEF TypeInv
  <2> DEFINE n == IF fb.at > 0 THEN fb.at - 1 ELSE 0
             b == fb.pushed \/ rob[1].kind = "store"
             j == IF rob[1].kind = "mret" THEN target ELSE fb.jump_to
  <2>2. fb' = [fb EXCEPT !.at = n, !.pushed = b, !.jump_to = j]
    BY <1>3, <2>1 DEF RetireHead, Feedbacks
  <2>3. n \in Nat /\ j \in Pcs \cup {NoPc}
    BY <2>1 DEF Feedbacks
  <2>4. b \in BOOLEAN
    OBVIOUS
  <2> HIDE DEF n, b, j
  <2>5. /\ fb' \in Feedbacks /\ fb'.at = n /\ fb'.jump_to = j
        /\ fb'.flush = fb.flush /\ fb'.to = fb.to /\ fb'.actual = fb.actual
        /\ fb'.redirect = fb.redirect /\ fb'.stall = fb.stall
        /\ fb'.commit_idle = fb.commit_idle
    BY <2>1, <2>2, <2>3, <2>4 DEF Feedbacks
  <2>6. QED
    BY <2>5 DEF n, j
<1>5. fb \in Feedbacks /\ fb.at \in Nat /\ target # NoPc /\ fb.redirect = NoPc /\ ~fb.stall
  BY <1>1, ConstAssumption DEF TypeInv, Feedbacks, FeedbackInv
<1>6. /\ Tail(rob) \in Seq(Fetched) /\ Len(Tail(rob)) = Len(rob) - 1
      /\ \A i \in 1..Len(Tail(rob)) : Tail(rob)[i] = rob[i + 1]
  BY <1>1, <1>3, HeadTailProperties
<1>7. TypeInv'
  BY <1>1, <1>2, <1>4, <1>6 DEF TypeInv, Phases
<1>8. RoomInv'
  BY <1>1, <1>7 DEF RoomInv, TypeInv
<1>9. BranchInv'
  <2> SUFFICES ASSUME fb'.at > 0 \/ fb'.flush = "bru" PROVE BranchInv'
    BY DEF BranchInv
  <2>1. fb.at > 0
    BY <1>1, <1>3, <1>4, <1>5 DEF BranchInv
  <2>2. fb.at \in 2..Len(rob) /\ fb'.at = fb.at - 1
    BY <1>1, <1>3, <1>4, <1>5, <2>1 DEF BranchInv
  <2>3. fb'.at \in 1..Len(rob') /\ rob'[fb'.at] = rob[fb.at]
    BY <1>1, <1>3, <1>6, <2>2
  <2>4. QED
    BY <1>1, <1>3, <1>4, <2>1, <2>3 DEF BranchInv
<1>10. ClearedInv' /\ IdleInv'
  BY <1>1, <1>4 DEF ClearedInv, IdleInv
<1>11. LiveRob' = Tail(LiveRob)
  BY <1>1, <1>3, <1>4, <1>5, LiveRetired
<1>12. LiveFront' = LiveFront
  BY <1>1, <1>4 DEF LiveFront, LivePort
<1>13. Live' = Tail(Live)
  <2>1. Tail(LiveRob \o LiveFront) = Tail(LiveRob) \o LiveFront
    BY <1>3
  <2>2. QED
    BY <1>11, <1>12, <2>1 DEF Live
<1>14. CASE rob[1].kind # "mret"
  <2>1. fb'.jump_to = NoPc /\ GoesOnAt(rob[1]) = target
    BY <1>3, <1>4, <1>14
  <2>2. FeedbackInv'
    BY <1>1, <1>3, <1>4, <2>1 DEF FeedbackInv
  <2>3. GoOn' = GoOn /\ Waits' = Waits
    BY <1>1, <1>3, <1>4, <2>1 DEF GoOn, Waits
  <2>4. Sound(Live, Waits, GoOn, value, arch_pc, rsb)
    BY <1>1 DEF StreamInv
  <2>5. Live[1].kind # "mret"
    BY <1>3, <1>14
  <2>6. Sound(Tail(Live), Waits, GoOn, value, GoesOnAt(Live[1]), rsb')
    BY <1>3, <2>4, <2>5, SoundTail
  <2>7. StreamInv'
    BY <1>1, <1>3, <1>13, <2>1, <2>3, <2>6 DEF StreamInv
  <2>8. QED
    BY <1>7, <1>8, <1>9, <1>10, <2>2, <2>7 DEF IInv
<1>15. CASE rob[1].kind = "mret"
  <2>1. Len(Live) = 1
    <3>1. Len(Live) \in Nat /\ Len(Live) # 0
      BY <1>3
    <3>2. ASSUME Len(Live) > 1 PROVE FALSE
      <4>1. 1 \in 1..(Len(Live) - 1) /\ Live[1 + 1] \in Fetched
        BY <1>3, <3>1, <3>2
      <4>2. Follows(Live[1], Live[1 + 1])
        BY <1>1, <4>1 DEF StreamInv, Sound, Chain
      <4>3. GoesOnAt(rob[1]) = NoPc
        BY <1>3, <1>15, InstructionFacts
      <4>4. Live[1 + 1].pc \in Pcs
        BY <1>3, <4>1, InstructionFacts
      <4>5. QED
        BY <1>3, <4>2, <4>3, <4>4, ConstAssumption DEF Follows
    <3>3. ~(Len(Live) > 1)
      BY <3>2
    <3>4. \A n \in Nat : n # 0 /\ ~(n > 1) => n = 1
      OBVIOUS
    <3>5. QED
      BY <3>1, <3>3, <3>4, Zenon
  <2>2. Live' = <<>>
    BY <1>3, <1>13, <2>1
  <2>3. LastSound(rob[1], Waits, GoOn, value)
    BY <1>1, <1>3, <2>1 DEF StreamInv, Sound
  <2>4. Waits
    BY <1>15, <2>3 DEF LastSound
  <2>5. jump_wait /\ fb.flush = "none"
    BY <1>1, <2>4 DEF Waits
  <2>6. fb'.jump_to = target
    BY <1>4, <1>15
  <2>7. FeedbackInv'
    BY <1>1, <1>4, <1>5, <2>2, <2>5, <2>6 DEF FeedbackInv
  <2>8. GoOn' = target /\ ~Waits'
    BY <1>1, <1>4, <1>5, <2>5, <2>6 DEF GoOn, Waits
  <2>9. StreamInv'
    BY <1>1, <2>2, <2>8 DEF StreamInv, Sound, Chain
  <2>10. QED
    BY <1>7, <1>8, <1>9, <1>10, <2>7, <2>9 DEF IInv
<1>16. QED
  BY <1>14, <1>15

\* The actions of commit that retire the head.
LEMMA CommitRetireInv ==
  ASSUME IInv, CommitPlain \/ CommitStore \/ CommitJump PROVE IInv'
<1>1. CanCommit /\ phase' = phase /\ ack' = ack /\ UNCHANGED <<code, fetch_vars, queue_vars>>
  BY DEF CommitPlain, CommitStore, CommitJump
<1>2. /\ phase = "commit" /\ rob \in Seq(Fetched) /\ Head(rob) = rob[1] /\ rob[1] \in Fetched
      /\ code \in Programs /\ fb.flush # "commit" /\ rob[1].pc \in Pcs
  BY <1>1, HeadFacts
<1>3. BranchInv /\ rsb \in Nat /\ NoPc \notin Pcs
  BY ConstAssumption DEF IInv, TypeInv
<1>4. CASE CommitPlain
  <2>1. /\ rob[1].kind \in {"plain", "fence_i"} /\ RetireHead(Inc(rob[1].pc)) /\ rsb' = rsb
    BY <1>2, <1>4 DEF CommitPlain
  <2>2. GoesOnAt(rob[1]) = Inc(rob[1].pc) /\ Inc(rob[1].pc) \in Pcs
    BY <1>2, <2>1, InstructionFacts, IncType
  <2>3. fb.at # 1
    BY <1>2, <1>3, <2>1 DEF BranchInv, IsJump
  <2>4. rsb' \in Nat /\ rsb' >= rsb
    BY <1>3, <2>1
  <2>5. QED
    BY <1>1, <2>1, <2>2, <2>3, <2>4, RetireInv
<1>5. CASE CommitStore
  <2>1. /\ rob[1].kind = "store" /\ RetireHead(Inc(rob[1].pc)) /\ rsb' = rsb + 1
    BY <1>2, <1>5 DEF CommitStore
  <2>2. GoesOnAt(rob[1]) = Inc(rob[1].pc) /\ Inc(rob[1].pc) \in Pcs
    BY <1>2, <2>1, InstructionFacts, IncType
  <2>3. fb.at # 1
    BY <1>2, <1>3, <2>1 DEF BranchInv, IsJump
  <2>4. rsb' \in Nat /\ rsb' >= rsb
    BY <1>3, <2>1
  <2>5. QED
    BY <1>1, <2>1, <2>2, <2>3, <2>4, RetireInv
<1>6. CASE CommitJump
  <2>1. /\ rob[1].actual # NoPc /\ RetireHead(rob[1].actual) /\ rsb' = rsb
        /\ rob[1].kind = "mret" \/ rob[1].cp \/ rob[1].actual = rob[1].next
    BY <1>2, <1>6 DEF CommitJump, Resolved
  <2>2. rob[1].actual \in Pcs
    BY <1>2, <2>1 DEF Fetched, Records
  <2>3. rob[1].kind = "mret" \/ GoesOnAt(rob[1]) = rob[1].actual
    BY <2>1 DEF GoesOnAt
  <2>4. fb.at # 1
    BY <1>2, <1>3, <2>1 DEF BranchInv
  <2>5. rsb' \in Nat /\ rsb' >= rsb
    BY <1>3, <2>1
  <2>6. QED
    BY <1>1, <2>1, <2>2, <2>3, <2>4, <2>5, RetireInv
<1>7. QED
  BY <1>4, <1>5, <1>6

\* The actions of commit that flush.
LEMMA CommitFlushesInv ==
  ASSUME IInv, Interrupt \/ CommitMispredicted \/ CommitTrap \/ CommitConflict PROVE IInv'
<1>1. TypeInv /\ FeedbackInv /\ TrapPc \in Pcs
  BY ConstAssumption DEF IInv
<1>2. CASE Interrupt
  <2>1. /\ phase \in {"interrupt", "commit"} /\ phase = "interrupt" /\ CommitFlush(TrapPc)
        /\ arch_pc' = TrapPc /\ rsb' = rsb /\ ack' = ack
        /\ UNCHANGED <<code, fetch_vars, queue_vars>>
    BY <1>2 DEF Interrupt
  <2>2. fb.jump_to = NoPc
    BY <1>1, <2>1 DEF FeedbackInv
  <2>3. QED
    BY <1>1, <2>1, <2>2, CommitFlushInv
<1>3. CASE CommitMispredicted \/ CommitTrap \/ CommitConflict
  <2>1. /\ CanCommit /\ phase \in {"interrupt", "commit"} /\ rsb' = rsb /\ ack' = ack
        /\ UNCHANGED <<code, fetch_vars, queue_vars>>
    BY <1>3 DEF CommitMispredicted, CommitTrap, CommitConflict, CanCommit
  <2>2. /\ Head(rob) = rob[1] /\ rob[1] \in Fetched /\ fb.jump_to = NoPc
        /\ arch_pc = rob[1].pc /\ rob[1].pc \in Pcs
    BY <2>1, HeadFacts
  <2>3. CASE CommitMispredicted
    <3>1. /\ rob[1].actual # NoPc /\ CommitFlush(rob[1].actual) /\ arch_pc' = rob[1].actual
      BY <2>2, <2>3 DEF CommitMispredicted, Resolved
    <3>2. rob[1].actual \in Pcs
      BY <2>2, <3>1 DEF Fetched, Records
    <3>3. QED
      BY <2>1, <2>2, <3>1, <3>2, CommitFlushInv
  <2>4. CASE CommitTrap
    <3>1. CommitFlush(TrapPc) /\ arch_pc' = TrapPc
      BY <2>4 DEF CommitTrap
    <3>2. QED
      BY <1>1, <2>1, <2>2, <3>1, CommitFlushInv
  <2>5. CASE CommitConflict
    <3>1. CommitFlush(rob[1].pc) /\ arch_pc' = rob[1].pc
      BY <2>2, <2>5 DEF CommitConflict
    <3>2. QED
      BY <2>1, <2>2, <3>1, CommitFlushInv
  <2>6. QED
    BY <1>3, <2>3, <2>4, <2>5
<1>4. QED
  BY <1>2, <1>3

\* Commit begins, and ends without a flush: the stream is as before.
LEMMA CommitPassInv == ASSUME IInv, NoInterrupt \/ CommitEnd PROVE IInv'
<1>1. /\ TypeInv /\ RoomInv /\ FeedbackInv /\ BranchInv /\ ClearedInv /\ IdleInv /\ StreamInv
      /\ phase \in {"interrupt", "commit"} /\ phase' \in {"commit", "resolve"}
      /\ code' = code /\ pc' = pc /\ jump_wait' = jump_wait /\ value' = value /\ port' = port
      /\ busy' = busy /\ rev_pack' = rev_pack /\ f2d' = f2d /\ f2d_popped' = f2d_popped
      /\ d2r' = d2r /\ d2r_popped' = d2r_popped
      /\ rob' = rob /\ rsb' = rsb /\ ack' = ack /\ arch_pc' = arch_pc
  BY DEF NoInterrupt, CommitEnd, IInv, fetch_vars, queue_vars, back_vars
<1>2. Fetched' = Fetched /\ Unrenamed' = Unrenamed
  BY <1>1, SameCode
<1>3. /\ fb' \in Feedbacks /\ fb'.at = fb.at /\ fb'.jump_to = fb.jump_to
      /\ fb'.flush = fb.flush /\ fb'.to = fb.to /\ fb'.actual = fb.actual
      /\ fb'.redirect = fb.redirect /\ fb'.stall = fb.stall
      /\ fb'.commit_idle => rob = <<>> \/ (phase = "commit" /\ fb.commit_idle)
  <2>1. fb \in Feedbacks
    BY <1>1 DEF TypeInv
  <2>2. CASE NoInterrupt
    <3> DEFINE b == rob = <<>>
    <3>1. fb' = [fb EXCEPT !.commit_idle = b]
      BY <2>2 DEF NoInterrupt
    <3>2. b \in BOOLEAN
      OBVIOUS
    <3> HIDE DEF b
    <3>3. /\ fb' \in Feedbacks /\ fb'.at = fb.at /\ fb'.jump_to = fb.jump_to
          /\ fb'.flush = fb.flush /\ fb'.to = fb.to /\ fb'.actual = fb.actual
          /\ fb'.redirect = fb.redirect /\ fb'.stall = fb.stall /\ fb'.commit_idle = b
      BY <2>1, <3>1, <3>2 DEF Feedbacks
    <3>4. QED
      BY <3>3 DEF b
  <2>3. CASE CommitEnd
    BY <2>1, <2>3 DEF CommitEnd
  <2>4. QED
    BY <2>2, <2>3
<1>4. TypeInv'
  BY <1>1, <1>2, <1>3 DEF TypeInv, Phases
<1>5. RoomInv'
  BY <1>1 DEF RoomInv
<1>6. BranchInv'
  BY <1>1, <1>3 DEF BranchInv
<1>7. ClearedInv' /\ IdleInv'
  BY <1>1, <1>3 DEF ClearedInv, IdleInv
<1>8. Live' = Live /\ GoOn' = GoOn /\ Waits' = Waits
  <2>1. LiveRob' = LiveRob
    BY <1>1, <1>3 DEF LiveRob, Resolving, Outcome
  <2>2. LiveFront' = LiveFront
    BY <1>1, <1>3 DEF LiveFront, LivePort
  <2>3. QED
    BY <1>1, <1>3, <2>1, <2>2 DEF Live, GoOn, Waits
<1>9. FeedbackInv'
  BY <1>1, <1>3, <1>8 DEF FeedbackInv
<1>10. StreamInv'
  BY <1>1, <1>8 DEF StreamInv
<1>11. QED
  BY <1>4, <1>5, <1>6, <1>7, <1>9, <1>10 DEF IInv

\* The branch unit, second pass, makes the reorder buffer what it was to become.
LEMMA BruResolveInv == ASSUME IInv, BruResolve PROVE IInv'
<1>1. /\ TypeInv /\ RoomInv /\ FeedbackInv /\ BranchInv /\ ClearedInv /\ IdleInv /\ StreamInv
      /\ phase = "resolve" /\ phase' = "rename" /\ fb' = fb
      /\ code' = code /\ pc' = pc /\ jump_wait' = jump_wait /\ value' = value /\ port' = port
      /\ busy' = busy /\ rev_pack' = rev_pack /\ f2d' = f2d /\ f2d_popped' = f2d_popped
      /\ d2r' = d2r /\ d2r_popped' = d2r_popped
      /\ rsb' = rsb /\ ack' = ack /\ arch_pc' = arch_pc /\ fb \in Feedbacks
  BY DEF BruResolve, IInv, TypeInv, fetch_vars, queue_vars, back_vars
<1>2. Fetched' = Fetched /\ Unrenamed' = Unrenamed
  BY <1>1, SameCode
<1>3. rob' = LiveRob
  <2>1. Resolving <=> ~(fb.flush = "commit" \/ fb.at = 0)
    BY <1>1 DEF Resolving, Feedbacks
  <2>2. Outcome = [rob EXCEPT ![fb.at].actual = fb.actual]
    BY DEF Outcome
  <2>3. QED
    BY <2>1, <2>2 DEF BruResolve, LiveRob
<1>4. LiveRob' = LiveRob
  BY <1>1, <1>3 DEF LiveRob, Resolving
<1>5. LiveRob \in Seq(Fetched)
  BY <1>1, LiveType
<1>6. TypeInv'
  BY <1>1, <1>2, <1>3, <1>5 DEF TypeInv, Phases
<1>7. RoomInv'
  BY <1>1 DEF RoomInv
<1>8. BranchInv' /\ ClearedInv'
  BY <1>1 DEF BranchInv, ClearedInv
<1>9. rob = <<>> => rob' = <<>>
  <2>1. rob = <<>> => ~Resolving
    BY <1>1, LiveType
  <2>2. QED
    BY <1>3, <2>1 DEF LiveRob
<1>10. IdleInv'
  BY <1>1, <1>9 DEF IdleInv
<1>11. Live' = Live /\ GoOn' = GoOn /\ Waits' = Waits
  <2>1. LiveFront' = LiveFront
    BY <1>1 DEF LiveFront, LivePort
  <2>2. QED
    BY <1>1, <1>4, <2>1 DEF Live, GoOn, Waits
<1>12. FeedbackInv'
  BY <1>1, <1>9, <1>11 DEF FeedbackInv
<1>13. StreamInv'
  BY <1>1, <1>11 DEF StreamInv
<1>14. QED
  BY <1>6, <1>7, <1>8, <1>10, <1>12, <1>13 DEF IInv

-----------------------------------------------------------------------------
(***************************************************************************)
(* The steps of rename and of the front end.                               *)
(***************************************************************************)

\* Parts of a stream may be put together in any order.
LEMMA Rejoin ==
  ASSUME NEW S, NEW s \in Seq(S), NEW a \in Seq(S), NEW b \in Seq(S), NEW u \in Seq(S)
  PROVE  Cat(Cat(s, a), Cat(b, u)) = Cat(s, Cat(Cat(a, b), u))
BY DEF Cat

\* The same for four parts in a row.
LEMMA Regroup ==
  ASSUME NEW S, NEW s \in Seq(S), NEW a \in Seq(S), NEW b \in Seq(S), NEW u \in Seq(S)
  PROVE  Cat(s, Cat(a, Cat(b, u))) = Cat(Cat(s, Cat(a, b)), u)
BY DEF Cat

\* What a stage moves from the front of one queue to the end of the queue before
\* it stays in its place in the stream.
LEMMA Moved ==
  ASSUME NEW S, NEW s \in Seq(S), NEW q \in Seq(S), NEW u \in Seq(S), NEW n \in 0..Len(q)
  PROVE  /\ Take(q, n) \in Seq(S) /\ Len(Take(q, n)) = n
         /\ Drop(q, n) \in Seq(S) /\ Len(Drop(q, n)) = Len(q) - n
         /\ Cat(s, Take(q, n)) \in Seq(S) /\ Len(Cat(s, Take(q, n))) = Len(s) + n
         /\ Cat(Drop(q, n), u) \in Seq(S)
         /\ Cat(Cat(s, Take(q, n)), Cat(Drop(q, n), u)) = Cat(s, Cat(q, u))
<1> DEFINE a == Take(q, n)
           b == Drop(q, n)
<1>1. a \in Seq(S) /\ Len(a) = n
  BY DEF Take
<1>2. b \in Seq(S) /\ Len(b) = Len(q) - n
  BY DEF Drop
<1>3. Cat(a, b) = q
  <2>1. 1 \in 1..(Len(q) + 1) /\ n \in (1 - 1)..Len(q) /\ Len(q) \in n..Len(q)
    OBVIOUS
  <2>2. a \o b = SubSeq(q, 1, Len(q))
    BY <2>1, ConcatAdjacentSubSeq DEF Take, Drop
  <2>3. QED
    BY <2>2, SubSeqFull, Zenon DEF Cat
<1> HIDE DEF a, b
<1>4. Cat(b, u) \in Seq(S) /\ Cat(s, a) \in Seq(S) /\ Len(Cat(s, a)) = Len(s) + n
  BY <1>1, <1>2, ConcatProperties DEF Cat
<1>5. Cat(Cat(s, a), Cat(b, u)) = Cat(s, Cat(Cat(a, b), u))
  BY <1>1, <1>2, Rejoin
<1>6. QED
  BY <1>1, <1>2, <1>3, <1>4, <1>5 DEF a, b

\* rename: an instruction gets its checkpoint and stays where it is in the stream.
LEMMA RenameInv == ASSUME IInv, Rename PROVE IInv'
<1>1. /\ TypeInv /\ RoomInv /\ FeedbackInv /\ BranchInv /\ ClearedInv /\ IdleInv /\ StreamInv
      /\ phase = "rename" /\ phase' = "decode"
      /\ code' = code /\ pc' = pc /\ jump_wait' = jump_wait /\ value' = value /\ port' = port
      /\ busy' = busy /\ rev_pack' = rev_pack /\ f2d' = f2d /\ f2d_popped' = f2d_popped
      /\ rsb' = rsb /\ ack' = ack /\ arch_pc' = arch_pc /\ fb \in Feedbacks
  BY DEF Rename, IInv, TypeInv, fetch_vars
<1>2. Fetched' = Fetched /\ Unrenamed' = Unrenamed
  BY <1>1, SameCode
<1>3. /\ fb' \in Feedbacks /\ fb'.at = fb.at /\ fb'.jump_to = fb.jump_to
      /\ fb'.flush = fb.flush /\ fb'.to = fb.to /\ fb'.actual = fb.actual
      /\ fb'.redirect = fb.redirect /\ fb'.stall = fb.stall
      /\ fb'.commit_idle = fb.commit_idle /\ (fb'.rename_idle => d2r = <<>>)
  <2> DEFINE b == d2r = <<>>
  <2>1. fb' = [fb EXCEPT !.rename_idle = b]
    BY DEF Rename
  <2>2. b \in BOOLEAN
    OBVIOUS
  <2> HIDE DEF b
  <2>3. /\ fb' \in Feedbacks /\ fb'.at = fb.at /\ fb'.jump_to = fb.jump_to
        /\ fb'.flush = fb.flush /\ fb'.to = fb.to /\ fb'.actual = fb.actual
        /\ fb'.redirect = fb.redirect /\ fb'.stall = fb.stall
        /\ fb'.commit_idle = fb.commit_idle /\ fb'.rename_idle = b
    BY <1>1, <2>1, <2>2 DEF Feedbacks
  <2>4. QED
    BY <2>3 DEF b
<1>4. BranchInv' /\ ClearedInv' /\ GoOn' = GoOn /\ Waits' = Waits /\ LivePort' = LivePort
  BY <1>1, <1>3 DEF BranchInv, ClearedInv, GoOn, Waits, LivePort
<1>5. LiveRob = rob /\ LiveRob' = rob'
  BY <1>1 DEF LiveRob, Resolving
<1>6. CASE fb.flush # "none"
  <2>1. rob' = rob /\ d2r' = d2r /\ d2r_popped' = d2r_popped
    BY <1>6 DEF Rename
  <2>2. TypeInv'
    BY <1>1, <1>2, <1>3, <2>1 DEF TypeInv, Phases
  <2>3. RoomInv' /\ IdleInv'
    BY <1>1, <1>3, <1>6, <2>1 DEF RoomInv, IdleInv
  <2>4. Live' = Live
    BY <1>3, <1>5, <1>6, <2>1 DEF Live, LiveFront
  <2>5. FeedbackInv'
    BY <1>1, <1>3, <2>1, <2>4 DEF FeedbackInv
  <2>6. StreamInv'
    BY <1>1, <1>4, <2>4 DEF StreamInv
  <2>7. QED
    BY <1>4, <2>2, <2>3, <2>5, <2>6 DEF IInv
<1>7. ASSUME fb.flush = "none", NEW n \in 0..RENAME_WIDTH, NEW cp \in BOOLEAN, n <= Len(d2r),
             rob' = rob \o [i \in 1..n |-> [d2r[i] EXCEPT !.cp = IsJump(d2r[i].kind) /\ cp]],
             d2r' = SubSeq(d2r, n + 1, Len(d2r)), d2r_popped' = n
      PROVE  IInv'
  <2> DEFINE X == [i \in 1..n |-> [d2r[i] EXCEPT !.cp = IsJump(d2r[i].kind) /\ cp]]
             A == Take(d2r, n)
             B == Drop(d2r, n)
             R == f2d \o (rev_pack \o LivePort)
  <2>1. /\ rob \in Seq(Fetched) /\ d2r \in Seq(Unrenamed) /\ d2r \in Seq(Fetched)
        /\ R \in Seq(Fetched) /\ Live \in Seq(Fetched) /\ n \in 0..Len(d2r) /\ n \in Nat
    BY <1>1, <1>7, LiveType DEF TypeInv
  <2>2. ASSUME NEW i \in 1..n PROVE X[i] \in Fetched /\ Alike(d2r[i], X[i])
    <3> DEFINE b == IsJump(d2r[i].kind) /\ cp
               o == [d2r[i] EXCEPT !.cp = b]
    <3>1. d2r[i] \in Unrenamed /\ X[i] = o
      BY <2>1
    <3>2. d2r[i] \in Fetched /\ d2r[i] \in Records /\ d2r[i].actual = NoPc /\ ~d2r[i].cp
      BY <3>1 DEF Unrenamed, Fetched
    <3>3. b \in BOOLEAN /\ (b => IsJump(d2r[i].kind))
      OBVIOUS
    <3> HIDE DEF b
    <3>4. /\ o \in Records /\ o.pc = d2r[i].pc /\ o.kind = d2r[i].kind /\ o.fresh = d2r[i].fresh
          /\ o.next = d2r[i].next /\ o.actual = NoPc /\ (o.cp => IsJump(d2r[i].kind))
      BY <3>2, <3>3 DEF Records
    <3> HIDE DEF o
    <3>5. o \in Fetched
      BY <3>2, <3>4 DEF Fetched
    <3>6. Alike(d2r[i], o)
      BY <3>2, <3>4 DEF Alike, GoesOnAt
    <3>7. QED
      BY <3>1, <3>5, <3>6
  <2>3. rob' = rob \o X /\ d2r' = B /\ d2r_popped' = n
    BY <1>7 DEF Drop
  <2>4. DOMAIN X = 1..n
    OBVIOUS
  <2> HIDE DEF X
  <2>5. X \in Seq(Fetched) /\ Len(X) = n
    <3>1. X = [i \in 1..n |-> X[i]]
      BY DEF X
    <3>2. X \in [1..n -> Fetched]
      BY <2>2, <3>1, Zenon
    <3>3. QED
      BY <2>1, <3>2
  <2>6. /\ A \in Seq(Fetched) /\ Len(A) = n /\ \A i \in 1..n : A[i] = d2r[i]
    BY <2>1 DEF Take
  <2>7. /\ B \in Seq(Fetched) /\ Len(B) = Len(d2r) - n /\ rob \o A \in Seq(Fetched)
        /\ (rob \o A) \o (B \o R) = rob \o (d2r \o R)
    <3>1. R \in Seq(Fetched) /\ rob \in Seq(Fetched) /\ d2r \in Seq(Fetched) /\ n \in 0..Len(d2r)
      BY <2>1
    <3> HIDE DEF R
    <3>2. /\ B \in Seq(Fetched) /\ Len(B) = Len(d2r) - n /\ Cat(rob, A) \in Seq(Fetched)
          /\ Cat(Cat(rob, A), Cat(B, R)) = Cat(rob, Cat(d2r, R))
      BY <3>1, Moved
    <3>3. QED
      BY <3>2 DEF Cat
  <2>8. B \in Seq(Unrenamed)
    BY <2>1 DEF Drop
  <2> HIDE DEF A, B, R
  <2>9. Similar(A, X)
    BY <2>1, <2>2, <2>5, <2>6 DEF Similar
  <2>10. B \o R \in Seq(Fetched) /\ rob \o X \in Seq(Fetched)
    BY <2>1, <2>5, <2>7, ConcatProperties
  <2>11. Similar(rob \o A, rob \o X)
    BY <2>1, <2>5, <2>6, <2>9, SimilarConcat, SimilarSelf
  <2>12. Similar((rob \o A) \o (B \o R), (rob \o X) \o (B \o R))
    BY <2>7, <2>10, <2>11, SimilarConcat, SimilarSelf
  <2>13. Live = (rob \o A) \o (B \o R) /\ Live' = (rob \o X) \o (B \o R)
    <3>1. Live = rob \o (d2r \o R)
      BY <1>5, <1>7 DEF Live, LiveFront, R
    <3>2. LiveFront' = B \o R
      BY <1>1, <1>3, <1>4, <1>7, <2>3 DEF LiveFront, R
    <3>3. QED
      BY <1>5, <2>3, <2>7, <3>1, <3>2 DEF Live
  <2>14. Similar(Live, Live')
    BY <2>12, <2>13
  <2>15. Live' \in Seq(Fetched)
    BY <2>10, <2>13, ConcatProperties
  <2>16. TypeInv'
    BY <1>1, <1>2, <1>3, <2>3, <2>8, <2>10 DEF TypeInv, Phases
  <2>17. RoomInv'
    BY <1>1, <2>1, <2>3, <2>7 DEF RoomInv
  <2>18. IdleInv'
    <3>1. ASSUME rob = <<>>, d2r = <<>> PROVE rob' = <<>> /\ d2r' = <<>>
      <4>1. n = 0
        BY <2>1, <3>1
      <4>2. X = <<>> /\ B = <<>>
        BY <2>5, <2>7, <3>1, <4>1
      <4>3. QED
        BY <2>3, <3>1, <4>2
    <3>2. QED
      BY <1>1, <1>3, <1>7, <3>1 DEF IdleInv
  <2>19. Live = <<>> => Live' = <<>>
    BY <2>1, <2>14, <2>15 DEF Similar
  <2>20. FeedbackInv'
    BY <1>1, <1>3, <1>7, <2>19 DEF FeedbackInv
  <2>21. Sound(Live, Waits, GoOn, value, arch_pc, rsb)
    BY <1>1 DEF StreamInv
  <2>22. Sound(Live', Waits, GoOn, value, arch_pc, rsb)
    BY <2>1, <2>14, <2>15, <2>21, SoundAlike
  <2>23. StreamInv'
    BY <1>1, <1>4, <2>22 DEF StreamInv
  <2>24. QED
    BY <1>4, <2>16, <2>17, <2>18, <2>20, <2>23 DEF IInv
<1>8. QED
  BY <1>6, <1>7 DEF Rename

\* decode: an instruction moves to the next queue and stays where it is in the stream.
LEMMA DecodeInv == ASSUME IInv, Decode PROVE IInv'
<1>1. /\ TypeInv /\ RoomInv /\ FeedbackInv /\ BranchInv /\ ClearedInv /\ IdleInv /\ StreamInv
      /\ phase = "decode" /\ phase' = "fetch2"
      /\ code' = code /\ pc' = pc /\ jump_wait' = jump_wait /\ value' = value /\ port' = port
      /\ busy' = busy /\ rev_pack' = rev_pack /\ d2r_popped' = d2r_popped /\ rob' = rob
      /\ rsb' = rsb /\ ack' = ack /\ arch_pc' = arch_pc /\ fb \in Feedbacks
  BY DEF Decode, IInv, TypeInv, fetch_vars, back_vars
<1>2. Fetched' = Fetched /\ Unrenamed' = Unrenamed
  BY <1>1, SameCode
<1>3. /\ fb' \in Feedbacks /\ fb'.at = fb.at /\ fb'.jump_to = fb.jump_to
      /\ fb'.flush = fb.flush /\ fb'.to = fb.to /\ fb'.actual = fb.actual
      /\ fb'.redirect = fb.redirect /\ fb'.stall = fb.stall
      /\ fb'.commit_idle = fb.commit_idle /\ fb'.rename_idle = fb.rename_idle
      /\ fb'.decode_idle => f2d = <<>>
  <2> DEFINE b == f2d = <<>>
  <2>1. fb' = [fb EXCEPT !.decode_idle = b]
    BY DEF Decode
  <2>2. b \in BOOLEAN
    OBVIOUS
  <2> HIDE DEF b
  <2>3. /\ fb' \in Feedbacks /\ fb'.at = fb.at /\ fb'.jump_to = fb.jump_to
        /\ fb'.flush = fb.flush /\ fb'.to = fb.to /\ fb'.actual = fb.actual
        /\ fb'.redirect = fb.redirect /\ fb'.stall = fb.stall
        /\ fb'.commit_idle = fb.commit_idle /\ fb'.rename_idle = fb.rename_idle
        /\ fb'.decode_idle = b
    BY <1>1, <2>1, <2>2 DEF Feedbacks
  <2>4. QED
    BY <2>3 DEF b
<1>4. BranchInv' /\ GoOn' = GoOn /\ Waits' = Waits /\ LivePort' = LivePort
  BY <1>1, <1>3 DEF BranchInv, GoOn, Waits, LivePort
<1>5. LiveRob = rob /\ LiveRob' = rob
  BY <1>1 DEF LiveRob, Resolving
<1>6. CASE fb.flush # "none"
  <2>1. d2r' = <<>> /\ f2d' = f2d /\ f2d_popped' = f2d_popped
    BY <1>6 DEF Decode
  <2>2. TypeInv'
    BY <1>1, <1>2, <1>3, <2>1 DEF TypeInv, Phases
  <2>3. RoomInv'
    <3>1. Len(d2r) \in Nat /\ Len(d2r') = 0
      BY <1>1, <2>1 DEF TypeInv
    <3>2. QED
      BY <1>1, <2>1, <3>1, ConstAssumption DEF RoomInv
  <2>4. IdleInv' /\ ClearedInv'
    BY <1>1, <1>3, <1>6, <2>1 DEF IdleInv, ClearedInv
  <2>5. Live' = Live
    BY <1>3, <1>5, <1>6 DEF Live, LiveFront
  <2>6. FeedbackInv'
    BY <1>1, <1>3, <2>5 DEF FeedbackInv
  <2>7. StreamInv'
    BY <1>1, <1>4, <2>5 DEF StreamInv
  <2>8. QED
    BY <1>4, <2>2, <2>3, <2>4, <2>6, <2>7 DEF IInv
<1>7. CASE fb.flush = "none"
  <2> DEFINE n == Min2(DECODE_WIDTH,
                       Min2(Len(f2d), Free(DECODE_RENAME_FIFO_SIZE, d2r, d2r_popped)))
             A == Take(f2d, n)
             B == Drop(f2d, n)
             R == rev_pack \o LivePort
  <2>1. /\ d2r' = d2r \o A /\ f2d' = B /\ f2d_popped' = n
    BY <1>7 DEF Decode, Take, Drop
  <2>2. /\ d2r \in Seq(Unrenamed) /\ f2d \in Seq(Unrenamed)
        /\ d2r \in Seq(Fetched) /\ f2d \in Seq(Fetched) /\ R \in Seq(Fetched)
    BY <1>1, LiveType DEF TypeInv
  <2>3. n \in 0..Len(f2d) /\ Len(d2r) + n + d2r_popped <= DECODE_RENAME_FIFO_SIZE
    <3>1. n \in Int /\ 0 <= n /\ n <= Len(f2d) /\ n <= DECODE_RENAME_FIFO_SIZE - Len(d2r) - d2r_popped
      BY <1>1, <2>2, ConstAssumption DEF Min2, Free, RoomInv
    <3>2. QED
      BY <1>1, <2>2, <3>1, ConstAssumption DEF RoomInv
  <2> HIDE DEF n, R
  <2>4. /\ A \in Seq(Unrenamed) /\ Len(A) = n /\ B \in Seq(Unrenamed) /\ Len(B) = Len(f2d) - n
        /\ Cat(d2r, A) \in Seq(Unrenamed) /\ Len(Cat(d2r, A)) = Len(d2r) + n
    BY <2>2, <2>3, Moved
  <2>5. Cat(Cat(d2r, A), Cat(B, R)) = Cat(d2r, Cat(f2d, R))
    BY <2>2, <2>3, Moved
  <2> HIDE DEF A, B
  <2>6. /\ d2r' \in Seq(Unrenamed) /\ f2d' \in Seq(Unrenamed)
        /\ Len(d2r') = Len(d2r) + n /\ Len(f2d') = Len(f2d) - n
        /\ d2r' \o (f2d' \o R) = d2r \o (f2d \o R)
    BY <2>1, <2>4, <2>5 DEF Cat
  <2>7. TypeInv'
    BY <1>1, <1>2, <1>3, <2>6 DEF TypeInv, Phases
  <2>8. RoomInv'
    <3>1. /\ n \in Nat /\ Len(d2r') + d2r_popped <= DECODE_RENAME_FIFO_SIZE
          /\ Len(f2d') + n <= FETCH2_DECODE_FIFO_SIZE
      BY <1>1, <2>2, <2>3, <2>6 DEF RoomInv
    <3>2. QED
      BY <1>1, <2>1, <3>1 DEF RoomInv
  <2>9. Live' = Live
    <3>1. LiveFront = d2r \o (f2d \o R) /\ LiveFront' = d2r' \o (f2d' \o R)
      BY <1>1, <1>3, <1>4, <1>7 DEF LiveFront, R
    <3>2. QED
      BY <1>5, <2>6, <3>1 DEF Live
  <2>10. IdleInv'
    <3>1. ASSUME d2r = <<>>, f2d = <<>> PROVE d2r' = <<>> /\ f2d' = <<>>
      BY <2>3, <2>6, <3>1
    <3>2. QED
      BY <1>1, <1>3, <1>7, <3>1 DEF IdleInv
  <2>11. ClearedInv'
    BY <1>3, <1>7 DEF ClearedInv
  <2>12. FeedbackInv'
    BY <1>1, <1>3, <1>7, <2>9 DEF FeedbackInv
  <2>13. StreamInv'
    BY <1>1, <1>4, <2>9 DEF StreamInv
  <2>14. QED
    BY <1>4, <2>7, <2>8, <2>10, <2>11, <2>12, <2>13 DEF IInv
<1>8. QED
  BY <1>6, <1>7

\* What of a pack does not fit the fifo is kept, in its place.
LEMMA PushFacts ==
  ASSUME TypeInv, RoomInv, NEW pack \in Seq(Unrenamed), NEW redirect \in Pcs \cup {NoPc},
         Push(pack, redirect), NEW u \in Seq(Fetched)
  PROVE  /\ f2d' \in Seq(Unrenamed) /\ rev_pack' \in Seq(Unrenamed) /\ busy' \in BOOLEAN
         /\ Len(f2d') + f2d_popped <= FETCH2_DECODE_FIFO_SIZE
         /\ busy' <=> rev_pack' # <<>>
         /\ f2d' \o (rev_pack' \o u) = f2d \o (pack \o u)
         /\ f2d = <<>> /\ pack = <<>> => f2d' = <<>> /\ rev_pack' = <<>>
         /\ fb' \in Feedbacks /\ fb'.at = fb.at /\ fb'.jump_to = fb.jump_to
         /\ fb'.flush = fb.flush /\ fb'.to = fb.to /\ fb'.actual = fb.actual
         /\ fb'.redirect = redirect /\ fb'.stall = busy
         /\ fb'.commit_idle = fb.commit_idle /\ fb'.rename_idle = fb.rename_idle
         /\ fb'.decode_idle = fb.decode_idle /\ (fb'.fetch2_idle => pack = <<>>)
<1> DEFINE n == Min2(Len(pack), Free(FETCH2_DECODE_FIFO_SIZE, f2d, f2d_popped))
           A == Take(pack, n)
           B == Drop(pack, n)
           b == pack = <<>>
<1>1. /\ f2d' = f2d \o A /\ rev_pack' = B /\ busy' = (n < Len(pack))
      /\ fb' = [fb EXCEPT !.stall = busy, !.redirect = redirect, !.fetch2_idle = b]
  BY DEF Push, Take, Drop
<1>2. /\ f2d \in Seq(Unrenamed) /\ f2d \in Seq(Fetched) /\ pack \in Seq(Fetched)
      /\ Len(f2d) \in Nat /\ Len(pack) \in Nat /\ fb \in Feedbacks /\ busy \in BOOLEAN
  BY UnrenamedFetched DEF TypeInv
<1>3. n \in 0..Len(pack) /\ Len(f2d) + n + f2d_popped <= FETCH2_DECODE_FIFO_SIZE
  <2>1. /\ n \in Int /\ 0 <= n /\ n <= Len(pack)
        /\ n <= FETCH2_DECODE_FIFO_SIZE - Len(f2d) - f2d_popped
    BY <1>2, ConstAssumption DEF Min2, Free, RoomInv
  <2>2. QED
    BY <1>2, <2>1, ConstAssumption DEF RoomInv
<1>4. b \in BOOLEAN
  OBVIOUS
<1> HIDE DEF n
<1>5. /\ A \in Seq(Unrenamed) /\ Len(A) = n /\ B \in Seq(Unrenamed) /\ Len(B) = Len(pack) - n
      /\ Cat(f2d, A) \in Seq(Unrenamed) /\ Len(Cat(f2d, A)) = Len(f2d) + n
  BY <1>2, <1>3, Moved
<1>6. Cat(Cat(f2d, A), Cat(B, u)) = Cat(f2d, Cat(pack, u))
  BY <1>2, <1>3, Moved
<1> HIDE DEF A, B, b
<1>7. /\ f2d' \in Seq(Unrenamed) /\ rev_pack' \in Seq(Unrenamed)
      /\ Len(f2d') = Len(f2d) + n /\ Len(rev_pack') = Len(pack) - n
      /\ f2d' \o (rev_pack' \o u) = f2d \o (pack \o u)
  BY <1>1, <1>5, <1>6 DEF Cat
<1>8. /\ Len(f2d') + f2d_popped <= FETCH2_DECODE_FIFO_SIZE
      /\ f2d = <<>> /\ pack = <<>> => f2d' = <<>> /\ rev_pack' = <<>>
  BY <1>2, <1>3, <1>7 DEF RoomInv
<1>9. busy' \in BOOLEAN /\ (busy' <=> rev_pack' # <<>>)
  <2> DEFINE c == n < Len(pack)
  <2>1. c \in BOOLEAN /\ (c <=> rev_pack' # <<>>)
    BY <1>2, <1>3, <1>7
  <2>2. busy' = c
    BY <1>1
  <2> HIDE DEF c
  <2>3. QED
    BY <2>1, <2>2, Zenon
<1>10. /\ fb' \in Feedbacks /\ fb'.at = fb.at /\ fb'.jump_to = fb.jump_to
       /\ fb'.flush = fb.flush /\ fb'.to = fb.to /\ fb'.actual = fb.actual
       /\ fb'.redirect = redirect /\ fb'.stall = busy
       /\ fb'.commit_idle = fb.commit_idle /\ fb'.rename_idle = fb.rename_idle
       /\ fb'.decode_idle = fb.decode_idle /\ fb'.fetch2_idle = b
  BY <1>1, <1>2, <1>4 DEF Feedbacks
<1>11. fb'.fetch2_idle => pack = <<>>
  BY <1>10 DEF b
<1>12. QED
  BY <1>7, <1>8, <1>9, <1>10, <1>11

\* fetch2 hands on a pack, with u in the port behind it: the invariant is kept if
\* the stream with the pack in it is sound.
LEMMA PushInv ==
  ASSUME IInv, phase = "fetch2", fb.flush = "none", phase' = "fetch1",
         UNCHANGED <<code, fetch_vars, f2d_popped, d2r, d2r_popped, back_vars>>,
         NEW pack \in Seq(Unrenamed), NEW redirect \in Pcs \cup {NoPc}, Push(pack, redirect),
         NEW u, busy => u = port, ~busy => u = <<>>,
         NEW t, t = rob \o (d2r \o (f2d \o (pack \o u))),
         fb.jump_to # NoPc => redirect = NoPc /\ t = <<>>,
         NEW w, NEW g, redirect = NoPc => w = Waits /\ g = GoOn,
         redirect # NoPc => w = FALSE /\ g = redirect /\ ~busy,
         Sound(t, w, g, value, arch_pc, rsb)
  PROVE  IInv'
<1>1. /\ TypeInv /\ RoomInv /\ FeedbackInv /\ BranchInv /\ ClearedInv /\ IdleInv /\ StreamInv
      /\ code' = code /\ pc' = pc /\ jump_wait' = jump_wait /\ value' = value /\ port' = port
      /\ f2d_popped' = f2d_popped /\ d2r' = d2r /\ d2r_popped' = d2r_popped
      /\ rob' = rob /\ rsb' = rsb /\ ack' = ack /\ arch_pc' = arch_pc
  BY DEF IInv, fetch_vars, back_vars
<1>2. Fetched' = Fetched /\ Unrenamed' = Unrenamed
  BY <1>1, SameCode
<1>3. u \in Seq(Fetched)
  <2>1. <<>> \in Seq(Fetched) /\ port \in Seq(Fetched)
    BY <1>1, LiveType
  <2>2. QED
    BY <2>1
<1>4. /\ f2d' \in Seq(Unrenamed) /\ rev_pack' \in Seq(Unrenamed) /\ busy' \in BOOLEAN
      /\ Len(f2d') + f2d_popped <= FETCH2_DECODE_FIFO_SIZE
      /\ busy' <=> rev_pack' # <<>>
      /\ f2d' \o (rev_pack' \o u) = f2d \o (pack \o u)
      /\ f2d = <<>> /\ pack = <<>> => f2d' = <<>> /\ rev_pack' = <<>>
      /\ fb' \in Feedbacks /\ fb'.at = fb.at /\ fb'.jump_to = fb.jump_to
      /\ fb'.flush = fb.flush /\ fb'.to = fb.to /\ fb'.actual = fb.actual
      /\ fb'.redirect = redirect /\ fb'.stall = busy
      /\ fb'.commit_idle = fb.commit_idle /\ fb'.rename_idle = fb.rename_idle
      /\ fb'.decode_idle = fb.decode_idle /\ (fb'.fetch2_idle => pack = <<>>)
  BY <1>1, <1>3, PushFacts
<1>5. TypeInv'
  BY <1>1, <1>2, <1>4 DEF TypeInv, Phases
<1>6. RoomInv'
  BY <1>1, <1>4 DEF RoomInv
<1>7. BranchInv' /\ ClearedInv'
  BY <1>4 DEF BranchInv, ClearedInv
<1>8. IdleInv'
  BY <1>1, <1>4 DEF IdleInv
<1>9. Live' = t
  <2>1. LiveRob' = rob
    BY <1>1 DEF LiveRob, Resolving
  <2>2. LivePort' = u
    BY <1>1, <1>4 DEF LivePort
  <2>3. LiveFront' = d2r \o (f2d' \o (rev_pack' \o u))
    BY <1>1, <1>4, <2>2 DEF LiveFront
  <2>4. QED
    BY <1>4, <2>1, <2>3 DEF Live
<1>10. Waits' = w /\ GoOn' = g
  <2>1. fb.redirect = NoPc /\ jump_wait \in BOOLEAN
    BY <1>1 DEF FeedbackInv, TypeInv
  <2>2. Waits' = w
    BY <1>1, <1>4, <2>1 DEF Waits
  <2>3. GoOn' = g
    BY <1>1, <1>4, <2>1 DEF GoOn
  <2>4. QED
    BY <2>2, <2>3
<1>11. FeedbackInv'
  BY <1>1, <1>4, <1>9 DEF FeedbackInv
<1>12. StreamInv'
  BY <1>1, <1>9, <1>10 DEF StreamInv
<1>13. QED
  BY <1>5, <1>6, <1>7, <1>8, <1>11, <1>12 DEF IInv

\* fetch2 without a change of mind: the kept pack, or the one in the port.
LEMMA Fetch2PassInv == ASSUME IInv, Fetch2Busy \/ Fetch2Agree PROVE IInv'
<1>1. /\ phase = "fetch2" /\ fb.flush = "none" /\ phase' = "fetch1"
      /\ UNCHANGED <<code, fetch_vars, f2d_popped, d2r, d2r_popped, back_vars>>
      /\ TypeInv /\ RoomInv /\ BranchInv /\ FeedbackInv /\ StreamInv
      /\ rev_pack \in Seq(Unrenamed) /\ port \in Seq(Unrenamed)
  BY DEF Fetch2Busy, Fetch2Agree, IInv, TypeInv
<1>2. Live = rob \o (d2r \o (f2d \o (rev_pack \o port)))
  BY <1>1 DEF Live, LiveRob, Resolving, LiveFront, LivePort
<1>3. fb.jump_to # NoPc => Live = <<>>
  BY <1>1 DEF FeedbackInv
<1>4. Sound(Live, Waits, GoOn, value, arch_pc, rsb)
  BY <1>1 DEF StreamInv
<1>5. NoPc \in Pcs \cup {NoPc}
  OBVIOUS
<1>6. CASE Fetch2Busy
  <2>1. busy /\ Push(rev_pack, NoPc)
    BY <1>6 DEF Fetch2Busy
  <2>2. QED
    BY <1>1, <1>2, <1>3, <1>4, <1>5, <2>1, PushInv, Zenon
<1>7. CASE Fetch2Agree
  <2>1. ~busy /\ Push(port, NoPc) /\ rev_pack = <<>>
    BY <1>1, <1>7 DEF Fetch2Agree, RoomInv
  <2>2. rev_pack \o port = port \o <<>>
    BY <1>1, <2>1, ConcatEmptySeq
  <2>3. Live = rob \o (d2r \o (f2d \o (port \o <<>>)))
    BY <1>2, <2>2
  <2>4. QED
    BY <1>1, <1>3, <1>4, <1>5, <2>1, <2>3, PushInv, Zenon
<1>8. QED
  BY <1>6, <1>7

\* fetch2 in a flush: what is cleared was no longer in the stream.
LEMMA Fetch2FlushInv == ASSUME IInv, Fetch2Flush PROVE IInv'
<1>1. /\ TypeInv /\ RoomInv /\ FeedbackInv /\ BranchInv /\ ClearedInv /\ IdleInv /\ StreamInv
      /\ phase = "fetch2" /\ phase' = "fetch1" /\ fb.flush # "none"
      /\ busy' = FALSE /\ rev_pack' = <<>> /\ f2d' = <<>>
      /\ code' = code /\ pc' = pc /\ jump_wait' = jump_wait /\ value' = value /\ port' = port
      /\ f2d_popped' = f2d_popped /\ d2r' = d2r /\ d2r_popped' = d2r_popped
      /\ rob' = rob /\ rsb' = rsb /\ ack' = ack /\ arch_pc' = arch_pc
  BY DEF Fetch2Flush, IInv, fetch_vars, back_vars
<1>2. Fetched' = Fetched /\ Unrenamed' = Unrenamed
  BY <1>1, SameCode
<1>3. /\ fb' \in Feedbacks /\ fb'.at = fb.at /\ fb'.jump_to = fb.jump_to
      /\ fb'.flush = fb.flush /\ fb'.to = fb.to /\ fb'.actual = fb.actual
      /\ fb'.redirect = fb.redirect
  <2>1. fb \in Feedbacks /\ busy \in BOOLEAN /\ fb' = [fb EXCEPT !.stall = busy]
    BY <1>1 DEF TypeInv, Fetch2Flush
  <2>2. QED
    BY <2>1 DEF Feedbacks
<1>4. TypeInv'
  <2>1. <<>> \in Seq(Unrenamed)
    OBVIOUS
  <2>2. busy' \in BOOLEAN
    BY <1>1, Zenon
  <2>3. QED
    BY <1>1, <1>2, <1>3, <2>1, <2>2 DEF TypeInv, Phases
<1>5. RoomInv'
  <2>1. Len(f2d) \in Nat /\ Len(f2d') = 0
    BY <1>1 DEF TypeInv
  <2>2. QED
    BY <1>1, <2>1, ConstAssumption DEF RoomInv
<1>6. BranchInv' /\ ClearedInv' /\ IdleInv'
  BY <1>1, <1>3 DEF BranchInv, ClearedInv, IdleInv
<1>7. Live' = Live
  <2>1. LiveRob' = LiveRob
    BY <1>1 DEF LiveRob, Resolving
  <2>2. LiveFront' = LiveFront
    BY <1>1, <1>3 DEF LiveFront
  <2>3. QED
    BY <2>1, <2>2 DEF Live
<1>8. GoOn' = GoOn /\ Waits' = Waits
  BY <1>1, <1>3 DEF GoOn, Waits
<1>9. FeedbackInv'
  BY <1>1, <1>3, <1>7 DEF FeedbackInv
<1>10. StreamInv'
  BY <1>1, <1>7, <1>8 DEF StreamInv
<1>11. QED
  BY <1>4, <1>5, <1>6, <1>9, <1>10 DEF IInv

\* What the second level may make of a conditional branch.
LEMMA RepredictedFacts ==
  ASSUME TypeInv, NEW i \in Changeable(port)
  PROVE  /\ i \in 1..Len(port) /\ Repredicted(i, port) \in Seq(Unrenamed)
         /\ Len(Repredicted(i, port)) = i
         /\ \A k \in 1..(i - 1) : Repredicted(i, port)[k] = port[k]
         /\ Repredicted(i, port)[i].pc = port[i].pc
         /\ Repredicted(i, port)[i].kind = "branch" /\ port[i].kind = "branch"
         /\ Repredicted(i, port)[i].fresh = port[i].fresh
         /\ Repredicted(i, port)[i].next \in Pcs
         /\ GoesOnAt(Repredicted(i, port)[i]) = Repredicted(i, port)[i].next
<1> DEFINE op == port[i]
           p == CHOOSE p \in Predictions(op.pc) : p # op.next
           o == [op EXCEPT !.next = p]
           X == Repredicted(i, port)
<1>1. port \in Seq(Unrenamed) /\ code \in Programs /\ i \in 1..Len(port)
  BY DEF TypeInv, Changeable
<1>2. op.kind = "branch" /\ Target[op.pc] # Inc(op.pc)
  BY DEF Changeable
<1>3. op \in Unrenamed
  BY <1>1
<1>4. X = [k \in 1..i |-> IF k = i THEN o ELSE port[k]]
  BY DEF Repredicted
<1> HIDE DEF op
<1>5. op \in Fetched /\ op \in Records /\ op.kind = code[op.pc] /\ op.actual = NoPc /\ ~op.cp
  BY <1>3 DEF Unrenamed, Fetched
<1>6. op.pc \in Pcs /\ Target[op.pc] \in Pcs /\ Inc(op.pc) \in Pcs
  BY <1>5, IncType, ConstAssumption DEF Records
<1>7. Predictions(op.pc) = {Inc(op.pc), Target[op.pc]}
  BY <1>2, <1>5 DEF Predictions, Successors
<1>8. p \in Predictions(op.pc) /\ p \in Pcs
  <2>1. \E q \in Predictions(op.pc) : q # op.next
    BY <1>2, <1>7
  <2>2. p \in Predictions(op.pc)
    BY <2>1
  <2>3. QED
    BY <1>6, <1>7, <2>2
<1> HIDE DEF p
<1>9. /\ o \in Records /\ o.pc = op.pc /\ o.kind = op.kind /\ o.fresh = op.fresh
      /\ o.next = p /\ o.actual = NoPc /\ o.cp = op.cp
  BY <1>5, <1>8 DEF Records
<1> HIDE DEF o
<1>10. o \in Unrenamed
  BY <1>2, <1>5, <1>8, <1>9 DEF Unrenamed, Fetched
<1>11. /\ X \in Seq(Unrenamed) /\ Len(X) = i /\ X[i] = o /\ \A k \in 1..(i - 1) : X[k] = port[k]
  <2>1. \A k \in 1..i : X[k] = IF k = i THEN o ELSE port[k]
    BY <1>4
  <2>2. \A k \in 1..i : X[k] \in Unrenamed
    BY <1>1, <1>10, <2>1
  <2>3. X = [k \in 1..i |-> X[k]]
    BY <1>4
  <2> HIDE DEF X
  <2>4. X \in [1..i -> Unrenamed]
    BY <2>2, <2>3, Zenon
  <2>5. i \in Nat
    BY <1>1
  <2>6. X \in Seq(Unrenamed) /\ Len(X) = i
    BY <2>4, <2>5
  <2>7. QED
    BY <1>1, <2>1, <2>6
<1>12. GoesOnAt(o) = o.next
  BY <1>5, <1>9 DEF GoesOnAt
<1> HIDE DEF X
<1>13. QED
  BY <1>1, <1>2, <1>8, <1>9, <1>11, <1>12 DEF X, op

\* fetch2 with a change of mind: the stream is cut behind the branch.
LEMMA Fetch2RedirectInv == ASSUME IInv, Fetch2Redirect PROVE IInv'
<1>1. /\ phase = "fetch2" /\ fb.flush = "none" /\ phase' = "fetch1" /\ ~busy /\ rev_pack = <<>>
      /\ UNCHANGED <<code, fetch_vars, f2d_popped, d2r, d2r_popped, back_vars>>
      /\ TypeInv /\ RoomInv /\ BranchInv /\ FeedbackInv /\ StreamInv
      /\ port \in Seq(Unrenamed) /\ rob \in Seq(Fetched)
  BY DEF Fetch2Redirect, IInv, TypeInv, RoomInv
<1>2. PICK i \in Changeable(port) : Push(Repredicted(i, port), Repredicted(i, port)[i].next)
  BY DEF Fetch2Redirect
<1> DEFINE X == Repredicted(i, port)
           re == X[i].next
<1>3. /\ i \in 1..Len(port) /\ X \in Seq(Unrenamed) /\ Len(X) = i
      /\ \A k \in 1..(i - 1) : X[k] = port[k]
      /\ X[i].pc = port[i].pc /\ X[i].kind = "branch" /\ port[i].kind = "branch"
      /\ X[i].fresh = port[i].fresh /\ re \in Pcs /\ GoesOnAt(X[i]) = re
  BY <1>1, <1>2, RepredictedFacts
<1>4. Push(X, re)
  BY <1>2
<1> HIDE DEF X
<1> DEFINE pre == rob \o (d2r \o f2d)
           t == pre \o X
<1>5. /\ d2r \in Seq(Fetched) /\ f2d \in Seq(Fetched) /\ port \in Seq(Fetched)
      /\ X \in Seq(Fetched) /\ <<>> \in Seq(Fetched)
  BY <1>1, <1>3, LiveType, UnrenamedFetched
<1>6. Live = rob \o (d2r \o (f2d \o (rev_pack \o port)))
  BY <1>1 DEF Live, LiveRob, Resolving, LiveFront, LivePort
<1>7. rev_pack \o port = port /\ X \o <<>> = X
  BY <1>1, <1>5, ConcatEmptySeq
<1>8. Live = pre \o port
  <2>1. Live = rob \o (d2r \o (f2d \o port))
    BY <1>6, <1>7
  <2>2. Cat(rob, Cat(d2r, Cat(f2d, port))) = Cat(Cat(rob, Cat(d2r, f2d)), port)
    BY <1>1, <1>5, Regroup
  <2>3. QED
    BY <2>1, <2>2 DEF Cat
<1>9. t = rob \o (d2r \o (f2d \o (X \o <<>>)))
  <2>1. Cat(rob, Cat(d2r, Cat(f2d, X))) = Cat(Cat(rob, Cat(d2r, f2d)), X)
    BY <1>1, <1>5, Regroup
  <2>2. QED
    BY <1>7, <2>1 DEF Cat
<1>10. pre \in Seq(Fetched)
  <2>1. d2r \o f2d \in Seq(Fetched)
    BY <1>5, ConcatProperties
  <2>2. QED
    BY <1>1, <2>1, ConcatProperties
<1> HIDE DEF pre
<1>11. /\ Live \in Seq(Fetched) /\ Len(Live) = Len(pre) + Len(port)
       /\ \A k \in 1..(Len(pre) + Len(port)) :
             Live[k] = IF k <= Len(pre) THEN pre[k] ELSE port[k - Len(pre)]
  BY <1>5, <1>8, <1>10, ConcatProperties
<1>12. /\ t \in Seq(Fetched) /\ Len(t) = Len(pre) + i
       /\ \A k \in 1..(Len(pre) + i) : t[k] = IF k <= Len(pre) THEN pre[k] ELSE X[k - Len(pre)]
  BY <1>3, <1>5, <1>10, ConcatProperties
<1> HIDE DEF t
<1> DEFINE n == Len(pre) + i
<1>13. n \in 1..Len(Live) /\ Len(pre) \in Nat /\ i \in Nat \ {0} /\ Len(t) = n
  BY <1>3, <1>10, <1>11, <1>12
<1>14. \A k \in 1..(n - 1) : t[k] = Live[k]
  <2> SUFFICES ASSUME NEW k \in 1..(n - 1) PROVE t[k] = Live[k]
    OBVIOUS
  <2>1. CASE k <= Len(pre)
    BY <1>3, <1>11, <1>12, <1>13, <2>1
  <2>2. CASE k > Len(pre)
    <3>1. t[k] = X[k - Len(pre)] /\ Live[k] = port[k - Len(pre)] /\ k - Len(pre) \in 1..(i - 1)
      BY <1>3, <1>11, <1>12, <1>13, <2>2
    <3>2. QED
      BY <1>3, <3>1
  <2>3. QED
    BY <1>13, <2>1, <2>2
<1>15. t[n] = X[i] /\ Live[n] = port[i]
  BY <1>3, <1>11, <1>12, <1>13
<1>16. t[n].pc = Live[n].pc /\ t[n].kind = Live[n].kind /\ t[n].fresh = Live[n].fresh
  BY <1>3, <1>15
<1> HIDE DEF n, re
<1>17. LastSound(t[n], FALSE, re, value)
  BY <1>3, <1>15 DEF LastSound
<1>18. Sound(Live, Waits, GoOn, value, arch_pc, rsb)
  BY <1>1 DEF StreamInv
<1>19. Sound(t, FALSE, re, value, arch_pc, rsb)
  BY <1>11, <1>12, <1>13, <1>14, <1>16, <1>17, <1>18, SoundCut
<1>sent. Live # <<>> /\ re # NoPc
  BY <1>3, <1>11, <1>13, ConstAssumption
<1>21. fb.jump_to = NoPc
  BY <1>1, <1>sent DEF FeedbackInv
<1>22. QED
  BY <1>1, <1>3, <1>4, <1>9, <1>19, <1>sent, <1>21, PushInv, Zenon

-----------------------------------------------------------------------------
(***************************************************************************)
(* fetch1 and the clock edge.                                              *)
(***************************************************************************)

\* A store is in a stream if it is in one of its parts.
LEMMA OutstandingParts ==
  ASSUME NEW S, NEW s \in Seq(S), NEW t \in Seq(S)
  PROVE  Outstanding(s) \/ Outstanding(t) => Outstanding(Cat(s, t))
<1> DEFINE u == s \o t
<1>1. /\ u \in Seq(S) /\ Len(u) = Len(s) + Len(t)
      /\ \A i \in 1..(Len(s) + Len(t)) : u[i] = IF i <= Len(s) THEN s[i] ELSE t[i - Len(s)]
  BY ConcatProperties
<1> HIDE DEF u
<1>2. ASSUME NEW i \in DOMAIN s, s[i].kind = "store" PROVE Outstanding(u)
  <2>1. i \in DOMAIN u /\ u[i] = s[i]
    BY <1>1
  <2>2. QED
    BY <1>2, <2>1 DEF Outstanding
<1>3. ASSUME NEW i \in DOMAIN t, t[i].kind = "store" PROVE Outstanding(u)
  <2>1. i + Len(s) \in DOMAIN u /\ u[i + Len(s)] = t[i]
    BY <1>1
  <2>2. QED
    BY <1>3, <2>1 DEF Outstanding
<1>4. QED
  BY <1>2, <1>3 DEF Outstanding, u, Cat

\* A fence.i that is the newest instruction is the only one, and there was no store
\* to write when it was sent: whatever is read now is fresh.
LEMMA SoundRead ==
  ASSUME NEW S, NEW s \in Seq(S), NEW w, NEW g, NEW v, NEW a, NEW r,
         Sound(s, w, g, v, a, r), NEW v2, v2 = "stale" => r # 0 \/ Outstanding(s)
  PROVE  Sound(s, w, g, v2, a, r)
<1>1. ASSUME s # <<>>, s[Len(s)].kind = "fence_i" PROVE v2 # "stale"
  <2>1. Len(s) \in Nat /\ Len(s) >= 1
    BY <1>1
  <2>2. Len(s) = 1
    <3>1. ASSUME Len(s) > 1 PROVE FALSE
      <4>1. Len(s) - 1 \in 1..(Len(s) - 1) /\ (Len(s) - 1) + 1 = Len(s)
        BY <2>1, <3>1
      <4>2. Follows(s[Len(s) - 1], s[(Len(s) - 1) + 1])
        BY <4>1 DEF Sound, Chain
      <4>3. QED
        BY <1>1, <4>1, <4>2 DEF Follows
    <3>2. ~(Len(s) > 1)
      BY <3>1, Zenon
    <3>3. \A n \in Nat : n >= 1 /\ ~(n > 1) => n = 1
      OBVIOUS
    <3>4. QED
      BY <2>1, <3>2, <3>3, Zenon
  <2>3. s[1].kind = "fence_i" /\ r = 0
    BY <1>1, <2>2 DEF Sound
  <2>4. ~Outstanding(s)
    BY <2>2, <2>3 DEF Outstanding
  <2>5. QED
    BY <2>3, <2>4
<1>2. QED
  BY <1>1 DEF Sound, LastSound

\* Every way through fetch1: the invariant is kept if the stream that the port
\* completes is sound, whatever bus::read_instruction finds.
LEMMA Fetch1Inv ==
  ASSUME IInv, phase = "fetch1", phase' = "end", ReadInstruction,
         UNCHANGED <<code, queue_vars, back_vars, fb>>,
         pc' \in Pcs, jump_wait' \in BOOLEAN, port' \in Seq(Unrenamed),
         fb.flush # "none" => port' = <<>>,
         NEW t, t = rob \o (d2r \o (f2d \o (rev_pack \o port'))),
         NEW v, Sound(t, jump_wait', pc', v, arch_pc, rsb)
  PROVE  IInv'
<1>1. /\ TypeInv /\ RoomInv /\ FeedbackInv /\ BranchInv /\ ClearedInv /\ IdleInv /\ StreamInv
      /\ code' = code
      /\ busy' = busy /\ rev_pack' = rev_pack /\ f2d' = f2d /\ f2d_popped' = f2d_popped
      /\ d2r' = d2r /\ d2r_popped' = d2r_popped /\ rob' = rob
      /\ rsb' = rsb /\ ack' = ack /\ arch_pc' = arch_pc /\ fb' = fb
      /\ rob \in Seq(Fetched) /\ rsb \in Nat
  BY DEF IInv, TypeInv, queue_vars, back_vars
<1>2. Fetched' = Fetched /\ Unrenamed' = Unrenamed
  BY <1>1, SameCode
<1>3. value' \in {"none", "fresh", "stale"}
  BY DEF ReadInstruction
<1>4. TypeInv'
  BY <1>1, <1>2, <1>3 DEF TypeInv, Phases
<1>5. RoomInv'
  BY <1>1 DEF RoomInv
<1>6. BranchInv' /\ ClearedInv' /\ IdleInv' /\ FeedbackInv'
  BY <1>1 DEF BranchInv, ClearedInv, IdleInv, FeedbackInv
<1> DEFINE u == port'
           r1 == Cat(rev_pack, u)
           r2 == Cat(f2d, r1)
           r3 == Cat(d2r, r2)
<1>7. /\ d2r \in Seq(Fetched) /\ f2d \in Seq(Fetched) /\ rev_pack \in Seq(Fetched)
      /\ u \in Seq(Fetched) /\ t = Cat(rob, r3)
  BY <1>1, LiveType, UnrenamedFetched DEF Cat
<1> HIDE DEF u
<1>8. r1 \in Seq(Fetched)
  BY <1>7, ConcatProperties DEF Cat
<1> HIDE DEF r1
<1>9. r2 \in Seq(Fetched)
  BY <1>7, <1>8, ConcatProperties DEF Cat
<1> HIDE DEF r2
<1>10. r3 \in Seq(Fetched)
  BY <1>7, <1>9, ConcatProperties DEF Cat
<1> HIDE DEF r3
<1>11. t \in Seq(Fetched)
  BY <1>1, <1>7, <1>10, ConcatProperties DEF Cat
<1>12. value' = "stale" => rsb # 0 \/ Outstanding(t)
  <2>1. value' = "stale" => \/ rsb # 0 \/ Outstanding(rob) \/ Outstanding(d2r)
                            \/ Outstanding(f2d) \/ Outstanding(rev_pack) \/ Outstanding(u)
    BY <1>1 DEF ReadInstruction, u
  <2>2. Outstanding(rev_pack) \/ Outstanding(u) => Outstanding(r1)
    BY <1>7, OutstandingParts DEF r1
  <2>3. Outstanding(f2d) \/ Outstanding(r1) => Outstanding(r2)
    BY <1>7, <1>8, OutstandingParts DEF r2
  <2>4. Outstanding(d2r) \/ Outstanding(r2) => Outstanding(r3)
    BY <1>7, <1>9, OutstandingParts DEF r3
  <2>5. Outstanding(rob) \/ Outstanding(r3) => Outstanding(t)
    BY <1>1, <1>7, <1>10, OutstandingParts
  <2>6. QED
    BY <2>1, <2>2, <2>3, <2>4, <2>5, Zenon
<1>13. Sound(t, jump_wait', pc', value', arch_pc, rsb)
  BY <1>11, <1>12, SoundRead
<1>14. Live' = t
  <2>1. LiveRob' = rob /\ LivePort' = u
    BY <1>1 DEF LiveRob, Resolving, LivePort, u
  <2>2. CASE fb.flush = "none"
    <3>1. LiveFront' = r3
      BY <1>1, <2>1, <2>2 DEF LiveFront, Cat, r1, r2, r3
    <3>2. QED
      BY <1>7, <2>1, <3>1 DEF Live, Cat
  <2>3. CASE fb.flush # "none"
    <3>1. /\ d2r = <<>> /\ f2d = <<>> /\ rev_pack = <<>> /\ u = <<>>
      BY <1>1, <2>3 DEF ClearedInv, u
    <3>2. r1 = <<>>
      BY <3>1 DEF r1, Cat
    <3>3. r2 = <<>>
      BY <3>1, <3>2 DEF r2, Cat
    <3>4. r3 = <<>>
      BY <3>1, <3>3 DEF r3, Cat
    <3>5. LiveFront' = <<>>
      BY <1>1, <2>3 DEF LiveFront
    <3>6. QED
      BY <1>7, <2>1, <3>4, <3>5 DEF Live, Cat
  <2>4. QED
    BY <2>2, <2>3
<1>15. GoOn' = pc' /\ Waits' = jump_wait'
  BY DEF GoOn, Waits
<1>16. StreamInv'
  BY <1>1, <1>13, <1>14, <1>15 DEF StreamInv
<1>17. QED
  BY <1>4, <1>5, <1>6, <1>16 DEF IInv

\* fetch1 sends nothing: it is redirected, waits, or cannot go on.
LEMMA Fetch1QuietInv ==
  ASSUME IInv, Fetch1Redirected \/ Fetch1Wait \/ Fetch1Idle PROVE IInv'
<1>1. /\ TypeInv /\ RoomInv /\ FeedbackInv /\ BranchInv /\ ClearedInv /\ StreamInv
      /\ phase = "fetch1" /\ phase' = "end" /\ ReadInstruction
      /\ UNCHANGED <<code, queue_vars, back_vars, fb>>
      /\ pc \in Pcs /\ jump_wait \in BOOLEAN /\ port \in Seq(Unrenamed)
      /\ rob \in Seq(Fetched) /\ fb \in Feedbacks
  BY DEF Fetch1Redirected, Fetch1Wait, Fetch1Idle, Fetch1Runs, IInv, TypeInv
<1>2. Sound(Live, Waits, GoOn, value, arch_pc, rsb)
  BY <1>1 DEF StreamInv
<1>3. LiveRob = rob
  BY <1>1 DEF LiveRob, Resolving
<1>4. <<>> \in Seq(Unrenamed) /\ <<>> \in Seq(Fetched)
  OBVIOUS
<1>5. CASE Fetch1Redirected
  <2>1. /\ fb.flush # "none" \/ fb.redirect # NoPc
        /\ pc' = IF fb.flush # "none" THEN fb.to ELSE fb.redirect
        /\ jump_wait' = FALSE /\ port' = <<>>
    BY <1>5 DEF Fetch1Redirected
  <2>2. pc' = GoOn
    BY <1>1, <2>1 DEF GoOn
  <2>3. GoOn \in Pcs
    BY <1>1, <2>1 DEF GoOn, FeedbackInv, Feedbacks
  <2>4. Waits = FALSE
    BY <1>1, <2>1 DEF Waits
  <2>5. Live = rob \o (d2r \o (f2d \o (rev_pack \o port')))
    <3>1. CASE fb.flush = "none"
      <4>1. LivePort = <<>>
        BY <1>1, <2>1, <3>1 DEF LivePort, FeedbackInv
      <4>2. QED
        BY <1>3, <2>1, <3>1, <4>1 DEF Live, LiveFront
    <3>2. CASE fb.flush # "none"
      <4>1. d2r = <<>> /\ f2d = <<>> /\ rev_pack = <<>>
        BY <1>1, <3>2 DEF ClearedInv
      <4>2. rev_pack \o port' = <<>>
        BY <2>1, <4>1
      <4>3. f2d \o (rev_pack \o port') = <<>>
        BY <4>1, <4>2
      <4>4. d2r \o (f2d \o (rev_pack \o port')) = <<>>
        BY <4>1, <4>3
      <4>5. QED
        BY <1>3, <3>2, <4>4 DEF Live, LiveFront
    <3>3. QED
      BY <3>1, <3>2
  <2>6. Sound(Live, jump_wait', pc', value, arch_pc, rsb)
    BY <1>2, <2>1, <2>2, <2>4, Zenon
  <2>7. pc' \in Pcs /\ jump_wait' \in BOOLEAN /\ port' \in Seq(Unrenamed)
    BY <1>4, <2>1, <2>2, <2>3, Zenon
  <2>8. QED
    BY <1>1, <2>1, <2>5, <2>6, <2>7, Fetch1Inv, Zenon
<1>6. CASE Fetch1Wait \/ Fetch1Idle
  <2>1. /\ fb.flush = "none" /\ fb.redirect = NoPc
        /\ port' = IF fb.stall THEN port ELSE <<>>
    BY <1>6 DEF Fetch1Wait, Fetch1Idle, Fetch1Runs
  <2>2. jump_wait' = Waits /\ pc' = GoOn
    <3>1. CASE Fetch1Wait
      <4>1. /\ jump_wait = TRUE /\ jump_wait' = (fb.jump_to = NoPc)
            /\ pc' = IF fb.jump_to = NoPc THEN pc ELSE fb.jump_to
        BY <1>1, <3>1 DEF Fetch1Wait
      <4>2. pc' = GoOn
        BY <1>1, <2>1, <4>1 DEF GoOn
      <4>3. Waits = (fb.jump_to = NoPc)
        BY <1>1, <2>1, <4>1 DEF Waits
      <4>4. QED
        BY <4>1, <4>2, <4>3, Zenon
    <3>2. CASE Fetch1Idle
      <4>1. jump_wait = FALSE /\ jump_wait' = jump_wait /\ pc' = pc
        BY <1>1, <3>2 DEF Fetch1Idle
      <4>2. fb.jump_to = NoPc
        BY <1>1, <4>1 DEF FeedbackInv
      <4>3. pc' = GoOn
        BY <1>1, <2>1, <4>1, <4>2 DEF GoOn
      <4>4. Waits = FALSE
        BY <4>1 DEF Waits
      <4>5. QED
        BY <4>1, <4>3, <4>4, Zenon
    <3>3. QED
      BY <1>6, <3>1, <3>2
  <2>3. GoOn \in Pcs /\ Waits \in BOOLEAN
    <3>1. GoOn \in Pcs
      BY <1>1, <2>1 DEF GoOn, Feedbacks
    <3>2. Waits \in BOOLEAN
      BY <1>1, Zenon DEF Waits
    <3>3. QED
      BY <3>1, <3>2
  <2>4. port' = LivePort
    BY <1>1, <2>1 DEF LivePort
  <2>5. Live = rob \o (d2r \o (f2d \o (rev_pack \o port')))
    BY <1>3, <2>1, <2>4 DEF Live, LiveFront
  <2>6. Sound(Live, jump_wait', pc', value, arch_pc, rsb)
    BY <1>2, <2>2, Zenon
  <2>7. pc' \in Pcs /\ jump_wait' \in BOOLEAN /\ port' \in Seq(Unrenamed)
    BY <1>1, <1>4, <2>1, <2>2, <2>3, Zenon
  <2>8. QED
    BY <1>1, <2>1, <2>5, <2>6, <2>7, Fetch1Inv, Zenon
<1>7. QED
  BY <1>5, <1>6

\* The multiples of n lie n apart.
LEMMA SmallMultiple ==
  ASSUME NEW n \in Nat \ {0}, NEW d \in Int, -n < n * d, n * d < n PROVE d = 0
<1>1. ASSUME d >= 1 PROVE n * d >= n
  <2>1. n * (d - 1) >= 0
    BY <1>1
  <2>2. n * (d - 1) = n * d - n
    OBVIOUS
  <2>3. QED
    BY <2>1, <2>2
<1>2. ASSUME d <= -1 PROVE n * d <= -n
  <2>1. n * (d + 1) <= 0
    BY <1>2
  <2>2. n * (d + 1) = n * d + n
    OBVIOUS
  <2>3. QED
    BY <2>1, <2>2
<1>3. QED
  BY <1>1, <1>2

\* A remainder is determined by the equation it satisfies.
LEMMA RemainderUnique ==
  ASSUME NEW n \in Nat \ {0}, NEW b \in Nat, NEW q \in Int, NEW r \in 0..(n - 1), b = n * q + r
  PROVE  b % n = r
<1> DEFINE r2 == b % n
           q2 == b \div n
           d == q2 - q
           x == n * q2
           y == n * q
<1>1. r2 \in 0..(n - 1) /\ q2 \in Nat /\ b = n * q2 + r2
  OBVIOUS
<1> HIDE DEF r2, q2
<1>2. n * d = r - r2
  <2>1. n * d = n * q2 - n * q
    BY <1>1
  <2>2. x \in Int /\ y \in Int /\ b = x + r2 /\ b = y + r
    BY <1>1
  <2> HIDE DEF x, y
  <2>3. x - y = r - r2
    BY <1>1, <2>2
  <2>4. QED
    BY <2>1, <2>3 DEF x, y
<1>3. d \in Int /\ -n < n * d /\ n * d < n
  BY <1>1, <1>2
<1> HIDE DEF d
<1>4. d = 0
  BY <1>3, SmallMultiple
<1>5. n * d = 0
  BY <1>4
<1>6. QED
  BY <1>1, <1>2, <1>5 DEF r2

\* The remainder may be taken before one is added or after.
LEMMA RemainderNext ==
  ASSUME NEW n \in Nat \ {0}, NEW a \in Nat PROVE ((a % n) + 1) % n = (a + 1) % n
<1> DEFINE r == a % n
           q == a \div n
<1>1. r \in 0..(n - 1) /\ q \in Nat /\ a = n * q + r
  OBVIOUS
<1> HIDE DEF r, q
<1>2. CASE r + 1 < n
  <2>1. a + 1 \in Nat /\ a + 1 = n * q + (r + 1) /\ r + 1 \in 0..(n - 1) /\ q \in Int
    BY <1>1, <1>2
  <2>2. (a + 1) % n = r + 1
    BY <2>1, RemainderUnique
  <2>3. (r + 1) % n = r + 1
    BY <1>1, <1>2
  <2>4. QED
    BY <2>2, <2>3 DEF r
<1>3. CASE r + 1 = n
  <2>1. a + 1 \in Nat /\ a + 1 = n * (q + 1) + 0 /\ 0 \in 0..(n - 1) /\ q + 1 \in Int
    BY <1>1, <1>3
  <2>2. (a + 1) % n = 0
    BY <2>1, RemainderUnique
  <2>3. (r + 1) % n = 0
    BY <1>1, <1>3
  <2>4. QED
    BY <2>2, <2>3 DEF r
<1>4. QED
  BY <1>1, <1>2, <1>3

\* The pcs of a group follow each other, from the fetch pc on.
LEMMA GroupPcFacts ==
  ASSUME pc \in Pcs
  PROVE  /\ GroupPc(1) = pc
         /\ \A k \in Nat \ {0} : GroupPc(k) \in Pcs /\ Inc(GroupPc(k)) = GroupPc(k + 1)
<1>1. PC_NUM \in Nat \ {0} /\ pc \in Nat /\ pc < PC_NUM
  BY ConstAssumption DEF Pcs
<1>2. GroupPc(1) = pc
  BY <1>1 DEF GroupPc
<1>3. ASSUME NEW k \in Nat \ {0}
      PROVE  GroupPc(k) \in Pcs /\ Inc(GroupPc(k)) = GroupPc(k + 1)
  <2> DEFINE a == pc + k - 1
  <2>1. a \in Nat /\ pc + (k + 1) - 1 = a + 1
    BY <1>1
  <2>2. GroupPc(k) = a % PC_NUM /\ GroupPc(k + 1) = (a + 1) % PC_NUM
    BY <2>1 DEF GroupPc
  <2> HIDE DEF a
  <2>3. a % PC_NUM \in Pcs
    BY <1>1, <2>1 DEF Pcs
  <2>4. ((a % PC_NUM) + 1) % PC_NUM = (a + 1) % PC_NUM
    BY <1>1, <2>1, RemainderNext
  <2>5. QED
    BY <2>2, <2>3, <2>4 DEF Inc
<1>4. QED
  BY <1>2, <1>3

\* The group fetch1 sends: instructions of the program, each followed by the one
\* it goes on with, a fence.i alone.
LEMMA GroupFacts ==
  ASSUME TypeInv, NEW n \in Nat, NEW nx \in [1..n -> Pcs \cup {NoPc}],
         \A k \in 1..n : nx[k] \in Predictions(GroupPc(k)), IsGroup(Ops(n, nx))
  PROVE  /\ Ops(n, nx) \in Seq(Unrenamed) /\ Len(Ops(n, nx)) = n
         /\ Chain(Ops(n, nx))
         /\ \A k \in 1..n : /\ Ops(n, nx)[k].pc = GroupPc(k)
                            /\ Ops(n, nx)[k].kind = code[GroupPc(k)]
                            /\ GoesOnAt(Ops(n, nx)[k]) = nx[k]
                            /\ value = "fresh" => Ops(n, nx)[k].fresh
                            /\ code[GroupPc(k)] = "fence_i" => FenceMayGo
<1> DEFINE X == Ops(n, nx)
           b == value = "fresh"
<1>1. pc \in Pcs /\ code \in Programs /\ b \in BOOLEAN /\ code \in [Pcs -> Kinds]
  BY ConstAssumption DEF TypeInv
<1>2. \A k \in Nat \ {0} : GroupPc(k) \in Pcs /\ Inc(GroupPc(k)) = GroupPc(k + 1)
  BY <1>1, GroupPcFacts
<1>3. /\ \A k \in DOMAIN X : X[k].kind = "fence_i" => k = 1 /\ FenceMayGo
      /\ \A k \in 1..(Len(X) - 1) : ~Ends(X[k])
  BY DEF IsGroup
<1>4. X = [k \in 1..n |-> [pc |-> GroupPc(k), kind |-> code[GroupPc(k)], next |-> nx[k],
                           fresh |-> b, actual |-> NoPc, cp |-> FALSE]]
  BY DEF Ops
<1> HIDE DEF X, b
<1>5. ASSUME NEW k \in 1..n
      PROVE  /\ X[k] \in Unrenamed /\ X[k].pc = GroupPc(k) /\ X[k].kind = code[GroupPc(k)]
             /\ X[k].next = nx[k] /\ X[k].fresh = b /\ GoesOnAt(X[k]) = nx[k]
  <2> DEFINE p == GroupPc(k)
             o == [pc |-> p, kind |-> code[p], next |-> nx[k],
                   fresh |-> b, actual |-> NoPc, cp |-> FALSE]
  <2>1. X[k] = o
    BY <1>4
  <2>2. k \in Nat \ {0}
    OBVIOUS
  <2>3. p \in Pcs /\ nx[k] \in Pcs \cup {NoPc} /\ nx[k] \in Predictions(p)
    BY <1>2, <2>2
  <2> HIDE DEF p
  <2>4. code[p] \in Kinds
    BY <1>1, <2>3
  <2>5. /\ o \in Records /\ o.pc = p /\ o.kind = code[p] /\ o.next = nx[k] /\ o.fresh = b
        /\ o.actual = NoPc /\ ~o.cp
    BY <1>1, <2>3, <2>4 DEF Records
  <2> HIDE DEF o
  <2>6. o \in Unrenamed
    BY <2>3, <2>5 DEF Unrenamed, Fetched
  <2>7. GoesOnAt(o) = nx[k]
    BY <2>5 DEF GoesOnAt
  <2>8. QED
    BY <2>1, <2>5, <2>6, <2>7 DEF p
<1>6. X \in Seq(Unrenamed) /\ Len(X) = n /\ DOMAIN X = 1..n
  <2>1. X = [k \in 1..n |-> X[k]]
    BY <1>4
  <2>2. \A k \in 1..n : X[k] \in Unrenamed
    BY <1>5
  <2>3. X \in [1..n -> Unrenamed]
    BY <2>1, <2>2, Zenon
  <2>4. QED
    BY <2>3
<1>7. Chain(X)
  <2> SUFFICES ASSUME NEW k \in 1..(Len(X) - 1) PROVE Follows(X[k], X[k + 1])
    BY DEF Chain
  <2>1. k \in 1..n /\ k + 1 \in 1..n /\ k \in Nat \ {0} /\ k + 1 # 1
    BY <1>6
  <2>2. X[k] \in Fetched /\ X[k].pc = GroupPc(k) /\ X[k].next = nx[k] /\ GoesOnAt(X[k]) = nx[k]
    BY <1>5, <2>1 DEF Unrenamed
  <2>3. X[k + 1].pc = GroupPc(k + 1)
    BY <1>5, <2>1
  <2>4. ~Ends(X[k]) /\ X[k + 1].kind # "fence_i"
    BY <1>3, <1>6, <2>1
  <2>5. /\ X[k].kind \notin {"fence_i", "mret"}
        /\ IsJump(X[k].kind) => nx[k] = Inc(GroupPc(k))
    BY <2>2, <2>4 DEF Ends
  <2>6. nx[k] = Inc(GroupPc(k))
    <3>1. /\ X[k].kind \in {"plain", "store", "fence_i"} => GoesOnAt(X[k]) = Inc(X[k].pc)
          /\ X[k].kind \in {"plain", "store", "fence_i", "mret"} \/ IsJump(X[k].kind)
      BY <1>1, <2>2, InstructionFacts
    <3>2. QED
      BY <2>2, <2>5, <3>1
  <2>7. Inc(GroupPc(k)) = GroupPc(k + 1)
    BY <1>2, <2>1
  <2>8. QED
    BY <2>2, <2>3, <2>4, <2>5, <2>6, <2>7 DEF Follows
<1>8. ASSUME NEW k \in 1..n
      PROVE  /\ value = "fresh" => X[k].fresh
             /\ code[GroupPc(k)] = "fence_i" => FenceMayGo
  <2>1. value = "fresh" => b
    BY DEF b
  <2>2. X[k].fresh = b /\ X[k].kind = code[GroupPc(k)]
    BY <1>5
  <2>3. X[k].kind = "fence_i" => FenceMayGo
    BY <1>3, <1>6, Zenon
  <2>4. QED
    BY <2>1, <2>2, <2>3, Zenon
<1>9. QED
  BY <1>5, <1>6, <1>7, <1>8 DEF X

\* Five parts in a row.
LEMMA RegroupLast ==
  ASSUME NEW S, NEW s \in Seq(S), NEW a \in Seq(S), NEW b \in Seq(S), NEW c \in Seq(S),
         NEW u \in Seq(S)
  PROVE  Cat(s, Cat(a, Cat(b, Cat(c, u)))) = Cat(Cat(s, Cat(a, Cat(b, c))), u)
<1> DEFINE x == Cat(b, c)
           y == Cat(a, x)
<1>1. Cat(a, Cat(b, Cat(c, u))) = Cat(y, u)
  BY Regroup
<1>2. x \in Seq(S)
  BY ConcatProperties DEF Cat
<1> HIDE DEF x
<1>3. y \in Seq(S)
  BY <1>2, ConcatProperties DEF Cat
<1> HIDE DEF y
<1>4. Cat(s, Cat(y, u)) = Cat(Cat(s, y), u)
  BY <1>3 DEF Cat
<1>5. QED
  BY <1>1, <1>4 DEF x, y

\* fetch1 sends a group, which continues the stream.
LEMMA Fetch1SendInv == ASSUME IInv, Fetch1Send PROVE IInv'
<1>1. /\ TypeInv /\ RoomInv /\ FeedbackInv /\ BranchInv /\ IdleInv /\ StreamInv
      /\ phase = "fetch1" /\ phase' = "end" /\ ReadInstruction
      /\ UNCHANGED <<code, queue_vars, back_vars, fb>>
      /\ fb.flush = "none" /\ fb.redirect = NoPc /\ ~jump_wait /\ ~fb.stall /\ value # "none"
      /\ pc \in Pcs /\ rob \in Seq(Fetched) /\ code \in Programs
      /\ value \in {"none", "fresh", "stale"}
  BY DEF Fetch1Send, Fetch1Runs, IInv, TypeInv
<1> DEFINE Sent(n, nx) ==
             /\ \A k \in 1..n : nx[k] \in Predictions(GroupPc(k))
             /\ IsGroup(Ops(n, nx))
             /\ port' = Ops(n, nx)
             /\ jump_wait' = (n > 0 /\ code[GroupPc(n)] = "mret")
             /\ pc' = IF n = 0 THEN pc ELSE IF nx[n] = NoPc THEN GroupPc(n + 1) ELSE nx[n]
<1>sent. PICK n \in 0..FETCH_WIDTH : \E nx \in [1..n -> Pcs \cup {NoPc}] : Sent(n, nx)
  BY DEF Fetch1Send
<1>2. PICK nx \in [1..n -> Pcs \cup {NoPc}] : Sent(n, nx)
  BY <1>sent
<1> DEFINE X == Ops(n, nx)
<1>3. n \in Nat
  BY ConstAssumption
<1>4. /\ X \in Seq(Unrenamed) /\ Len(X) = n /\ Chain(X) /\ port' = X
      /\ \A k \in 1..n : /\ X[k].pc = GroupPc(k) /\ X[k].kind = code[GroupPc(k)]
                         /\ GoesOnAt(X[k]) = nx[k]
                         /\ value = "fresh" => X[k].fresh
                         /\ code[GroupPc(k)] = "fence_i" => FenceMayGo
  BY <1>1, <1>2, <1>3, GroupFacts
<1> HIDE DEF X
<1>5. /\ d2r \in Seq(Fetched) /\ f2d \in Seq(Fetched) /\ rev_pack \in Seq(Fetched)
      /\ X \in Seq(Fetched) /\ Live \in Seq(Fetched)
  BY <1>1, <1>4, LiveType, UnrenamedFetched
<1>6. Live = rob \o (d2r \o (f2d \o rev_pack))
  <2>1. LiveRob = rob /\ LivePort = <<>>
    BY <1>1 DEF LiveRob, Resolving, LivePort
  <2>2. rev_pack \o LivePort = rev_pack
    BY <1>5, <2>1, ConcatEmptySeq
  <2>3. QED
    BY <1>1, <2>1, <2>2 DEF Live, LiveFront
<1> DEFINE t == rob \o (d2r \o (f2d \o (rev_pack \o X)))
<1>7. t = Live \o X
  <2>1. Cat(rob, Cat(d2r, Cat(f2d, Cat(rev_pack, X)))) = Cat(Cat(rob, Cat(d2r, Cat(f2d, rev_pack))), X)
    BY <1>1, <1>5, RegroupLast
  <2>2. QED
    BY <1>6, <2>1 DEF Cat
<1>8. ~Waits /\ GoOn = pc
  <2>1. fb.jump_to = NoPc
    BY <1>1 DEF FeedbackInv
  <2>2. QED
    BY <1>1, <2>1 DEF Waits, GoOn
<1>9. Sound(Live, Waits, GoOn, value, arch_pc, rsb)
  BY <1>1 DEF StreamInv
<1>10. Waits = FALSE
  BY <1>8 DEF Waits
<1>11. ASSUME n = 0
       PROVE  /\ Sound(t, jump_wait', pc', value, arch_pc, rsb)
              /\ pc' \in Pcs /\ jump_wait' \in BOOLEAN
  <2>1. X = <<>>
    BY <1>4, <1>11
  <2>2. t = Live
    BY <1>5, <1>7, <2>1, ConcatEmptySeq
  <2>3. pc' = GoOn
    BY <1>2, <1>8, <1>11
  <2>4. jump_wait' = FALSE
    <3>1. (n > 0) = FALSE
      BY <1>11
    <3>2. QED
      BY <1>2, <3>1, Zenon
  <2>5. pc' \in Pcs /\ jump_wait' \in BOOLEAN
    BY <1>1, <1>8, <2>3, <2>4, Zenon
  <2>6. QED
    BY <1>9, <1>10, <2>2, <2>3, <2>4, <2>5, Zenon
<1>12. ASSUME n > 0
       PROVE  /\ Sound(t, jump_wait', pc', "fresh", arch_pc, rsb)
              /\ pc' \in Pcs /\ jump_wait' \in BOOLEAN
  <2> DEFINE w == code[GroupPc(n)] = "mret"
  <2>1. jump_wait' = w
    <3>1. (n > 0) = TRUE
      BY <1>12
    <3>2. QED
      BY <1>2, <3>1, Zenon
  <2>2. w \in BOOLEAN /\ (w <=> X[n].kind = "mret")
    <3>1. X[n].kind = code[GroupPc(n)]
      BY <1>3, <1>4, <1>12
    <3>2. QED
      BY <3>1
  <2>3. 1 \in 1..n /\ n \in 1..n /\ X # <<>> /\ GroupPc(1) = pc /\ n + 1 \in Nat \ {0}
    <3>1. 1 \in 1..n /\ n \in 1..n /\ n + 1 \in Nat \ {0}
      BY <1>3, <1>12
    <3>2. X # <<>>
      <4>1. Len(X) > 0
        BY <1>4, <1>12
      <4>2. QED
        BY <4>1
    <3>3. GroupPc(1) = pc
      BY <1>1, GroupPcFacts
    <3>4. QED
      BY <3>1, <3>2, <3>3, Zenon
  <2>4. /\ X[1].pc = pc /\ X[1].kind = code[pc] /\ (value = "fresh" => X[1].fresh)
        /\ X[1].kind = "fence_i" => FenceMayGo
    BY <1>4, <2>3
  <2>5. FenceMayGo => Live = <<>> /\ rsb = 0
    <3>1. FenceMayGo => rob = <<>> /\ d2r = <<>> /\ f2d = <<>> /\ rev_pack = <<>> /\ rsb = 0
      BY <1>1 DEF FenceMayGo, IdleInv
    <3>2. ASSUME rob = <<>>, d2r = <<>>, f2d = <<>>, rev_pack = <<>> PROVE Live = <<>>
      <4>1. f2d \o rev_pack = <<>>
        BY <3>2
      <4>2. d2r \o (f2d \o rev_pack) = <<>>
        BY <3>2, <4>1
      <4>3. QED
        BY <1>6, <3>2, <4>2
    <3>3. QED
      BY <3>1, <3>2
  <2>6. pc' = IF nx[n] = NoPc THEN GroupPc(n + 1) ELSE nx[n]
    BY <1>2, <1>12
  <2>7. nx[n] \in Pcs \cup {NoPc} /\ GroupPc(n + 1) \in Pcs
    BY <1>1, <1>2, <2>3, GroupPcFacts
  <2>8. pc' \in Pcs
    BY <2>6, <2>7
  <2>9. LastSound(X[n], w, pc', "fresh")
    <3>1. CASE X[n].kind = "mret"
      BY <2>2, <3>1 DEF LastSound
    <3>2. CASE X[n].kind # "mret"
      <4>1. X[n] \in Fetched /\ GoesOnAt(X[n]) = nx[n]
        BY <1>4, <1>5, <2>3
      <4>2. nx[n] # NoPc
        <5>1. nx[n] \in Predictions(GroupPc(n)) /\ X[n].kind = code[GroupPc(n)]
              /\ X[n].pc = GroupPc(n)
          BY <1>2, <1>4, <2>3
        <5>2. nx[n] \in Successors(X[n].pc)
          BY <3>2, <5>1 DEF Predictions
        <5>3. Successors(X[n].pc) \subseteq Pcs
          BY <1>1, <4>1, InstructionFacts
        <5>4. QED
          BY <5>2, <5>3, ConstAssumption
      <4>3. pc' = nx[n]
        BY <2>6, <4>2
      <4>4. QED
        BY <2>2, <3>2, <4>1, <4>3 DEF LastSound
    <3>3. QED
      BY <3>1, <3>2
  <2> HIDE DEF w
  <2>10. /\ X[1].pc = GoOn /\ (X[1].kind = "fence_i" => Live = <<>> /\ rsb = 0)
         /\ value # "stale" => X[1].fresh
    BY <1>1, <1>8, <2>4, <2>5
  <2>11. LastSound(X[Len(X)], w, pc', "fresh")
    BY <1>4, <2>9
  <2>12. Sound(Cat(Live, X), w, pc', "fresh", arch_pc, rsb)
    <3>1. Sound(Live, FALSE, GoOn, value, arch_pc, rsb)
      BY <1>9, <1>10, Zenon
    <3>2. QED
      BY <1>4, <1>5, <2>3, <2>10, <2>11, <3>1, SoundAppend
  <2>13. t = Cat(Live, X)
    BY <1>7 DEF Cat
  <2>14. QED
    BY <2>1, <2>2, <2>8, <2>12, <2>13, Zenon
<1>13. t = rob \o (d2r \o (f2d \o (rev_pack \o port')))
  BY <1>4
<1>14. port' \in Seq(Unrenamed)
  BY <1>4
<1> HIDE DEF t
<1>15. n = 0 \/ n > 0
  BY <1>3
<1>16. QED
  BY <1>1, <1>11, <1>12, <1>13, <1>14, <1>15, Fetch1Inv, Zenon

\* The clock edge: the feedback is gone, and a store may have been written.
LEMMA ClockEdgeInv == ASSUME IInv, ClockEdge PROVE IInv'
<1>1. /\ TypeInv /\ RoomInv /\ FeedbackInv /\ BranchInv /\ ClearedInv /\ StreamInv
      /\ phase = "end" /\ phase' = "bru" /\ fb' = NoFeedback
      /\ code' = code /\ pc' = pc /\ jump_wait' = jump_wait /\ value' = value /\ port' = port
      /\ busy' = busy /\ rev_pack' = rev_pack /\ f2d' = f2d /\ f2d_popped' = 0
      /\ d2r' = d2r /\ d2r_popped' = 0 /\ rob' = rob /\ arch_pc' = arch_pc
  BY DEF ClockEdge, IInv, fetch_vars
<1>2. Fetched' = Fetched /\ Unrenamed' = Unrenamed
  BY <1>1, SameCode
<1>3. /\ rsb' \in Nat /\ ack' \in {"none", "wait", "ack"}
      /\ ack' # "none" => rsb' > 0
      /\ rsb = 0 => rsb' = 0
  <2>1. rsb \in Nat /\ ack \in {"none", "wait", "ack"} /\ (ack # "none" => rsb > 0)
    BY <1>1 DEF TypeInv, RoomInv
  <2>2. \/ ack = "wait" /\ ack' = "ack" /\ rsb' = rsb
        \/ ack' = ack /\ rsb' = rsb
        \/ /\ ack # "wait"
           /\ rsb' = IF ack = "ack" THEN rsb - 1 ELSE rsb
           /\ ack' = IF rsb' > (IF fb.pushed THEN 1 ELSE 0) THEN "wait" ELSE "none"
    BY DEF ClockEdge
  <2>3. QED
    BY <2>1, <2>2
<1>4. /\ fb' \in Feedbacks /\ fb'.flush = "none" /\ fb'.redirect = NoPc /\ fb'.jump_to = NoPc
      /\ ~fb'.stall
  BY <1>1, NoFeedbackType DEF NoFeedback
<1>5. TypeInv'
  BY <1>1, <1>2, <1>3, <1>4 DEF TypeInv, Phases
<1>6. RoomInv'
  <2>1. Len(d2r) \in Nat /\ Len(f2d) \in Nat
    BY <1>1 DEF TypeInv
  <2>2. /\ Len(d2r') + d2r_popped' <= DECODE_RENAME_FIFO_SIZE
        /\ Len(f2d') + f2d_popped' <= FETCH2_DECODE_FIFO_SIZE
    BY <1>1, <2>1, ConstAssumption DEF RoomInv
  <2>3. QED
    BY <1>1, <1>3, <2>2 DEF RoomInv
<1>7. BranchInv' /\ ClearedInv' /\ IdleInv' /\ FeedbackInv'
  BY <1>1, <1>4 DEF BranchInv, ClearedInv, IdleInv, FeedbackInv
<1>8. Live' = Live
  <2>1. LiveRob' = rob /\ LiveRob = rob /\ LivePort' = port /\ LivePort = port
    BY <1>1, <1>4 DEF LiveRob, Resolving, LivePort
  <2>2. LiveFront' = d2r \o (f2d \o (rev_pack \o port))
    BY <1>1, <1>4, <2>1 DEF LiveFront
  <2>3. CASE fb.flush = "none"
    BY <2>1, <2>2, <2>3 DEF Live, LiveFront
  <2>4. CASE fb.flush # "none"
    <3>1. d2r = <<>> /\ f2d = <<>> /\ rev_pack = <<>> /\ port = <<>>
      BY <1>1, <2>4 DEF ClearedInv
    <3>2. rev_pack \o port = <<>>
      BY <3>1
    <3>3. f2d \o (rev_pack \o port) = <<>>
      BY <3>1, <3>2
    <3>4. LiveFront' = <<>>
      BY <2>2, <3>1, <3>3
    <3>5. QED
      BY <2>1, <2>4, <3>4 DEF Live, LiveFront
  <2>5. QED
    BY <2>3, <2>4
<1>9. GoOn' = GoOn /\ Waits' = Waits
  BY <1>1, <1>4 DEF GoOn, Waits
<1>10. StreamInv'
  BY <1>1, <1>3, <1>8, <1>9 DEF StreamInv, Sound
<1>11. QED
  BY <1>5, <1>6, <1>7, <1>10 DEF IInv

-----------------------------------------------------------------------------
(***************************************************************************)
(* The theorems.                                                           *)
(***************************************************************************)

\* Every step of a cycle keeps the invariant.
LEMMA NextIInv == ASSUME IInv, [Next]_vars PROVE IInv'
<1>1. CASE Bru \/ BruResolve
  BY <1>1, BruInv, BruResolveInv
<1>2. CASE Interrupt \/ CommitMispredicted \/ CommitTrap \/ CommitConflict
  BY <1>2, CommitFlushesInv
<1>3. CASE CommitPlain \/ CommitStore \/ CommitJump
  BY <1>3, CommitRetireInv
<1>4. CASE NoInterrupt \/ CommitEnd
  BY <1>4, CommitPassInv
<1>5. CASE Rename \/ Decode
  BY <1>5, RenameInv, DecodeInv
<1>6. CASE Fetch2Flush \/ Fetch2Busy \/ Fetch2Agree \/ Fetch2Redirect
  BY <1>6, Fetch2FlushInv, Fetch2PassInv, Fetch2RedirectInv
<1>7. CASE Fetch1Redirected \/ Fetch1Wait \/ Fetch1Idle \/ Fetch1Send
  BY <1>7, Fetch1QuietInv, Fetch1SendInv
<1>8. CASE ClockEdge
  BY <1>8, ClockEdgeInv
<1>9. CASE UNCHANGED vars
  <2>1. /\ phase' = phase /\ code' = code /\ fb' = fb
        /\ pc' = pc /\ jump_wait' = jump_wait /\ value' = value /\ port' = port
        /\ busy' = busy /\ rev_pack' = rev_pack /\ f2d' = f2d /\ f2d_popped' = f2d_popped
        /\ d2r' = d2r /\ d2r_popped' = d2r_popped
        /\ rob' = rob /\ rsb' = rsb /\ ack' = ack /\ arch_pc' = arch_pc
    BY <1>9 DEF vars, fetch_vars, queue_vars, back_vars
  <2>2. Fetched' = Fetched /\ Unrenamed' = Unrenamed
    BY <2>1, SameCode
  <2>3. TypeInv'
    BY <2>1, <2>2 DEF IInv, TypeInv
  <2>4. RoomInv' /\ BranchInv' /\ ClearedInv' /\ IdleInv'
    BY <2>1 DEF IInv, RoomInv, BranchInv, ClearedInv, IdleInv
  <2>5. Live' = Live
    BY <2>1 DEF Live, LiveRob, LiveFront, LivePort, Resolving, Outcome
  <2>6. GoOn' = GoOn /\ Waits' = Waits
    BY <2>1 DEF GoOn, Waits
  <2>7. FeedbackInv'
    BY <2>1, <2>5 DEF IInv, FeedbackInv
  <2>8. StreamInv'
    BY <2>1, <2>5, <2>6 DEF IInv, StreamInv
  <2>9. QED
    BY <2>3, <2>4, <2>7, <2>8 DEF IInv
<1>10. QED
  BY <1>1, <1>2, <1>3, <1>4, <1>5, <1>6, <1>7, <1>8, <1>9 DEF Next

\* The invariant holds in every state of every execution.
THEOREM Invariance == Spec => []IInv
BY InitIInv, NextIInv, PTL DEF Spec

\* Between two cycles the live stream is the physical one.
LEMMA StreamFacts ==
  ASSUME IInv, phase = "bru"
  PROVE  Sound(Stream, jump_wait, pc, value, arch_pc, rsb) /\ Stream \in Seq(Fetched)
<1>1. /\ TypeInv /\ BranchInv /\ StreamInv /\ rob \in Seq(Fetched) /\ fb = NoFeedback
      /\ jump_wait \in BOOLEAN
  BY DEF IInv, TypeInv, FeedbackInv
<1>2. fb.flush = "none" /\ fb.redirect = NoPc /\ fb.jump_to = NoPc
  BY <1>1 DEF NoFeedback
<1>3. /\ d2r \in Seq(Fetched) /\ f2d \in Seq(Fetched) /\ rev_pack \in Seq(Fetched)
      /\ port \in Seq(Fetched) /\ Live \in Seq(Fetched)
  BY <1>1, LiveType
<1>4. Live = rob \o (d2r \o (f2d \o (rev_pack \o port)))
  BY <1>2 DEF Live, LiveRob, Resolving, LiveFront, LivePort
<1>5. Cat(rob, Cat(d2r, Cat(f2d, Cat(rev_pack, port))))
         = Cat(Cat(Cat(Cat(rob, d2r), f2d), rev_pack), port)
  <2>1. Cat(rob, Cat(d2r, Cat(f2d, Cat(rev_pack, port))))
           = Cat(Cat(rob, Cat(d2r, Cat(f2d, rev_pack))), port)
    BY <1>1, <1>3, RegroupLast
  <2>2. Cat(rob, Cat(d2r, Cat(f2d, rev_pack))) = Cat(Cat(rob, Cat(d2r, f2d)), rev_pack)
    BY <1>1, <1>3, Regroup
  <2>3. Cat(rob, Cat(d2r, f2d)) = Cat(Cat(rob, d2r), f2d)
    BY <1>1, <1>3 DEF Cat
  <2>4. QED
    BY <2>1, <2>2, <2>3
<1>6. Live = Stream
  BY <1>4, <1>5 DEF Cat, Stream
<1>7. Waits = jump_wait /\ GoOn = pc
  BY <1>1, <1>2 DEF Waits, GoOn
<1>8. QED
  BY <1>1, <1>3, <1>6, <1>7 DEF StreamInv

\* For every width, size and program, no instruction is lost, doubled or reordered
\* between the fetch pc and the reorder buffer.
THEOREM StreamCorrect == Spec => []StreamUnbroken
<1>1. IInv => StreamUnbroken
  <2> SUFFICES ASSUME IInv, phase = "bru"
               PROVE  /\ \A i \in 1..(Len(Stream) - 1) : GoesOnAt(Stream[i]) = Stream[i + 1].pc
                      /\ (Stream # <<>> /\ ~jump_wait) => GoesOnAt(Newest) = pc
    BY DEF StreamUnbroken
  <2>1. Sound(Stream, jump_wait, pc, value, arch_pc, rsb)
    BY StreamFacts
  <2>2. \A i \in 1..(Len(Stream) - 1) : GoesOnAt(Stream[i]) = Stream[i + 1].pc
    BY <2>1 DEF Sound, Chain, Follows
  <2>3. (Stream # <<>> /\ ~jump_wait) => GoesOnAt(Newest) = pc
    BY <2>1 DEF Sound, LastSound, Newest
  <2>4. QED
    BY <2>2, <2>3
<1>2. QED
  BY <1>1, Invariance, PTL

\* fetch1 waits exactly while the newest instruction in flight is an mret.
THEOREM WaitCorrect == Spec => []WaitOwned
<1>1. IInv => WaitOwned
  <2> SUFFICES ASSUME IInv, phase = "bru"
               PROVE  jump_wait <=> Stream # <<>> /\ Newest.kind = "mret"
    BY DEF WaitOwned
  <2>1. Sound(Stream, jump_wait, pc, value, arch_pc, rsb)
    BY StreamFacts
  <2>2. QED
    BY <2>1 DEF Sound, LastSound, Newest
<1>2. QED
  BY <1>1, Invariance, PTL

\* The oldest instruction in flight, or else the next one fetched, is the one the
\* program executes next: no redirect gets lost to another one.
THEOREM OldestCorrect == Spec => []OldestIsNext
<1>1. IInv => OldestIsNext
  <2> SUFFICES ASSUME IInv, phase = "bru"
               PROVE  arch_pc = (IF Stream = <<>> THEN pc ELSE Stream[1].pc)
    BY DEF OldestIsNext
  <2>1. Sound(Stream, jump_wait, pc, value, arch_pc, rsb)
    BY StreamFacts
  <2>2. QED
    BY <2>1 DEF Sound
<1>2. QED
  BY <1>1, Invariance, PTL

\* What follows a fence.i was read after every older store had been written.
THEOREM FenceCorrect == Spec => []FenceFresh
<1>1. IInv => FenceFresh
  <2> SUFFICES ASSUME IInv, phase = "bru", NEW i \in 1..(Len(Stream) - 1)
               PROVE  Stream[i].kind = "fence_i" => Stream[i + 1].fresh
    BY DEF FenceFresh
  <2>1. Sound(Stream, jump_wait, pc, value, arch_pc, rsb)
    BY StreamFacts
  <2>2. QED
    BY <2>1 DEF Sound, Chain, Follows
<1>2. QED
  BY <1>1, Invariance, PTL

\* Neither fifo between the stages ever holds more than its size, although its
\* producer sees what was taken from it only a cycle later.
THEOREM FifosFit ==
  Spec => [](/\ Len(d2r) <= DECODE_RENAME_FIFO_SIZE /\ Len(f2d) <= FETCH2_DECODE_FIFO_SIZE)
<1>1. IInv => Len(d2r) <= DECODE_RENAME_FIFO_SIZE /\ Len(f2d) <= FETCH2_DECODE_FIFO_SIZE
  <2> SUFFICES ASSUME IInv
               PROVE  Len(d2r) <= DECODE_RENAME_FIFO_SIZE /\ Len(f2d) <= FETCH2_DECODE_FIFO_SIZE
    OBVIOUS
  <2>1. /\ d2r \in Seq(Unrenamed) /\ f2d \in Seq(Unrenamed)
        /\ d2r_popped \in Nat /\ f2d_popped \in Nat
        /\ Len(d2r) + d2r_popped <= DECODE_RENAME_FIFO_SIZE
        /\ Len(f2d) + f2d_popped <= FETCH2_DECODE_FIFO_SIZE
    BY DEF IInv, TypeInv, RoomInv
  <2>2. Len(d2r) \in Nat /\ Len(f2d) \in Nat
    BY <2>1
  <2>3. QED
    BY <2>1, <2>2, ConstAssumption
<1>2. QED
  BY <1>1, Invariance, PTL
=============================================================================
