--------------------------- MODULE StoreBusProofs ---------------------------
(***************************************************************************)
(* The write side of the buses, for a retired store buffer of any size,    *)
(* any number of stores and any mixture of memory, devices and addresses   *)
(* without a slave.                                                        *)
(***************************************************************************)
EXTENDS StoreBus, TLAPS

\* How often a store of this kind is written in the end.
Due(kind) == IF kind \in {"memory", "clint"} THEN 1 ELSE 0

\* Only the newest store is at the head of the reorder buffer.
HeadLast == \A s \in DOMAIN stores : stores[s].state = "head" => s = Len(stores)

\* The store commit sends is at the head until its answer is read, and the answer is
\* there at the end of the cycle in which it was sent.
Device ==
    /\ ack_new["noncacheable"].of = 0
    /\ is_waiting_ack => AtHead /\ ~Cacheable(HeadKind)
    /\ AtHead /\ ~is_waiting_ack => stores[HeadId].written = 0
    /\ phase = "commit" =>
          /\ sync_request_q = <<>>
          /\ ~is_waiting_ack => ack["noncacheable"].of = 0
          /\ is_waiting_ack =>
                /\ ack["noncacheable"].of = HeadId
                /\ ack["noncacheable"].error => HeadKind # "clint"
                /\ ~ack["noncacheable"].error => HeadKind = "clint"
                /\ stores[HeadId].written = Due(HeadKind)
    /\ phase # "commit" =>
          /\ ~is_waiting_ack => sync_request_q = <<>>
          /\ is_waiting_ack => sync_request_q = <<HeadId>> /\ stores[HeadId].written = 0

\* The buffer holds retired stores in program order, and with a store every later
\* one; only its front may have been written.
Buffer ==
    /\ \A k \in DOMAIN rsb :
          /\ rsb[k] \in DOMAIN stores
          /\ stores[rsb[k]].state = "retired" /\ Cacheable(stores[rsb[k]].kind)
          /\ k > 1 => stores[rsb[k]].written = 0
    /\ \A j, k \in DOMAIN rsb : j < k => rsb[j] < rsb[k]
    /\ \A k \in DOMAIN rsb, t \in DOMAIN stores :
          t > rsb[k] /\ stores[t].state = "retired" /\ Cacheable(stores[t].kind)
             => Pending(t)

\* The front's write is with memory, its answer on the way, or its answer there.
InMemory ==
    /\ writes = <<rsb[1]>> /\ stores[rsb[1]].kind = "memory"
    /\ ack_new["cacheable"].of = 0 /\ (phase # "bus" => ack["cacheable"].of = 0)
Answering ==
    /\ writes = <<>> /\ ack_new["cacheable"].of = rsb[1]
    /\ phase \in {"rsb", "bus"} /\ (phase = "rsb" => ack["cacheable"].of = 0)
Answered ==
    /\ writes = <<>> /\ ack_new["cacheable"].of = 0
    /\ phase # "bus" /\ ack["cacheable"].of = rsb[1]

\* At most the front of the buffer is on the bus.
Sender ==
    /\ ~rsb_waiting_ack =>
          /\ writes = <<>> /\ ack_new["cacheable"].of = 0
          /\ phase # "bus" => ack["cacheable"].of = 0
    /\ rsb_waiting_ack => rsb # <<>> /\ (InMemory \/ Answering \/ Answered)
    /\ rsb # <<>> =>
          /\ rsb_waiting_ack /\ writes = <<>> =>
                stores[rsb[1]].written = Due(stores[rsb[1]].kind)
          /\ ~(rsb_waiting_ack /\ writes = <<>>) => stores[rsb[1]].written = 0

\* A store that is done with was written as often as is due.
Done ==
    \A s \in DOMAIN stores :
        /\ stores[s].state = "retired" =>
              /\ stores[s].kind \in {"memory", "memory_hole", "clint"}
              /\ ~Pending(s) => stores[s].written = Due(stores[s].kind)
        /\ stores[s].state = "trapped" =>
              stores[s].written = 0 /\ stores[s].kind \in {"clint_refused", "hole"}

IInv == TypeOK /\ HeadLast /\ Device /\ Buffer /\ Sender /\ Done

States == {"head", "retired", "trapped"}
Entry == [kind : Kinds, state : States, written : Nat]

-----------------------------------------------------------------------------
(***************************************************************************)
(* Sequences, and the table of the stores.                                 *)
(***************************************************************************)
\* What an append adds.
LEMMA Appended ==
    ASSUME NEW S, NEW q \in Seq(S), NEW e \in S
    PROVE  /\ Append(q, e) \in Seq(S) /\ Append(q, e) # <<>>
           /\ Len(q) \in Nat
           /\ Len(Append(q, e)) = Len(q) + 1
           /\ DOMAIN Append(q, e) = 1..(Len(q) + 1) /\ DOMAIN q = 1..Len(q)
           /\ Append(q, e)[Len(q) + 1] = e
           /\ \A k \in DOMAIN q : Append(q, e)[k] = q[k]
    OBVIOUS

\* What is left when the head is taken.
LEMMA Taken ==
    ASSUME NEW S, NEW q \in Seq(S), q # <<>>
    PROVE  /\ Head(q) = q[1] /\ Head(q) \in S /\ Tail(q) \in Seq(S)
           /\ Len(q) \in Nat /\ Len(q) >= 1 /\ Len(Tail(q)) = Len(q) - 1
           /\ DOMAIN q = 1..Len(q) /\ DOMAIN Tail(q) = 1..(Len(q) - 1)
           /\ \A k \in DOMAIN Tail(q) : Tail(q)[k] = q[k + 1]
    OBVIOUS

\* A store changes its state and nothing else changes.
LEMMA StateSet ==
    ASSUME NEW q \in Seq(Entry), NEW s \in DOMAIN q, NEW x \in States,
           NEW r, r = [q EXCEPT ![s].state = x]
    PROVE  /\ r \in Seq(Entry) /\ Len(r) = Len(q) /\ DOMAIN r = DOMAIN q
           /\ r[s].state = x
           /\ \A t \in DOMAIN q : r[t].kind = q[t].kind /\ r[t].written = q[t].written
           /\ \A t \in DOMAIN q : t # s => r[t].state = q[t].state
<1>1. q[s] \in Entry
    OBVIOUS
<1>2. [q[s] EXCEPT !.state = x] \in Entry
    BY <1>1 DEF Entry
<1>3. r = [q EXCEPT ![s] = [q[s] EXCEPT !.state = x]]
    OBVIOUS
<1>4. r \in Seq(Entry) /\ Len(r) = Len(q) /\ DOMAIN r = DOMAIN q
    BY <1>2, <1>3
<1>5. r[s] = [q[s] EXCEPT !.state = x] /\ \A t \in DOMAIN q : t # s => r[t] = q[t]
    BY <1>3
<1>6. r[s].state = x /\ r[s].kind = q[s].kind /\ r[s].written = q[s].written
    BY <1>1, <1>5 DEF Entry
<1> QED BY <1>4, <1>5, <1>6

\* A store is written and nothing else changes.
LEMMA WrittenSet ==
    ASSUME NEW q \in Seq(Entry), NEW s \in DOMAIN q,
           NEW r, r = [q EXCEPT ![s].written = @ + 1]
    PROVE  /\ r \in Seq(Entry) /\ Len(r) = Len(q) /\ DOMAIN r = DOMAIN q
           /\ r[s].written = q[s].written + 1
           /\ \A t \in DOMAIN q : r[t].kind = q[t].kind /\ r[t].state = q[t].state
           /\ \A t \in DOMAIN q : t # s => r[t].written = q[t].written
<1>1. q[s] \in Entry
    OBVIOUS
<1> DEFINE e == [q[s] EXCEPT !.written = @ + 1]
<1>2. e \in Entry
    BY <1>1 DEF Entry
<1>3. r = [q EXCEPT ![s] = e]
    OBVIOUS
<1>4. e.written = q[s].written + 1 /\ e.kind = q[s].kind /\ e.state = q[s].state
    BY <1>1 DEF Entry
<1> HIDE DEF e
<1>5. r \in Seq(Entry) /\ Len(r) = Len(q) /\ DOMAIN r = DOMAIN q
    BY <1>2, <1>3
<1>6. r[s] = e /\ \A t \in DOMAIN q : t # s => r[t] = q[t]
    BY <1>3
<1> QED BY <1>4, <1>5, <1>6

\* The types of the table and of the buffer, as the steps below use them.
LEMMA Types ==
    ASSUME TypeOK
    PROVE  /\ stores \in Seq(Entry) /\ Len(stores) \in Nat /\ Len(stores) <= MaxStores
           /\ DOMAIN stores = 1..Len(stores)
           /\ \A s \in DOMAIN stores : stores[s] \in Entry
           /\ rsb \in Seq(Ids) /\ DOMAIN rsb = 1..Len(rsb) /\ Len(rsb) \in Nat
           /\ MaxStores \in Nat /\ RETIRED_STORE_BUFFER_SIZE \in Nat \ {0}
           /\ stores # <<>> => HeadId \in DOMAIN stores /\ HeadId \in Ids
           /\ rsb # <<>> => 1 \in DOMAIN rsb
<1>1. stores \in Seq(Entry) /\ Len(stores) <= MaxStores
    BY DEF TypeOK, Entry, States
<1>2. MaxStores \in Nat /\ RETIRED_STORE_BUFFER_SIZE \in Nat \ {0}
    BY ConstAssumption
<1>3. rsb \in Seq(Ids)
    BY DEF TypeOK
<1>4. /\ Len(stores) \in Nat /\ DOMAIN stores = 1..Len(stores)
      /\ \A s \in DOMAIN stores : stores[s] \in Entry
      /\ stores # <<>> => Len(stores) >= 1
    BY <1>1
<1>5. DOMAIN rsb = 1..Len(rsb) /\ Len(rsb) \in Nat /\ (rsb # <<>> => Len(rsb) >= 1)
    BY <1>3
<1> QED BY <1>1, <1>2, <1>3, <1>4, <1>5 DEF HeadId, Ids

\* The initial state satisfies the invariant.
LEMMA InitIInv == Init => IInv
<1> SUFFICES ASSUME Init PROVE IInv
    OBVIOUS
<1>1. /\ phase = "commit" /\ stores = <<>> /\ rsb = <<>> /\ writes = <<>>
      /\ sync_request_q = <<>> /\ ~is_waiting_ack /\ ~rsb_waiting_ack /\ pushed = 0
    BY DEF Init
<1>2. \A b \in Buses : ack[b] = NoAck /\ ack_new[b] = NoAck
    BY DEF Init
<1>3. NoAck \in Acks
    BY ConstAssumption DEF NoAck, Acks
<1>4. ack \in [Buses -> Acks] /\ ack_new \in [Buses -> Acks]
    BY <1>3 DEF Init
<1>5. /\ Len(stores) <= MaxStores /\ Len(rsb) <= RETIRED_STORE_BUFFER_SIZE
      /\ rsb \in Seq(Ids) /\ writes \in Seq(Ids) /\ sync_request_q \in Seq(Ids)
      /\ stores \in Seq([kind : Kinds, state : {"head", "retired", "trapped"},
                         written : Nat])
    BY <1>1, ConstAssumption
<1>6. is_waiting_ack \in BOOLEAN /\ rsb_waiting_ack \in BOOLEAN
    BY DEF Init
<1>7. TypeOK
    BY <1>1, <1>4, <1>5, <1>6 DEF TypeOK
<1>8. DOMAIN stores = {} /\ DOMAIN rsb = {} /\ ~AtHead
    BY <1>1 DEF AtHead
<1>9. HeadLast /\ Buffer /\ Done
    BY <1>8 DEF HeadLast, Buffer, Done
<1>10. ack["noncacheable"].of = 0 /\ ack_new["noncacheable"].of = 0
       /\ ack["cacheable"].of = 0 /\ ack_new["cacheable"].of = 0
    BY <1>2 DEF Buses, NoAck
<1>11. Device
    BY <1>1, <1>8, <1>10 DEF Device
<1>12. Sender
    BY <1>1, <1>10 DEF Sender
<1> QED BY <1>7, <1>9, <1>11, <1>12 DEF IInv

-----------------------------------------------------------------------------
(***************************************************************************)
(* What a step leaves alone.                                               *)
(***************************************************************************)
\* Without a change of the table or of the buffer.
LEMMA TableKept ==
    ASSUME IInv, UNCHANGED <<stores, rsb>>
    PROVE  HeadLast' /\ Buffer' /\ Done'
<1>1. \A s : Pending(s)' <=> Pending(s)
    BY DEF Pending
<1> QED BY <1>1 DEF IInv, HeadLast, Buffer, Done

\* The sender while commit or a silent memory has its turn.
LEMMA SenderKept ==
    ASSUME IInv, phase \in {"commit", "memory"}, phase' \in {"commit", "memory", "rsb"},
           UNCHANGED <<rsb, rsb_waiting_ack, writes, ack, ack_new>>,
           rsb # <<>> => /\ stores'[rsb[1]].kind = stores[rsb[1]].kind
                         /\ stores'[rsb[1]].written = stores[rsb[1]].written
    PROVE  Sender'
<1>1. Sender
    BY DEF IInv
<1>2. ~Answering
    BY DEF Answering
<1>3. (InMemory => InMemory') /\ (Answered => Answered')
    <2>1. InMemory => rsb # <<>>
        BY <1>1 DEF InMemory, Sender
    <2> QED BY <2>1, <1>1 DEF InMemory, Answered, Sender
<1> QED BY <1>1, <1>2, <1>3 DEF Sender

-----------------------------------------------------------------------------
(***************************************************************************)
(* Commit.                                                                 *)
(***************************************************************************)
\* A cycle in which commit does nothing for stores.
LEMMA CommitPauseIInv == IInv /\ CommitPause => IInv'
<1> SUFFICES ASSUME IInv, CommitPause PROVE IInv'
    OBVIOUS
<1>1. /\ phase = "commit" /\ phase' = "memory"
      /\ UNCHANGED <<stores, is_waiting_ack, sync_request_q, rsb, rsb_waiting_ack, pushed,
                     writes, ack, ack_new>>
    BY DEF CommitPause
<1>2. TypeOK'
    BY <1>1 DEF IInv, TypeOK
<1>3. HeadLast' /\ Buffer' /\ Done'
    BY <1>1, TableKept
<1>4. Sender'
    BY <1>1, SenderKept
<1>5. ~is_waiting_ack
    <2>1. SUFFICES ASSUME is_waiting_ack PROVE FALSE
        OBVIOUS
    <2>2. AtHead /\ ack["noncacheable"].of = HeadId
        BY <1>1, <2>1 DEF IInv, Device
    <2>3. HeadId # 0
        BY <2>2, Types DEF IInv, AtHead, Ids
    <2> QED BY <2>1, <2>2, <2>3 DEF CommitPause
<1>6. AtHead' <=> AtHead
    BY <1>1 DEF AtHead, HeadId
<1>7. Device'
    BY <1>1, <1>5, <1>6 DEF IInv, Device, HeadId
<1> QED BY <1>2, <1>3, <1>4, <1>7 DEF IInv

\* Commit sends a store that is not cacheable.
LEMMA CommitSendIInv == IInv /\ CommitSend => IInv'
<1> SUFFICES ASSUME IInv, CommitSend PROVE IInv'
    OBVIOUS
<1>1. /\ phase = "commit" /\ phase' = "memory" /\ AtHead /\ ~is_waiting_ack
      /\ ~Cacheable(HeadKind) /\ is_waiting_ack'
      /\ UNCHANGED <<stores, rsb, rsb_waiting_ack, pushed, writes, ack, ack_new>>
    BY DEF CommitSend
<1>2. HeadId \in Ids
    BY <1>1, Types DEF IInv, AtHead
<1>3. sync_request_q = <<>> /\ stores[HeadId].written = 0
    BY <1>1 DEF IInv, Device
<1>4. sync_request_q' = <<HeadId>>
    BY <1>3 DEF CommitSend
<1>5. sync_request_q' \in Seq(Ids)
    BY <1>2, <1>4
<1>6. is_waiting_ack' \in BOOLEAN
    BY DEF CommitSend
<1>7. TypeOK'
    BY <1>1, <1>5, <1>6 DEF IInv, TypeOK
<1>8. HeadLast' /\ Buffer' /\ Done'
    BY <1>1, TableKept
<1>9. Sender'
    BY <1>1, SenderKept
<1>10. Device'
    BY <1>1, <1>3, <1>4 DEF IInv, Device, AtHead, HeadKind, HeadId
<1> QED BY <1>7, <1>8, <1>9, <1>10 DEF IInv

\* Commit reads the answer to the store it sent.
LEMMA CommitAckedIInv == IInv /\ CommitAcked => IInv'
<1> SUFFICES ASSUME IInv, CommitAcked PROVE IInv'
    OBVIOUS
<1> DEFINE x == IF ack["noncacheable"].error THEN "trapped" ELSE "retired"
<1>1. /\ phase = "commit" /\ phase' = "memory" /\ AtHead /\ is_waiting_ack
      /\ ~is_waiting_ack' /\ stores' = [stores EXCEPT ![HeadId].state = x]
      /\ UNCHANGED <<sync_request_q, rsb, rsb_waiting_ack, pushed, writes, ack, ack_new>>
    BY DEF CommitAcked
<1>2. /\ sync_request_q = <<>> /\ ~Cacheable(HeadKind)
      /\ ack["noncacheable"].error => HeadKind # "clint"
      /\ ~ack["noncacheable"].error => HeadKind = "clint"
      /\ stores[HeadId].written = Due(HeadKind)
      /\ ack_new["noncacheable"].of = 0
    BY <1>1 DEF IInv, Device
<1>3. x \in States /\ x # "head" /\ HeadId \in DOMAIN stores /\ stores \in Seq(Entry)
    BY <1>1, Types DEF IInv, AtHead, States
<1>4. /\ x = "trapped" => HeadKind # "clint"
      /\ x = "retired" => HeadKind = "clint"
    BY <1>2
<1> HIDE DEF x
<1>5. /\ stores' \in Seq(Entry) /\ Len(stores') = Len(stores)
      /\ DOMAIN stores' = DOMAIN stores /\ stores'[HeadId].state = x
      /\ \A t \in DOMAIN stores : stores'[t].kind = stores[t].kind
                                  /\ stores'[t].written = stores[t].written
      /\ \A t \in DOMAIN stores : t # HeadId => stores'[t].state = stores[t].state
    BY <1>1, <1>3, StateSet
<1>6. is_waiting_ack' \in BOOLEAN
    BY DEF CommitAcked
<1>7. TypeOK'
    BY <1>1, <1>5, <1>6 DEF IInv, TypeOK, Entry, States
<1>8. HeadLast'
    BY <1>3, <1>5 DEF IInv, HeadLast, HeadId
<1>9. \A k \in DOMAIN rsb : rsb[k] \in DOMAIN stores /\ rsb[k] # HeadId
                            /\ stores'[rsb[k]].state = stores[rsb[k]].state
    BY <1>1, <1>5 DEF IInv, Buffer, AtHead
<1>10. \A s : Pending(s)' <=> Pending(s)
    BY <1>1 DEF Pending
<1>11. Buffer'
    <2>1. ~Cacheable(stores'[HeadId].kind)
        BY <1>2, <1>3, <1>5 DEF HeadKind
    <2> QED BY <1>1, <1>5, <1>9, <1>10, <2>1 DEF IInv, Buffer
<1>12. Sender'
    <2>1. rsb # <<>> => rsb[1] \in DOMAIN stores
        BY <1>9, Types DEF IInv
    <2> QED BY <1>1, <1>5, <2>1, SenderKept
<1>13. ~AtHead'
    BY <1>3, <1>5 DEF AtHead, HeadId
<1>14. Device'
    BY <1>1, <1>2, <1>13 DEF Device
<1>15. Done'
    <2>1. SUFFICES ASSUME NEW s \in DOMAIN stores
                   PROVE /\ stores'[s].state = "retired" =>
                               /\ stores'[s].kind \in {"memory", "memory_hole", "clint"}
                               /\ ~Pending(s) => stores'[s].written = Due(stores'[s].kind)
                         /\ stores'[s].state = "trapped" =>
                               /\ stores'[s].written = 0
                               /\ stores'[s].kind \in {"clint_refused", "hole"}
        BY <1>5, <1>10 DEF Done
    <2>2. CASE s # HeadId
        BY <2>2, <1>5 DEF IInv, Done
    <2>3. CASE s = HeadId
        <3>1. stores'[s].kind = HeadKind /\ stores'[s].written = Due(HeadKind)
            BY <2>3, <1>2, <1>5 DEF HeadKind
        <3>2. HeadKind \in Writes
            BY <1>3, Types, ConstAssumption DEF IInv, Entry, HeadKind
        <3>3. CASE x = "retired"
            BY <3>1, <3>3, <1>4, <1>5, <2>3
        <3>4. CASE x = "trapped"
            <4>1. HeadKind \in {"clint_refused", "hole"}
                BY <3>2, <3>4, <1>2, <1>4 DEF Writes, Cacheable
            <4>2. Due(HeadKind) = 0
                BY <4>1 DEF Due
            <4> QED BY <3>1, <3>4, <4>1, <4>2, <1>5, <2>3
        <3> QED BY <3>3, <3>4, <1>3 DEF States
    <2> QED BY <2>2, <2>3
<1> QED BY <1>7, <1>8, <1>11, <1>12, <1>14, <1>15 DEF IInv

\* A store comes to the head.
LEMMA NextStoreIInv == IInv /\ NextStore => IInv'
<1> SUFFICES ASSUME IInv, NextStore PROVE IInv'
    OBVIOUS
<1>1. PICK kind \in Kinds :
          stores' = Append(stores, [kind |-> kind, state |-> "head", written |-> 0])
    BY DEF NextStore
<1>2. /\ phase = "commit" /\ phase' = "commit" /\ ~AtHead /\ Len(stores) < MaxStores
      /\ UNCHANGED <<phase, is_waiting_ack, sync_request_q, rsb, rsb_waiting_ack, pushed,
                     writes, ack, ack_new>>
    BY DEF NextStore
<1> DEFINE e == [kind |-> kind, state |-> "head", written |-> 0]
           n == Len(stores) + 1
<1>3. e \in Entry /\ e.state = "head" /\ e.written = 0
    BY DEF Entry, States
<1>4. stores' = Append(stores, e)
    BY <1>1
<1> HIDE DEF e
<1>5. /\ stores' \in Seq(Entry) /\ stores' # <<>> /\ Len(stores) \in Nat
      /\ Len(stores') = n /\ DOMAIN stores' = 1..n /\ DOMAIN stores = 1..Len(stores)
      /\ stores'[n] = e /\ \A s \in DOMAIN stores : stores'[s] = stores[s]
    BY <1>3, <1>4, Types, Appended DEF IInv
<1>6. TypeOK'
    <2>1. Len(stores') <= MaxStores
        BY <1>2, <1>5, ConstAssumption
    <2> QED BY <1>2, <1>5, <2>1 DEF IInv, TypeOK, Entry, States
<1>7. \A s \in DOMAIN stores' : s # n => s \in DOMAIN stores
    BY <1>5
<1>8. \A s \in DOMAIN stores : stores[s].state # "head"
    BY <1>2, <1>5 DEF IInv, HeadLast, AtHead, HeadId
<1>9. HeadLast'
    BY <1>5, <1>7, <1>8 DEF HeadLast
<1>10. AtHead' /\ HeadId' = n /\ ~is_waiting_ack
    BY <1>2, <1>3, <1>5 DEF IInv, Device, AtHead, HeadId
<1>11. Device'
    BY <1>2, <1>3, <1>5, <1>10 DEF IInv, Device
<1>12. \A s : Pending(s)' <=> Pending(s)
    BY <1>2 DEF Pending
<1>13. \A k \in DOMAIN rsb : /\ rsb[k] \in DOMAIN stores /\ rsb[k] \in DOMAIN stores'
                             /\ stores'[rsb[k]] = stores[rsb[k]]
    BY <1>5 DEF IInv, Buffer
<1>14. Buffer'
    <2>1. \A k \in DOMAIN rsb :
             /\ stores'[rsb[k]].state = "retired" /\ Cacheable(stores'[rsb[k]].kind)
             /\ k > 1 => stores'[rsb[k]].written = 0
        BY <1>13 DEF IInv, Buffer
    <2>2. \A j, k \in DOMAIN rsb : j < k => rsb[j] < rsb[k]
        BY DEF IInv, Buffer
    <2>3. ASSUME NEW k \in DOMAIN rsb, NEW t \in DOMAIN stores', t > rsb[k],
                 stores'[t].state = "retired", Cacheable(stores'[t].kind)
          PROVE  Pending(t)
        <3>1. t \in DOMAIN stores /\ stores'[t] = stores[t]
            BY <2>3, <1>3, <1>5, <1>7
        <3> QED BY <2>3, <3>1 DEF IInv, Buffer
    <2> QED BY <1>2, <1>12, <1>13, <2>1, <2>2, <2>3 DEF Buffer
<1>15. Sender'
    <2>1. rsb # <<>> => stores'[rsb[1]] = stores[rsb[1]]
        BY <1>13, Types DEF IInv
    <2> QED BY <1>2, <2>1, SenderKept
<1>16. Done'
    <2>1. SUFFICES ASSUME NEW s \in DOMAIN stores', s # n
                   PROVE /\ stores'[s].state = "retired" =>
                               /\ stores'[s].kind \in {"memory", "memory_hole", "clint"}
                               /\ ~Pending(s) => stores'[s].written = Due(stores'[s].kind)
                         /\ stores'[s].state = "trapped" =>
                               /\ stores'[s].written = 0
                               /\ stores'[s].kind \in {"clint_refused", "hole"}
        BY <1>3, <1>5, <1>12 DEF Done
    <2>2. s \in DOMAIN stores /\ stores'[s] = stores[s]
        BY <2>1, <1>5, <1>7
    <2> QED BY <2>2 DEF IInv, Done
<1> QED BY <1>6, <1>9, <1>11, <1>14, <1>15, <1>16 DEF IInv

\* Commit hands a cacheable store to the buffer.
LEMMA CommitCacheableIInv == IInv /\ CommitCacheable => IInv'
<1> SUFFICES ASSUME IInv, CommitCacheable PROVE IInv'
    OBVIOUS
<1>1. /\ phase = "commit" /\ phase' = "memory" /\ AtHead /\ ~is_waiting_ack
      /\ Cacheable(HeadKind) /\ Len(rsb) < RETIRED_STORE_BUFFER_SIZE
      /\ rsb' = Append(rsb, HeadId) /\ pushed' = 1
      /\ stores' = [stores EXCEPT ![HeadId].state = "retired"]
      /\ UNCHANGED <<is_waiting_ack, sync_request_q, rsb_waiting_ack, writes, ack, ack_new>>
    BY DEF CommitCacheable
<1> DEFINE n == Len(rsb) + 1
<1>2. HeadId \in DOMAIN stores /\ HeadId \in Ids /\ stores \in Seq(Entry)
      /\ DOMAIN stores = 1..HeadId /\ HeadId \in Nat /\ stores[HeadId].state = "head"
      /\ rsb \in Seq(Ids)
    BY <1>1, Types DEF IInv, AtHead, HeadId
<1>3. /\ stores' \in Seq(Entry) /\ Len(stores') = Len(stores)
      /\ DOMAIN stores' = DOMAIN stores /\ stores'[HeadId].state = "retired"
      /\ \A t \in DOMAIN stores : stores'[t].kind = stores[t].kind
                                  /\ stores'[t].written = stores[t].written
      /\ \A t \in DOMAIN stores : t # HeadId => stores'[t].state = stores[t].state
    <2> DEFINE x == "retired"
    <2>1. x \in States /\ stores' = [stores EXCEPT ![HeadId].state = x]
        BY <1>1 DEF States
    <2> HIDE DEF x
    <2>2. HeadId \in DOMAIN stores /\ stores \in Seq(Entry)
        BY <1>2
    <2>3. /\ stores' \in Seq(Entry) /\ Len(stores') = Len(stores)
          /\ DOMAIN stores' = DOMAIN stores /\ stores'[HeadId].state = x
          /\ \A t \in DOMAIN stores : stores'[t].kind = stores[t].kind
                                      /\ stores'[t].written = stores[t].written
          /\ \A t \in DOMAIN stores : t # HeadId => stores'[t].state = stores[t].state
        BY <2>1, <2>2, StateSet
    <2> QED BY <2>3 DEF x
<1>4. /\ rsb' \in Seq(Ids) /\ rsb' # <<>> /\ Len(rsb) \in Nat /\ Len(rsb') = n
      /\ DOMAIN rsb' = 1..n /\ DOMAIN rsb = 1..Len(rsb) /\ rsb'[n] = HeadId
      /\ \A k \in DOMAIN rsb : rsb'[k] = rsb[k]
    BY <1>1, <1>2, Appended
<1>5. TypeOK'
    <2>1. Len(rsb') <= RETIRED_STORE_BUFFER_SIZE
        BY <1>1, <1>4, ConstAssumption
    <2>2. pushed' \in {0, 1}
        BY <1>1
    <2> QED BY <1>1, <1>3, <1>4, <2>1, <2>2 DEF IInv, TypeOK, Entry, States
<1>6. HeadLast'
    BY <1>2, <1>3 DEF IInv, HeadLast, HeadId
<1>7. ~AtHead'
    BY <1>2, <1>3 DEF AtHead, HeadId
<1>8. Device'
    BY <1>1, <1>7 DEF IInv, Device
<1>9. stores[HeadId].written = 0
    BY <1>1 DEF IInv, Device
<1>10. \A k \in DOMAIN rsb : /\ rsb[k] \in DOMAIN stores /\ rsb[k] # HeadId
                             /\ stores'[rsb[k]].state = stores[rsb[k]].state
    BY <1>2, <1>3 DEF IInv, Buffer
<1>11. \A s : Pending(s)' <=> Pending(s) \/ s = HeadId
    BY <1>4 DEF Pending
<1>12. \A k \in DOMAIN rsb' : k # n => k \in DOMAIN rsb
    BY <1>4
<1>13. Buffer'
    <2>1. ASSUME NEW k \in DOMAIN rsb'
          PROVE  /\ rsb'[k] \in DOMAIN stores
                 /\ stores'[rsb'[k]].state = "retired"
                 /\ Cacheable(stores'[rsb'[k]].kind)
                 /\ k > 1 => stores'[rsb'[k]].written = 0
        <3>1. CASE k = n
            BY <3>1, <1>1, <1>2, <1>3, <1>4, <1>9 DEF HeadKind
        <3>2. CASE k # n
            <4>1. k \in DOMAIN rsb /\ rsb'[k] = rsb[k]
                BY <3>2, <1>4, <1>12
            <4> QED BY <4>1, <1>3, <1>10 DEF IInv, Buffer
        <3> QED BY <3>1, <3>2
    <2>2. ASSUME NEW j \in DOMAIN rsb', NEW k \in DOMAIN rsb', j < k
          PROVE  rsb'[j] < rsb'[k]
        <3>1. j \in DOMAIN rsb /\ rsb'[j] = rsb[j]
            BY <2>2, <1>4
        <3>2. CASE k = n
            BY <3>1, <3>2, <1>2, <1>4, <1>10
        <3>3. CASE k # n
            BY <2>2, <3>1, <3>3, <1>4, <1>12 DEF IInv, Buffer
        <3> QED BY <3>2, <3>3
    <2>3. ASSUME NEW k \in DOMAIN rsb', NEW t \in DOMAIN stores, t > rsb'[k],
                 stores'[t].state = "retired", Cacheable(stores'[t].kind)
          PROVE  Pending(t) \/ t = HeadId
        <3>1. SUFFICES ASSUME t # HeadId PROVE Pending(t)
            OBVIOUS
        <3>2. k # n
            BY <2>3, <1>2, <1>4
        <3>3. k \in DOMAIN rsb /\ rsb'[k] = rsb[k]
            BY <3>2, <1>4, <1>12
        <3>4. stores[t].state = "retired" /\ Cacheable(stores[t].kind)
            BY <2>3, <3>1, <1>3
        <3> QED BY <2>3, <3>3, <3>4 DEF IInv, Buffer
    <2> QED BY <1>3, <1>11, <2>1, <2>2, <2>3 DEF Buffer
<1>14. Sender'
    <2>1. CASE rsb = <<>>
        <3>1. ~rsb_waiting_ack /\ writes = <<>> /\ ack_new["cacheable"].of = 0
              /\ ack["cacheable"].of = 0
            BY <2>1, <1>1 DEF IInv, Sender
        <3>2. rsb'[1] = HeadId
            BY <2>1, <1>4
        <3>3. stores'[rsb'[1]].written = 0
            BY <3>2, <1>2, <1>3, <1>9
        <3> QED BY <3>1, <3>3, <1>1 DEF Sender
    <2>2. CASE rsb # <<>>
        <3>1. 1 \in DOMAIN rsb /\ rsb'[1] = rsb[1] /\ rsb[1] \in DOMAIN stores
            BY <2>2, <1>4, <1>10, Types DEF IInv
        <3>2. stores'[rsb'[1]].kind = stores[rsb[1]].kind
              /\ stores'[rsb'[1]].written = stores[rsb[1]].written
            BY <3>1, <1>3
        <3>3. ~Answering /\ (InMemory => InMemory') /\ (Answered => Answered')
            BY <3>1, <3>2, <1>1 DEF Answering, InMemory, Answered
        <3> QED BY <2>2, <3>1, <3>2, <3>3, <1>1, <1>4 DEF IInv, Sender
    <2> QED BY <2>1, <2>2
<1>15. Done'
    <2>1. SUFFICES ASSUME NEW s \in DOMAIN stores
                   PROVE /\ stores'[s].state = "retired" =>
                               /\ stores'[s].kind \in {"memory", "memory_hole", "clint"}
                               /\ ~Pending(s) /\ s # HeadId =>
                                     stores'[s].written = Due(stores'[s].kind)
                         /\ stores'[s].state = "trapped" =>
                               /\ stores'[s].written = 0
                               /\ stores'[s].kind \in {"clint_refused", "hole"}
        BY <1>3, <1>11 DEF Done
    <2>2. CASE s = HeadId
        BY <2>2, <1>1, <1>3 DEF HeadKind, Cacheable
    <2>3. CASE s # HeadId
        BY <2>3, <1>3 DEF IInv, Done
    <2> QED BY <2>2, <2>3
<1> QED BY <1>5, <1>6, <1>8, <1>13, <1>14, <1>15 DEF IInv

-----------------------------------------------------------------------------
(***************************************************************************)
(* Memory.                                                                 *)
(***************************************************************************)
\* Memory is not ready.
LEMMA MemorySilentIInv == IInv /\ MemorySilent => IInv'
<1> SUFFICES ASSUME IInv, MemorySilent PROVE IInv'
    OBVIOUS
<1>1. /\ phase = "memory" /\ phase' = "rsb"
      /\ UNCHANGED <<stores, is_waiting_ack, sync_request_q, rsb, rsb_waiting_ack, pushed,
                     writes, ack, ack_new>>
    BY DEF MemorySilent
<1>2. TypeOK'
    BY <1>1 DEF IInv, TypeOK
<1>3. HeadLast' /\ Buffer' /\ Done'
    BY <1>1, TableKept
<1>4. Sender'
    BY <1>1, SenderKept
<1>5. Device'
    BY <1>1 DEF IInv, Device, AtHead, HeadKind, HeadId
<1> QED BY <1>2, <1>3, <1>4, <1>5 DEF IInv

\* Memory writes the front of the buffer.
LEMMA MemoryWritesIInv == IInv /\ MemoryWrites => IInv'
<1> SUFFICES ASSUME IInv, MemoryWrites PROVE IInv'
    OBVIOUS
<1> DEFINE f == rsb[1]
<1>1. /\ phase = "memory" /\ phase' = "rsb" /\ writes # <<>>
      /\ stores' = [stores EXCEPT ![Head(writes)].written = @ + 1]
      /\ ack_new' = [ack_new EXCEPT !["cacheable"] = [of |-> Head(writes), error |-> FALSE]]
      /\ writes' = Tail(writes)
      /\ UNCHANGED <<is_waiting_ack, sync_request_q, rsb, rsb_waiting_ack, pushed, ack>>
    BY DEF MemoryWrites
<1>2. rsb_waiting_ack /\ rsb # <<>> /\ InMemory
    BY <1>1 DEF IInv, Sender, Answering, Answered
<1>3. /\ 1 \in DOMAIN rsb /\ f \in Ids /\ f \in DOMAIN stores /\ stores \in Seq(Entry)
      /\ stores[f].state = "retired" /\ Cacheable(stores[f].kind)
    BY <1>2, Types DEF IInv, Buffer
<1>4. Head(writes) = f /\ writes' = <<>> /\ stores[f].kind = "memory"
    BY <1>1, <1>2 DEF InMemory
<1>5. /\ ack["cacheable"].of = 0 /\ stores[f].written = 0
    BY <1>1, <1>2 DEF IInv, InMemory, Sender
<1>6. stores' = [stores EXCEPT ![f].written = @ + 1]
    BY <1>1, <1>4
<1> HIDE DEF f
<1>7. /\ stores' \in Seq(Entry) /\ Len(stores') = Len(stores)
      /\ DOMAIN stores' = DOMAIN stores
      /\ stores'[f].written = stores[f].written + 1
      /\ \A t \in DOMAIN stores : stores'[t].kind = stores[t].kind
                                  /\ stores'[t].state = stores[t].state
      /\ \A t \in DOMAIN stores : t # f => stores'[t].written = stores[t].written
    <2>1. f \in DOMAIN stores /\ stores \in Seq(Entry)
        BY <1>3
    <2> QED BY <1>6, <2>1, WrittenSet
<1>8. stores'[f].written = 1
    BY <1>5, <1>7
<1>9. /\ ack_new' \in [Buses -> Acks] /\ ack_new'["cacheable"].of = f
      /\ ack_new'["noncacheable"] = ack_new["noncacheable"]
    <2>1. ack_new \in [Buses -> Acks]
        BY DEF IInv, TypeOK
    <2>2. [of |-> f, error |-> FALSE] \in Acks
        BY <1>3, ConstAssumption DEF Acks, Ids
    <2> QED BY <2>1, <2>2, <1>1, <1>4 DEF Buses
<1>10. TypeOK'
    <2>1. writes' \in Seq(Ids)
        BY <1>4
    <2> QED BY <1>1, <1>7, <1>9, <2>1 DEF IInv, TypeOK, Entry, States
<1>11. HeadLast'
    BY <1>7 DEF IInv, HeadLast
<1>12. HeadId' = HeadId /\ (AtHead => HeadId \in DOMAIN stores /\ HeadId # f)
    BY <1>3, <1>7, Types DEF IInv, AtHead, HeadId
<1>13. /\ AtHead' <=> AtHead
       /\ AtHead => stores'[HeadId].written = stores[HeadId].written
                    /\ stores'[HeadId].kind = stores[HeadId].kind
    <2>1. stores # <<>> <=> stores' # <<>>
        BY <1>7, Types DEF IInv
    <2>2. stores # <<>> => HeadId \in DOMAIN stores
        BY Types DEF IInv
    <2> QED BY <2>1, <2>2, <1>7, <1>12 DEF AtHead
<1>14. Device'
    <2>1. AtHead => HeadKind' = HeadKind
        BY <1>12, <1>13 DEF HeadKind
    <2> QED BY <1>1, <1>9, <1>12, <1>13, <2>1 DEF IInv, Device
<1>15. \A s : Pending(s)' <=> Pending(s)
    BY <1>1 DEF Pending
<1>16. Pending(f)
    BY <1>3 DEF Pending, f
<1>17. Buffer'
    <2>1. ASSUME NEW k \in DOMAIN rsb, k > 1 PROVE rsb[k] # f
        <3>1. rsb[1] < rsb[k] /\ rsb[1] \in Ids
            BY <2>1, <1>3 DEF IInv, Buffer, f
        <3> QED BY <3>1 DEF f, Ids
    <2>2. \A k \in DOMAIN rsb : k > 1 => stores'[rsb[k]].written = 0
        BY <2>1, <1>7 DEF IInv, Buffer
    <2> QED BY <1>1, <1>7, <1>15, <2>2 DEF IInv, Buffer
<1>18. Sender'
    <2>1. Answering'
        BY <1>1, <1>4, <1>5, <1>9 DEF Answering, f
    <2>2. stores'[rsb[1]].written = Due(stores'[rsb[1]].kind)
        BY <1>3, <1>4, <1>7, <1>8 DEF Due, f
    <2> QED BY <1>1, <1>2, <1>4, <2>1, <2>2 DEF Sender
<1>19. Done'
    <2>1. SUFFICES ASSUME NEW s \in DOMAIN stores
                   PROVE /\ stores'[s].state = "retired" =>
                               /\ stores'[s].kind \in {"memory", "memory_hole", "clint"}
                               /\ ~Pending(s) => stores'[s].written = Due(stores'[s].kind)
                         /\ stores'[s].state = "trapped" =>
                               /\ stores'[s].written = 0
                               /\ stores'[s].kind \in {"clint_refused", "hole"}
        BY <1>7, <1>15 DEF Done
    <2>2. CASE s = f
        BY <2>2, <1>3, <1>4, <1>7, <1>16
    <2>3. CASE s # f
        BY <2>3, <1>7 DEF IInv, Done
    <2> QED BY <2>2, <2>3
<1> QED BY <1>10, <1>11, <1>14, <1>17, <1>18, <1>19 DEF IInv

-----------------------------------------------------------------------------
(***************************************************************************)
(* The retired store buffer.                                               *)
(***************************************************************************)
\* The front leaves once it is answered; the next one was not written.
LEMMA FrontPopped ==
    ASSUME IInv, rsb_waiting_ack, rsb # <<>>, writes = <<>>,
           rsb' = Tail(rsb), UNCHANGED stores
    PROVE  /\ HeadLast' /\ Buffer' /\ Done'
           /\ rsb' \in Seq(Ids) /\ Len(rsb') <= Len(rsb)
           /\ rsb' # <<>> => stores[rsb'[1]].written = 0
<1>1. /\ rsb \in Seq(Ids) /\ rsb' \in Seq(Ids) /\ Len(rsb) \in Nat
      /\ Len(rsb') = Len(rsb) - 1 /\ DOMAIN rsb = 1..Len(rsb)
      /\ DOMAIN rsb' = 1..(Len(rsb) - 1)
      /\ \A k \in DOMAIN rsb' : rsb'[k] = rsb[k + 1]
    BY Types, Taken DEF IInv
<1>2. \A k \in DOMAIN rsb' : k + 1 \in DOMAIN rsb /\ k + 1 > 1 /\ k \in Nat
    BY <1>1
<1>3. 1 \in DOMAIN rsb /\ \A k \in DOMAIN rsb : rsb[k] \in Nat
    BY <1>1, Types DEF IInv, Ids
<1>4. \A s : Pending(s)' <=> Pending(s) /\ s # rsb[1]
    <2>1. ASSUME NEW s, NEW k \in DOMAIN rsb', rsb'[k] = s
          PROVE  Pending(s) /\ s # rsb[1]
        <3>1. rsb[k + 1] = s /\ k + 1 \in DOMAIN rsb /\ 1 < k + 1
            BY <2>1, <1>1, <1>2
        <3>2. rsb[1] < rsb[k + 1]
            BY <3>1, <1>3 DEF IInv, Buffer
        <3> QED BY <3>1, <3>2, <1>3 DEF Pending
    <2>2. ASSUME NEW s, NEW k \in DOMAIN rsb, rsb[k] = s, s # rsb[1]
          PROVE  \E j \in DOMAIN rsb' : rsb'[j] = s
        <3>1. k - 1 \in DOMAIN rsb' /\ (k - 1) + 1 = k
            BY <2>2, <1>1
        <3> QED BY <2>2, <3>1, <1>1
    <2> QED BY <2>1, <2>2 DEF Pending
<1>5. HeadLast'
    BY DEF IInv, HeadLast
<1>6. Buffer'
    <2>1. ASSUME NEW k \in DOMAIN rsb'
          PROVE  /\ rsb'[k] \in DOMAIN stores
                 /\ stores[rsb'[k]].state = "retired" /\ Cacheable(stores[rsb'[k]].kind)
                 /\ stores[rsb'[k]].written = 0
        BY <1>1, <1>2 DEF IInv, Buffer
    <2>2. ASSUME NEW j \in DOMAIN rsb', NEW k \in DOMAIN rsb', j < k
          PROVE  rsb'[j] < rsb'[k]
        <3>1. j + 1 < k + 1
            BY <2>2, <1>2
        <3> QED BY <3>1, <1>1, <1>2 DEF IInv, Buffer
    <2>3. ASSUME NEW k \in DOMAIN rsb', NEW t \in DOMAIN stores, t > rsb'[k],
                 stores[t].state = "retired", Cacheable(stores[t].kind)
          PROVE  Pending(t) /\ t # rsb[1]
        <3>1. rsb'[k] = rsb[k + 1] /\ k + 1 \in DOMAIN rsb
            BY <1>1, <1>2
        <3>2. Pending(t)
            BY <2>3, <3>1 DEF IInv, Buffer
        <3>3. rsb[1] < rsb[k + 1]
            BY <3>1, <1>2, <1>3 DEF IInv, Buffer
        <3>4. t \in Nat
            BY Types DEF IInv
        <3> QED BY <2>3, <3>1, <3>2, <3>3, <3>4, <1>3
    <2> QED BY <1>4, <2>1, <2>2, <2>3 DEF Buffer
<1>7. Done'
    <2>1. stores[rsb[1]].written = Due(stores[rsb[1]].kind)
        BY DEF IInv, Sender
    <2> QED BY <1>4, <2>1 DEF IInv, Done
<1>8. rsb' # <<>> => stores[rsb'[1]].written = 0
    <2>1. ASSUME rsb' # <<>> PROVE stores[rsb'[1]].written = 0
        <3>1. 1 \in DOMAIN rsb'
            BY <1>1, <2>1
        <3>2. rsb'[1] = rsb[2] /\ 2 \in DOMAIN rsb
            BY <3>1, <1>1, <1>2
        <3> QED BY <3>2 DEF IInv, Buffer
    <2> QED BY <2>1
<1> QED BY <1>1, <1>5, <1>6, <1>7, <1>8

\* The buffer pops its front and sends the next, or waits.
LEMMA RsbRunIInv == IInv /\ RsbRun => IInv'
<1> SUFFICES ASSUME IInv, RsbRun PROVE IInv'
    OBVIOUS
<1> DEFINE s == rsb'[1]
           Free == Acked \/ ~rsb_waiting_ack
<1>1. /\ phase = "rsb" /\ phase' = "bus"
      /\ rsb' = IF Acked THEN Tail(rsb) ELSE rsb
      /\ UNCHANGED <<stores, is_waiting_ack, sync_request_q, pushed, ack>>
    BY DEF RsbRun
<1>2. Acked => rsb_waiting_ack /\ rsb # <<>> /\ Answered
    <2>1. Acked => rsb_waiting_ack /\ ack["cacheable"].of # 0
        BY DEF Acked
    <2> QED BY <2>1, <1>1 DEF IInv, Sender, InMemory, Answering
<1>3. /\ HeadLast' /\ Buffer' /\ Done'
      /\ rsb' \in Seq(Ids) /\ Len(rsb') <= Len(rsb)
      /\ Free => /\ writes = <<>> /\ ack_new["cacheable"].of = 0
                 /\ rsb' # <<>> => stores[rsb'[1]].written = 0
    <2>1. CASE Acked
        <3>1. rsb' = Tail(rsb) /\ writes = <<>> /\ ack_new["cacheable"].of = 0
            BY <2>1, <1>1, <1>2 DEF Answered
        <3> QED BY <2>1, <3>1, <1>1, <1>2, FrontPopped
    <2>2. CASE ~Acked
        <3>1. rsb' = rsb
            BY <2>2, <1>1
        <3>2. HeadLast' /\ Buffer' /\ Done'
            BY <3>1, <1>1, TableKept
        <3>3. rsb' \in Seq(Ids) /\ Len(rsb') <= Len(rsb)
            BY <3>1, Types DEF IInv
        <3>4. Free => /\ writes = <<>> /\ ack_new["cacheable"].of = 0
                      /\ rsb' # <<>> => stores[rsb'[1]].written = 0
            BY <2>2, <3>1 DEF IInv, Sender
        <3> QED BY <3>2, <3>3, <3>4
    <2> QED BY <2>1, <2>2
<1>4. Len(rsb') <= RETIRED_STORE_BUFFER_SIZE /\ Len(rsb') \in Nat
    BY <1>3, Types DEF IInv, TypeOK
<1>5. AtHead' <=> AtHead
    BY <1>1 DEF AtHead, HeadId
<1>6. ack_new'["noncacheable"].of = 0 => Device'
    BY <1>1, <1>5 DEF IInv, Device, HeadKind, HeadId
<1>7. ack_new \in [Buses -> Acks] /\ ack_new["noncacheable"].of = 0 /\ writes \in Seq(Ids)
    BY DEF IInv, TypeOK, Device
<1>8. ASSUME writes' \in Seq(Ids), ack_new' \in [Buses -> Acks],
             rsb_waiting_ack' \in BOOLEAN
      PROVE  TypeOK'
    BY <1>1, <1>3, <1>4, <1>8 DEF IInv, TypeOK
<1>9. CASE Free /\ Len(rsb') > pushed
    <2>1. rsb' # <<>> /\ Front(rsb') = s /\ s \in Ids /\ rsb_waiting_ack'
          /\ rsb_waiting_ack' \in BOOLEAN
        <3>1. rsb' # <<>>
            BY <1>3, <1>4, <1>9 DEF IInv, TypeOK
        <3>2. Head(rsb') = rsb'[1] /\ Head(rsb') \in Ids
            BY <3>1, <1>3, Taken
        <3>3. rsb_waiting_ack' = TRUE
            BY <1>9 DEF RsbRun
        <3> QED BY <3>1, <3>2, <3>3 DEF Front
    <2>2. CASE stores[s].kind = "memory"
        <3>1. writes' = Append(writes, s) /\ ack_new' = ack_new
            BY <1>9, <2>1, <2>2 DEF RsbRun
        <3>2. writes' = <<s>>
            <4>1. writes = <<>>
                BY <1>3, <1>9
            <4> HIDE DEF s
            <4> QED BY <3>1, <4>1
        <3>3. writes' \in Seq(Ids) /\ writes' # <<>>
            BY <3>2, <2>1
        <3>4. InMemory'
            BY <3>1, <3>2, <2>2, <1>1, <1>3, <1>9 DEF InMemory
        <3>5. Sender'
            BY <3>3, <3>4, <2>1, <1>1, <1>3, <1>9 DEF Sender
        <3>6. TypeOK' /\ Device'
            BY <3>1, <3>3, <2>1, <1>6, <1>7, <1>8
        <3> QED BY <3>5, <3>6, <1>3 DEF IInv
    <2>3. CASE stores[s].kind # "memory"
        <3>1. /\ writes' = writes
              /\ ack_new' = [ack_new EXCEPT !["cacheable"] = [of |-> s, error |-> TRUE]]
            BY <1>9, <2>1, <2>3 DEF RsbRun
        <3>2. [of |-> s, error |-> TRUE] \in Acks
            BY <2>1, ConstAssumption DEF Acks, Ids
        <3>3. /\ ack_new' \in [Buses -> Acks] /\ ack_new'["cacheable"].of = s
              /\ ack_new'["noncacheable"] = ack_new["noncacheable"]
            BY <3>1, <3>2, <1>7 DEF Buses
        <3>4. Answering'
            BY <3>1, <3>3, <1>1, <1>3, <1>9 DEF Answering
        <3>5. Due(stores[s].kind) = 0
            <4>1. 1 \in DOMAIN rsb'
                BY <2>1, <1>3
            <4>2. Cacheable(stores[s].kind)
                BY <4>1, <1>1, <1>3 DEF Buffer
            <4> QED BY <4>2, <2>3 DEF Cacheable, Due
        <3>6. Sender'
            BY <3>1, <3>4, <3>5, <2>1, <1>1, <1>3, <1>9 DEF Sender
        <3>7. TypeOK' /\ Device'
            BY <3>1, <3>3, <2>1, <1>6, <1>7, <1>8
        <3> QED BY <3>6, <3>7, <1>3 DEF IInv
    <2> QED BY <2>2, <2>3
<1>10. CASE ~(Free /\ Len(rsb') > pushed)
    <2>1. /\ rsb_waiting_ack' = (rsb_waiting_ack /\ ~Acked)
          /\ writes' = writes /\ ack_new' = ack_new
        BY <1>10 DEF RsbRun
    <2>2. rsb_waiting_ack' \in BOOLEAN
        BY <2>1
    <2>3. TypeOK' /\ Device'
        BY <2>1, <2>2, <1>6, <1>7, <1>8
    <2>4. Sender'
        <3>1. CASE Free
            <4>1. ~rsb_waiting_ack'
                BY <3>1, <2>1
            <4> QED BY <3>1, <4>1, <2>1, <1>1, <1>3 DEF Sender
        <3>2. CASE ~Free
            <4>1. rsb_waiting_ack' /\ rsb_waiting_ack /\ rsb' = rsb /\ rsb # <<>>
                  /\ ack["cacheable"].of = 0
                BY <3>2, <2>1, <1>1 DEF IInv, Sender, Acked
            <4>2. rsb[1] # 0
                BY <4>1, Types DEF IInv, Ids
            <4>3. ~Answered
                BY <4>1, <4>2 DEF Answered
            <4>4. InMemory' \/ Answering'
                BY <4>1, <4>3, <2>1, <1>1 DEF IInv, Sender, InMemory, Answering
            <4> QED BY <4>1, <4>4, <2>1, <1>1 DEF IInv, Sender
        <3> QED BY <3>1, <3>2
    <2> QED BY <2>3, <2>4, <1>3 DEF IInv
<1> QED BY <1>9, <1>10

-----------------------------------------------------------------------------
(***************************************************************************)
(* The buses and the clock edge.                                           *)
(***************************************************************************)
\* The answers given in the cycle become visible, and the device answers.
LEMMA BusRunIInv == IInv /\ BusRun => IInv'
<1> SUFFICES ASSUME IInv, BusRun PROVE IInv'
    OBVIOUS
<1>1. /\ phase = "bus" /\ phase' = "commit" /\ sync_request_q' = <<>> /\ pushed' = 0
      /\ ack_new' = [b \in Buses |-> NoAck]
      /\ UNCHANGED <<is_waiting_ack, rsb, rsb_waiting_ack, writes>>
    BY DEF BusRun
<1>2. NoAck \in Acks /\ NoAck.of = 0
    BY ConstAssumption DEF NoAck, Acks
<1>3. /\ ack_new' \in [Buses -> Acks] /\ ack_new'["cacheable"].of = 0
      /\ ack_new'["noncacheable"].of = 0
    BY <1>1, <1>2 DEF Buses
<1>4. ack_new \in [Buses -> Acks] /\ ack_new["noncacheable"].of = 0
    BY DEF IInv, TypeOK, Device
<1>5. \A s : Pending(s)' <=> Pending(s)
    BY <1>1 DEF Pending
<1>6. ASSUME ack' \in [Buses -> Acks], stores' \in Seq(Entry), Len(stores') = Len(stores)
      PROVE  TypeOK'
    <2>1. sync_request_q' \in Seq(Ids) /\ pushed' \in {0, 1}
        BY <1>1
    <2> QED BY <2>1, <1>1, <1>3, <1>6 DEF IInv, TypeOK, Entry, States
<1>7. ASSUME ack'["cacheable"] = ack_new["cacheable"],
             rsb # <<>> => /\ stores'[rsb[1]].kind = stores[rsb[1]].kind
                           /\ stores'[rsb[1]].written = stores[rsb[1]].written
      PROVE  Sender'
    <2>1. ~Answered
        BY <1>1 DEF Answered
    <2>2. rsb # <<>> /\ InMemory => InMemory'
        BY <1>1, <1>3, <1>7 DEF InMemory
    <2>3. Answering => Answered'
        BY <1>1, <1>3, <1>7 DEF Answering, Answered
    <2> QED BY <1>1, <1>3, <1>7, <2>1, <2>2, <2>3 DEF IInv, Sender
<1>8. CASE ~is_waiting_ack
    <2>1. sync_request_q = <<>>
        BY <1>1, <1>8 DEF IInv, Device
    <2>2. ack' = ack_new /\ stores' = stores
        BY <2>1 DEF BusRun, Latched
    <2>3. TypeOK'
        BY <2>2, <1>4, <1>6, Types DEF IInv
    <2>4. HeadLast' /\ Buffer' /\ Done'
        BY <2>2, <1>1, TableKept
    <2>5. Sender'
        BY <2>2, <1>7
    <2>6. AtHead' <=> AtHead
        BY <2>2 DEF AtHead, HeadId
    <2>7. Device'
        BY <2>2, <2>6, <1>1, <1>3, <1>4, <1>8 DEF IInv, Device, HeadId
    <2> QED BY <2>3, <2>4, <2>5, <2>7 DEF IInv
<1>9. CASE is_waiting_ack
    <2> DEFINE h == HeadId
               ok == stores[h].kind = "clint"
    <2>1. /\ sync_request_q = <<h>> /\ AtHead /\ ~Cacheable(HeadKind)
          /\ stores[h].written = 0
        BY <1>1, <1>9 DEF IInv, Device
    <2>2. h \in DOMAIN stores /\ h \in Ids /\ stores \in Seq(Entry)
          /\ stores[h].state = "head"
        BY <2>1, Types DEF IInv, AtHead
    <2>3. Head(sync_request_q) = h /\ sync_request_q # <<>>
        BY <2>1
    <2>4. /\ ack' = [ack_new EXCEPT !["noncacheable"] = [of |-> h, error |-> ~ok]]
          /\ stores' = IF ok THEN [stores EXCEPT ![h].written = @ + 1] ELSE stores
        BY <2>3 DEF BusRun, Latched
    <2>5. [of |-> h, error |-> ~ok] \in Acks
        <3>1. (~ok) \in BOOLEAN
            OBVIOUS
        <3>2. h \in 0..MaxStores
            BY <2>2, ConstAssumption DEF Ids
        <3> QED BY <3>1, <3>2 DEF Acks
    <2>6. /\ ack' \in [Buses -> Acks] /\ ack'["cacheable"] = ack_new["cacheable"]
          /\ ack'["noncacheable"] = [of |-> h, error |-> ~ok]
        BY <2>4, <2>5, <1>4 DEF Buses
    <2>7. /\ stores' \in Seq(Entry) /\ Len(stores') = Len(stores)
          /\ DOMAIN stores' = DOMAIN stores
          /\ stores'[h].written = Due(stores[h].kind)
          /\ \A t \in DOMAIN stores : stores'[t].kind = stores[t].kind
                                      /\ stores'[t].state = stores[t].state
          /\ \A t \in DOMAIN stores : t # h => stores'[t].written = stores[t].written
        <3>1. CASE ok
            <4>1. stores' = [stores EXCEPT ![h].written = @ + 1]
                BY <3>1, <2>4
            <4>2. h \in DOMAIN stores /\ stores \in Seq(Entry)
                BY <2>2
            <4> HIDE DEF h, ok
            <4>3. /\ stores' \in Seq(Entry) /\ Len(stores') = Len(stores)
                  /\ DOMAIN stores' = DOMAIN stores
                  /\ stores'[h].written = stores[h].written + 1
                  /\ \A t \in DOMAIN stores : stores'[t].kind = stores[t].kind
                                              /\ stores'[t].state = stores[t].state
                  /\ \A t \in DOMAIN stores : t # h => stores'[t].written = stores[t].written
                BY <4>1, <4>2, WrittenSet
            <4>4. Due(stores[h].kind) = 1
                BY <3>1 DEF Due, ok
            <4> QED BY <4>3, <4>4, <2>1
        <3>2. CASE ~ok
            <4>1. stores' = stores
                BY <3>2, <2>4
            <4>2. Due(stores[h].kind) = 0
                BY <3>2, <2>1 DEF Due, Cacheable, HeadKind
            <4> QED BY <4>1, <4>2, <2>1, <2>2
        <3> QED BY <3>1, <3>2
    <2>8. HeadId' = h /\ AtHead' /\ HeadKind' = HeadKind
        <3>1. HeadId' = h
            BY <2>7 DEF HeadId
        <3>2. stores' # <<>>
            BY <2>1, <2>7, Types DEF IInv, AtHead
        <3> QED BY <3>1, <3>2, <2>2, <2>7 DEF AtHead, HeadKind
    <2>9. TypeOK'
        BY <2>6, <2>7, <1>6
    <2>10. HeadLast'
        BY <2>7 DEF IInv, HeadLast
    <2>11. \A k \in DOMAIN rsb : rsb[k] \in DOMAIN stores /\ rsb[k] # h
        BY <2>2 DEF IInv, Buffer
    <2>12. Buffer'
        BY <1>1, <1>5, <2>7, <2>11 DEF IInv, Buffer
    <2>13. Sender'
        <3>1. rsb # <<>> => rsb[1] \in DOMAIN stores /\ rsb[1] # h
            BY <2>11, Types DEF IInv
        <3> QED BY <3>1, <2>6, <2>7, <1>7
    <2>14. Done'
        BY <1>5, <2>2, <2>7 DEF IInv, Done
    <2>15. Device'
        <3>1. ack'["noncacheable"].of = h
            BY <2>6
        <3>2. /\ ack'["noncacheable"].error => HeadKind # "clint"
              /\ ~ack'["noncacheable"].error => HeadKind = "clint"
            <4>1. ack'["noncacheable"].error = ~ok
                BY <2>6
            <4>2. ok <=> HeadKind = "clint"
                BY DEF HeadKind
            <4> HIDE DEF ok
            <4> QED BY <4>1, <4>2
        <3>3. stores'[h].written = Due(HeadKind)
            BY <2>7 DEF HeadKind
        <3> HIDE DEF h
        <3> QED BY <3>1, <3>2, <3>3, <2>1, <2>8, <1>1, <1>3, <1>9 DEF Device
    <2> QED BY <2>9, <2>10, <2>12, <2>13, <2>14, <2>15 DEF IInv
<1> QED BY <1>8, <1>9

-----------------------------------------------------------------------------
(***************************************************************************)
(* The invariant and what follows from it.                                 *)
(***************************************************************************)
\* Every step keeps the invariant.
LEMMA NextIInv == IInv /\ [Next]_vars => IInv'
<1> SUFFICES ASSUME IInv, [Next]_vars PROVE IInv'
    OBVIOUS
<1>1. CASE Next
    BY <1>1, NextStoreIInv, CommitCacheableIInv, CommitSendIInv, CommitAckedIInv,
       CommitPauseIInv, MemoryWritesIInv, MemorySilentIInv, RsbRunIInv, BusRunIInv
       DEF Next
<1>2. CASE UNCHANGED vars
    <2>1. UNCHANGED <<phase, stores, is_waiting_ack, sync_request_q, rsb, rsb_waiting_ack,
                      pushed, writes, ack, ack_new>>
        BY <1>2 DEF vars
    <2>2. TypeOK'
        BY <2>1 DEF IInv, TypeOK
    <2>3. HeadLast' /\ Buffer' /\ Done'
        BY <2>1, TableKept
    <2>4. Device'
        BY <2>1 DEF IInv, Device, AtHead, HeadKind, HeadId
    <2>5. Sender'
        BY <2>1 DEF IInv, Sender, InMemory, Answering, Answered
    <2> QED BY <2>2, <2>3, <2>4, <2>5 DEF IInv
<1> QED BY <1>1, <1>2

\* The invariant holds in every reachable state.
LEMMA Invariance == Spec => []IInv
<1> QED BY InitIInv, NextIInv, PTL DEF Spec

\* An answer the invariant allows is the answer of the store that waits.
LEMMA AckOwnHolds == IInv => AckOwn
<1> SUFFICES ASSUME IInv, phase = "commit" PROVE AckOwn
    BY DEF AckOwn
<1>1. ack["noncacheable"].of # 0 =>
          is_waiting_ack /\ AtHead /\ ack["noncacheable"].of = HeadId
    BY DEF IInv, Device
<1>2. ASSUME ack["cacheable"].of # 0
      PROVE  rsb_waiting_ack /\ rsb # <<>> /\ ack["cacheable"].of = Head(rsb)
    <2>1. rsb_waiting_ack /\ rsb # <<>>
        BY <1>2 DEF IInv, Sender
    <2>2. ack["cacheable"].of = rsb[1]
        BY <1>2, <2>1 DEF IInv, Sender, InMemory, Answering, Answered
    <2>3. Head(rsb) = rsb[1]
        BY <2>1, Types, Taken DEF IInv
    <2> QED BY <2>1, <2>2, <2>3
<1> QED BY <1>1, <1>2 DEF AckOwn

\* A store is at the head, in the buffer, or done with: each way it was written at
\* most once.
LEMMA WrittenOnceHolds == IInv => WrittenOnce
<1> SUFFICES ASSUME IInv, NEW s \in DOMAIN stores
             PROVE  /\ stores[s].written <= 1
                    /\ stores[s].state = "retired" /\ ~Pending(s) =>
                          stores[s].written =
                             (IF stores[s].kind \in {"memory", "clint"} THEN 1 ELSE 0)
                    /\ stores[s].state = "retired" =>
                          stores[s].kind \in {"memory", "memory_hole", "clint"}
                    /\ stores[s].state = "trapped" =>
                          /\ stores[s].written = 0
                          /\ stores[s].kind \in {"clint_refused", "hole"}
    BY DEF WrittenOnce
<1>1. stores[s].state \in States
    BY Types DEF IInv, Entry
<1>2. stores[s].written <= 1
    <2>1. CASE stores[s].state = "head"
        <3>1. s = HeadId /\ AtHead
            BY <2>1 DEF IInv, HeadLast, AtHead, HeadId
        <3>2. stores[s].written = 0 \/ stores[s].written = Due(HeadKind)
            BY <3>1 DEF IInv, Device
        <3> QED BY <3>2 DEF Due
    <2>2. CASE stores[s].state = "retired" /\ ~Pending(s)
        BY <2>2 DEF IInv, Done, Due
    <2>3. CASE stores[s].state = "retired" /\ Pending(s)
        <3>1. PICK k \in DOMAIN rsb : rsb[k] = s
            BY <2>3 DEF Pending
        <3>2. k \in Nat /\ k >= 1 /\ rsb # <<>>
            BY <3>1, Types DEF IInv
        <3>3. CASE k > 1
            BY <3>1, <3>3 DEF IInv, Buffer
        <3>4. CASE k = 1
            BY <3>1, <3>2, <3>4 DEF IInv, Sender, Due
        <3> QED BY <3>2, <3>3, <3>4
    <2>4. CASE stores[s].state = "trapped"
        BY <2>4 DEF IInv, Done
    <2> QED BY <1>1, <2>1, <2>2, <2>3, <2>4 DEF States
<1>3. stores[s].state = "retired" /\ ~Pending(s) =>
          stores[s].written = (IF stores[s].kind \in {"memory", "clint"} THEN 1 ELSE 0)
    BY DEF IInv, Done, Due
<1>4. /\ stores[s].state = "retired" =>
             stores[s].kind \in {"memory", "memory_hole", "clint"}
      /\ stores[s].state = "trapped" =>
             stores[s].written = 0 /\ stores[s].kind \in {"clint_refused", "hole"}
    BY DEF IInv, Done
<1> QED BY <1>2, <1>3, <1>4

\* A store behind one that is still in the buffer is in the buffer too, and not at
\* its front, or still at the head.
LEMMA WriteOrderHolds == IInv => WriteOrder
<1> SUFFICES ASSUME IInv, NEW s \in DOMAIN stores, NEW t \in DOMAIN stores, s < t,
                    stores[s].kind = "memory", stores[t].kind = "memory",
                    stores[t].written > 0
             PROVE  stores[s].written > 0
    BY DEF WriteOrder
<1>1. /\ s \in Nat /\ t \in Nat /\ t <= Len(stores) /\ Len(stores) \in Nat
      /\ stores[s].state \in States /\ stores[t].state \in States
    BY Types DEF IInv, Entry
<1>2. stores[s].state = "retired"
    <2>1. stores[s].state # "head"
        BY <1>1 DEF IInv, HeadLast
    <2>2. stores[s].state # "trapped"
        BY DEF IInv, Done
    <2> QED BY <1>1, <2>1, <2>2 DEF States
<1>3. stores[t].state = "retired"
    <2>1. stores[t].state # "trapped"
        BY DEF IInv, Done
    <2>2. ASSUME stores[t].state = "head" PROVE FALSE
        <3>1. t = HeadId /\ AtHead
            BY <2>2 DEF IInv, HeadLast, AtHead, HeadId
        <3>2. Cacheable(HeadKind)
            BY <3>1 DEF Cacheable, HeadKind
        <3>3. stores[t].written = 0
            BY <3>1, <3>2 DEF IInv, Device
        <3> QED BY <3>3
    <2> QED BY <1>1, <2>1, <2>2 DEF States
<1>4. CASE ~Pending(s)
    BY <1>2, <1>4 DEF IInv, Done, Due
<1>5. CASE Pending(s)
    <2>1. PICK k \in DOMAIN rsb : rsb[k] = s
        BY <1>5 DEF Pending
    <2>2. Pending(t)
        BY <2>1, <1>1, <1>3 DEF IInv, Buffer, Cacheable
    <2>3. PICK j \in DOMAIN rsb : rsb[j] = t
        BY <2>2 DEF Pending
    <2>4. j \in Nat /\ k \in Nat /\ j >= 1 /\ k >= 1
        BY Types DEF IInv
    <2>5. j > 1
        <3>1. ASSUME j < k PROVE FALSE
            <4>1. rsb[j] < rsb[k]
                BY <3>1 DEF IInv, Buffer
            <4> QED BY <4>1, <2>1, <2>3, <1>1
        <3>2. j # k
            BY <2>1, <2>3, <1>1
        <3> QED BY <3>1, <3>2, <2>4
    <2>6. stores[t].written = 0
        BY <2>3, <2>5 DEF IInv, Buffer
    <2> QED BY <2>6
<1> QED BY <1>4, <1>5

\* commit and the retired store buffer read no answer but that to their own write, for
\* any size of the buffer and any mixture of stores.
THEOREM AckOwnCorrect == Spec => []AckOwn
<1> QED BY Invariance, AckOwnHolds, PTL

\* commit and the retired store buffer look at a store again every cycle and yet it is
\* written at most once, and exactly once when it is done with unless it was refused.
THEOREM WrittenOnceCorrect == Spec => []WrittenOnce
<1> QED BY Invariance, WrittenOnceHolds, PTL

\* The retired store buffer sends to memory in program order.
THEOREM WriteOrderCorrect == Spec => []WriteOrder
<1> QED BY Invariance, WriteOrderHolds, PTL
=============================================================================
