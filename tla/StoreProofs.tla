------------------------------ MODULE StoreProofs ------------------------------
(***************************************************************************)
(* Machine-checked proofs about Store, for any containers, controllers and *)
(* capacities.                                                             *)
(***************************************************************************)
EXTENDS Store, SequenceTheorems, TLAPS

PCs == {"unborn", "running", "queueing", "writing", "finishing", "ended"}

\* What is in the queue is a snapshot, and it leaves at the head.
LEMMA QueueTyped ==
    ASSUME queue \in Seq(Snapshot)
    PROVE  /\ \A s \in Snapshot : Append(queue, s) \in Seq(Snapshot) /\ Len(Append(queue, s)) = Len(queue) + 1
           /\ queue # <<>> => /\ Head(queue) \in Snapshot /\ Tail(queue) \in Seq(Snapshot)
                              /\ Len(Tail(queue)) = Len(queue) - 1
           /\ Len(queue) \in Nat
<1>1. ASSUME NEW s \in Snapshot
      PROVE  Append(queue, s) \in Seq(Snapshot) /\ Len(Append(queue, s)) = Len(queue) + 1
      BY <1>1, AppendProperties
<1>2. ASSUME queue # <<>>
      PROVE  /\ Head(queue) \in Snapshot /\ Tail(queue) \in Seq(Snapshot)
             /\ Len(Tail(queue)) = Len(queue) - 1
      BY <1>2, HeadTailProperties
<1>3. Len(queue) \in Nat
      BY LenProperties
<1>4. QED BY <1>1, <1>2, <1>3

\* A controller that moves stays in a place of its own.
LEMMA GotoTyped ==
    ASSUME pc \in [Controllers -> PCs], NEW c \in Controllers, NEW l \in PCs, Goto(c, l)
    PROVE  pc' \in [Controllers -> PCs]
BY DEF Goto

\* Every step of a controller keeps the types.
LEMMA HandTyped ==
    ASSUME TypeOK, NEW c \in Controllers, Hand(c)
    PROVE  TypeOK'
<1> USE DEF batcher, bounds, history
<1>0. /\ pc \in [Controllers -> PCs] /\ snap \in [Controllers -> Nat] /\ made \in [Names -> Nat]
      /\ queue \in Seq(Snapshot) /\ Len(queue) <= QueueCap
      /\ NameOf[c] \in Names /\ snap[c] \in Nat /\ faults \in 0..MaxFaults
      /\ row \in [Names -> Nat \cup {None}]
      /\ lastQueued \in [Names -> Nat] /\ lastDirect \in [Names -> Nat] /\ lost \subseteq Names
      BY NamesAssumption DEF TypeOK, PCs
<1>1. CASE QueueRuntimeUpdate(c) \/ UpdateRuntime(c)
  <2>1. pc' \in [Controllers -> PCs]
        BY <1>1, <1>0, GotoTyped DEF QueueRuntimeUpdate, UpdateRuntime, PCs
  <2>a. ASSUME Snap(c) PROVE snap' \in [Controllers -> Nat] /\ made' \in [Names -> Nat]
    <3> DEFINE n == NameOf[c]
    <3>1. made[n] \in Nat /\ made[n] + 1 \in Nat
          BY <1>0
    <3>2. made' = [made EXCEPT ![n] = made[n] + 1] /\ snap' = [snap EXCEPT ![c] = made[n] + 1]
          BY <2>a DEF Snap
    <3> HIDE DEF n
    <3>3. QED BY <3>1, <3>2, <1>0
  <2>2. snap' \in [Controllers -> Nat] /\ made' \in [Names -> Nat]
        BY <1>1, <1>0, <2>a DEF QueueRuntimeUpdate, UpdateRuntime
  <2>3. QED BY <2>1, <2>2, <1>1 DEF QueueRuntimeUpdate, UpdateRuntime, TypeOK, PCs
<1>a. ASSUME Returned(c)
      PROVE  pc' \in [Controllers -> PCs] /\ snap' \in [Controllers -> Nat]
      BY <1>a, <1>0 DEF Returned, Goto, PCs
<1>2. CASE Send(c)
  <2>1. Just(NameOf[c], snap[c]) \in Snapshot
        BY <1>0 DEF Just, Snapshot
  <2>2. queue' \in Seq(Snapshot) /\ Len(queue') = Len(queue) + 1 /\ Len(queue) \in Nat
        BY <1>2, <2>1, <1>0, QueueTyped DEF Send
  <2>3. Len(queue') <= QueueCap
        BY <2>2, <1>2, SizeAssumption DEF Send
  <2>4. lastQueued' \in [Names -> Nat] /\ lost' \subseteq Names
        BY <1>2, <1>0 DEF Send
  <2>5. QED BY <2>2, <2>3, <2>4, <1>2, <1>a DEF Send, TypeOK, PCs
<1>3. CASE SendFull(c) \/ End(c)
  <2>1. pc' \in [Controllers -> PCs] /\ snap' \in [Controllers -> Nat]
        BY <1>3, <1>0, <1>a, GotoTyped DEF SendFull, End, PCs
  <2>2. QED BY <2>1, <1>3 DEF SendFull, End, TypeOK, PCs
<1>4. CASE Write(c)
  <2>1. row' \in [Names -> Nat \cup {None}] /\ lastDirect' \in [Names -> Nat]
        BY <1>4, <1>0 DEF Write
  <2>2. QED BY <2>1, <1>4, <1>a DEF Write, TypeOK, PCs
<1>5. CASE WriteFails(c)
  <2>1. faults' \in 0..MaxFaults /\ UNCHANGED drops
        BY <1>5, <1>0, SizeAssumption DEF WriteFails, Fault
  <2>2. QED BY <2>1, <1>5, <1>a DEF WriteFails, TypeOK, PCs
<1>6. QED BY <1>1, <1>2, <1>3, <1>4, <1>5 DEF Hand

\* Every step of the goroutine keeps the types.
LEMMA BatchTyped ==
    ASSUME TypeOK, Batch
    PROVE  TypeOK'
<1> USE DEF writers, bounds, history
<1>0. /\ queue \in Seq(Snapshot) /\ Len(queue) <= QueueCap /\ hand \in Snapshot \cup {None}
      /\ (hand # None <=> loop = "judge")
      /\ pending \in [Names -> Nat \cup {None}] /\ row \in [Names -> Nat \cup {None}]
      /\ lost \subseteq Names /\ late \in [Names -> Nat] /\ faults \in 0..MaxFaults
      /\ None \notin Snapshot
      BY NoneAssumption DEF TypeOK, Snapshot
<1>1. CASE Receive
  <2>1. hand' \in Snapshot /\ queue' \in Seq(Snapshot) /\ Len(queue') = Len(queue) - 1 /\ Len(queue) \in Nat
        BY <1>1, <1>0, QueueTyped DEF Receive
  <2>2. Len(queue') <= QueueCap
        BY <2>1, <1>0, SizeAssumption
  <2>3. hand' # None /\ loop' = "judge"
        BY <2>1, <1>0, <1>1 DEF Receive
  <2>4. QED BY <2>1, <2>2, <2>3, <1>1 DEF Receive, TypeOK
<1>2. CASE Judge
  <2>1. hand \in Snapshot /\ hand.name \in Names /\ hand.ver \in Nat
        BY <1>0, <1>2 DEF Judge, Snapshot
  <2>2. pending' \in [Names -> Nat \cup {None}] /\ lost' \subseteq Names
        BY <2>1, <1>2, <1>0 DEF Judge
  <2>3. loop' \in {"select", "flush"}
        BY <1>2 DEF Judge
  <2>4. QED BY <2>2, <2>3, <1>2 DEF Judge, TypeOK
<1>3. CASE Tick \/ StopLoop
      BY <1>3 DEF Tick, StopLoop, TypeOK
<1>4. CASE Flush
  <2>1. row' \in [Names -> Nat \cup {None}] /\ late' \in [Names -> Nat]
        BY <1>4, <1>0 DEF Flush
  <2>2. QED BY <2>1, <1>4 DEF Flush, Flushed, None0, TypeOK
<1>5. ASSUME NEW failed \in SUBSET Names, FlushFails(failed)
      PROVE  TypeOK'
  <2>1. row' \in [Names -> Nat \cup {None}] /\ late' \in [Names -> Nat] /\ lost' \subseteq Names
        BY <1>5, <1>0 DEF FlushFails
  <2>2. faults' \in 0..MaxFaults /\ UNCHANGED drops
        BY <1>5, <1>0, SizeAssumption DEF FlushFails, Fault
  <2>3. QED BY <2>1, <2>2, <1>5 DEF FlushFails, Flushed, None0, TypeOK
<1>6. QED BY <1>1, <1>2, <1>3, <1>4, <1>5 DEF Batch

\* So do the requests and the process.
LEMMA OthersTyped ==
    ASSUME TypeOK,
           (\E n \in Names : Register(n) \/ Unregister(n)) \/ Close \/ CloseDB \/ Restart
    PROVE  TypeOK'
<1> USE DEF writers, batcher, bounds, history
<1>0. /\ row \in [Names -> Nat \cup {None}] /\ lastDirect \in [Names -> Nat]
      /\ late \in [Names -> Nat] /\ faults \in 0..MaxFaults /\ drops \in 0..MaxDrops
      /\ pc \in [Controllers -> PCs] /\ lost \subseteq Names /\ deleting \in [Names -> BOOLEAN]
      BY DEF TypeOK, PCs
<1>1. ASSUME NEW n \in Names, NEW c \in Controllers, UpsertContainer(n, c)
      PROVE  TypeOK'
  <2>1. pc' \in [Controllers -> PCs]
        BY <1>1, <1>0, GotoTyped DEF UpsertContainer, PCs
  <2>2. row' \in [Names -> Nat \cup {None}] /\ lastDirect' \in [Names -> Nat]
        BY <1>1, <1>0 DEF UpsertContainer
  <2>3. QED BY <2>1, <2>2, <1>1 DEF UpsertContainer, TypeOK, PCs
<1>2. ASSUME NEW n \in Names, UpsertFails(n)
      PROVE  TypeOK'
  <2>1. faults' \in 0..MaxFaults /\ UNCHANGED drops
        BY <1>2, <1>0, SizeAssumption DEF UpsertFails, Fault
  <2>2. QED BY <2>1, <1>2 DEF UpsertFails, TypeOK
<1>3. ASSUME NEW n \in Names, DropRuntime(n)
      PROVE  TypeOK'
  <2>1. drops' \in 0..MaxDrops /\ late' \in [Names -> Nat] /\ deleting' \in [Names -> BOOLEAN]
        BY <1>3, <1>0, SizeAssumption DEF DropRuntime
  <2>2. QED BY <2>1, <1>3 DEF DropRuntime, TypeOK
<1>4. ASSUME NEW n \in Names, DeleteContainer(n)
      PROVE  TypeOK'
  <2>1. row' \in [Names -> Nat \cup {None}] /\ deleting' \in [Names -> BOOLEAN]
        BY <1>4, <1>0 DEF DeleteContainer
  <2>2. QED BY <2>1, <1>4 DEF DeleteContainer, TypeOK
<1>5. CASE Close \/ CloseDB
      BY <1>5 DEF Close, CloseDB, TypeOK
<1>6. CASE Restart
  <2>1. pc' \in [Controllers -> PCs] /\ snap' \in [Controllers -> Nat]
        BY <1>6, <1>0 DEF Restart, PCs
  <2>2. late' \in [Names -> Nat] /\ lost' \subseteq Names /\ pending' \in [Names -> Nat \cup {None}]
        BY <1>6, <1>0 DEF Restart, None0
  <2>3. queue' \in Seq(Snapshot) /\ Len(queue') <= QueueCap
        BY <1>6, SizeAssumption, EmptySeq DEF Restart
  <2>4. faults' \in 0..MaxFaults /\ UNCHANGED drops
        BY <1>6, <1>0, SizeAssumption DEF Restart, Fault
  <2>5. QED BY <2>1, <2>2, <2>3, <2>4, <1>6 DEF Restart, TypeOK, PCs
<1>7. QED BY <1>1, <1>2, <1>3, <1>4, <1>5, <1>6 DEF Register, Unregister

\* The types hold at the start and stay.
LEMMA Typed ==
    /\ Init => TypeOK
    /\ TypeOK /\ [Next]_vars => TypeOK'
<1>1. ASSUME Init PROVE TypeOK
  <2>1. <<>> \in Seq(Snapshot) /\ Len(<<>>) = 0
        BY EmptySeq
  <2>2. QED BY <2>1, <1>1, SizeAssumption DEF Init, None0, TypeOK
<1>2. ASSUME TypeOK, [Next]_vars PROVE TypeOK'
  <2>1. CASE UNCHANGED vars
        BY <2>1, <1>2 DEF vars, writers, batcher, bounds, history, TypeOK
  <2>2. CASE Next
        BY <2>2, <1>2, HandTyped, BatchTyped, OthersTyped DEF Next
  <2>3. QED BY <1>2, <2>1, <2>2
<1>3. QED BY <1>1, <1>2

\* Every variable keeps to its type and the queue to its capacity, for any number of
\* containers and any capacity (sqlite.go:388-426).
THEOREM TypeCorrect == Spec => []TypeOK
BY Typed, PTL DEF Spec

-----------------------------------------------------------------------------
(* The inductive invariant: what is still under way of a container that lost no   *)
(* newest snapshot ends with the one that was queued last.                        *)

\* n's last snapshot in the queue is the i-th.
LastAt(n, i) == queue[i].name = n /\ \A j \in DOMAIN queue : j > i => queue[j].name # n

NewestQueued ==
    \A n \in Names \ lost :
        /\ \A i \in DOMAIN queue : LastAt(n, i) => queue[i].ver = lastQueued[n]
        /\ ~Queued(n) /\ InHand(n) => hand.ver = lastQueued[n]
        /\ ~Queued(n) /\ ~InHand(n) /\ pending[n] # None => pending[n] = lastQueued[n]

\* A batch that has written a dropped name has not collected it again.
LateInv == \A n \in dropped : late[n] <= 1 /\ (pending[n] # None => late[n] = 0)

StoreInv == TypeOK /\ NewestQueued /\ SettledRow /\ LateInv

\* Positions in a queue that grew at the end or lost its head.
LEMMA QueuePositions ==
    ASSUME NEW q \in Seq(Snapshot)
    PROVE  /\ DOMAIN q = 1..Len(q) /\ Len(q) \in Nat
           /\ \A s \in Snapshot : /\ DOMAIN Append(q, s) = 1..(Len(q) + 1)
                                  /\ Append(q, s)[Len(q) + 1] = s
                                  /\ \A i \in 1..Len(q) : Append(q, s)[i] = q[i]
           /\ q # <<>> => /\ Len(q) >= 1 /\ Head(q) = q[1]
                          /\ DOMAIN Tail(q) = 1..(Len(q) - 1)
                          /\ \A i \in 1..(Len(q) - 1) : Tail(q)[i] = q[i + 1]
OBVIOUS

\* What no controller, batch or drop touches stays as it was.
LEMMA SameQueue ==
    ASSUME StoreInv, UNCHANGED <<queue, hand, pending, lastQueued>>, lost \subseteq lost'
    PROVE  NewestQueued'
BY DEF StoreInv, NewestQueued, LastAt, Queued, InHand

\* A snapshot that is queued is the newest of its name; the others stay what they were.
LEMMA SendKeeps ==
    ASSUME StoreInv, NEW c \in Controllers, Send(c)
    PROVE  NewestQueued' /\ SettledRow' /\ LateInv'
<1> DEFINE m == NameOf[c]
           s == Just(m, snap[c])
<1>0. /\ m \in Names /\ s \in Snapshot /\ s.name = m /\ s.ver = snap[c]
      /\ queue \in Seq(Snapshot) /\ lastQueued \in [Names -> Nat] /\ queue' = Append(queue, s)
      /\ UNCHANGED <<hand, pending, row, dropped, late, lastDirect>>
      /\ lastQueued' = [lastQueued EXCEPT ![m] = s.ver] /\ lost' = lost \ {m}
      BY NamesAssumption DEF StoreInv, TypeOK, Send, Just, Snapshot, batcher
<1> HIDE DEF m, s
<1>1. /\ DOMAIN queue = 1..Len(queue) /\ Len(queue) \in Nat
      /\ DOMAIN queue' = 1..(Len(queue) + 1) /\ queue'[Len(queue) + 1] = s
      /\ \A i \in 1..Len(queue) : queue'[i] = queue[i]
      BY <1>0, QueuePositions
<1>2. ASSUME NEW n \in Names, n # m
      PROVE  Queued(n)' <=> Queued(n)
      BY <1>0, <1>1, <1>2 DEF Queued
<1>3. Queued(m)'
      BY <1>0, <1>1 DEF Queued
<1>4. ASSUME NEW n \in Names \ lost'
      PROVE  \A i \in DOMAIN queue' : LastAt(n, i)' => queue'[i].ver = lastQueued'[n]
  <2>1. CASE n = m
    <3>1. SUFFICES ASSUME NEW i \in DOMAIN queue', LastAt(n, i)'
                   PROVE  i = Len(queue) + 1
          BY <3>1, <2>1, <1>0, <1>1
    <3>2. \A j \in DOMAIN queue' : j > i => queue'[j].name # m
          BY <3>1, <2>1 DEF LastAt
    <3>3. ~(Len(queue) + 1 > i)
          BY <3>2, <1>0, <1>1
    <3>4. QED BY <3>1, <3>3, <1>1
  <2>2. CASE n # m
    <3>1. SUFFICES ASSUME NEW i \in DOMAIN queue', LastAt(n, i)'
                   PROVE  queue'[i].ver = lastQueued[n]
          BY <3>1, <2>2, <1>0
    <3>2. i \in 1..Len(queue) /\ LastAt(n, i)
          BY <3>1, <2>2, <1>0, <1>1 DEF LastAt
    <3>3. QED BY <3>2, <2>2, <1>0, <1>1 DEF StoreInv, NewestQueued
  <2>3. QED BY <2>1, <2>2
<1>5. NewestQueued'
  <2>1. SUFFICES ASSUME NEW n \in Names \ lost'
                 PROVE  /\ (~Queued(n) /\ InHand(n))' => hand'.ver = lastQueued'[n]
                        /\ (~Queued(n) /\ ~InHand(n))' /\ pending'[n] # None => pending'[n] = lastQueued'[n]
        BY <2>1, <1>4 DEF NewestQueued
  <2>2. CASE n = m
        BY <2>2, <1>3
  <2>3. CASE n # m
        BY <2>3, <1>0, <1>2 DEF StoreInv, NewestQueued, InHand
  <2>4. QED BY <2>2, <2>3
<1>6. SettledRow'
  <2>1. SUFFICES ASSUME NEW n \in Names, row'[n] # None, n \notin lost', ~UnderWay(n)'
                 PROVE  row'[n] \in {lastQueued'[n], lastDirect'[n]}
        BY <2>1 DEF SettledRow
  <2>2. n # m
        BY <2>1, <1>3 DEF UnderWay
  <2>3. QED BY <2>1, <2>2, <1>0, <1>2 DEF StoreInv, SettledRow, UnderWay, InHand
<1>7. LateInv'
      BY <1>0 DEF StoreInv, LateInv
<1>8. QED BY <1>5, <1>6, <1>7

\* The other steps of a controller touch at most a row.
LEMMA HandKeeps ==
    ASSUME StoreInv, NEW c \in Controllers, Hand(c)
    PROVE  NewestQueued' /\ SettledRow' /\ LateInv'
<1>1. CASE Send(c)
      BY <1>1, SendKeeps
<1>2. CASE Write(c)
  <2>1. UNCHANGED <<queue, hand, pending, lastQueued, lost, dropped, late>>
        BY <1>2 DEF Write, batcher
  <2>2. \A n \in Names : row'[n] # None =>
            \/ row'[n] = row[n] /\ lastDirect'[n] = lastDirect[n]
            \/ row'[n] = lastDirect'[n]
        BY <1>2, NamesAssumption DEF Write, StoreInv, TypeOK
  <2>3. SettledRow'
        BY <2>1, <2>2 DEF StoreInv, SettledRow, UnderWay, Queued, InHand
  <2>4. QED BY <2>1, <2>3, SameQueue DEF StoreInv, LateInv
<1>3. CASE \/ QueueRuntimeUpdate(c) \/ SendFull(c) \/ UpdateRuntime(c) \/ WriteFails(c) \/ End(c)
  <2>1. UNCHANGED <<queue, hand, pending, lastQueued, lastDirect, lost, dropped, late, row>>
        BY <1>3 DEF QueueRuntimeUpdate, SendFull, UpdateRuntime, WriteFails, End, batcher, history
  <2>2. SettledRow'
        BY <2>1 DEF StoreInv, SettledRow, UnderWay, Queued, InHand
  <2>3. QED BY <2>1, <2>2, SameQueue DEF StoreInv, LateInv
<1>4. QED BY <1>1, <1>2, <1>3 DEF Hand

\* The newest of the queue becomes the newest in hand.
LEMMA ReceiveKeeps ==
    ASSUME StoreInv, Receive
    PROVE  NewestQueued' /\ SettledRow' /\ LateInv'
<1>0. /\ queue \in Seq(Snapshot) /\ queue # <<>> /\ queue' = Tail(queue)
      /\ hand = None /\ hand' = Head(queue) /\ hand' # None
      /\ UNCHANGED <<pending, lastQueued, lastDirect, lost, dropped, late, row>>
      BY NoneAssumption, QueueTyped DEF StoreInv, TypeOK, Receive, history, Snapshot
<1>1. /\ DOMAIN queue = 1..Len(queue) /\ Len(queue) \in Nat /\ Len(queue) >= 1 /\ hand' = queue[1]
      /\ DOMAIN queue' = 1..(Len(queue) - 1)
      /\ \A i \in 1..(Len(queue) - 1) : queue'[i] = queue[i + 1]
      BY <1>0, QueuePositions
<1>2. ASSUME NEW n \in Names
      PROVE  /\ Queued(n) <=> Queued(n)' \/ InHand(n)'
             /\ ~InHand(n)
  <2>1. ASSUME Queued(n) PROVE Queued(n)' \/ InHand(n)'
    <3>1. PICK i \in 1..Len(queue) : queue[i].name = n
          BY <2>1, <1>1 DEF Queued
    <3>2. CASE i = 1
          BY <3>1, <3>2, <1>0, <1>1 DEF InHand
    <3>3. CASE i # 1
      <4>1. i - 1 \in 1..(Len(queue) - 1) /\ queue'[i - 1] = queue[i]
            BY <3>1, <3>3, <1>1
      <4>2. QED BY <4>1, <3>1, <1>1 DEF Queued
    <3>4. QED BY <3>2, <3>3
  <2>2. ASSUME Queued(n)' PROVE Queued(n)
    <3>1. PICK i \in 1..(Len(queue) - 1) : queue'[i].name = n
          BY <2>2, <1>1 DEF Queued
    <3>2. i + 1 \in DOMAIN queue /\ queue[i + 1].name = n
          BY <3>1, <1>1
    <3>3. QED BY <3>2 DEF Queued
  <2>3. ASSUME InHand(n)' PROVE Queued(n)
        BY <2>3, <1>1 DEF InHand, Queued
  <2>4. QED BY <2>1, <2>2, <2>3, <1>0 DEF InHand
<1>3. ASSUME NEW n \in Names \ lost
      PROVE  /\ \A i \in DOMAIN queue' : LastAt(n, i)' => queue'[i].ver = lastQueued[n]
             /\ (~Queued(n) /\ InHand(n))' => hand'.ver = lastQueued[n]
             /\ (~Queued(n) /\ ~InHand(n))' /\ pending[n] # None => pending[n] = lastQueued[n]
  <2>1. ASSUME NEW i \in DOMAIN queue', LastAt(n, i)' PROVE queue'[i].ver = lastQueued[n]
    <3>1. i + 1 \in DOMAIN queue /\ queue'[i] = queue[i + 1]
          BY <2>1, <1>1
    <3>2. ASSUME NEW j \in DOMAIN queue, j > i + 1 PROVE queue[j].name # n
      <4>1. j - 1 \in DOMAIN queue' /\ j - 1 > i /\ queue'[j - 1] = queue[j]
            BY <3>2, <2>1, <1>1
      <4>2. QED BY <4>1, <2>1 DEF LastAt
    <3>3. LastAt(n, i + 1)
          BY <3>1, <3>2, <2>1 DEF LastAt
    <3>4. QED BY <3>1, <3>3 DEF StoreInv, NewestQueued
  <2>2. ASSUME ~Queued(n)', InHand(n)' PROVE hand'.ver = lastQueued[n]
    <3>1. ASSUME NEW j \in DOMAIN queue, j > 1 PROVE queue[j].name # n
      <4>1. j - 1 \in DOMAIN queue' /\ queue'[j - 1] = queue[j]
            BY <3>1, <1>1
      <4>2. QED BY <4>1, <2>2 DEF Queued
    <3>2. LastAt(n, 1) /\ 1 \in DOMAIN queue
          BY <3>1, <2>2, <1>1 DEF LastAt, InHand
    <3>3. QED BY <3>2, <1>1 DEF StoreInv, NewestQueued
  <2>3. QED BY <2>1, <2>2, <1>2 DEF StoreInv, NewestQueued
<1>4. NewestQueued'
      BY <1>3, <1>0 DEF NewestQueued
<1>5. SettledRow'
      BY <1>2, <1>0 DEF StoreInv, SettledRow, UnderWay
<1>6. LateInv'
      BY <1>0 DEF StoreInv, LateInv
<1>7. QED BY <1>4, <1>5, <1>6

\* What was in hand is pending, or its name is dropped.
LEMMA JudgeKeeps ==
    ASSUME StoreInv, Judge
    PROVE  NewestQueued' /\ SettledRow' /\ LateInv'
<1>0. /\ hand \in Snapshot /\ hand # None /\ hand.name \in Names /\ hand' = None
      /\ pending \in [Names -> Nat \cup {None}] /\ dropped \subseteq Names
      /\ UNCHANGED <<queue, lastQueued, lastDirect, dropped, late, row>>
      BY DEF StoreInv, TypeOK, Judge, Snapshot
<1>1. CASE hand.name \in dropped
  <2>1. /\ UNCHANGED pending /\ lost \subseteq lost'
        /\ \A n \in Names \ lost' : InHand(n) => Queued(n)
        BY <1>1, <1>0 DEF Judge, InHand
  <2>2. NewestQueued'
        BY <2>1, <1>0 DEF StoreInv, NewestQueued, LastAt, Queued, InHand
  <2>3. SettledRow'
        BY <2>1, <1>0 DEF StoreInv, SettledRow, UnderWay, Queued, InHand
  <2>4. QED BY <2>1, <2>2, <2>3, <1>0 DEF StoreInv, LateInv
<1>2. CASE hand.name \notin dropped
  <2>1. pending' = [pending EXCEPT ![hand.name] = hand.ver] /\ UNCHANGED lost /\ hand.ver # None
        BY <1>2, <1>0, NoneAssumption DEF Judge, Snapshot
  <2>2. NewestQueued'
    <3>1. ASSUME NEW n \in Names \ lost, ~Queued(n), pending'[n] # None
          PROVE  pending'[n] = lastQueued[n]
      <4>1. CASE n = hand.name
            BY <4>1, <3>1, <2>1, <1>0 DEF StoreInv, NewestQueued, InHand
      <4>2. CASE n # hand.name
            BY <4>2, <3>1, <2>1, <1>0 DEF StoreInv, NewestQueued, InHand
      <4>3. QED BY <4>1, <4>2
    <3>2. QED BY <3>1, <2>1, <1>0 DEF StoreInv, NewestQueued, LastAt, Queued, InHand
  <2>3. \A n \in Names : UnderWay(n) => UnderWay(n)'
        BY <2>1, <1>0 DEF UnderWay, Queued, InHand
  <2>4. SettledRow'
        BY <2>1, <2>3, <1>0 DEF StoreInv, SettledRow
  <2>5. LateInv'
        BY <2>1, <1>0, <1>2 DEF StoreInv, LateInv
  <2>6. QED BY <2>2, <2>4, <2>5
<1>3. QED BY <1>1, <1>2

\* A batch writes the newest of a name of which nothing else is under way.
LEMMA FlushKeeps ==
    ASSUME StoreInv, NEW failed \in SUBSET Names,
           \/ Flush /\ failed = {}
           \/ FlushFails(failed)
    PROVE  NewestQueued' /\ SettledRow' /\ LateInv'
<1>0. /\ UNCHANGED <<queue, hand, dropped, lastQueued, lastDirect>>
      /\ \A n \in Names : pending'[n] = None
      /\ \A n \in Names : row'[n] = IF pending[n] = None \/ row[n] = None \/ n \in failed
                                      THEN row[n] ELSE pending[n]
      /\ \A n \in Names : late'[n] = IF pending[n] # None /\ n \in dropped \ failed
                                       THEN late[n] + 1 ELSE late[n]
      /\ lost' = lost \cup {n \in failed : ~Queued(n)}
      /\ dropped \subseteq Names
      /\ \A n \in failed : pending[n] # None
      BY DEF Flush, FlushFails, None0, StoreInv, TypeOK, Waiting
<1>1. NewestQueued'
      BY <1>0 DEF StoreInv, NewestQueued, LastAt, Queued, InHand
<1>2. SettledRow'
  <2>1. SUFFICES ASSUME NEW n \in Names, row'[n] # None, n \notin lost', ~UnderWay(n)'
                 PROVE  row'[n] \in {lastQueued[n], lastDirect[n]}
        BY <2>1, <1>0 DEF SettledRow
  <2>2. ~Queued(n) /\ ~InHand(n) /\ n \notin lost /\ n \notin failed
        BY <2>1, <1>0 DEF UnderWay, Queued, InHand
  <2>3. CASE pending[n] = None
        BY <2>1, <2>2, <2>3, <1>0 DEF StoreInv, SettledRow, UnderWay
  <2>4. CASE pending[n] # None
        BY <2>1, <2>2, <2>4, <1>0 DEF StoreInv, NewestQueued
  <2>5. QED BY <2>3, <2>4
<1>3. LateInv'
      BY <1>0 DEF StoreInv, LateInv
<1>4. QED BY <1>1, <1>2, <1>3

\* Requests change what is dropped and whether there is a row; a restart loses what is
\* under way.
LEMMA OthersKeep ==
    ASSUME StoreInv,
           (\E n \in Names : Register(n) \/ Unregister(n)) \/ Close \/ CloseDB \/ Restart
    PROVE  NewestQueued' /\ SettledRow' /\ LateInv'
<1> USE DEF batcher, history
<1>0. /\ row \in [Names -> Nat \cup {None}] /\ lastDirect \in [Names -> Nat]
      /\ late \in [Names -> Nat] /\ dropped \subseteq Names
      BY DEF StoreInv, TypeOK
<1>1. ASSUME NEW n \in Names, NEW c \in Controllers, UpsertContainer(n, c)
      PROVE  NewestQueued' /\ SettledRow' /\ LateInv'
  <2>1. UNCHANGED <<queue, hand, pending, lastQueued, lost, late>> /\ dropped' \subseteq dropped
        BY <1>1 DEF UpsertContainer
  <2>2. \A k \in Names : \/ row'[k] = row[k] /\ lastDirect'[k] = lastDirect[k]
                         \/ row'[k] = lastDirect'[k]
        BY <1>1, <1>0 DEF UpsertContainer
  <2>3. SettledRow'
        BY <2>1, <2>2 DEF StoreInv, SettledRow, UnderWay, Queued, InHand
  <2>4. LateInv'
        BY <2>1 DEF StoreInv, LateInv
  <2>5. QED BY <2>1, <2>3, <2>4, SameQueue
<1>2. ASSUME NEW n \in Names, DropRuntime(n)
      PROVE  NewestQueued' /\ SettledRow' /\ LateInv'
  <2>1. UNCHANGED <<queue, hand, pending, lastQueued, lastDirect, lost, row>>
        BY <1>2 DEF DropRuntime
  <2>2. SettledRow'
        BY <2>1 DEF StoreInv, SettledRow, UnderWay, Queued, InHand
  <2>3. LateInv'
        BY <2>1, <1>2, <1>0 DEF StoreInv, LateInv, DropRuntime
  <2>4. QED BY <2>1, <2>2, <2>3, SameQueue
<1>3. ASSUME NEW n \in Names, UpsertFails(n) \/ DeleteContainer(n)
      PROVE  NewestQueued' /\ SettledRow' /\ LateInv'
  <2>1. /\ UNCHANGED <<queue, hand, pending, lastQueued, lastDirect, lost, late>>
        /\ dropped' \subseteq dropped
        BY <1>3 DEF UpsertFails, DeleteContainer
  <2>2. \A k \in Names : row'[k] # None => row'[k] = row[k]
        BY <1>3, <1>0 DEF UpsertFails, DeleteContainer
  <2>3. SettledRow'
        BY <2>1, <2>2 DEF StoreInv, SettledRow, UnderWay, Queued, InHand
  <2>4. LateInv'
        BY <2>1 DEF StoreInv, LateInv
  <2>5. QED BY <2>1, <2>3, <2>4, SameQueue
<1>4. CASE Close \/ CloseDB
  <2>1. UNCHANGED <<queue, hand, pending, lastQueued, lastDirect, lost, late, dropped, row>>
        BY <1>4 DEF Close, CloseDB
  <2>2. SettledRow'
        BY <2>1 DEF StoreInv, SettledRow, UnderWay, Queued, InHand
  <2>3. QED BY <2>1, <2>2, SameQueue DEF StoreInv, LateInv
<1>5. CASE Restart
  <2>1. /\ queue' = <<>> /\ hand' = None /\ dropped' = {}
        /\ \A n \in Names : pending'[n] = None
        /\ UNCHANGED <<lastQueued, lastDirect, row>>
        /\ \A n \in Names \ lost' : n \notin lost /\ ~UnderWay(n)
        BY <1>5 DEF Restart, None0, UnderWay
  <2>2. DOMAIN queue' = {}
        BY <2>1
  <2>3. NewestQueued'
        BY <2>1, <2>2 DEF NewestQueued, InHand
  <2>4. SettledRow'
        BY <2>1 DEF StoreInv, SettledRow
  <2>5. QED BY <2>1, <2>3, <2>4 DEF LateInv
<1>6. QED BY <1>1, <1>2, <1>3, <1>4, <1>5 DEF Register, Unregister

\* The invariant holds at the start, stays, and gives what the runs check.
LEMMA StoreInvariant ==
    /\ Init => StoreInv
    /\ StoreInv /\ [Next]_vars => StoreInv'
    /\ StoreInv => SettledRow /\ OneLateBatch
<1>1. Init => StoreInv
  <2>1. SUFFICES ASSUME Init PROVE NewestQueued /\ SettledRow /\ LateInv
        BY <2>1, Typed DEF StoreInv
  <2>2. DOMAIN queue = {} /\ hand = None
        BY <2>1 DEF Init
  <2>3. QED BY <2>1, <2>2 DEF Init, None0, NewestQueued, SettledRow, LateInv, InHand
<1>2. StoreInv /\ [Next]_vars => StoreInv'
  <2>1. SUFFICES ASSUME StoreInv, [Next]_vars PROVE NewestQueued' /\ SettledRow' /\ LateInv'
        BY <2>1, Typed DEF StoreInv
  <2>2. CASE UNCHANGED vars
    <3>1. UNCHANGED <<queue, hand, pending, lastQueued, lastDirect, lost, late, dropped, row>>
          BY <2>2 DEF vars, batcher, history
    <3>2. QED BY <3>1, <2>1 DEF StoreInv, NewestQueued, SettledRow, LateInv, LastAt, UnderWay,
                                Queued, InHand
  <2>3. CASE Batch
    <3>1. CASE Flush
      <4>1. {} \in SUBSET Names
            OBVIOUS
      <4>2. QED BY <4>1, <3>1, <2>1, FlushKeeps
    <3>2. ASSUME NEW failed \in SUBSET Names, FlushFails(failed)
          PROVE  NewestQueued' /\ SettledRow' /\ LateInv'
          BY <3>2, <2>1, FlushKeeps
    <3>3. CASE Tick \/ StopLoop
      <4>1. UNCHANGED <<queue, hand, pending, lastQueued, lastDirect, lost, late, dropped, row>>
            BY <3>3 DEF Tick, StopLoop, history
      <4>2. QED BY <4>1, <2>1 DEF StoreInv, NewestQueued, SettledRow, LateInv, LastAt, UnderWay,
                                  Queued, InHand
    <3>4. QED BY <3>1, <3>2, <3>3, <2>1, <2>3, ReceiveKeeps, JudgeKeeps DEF Batch
  <2>4. QED BY <2>1, <2>2, <2>3, HandKeeps, OthersKeep DEF Next
<1>3. StoreInv => SettledRow /\ OneLateBatch
      BY DEF StoreInv, LateInv, OneLateBatch
<1>4. QED BY <1>1, <1>2, <1>3

\* Once nothing of a container is under way its row is the snapshot queued or written
\* last, whatever the batches, drops, failures and restarts before (sqlite.go:388-494).
THEOREM SettledRowHolds == Spec => []SettledRow
BY StoreInvariant, PTL DEF Spec

\* At most one batch writes a name after it was dropped (sqlite.go:472, 496-507).
THEOREM OneLateBatchHolds == Spec => []OneLateBatch
BY StoreInvariant, PTL DEF Spec
=============================================================================
