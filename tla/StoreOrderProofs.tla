----------------------------- MODULE StoreOrderProofs -----------------------------
(***************************************************************************)
(* Machine-checked proof that Store implements SnapshotLine, for any       *)
(* containers, controllers and capacities.                                 *)
(***************************************************************************)
EXTENDS StoreOrder, StoreProofs

Busy == {"queueing", "writing", "finishing"}
Active(c) == pc[c] \in Busy

\* The snapshot v of n is the k-th on its way.
At(k, n, v) ==
    \/ k = 0 /\ pending[n] # None /\ v = pending[n]
    \/ k = 1 /\ hand # None /\ hand.name = n /\ v = hand.ver
    \/ k > 1 /\ k - 1 \in DOMAIN queue /\ queue[k - 1].name = n /\ v = queue[k - 1].ver

\* What controllers hold was made for their container, and no two hold the same.
SnapsInv ==
    /\ \A n \in Names : made[n] <= MaxSnaps[n]
    /\ \A c \in Controllers : Active(c) => snap[c] \in 1..made[NameOf[c]]
    /\ \A c, d \in Controllers :
          c # d /\ NameOf[c] = NameOf[d] /\ Active(c) /\ Active(d) => snap[c] # snap[d]

\* What is on its way was made, is nowhere else on its way and in no controller's hands.
WayInv(n) ==
    \A k \in Nat : \A v : At(k, n, v) =>
        /\ v \in 1..made[n]
        /\ \A j \in Nat : At(j, n, v) => j = k
        /\ \A c \in Controllers : NameOf[c] = n /\ Active(c) => snap[c] # v

OrderInv == TypeOK /\ SnapsInv /\ \A n \in Names : WayInv(n)

\* The line of a container and its order, in these terms.
LineAt ==
    TypeOK => \A n \in Names :
        /\ \A v : v \in InLine(n) <=> \E k \in Nat : At(k, n, v)
        /\ \A p : p \in Before(n) <=>
              \E j, k, u, v \in Nat : j < k /\ At(j, n, u) /\ At(k, n, v) /\ p = <<u, v>>
        /\ \A k \in Nat : \A v : At(k, n, v) => v \in Nat

LEMMA LineIsAt == LineAt
<1> SUFFICES ASSUME TypeOK, NEW n \in Names
             PROVE  /\ \A v : v \in InLine(n) <=> \E k \in Nat : At(k, n, v)
                    /\ \A p : p \in Before(n) <=>
                          \E j, k, u, v \in Nat :
                              j < k /\ At(j, n, u) /\ At(k, n, v) /\ p = <<u, v>>
                    /\ \A k \in Nat : \A v : At(k, n, v) => v \in Nat
    BY DEF LineAt
<1>1. /\ queue \in Seq(Snapshot) /\ hand \in Snapshot \cup {None}
      /\ pending \in [Names -> Nat \cup {None}]
      BY DEF TypeOK
<1>2. DOMAIN queue \subseteq Nat /\ \A i \in DOMAIN queue : i >= 1 /\ queue[i] \in Snapshot
      BY <1>1, QueuePositions
<1>3. ASSUME NEW k \in Nat, NEW v PROVE At(k, n, v) <=> <<k, v>> \in Way(n)
      BY <1>1, <1>2 DEF At, Way
<1>4. \A w \in Way(n) : w[1] \in Nat /\ w[2] \in Nat /\ w = <<w[1], w[2]>>
      BY <1>1, <1>2 DEF Way, Snapshot
<1>5. ASSUME NEW v PROVE v \in InLine(n) <=> \E k \in Nat : At(k, n, v)
  <2>1. ASSUME v \in InLine(n) PROVE \E k \in Nat : At(k, n, v)
    <3>1. PICK w \in Way(n) : v = w[2]
          BY <2>1 DEF InLine
    <3>2. w[1] \in Nat /\ <<w[1], v>> \in Way(n)
          BY <3>1, <1>4
    <3>3. QED BY <3>2, <1>3
  <2>2. ASSUME NEW k \in Nat, At(k, n, v) PROVE v \in InLine(n)
    <3>1. <<k, v>> \in Way(n) /\ <<k, v>>[2] = v
          BY <2>2, <1>3
    <3>2. QED BY <3>1 DEF InLine
  <2>3. QED BY <2>1, <2>2
<1>6. ASSUME NEW k \in Nat, NEW v, At(k, n, v) PROVE v \in Nat
  <2>1. <<k, v>> \in Way(n) /\ <<k, v>>[2] = v
        BY <1>6, <1>3
  <2>2. QED BY <2>1, <1>4
<1>7. ASSUME NEW p, p \in Before(n)
      PROVE  \E j, k, u, v \in Nat : j < k /\ At(j, n, u) /\ At(k, n, v) /\ p = <<u, v>>
  <2>1. PICK x \in Way(n), y \in Way(n) : x[1] < y[1] /\ p = <<x[2], y[2]>>
        BY <1>7 DEF Before
  <2>2. At(x[1], n, x[2]) /\ At(y[1], n, y[2])
        BY <1>3, <1>4
  <2>3. QED BY <2>1, <2>2, <1>4
<1>8. ASSUME NEW p, NEW j \in Nat, NEW k \in Nat, NEW u \in Nat, NEW v \in Nat,
             j < k, At(j, n, u), At(k, n, v), p = <<u, v>>
      PROVE  p \in Before(n)
  <2>1. <<j, u>> \in Way(n) /\ <<k, v>> \in Way(n)
        BY <1>3, <1>8
  <2>2. << <<j, u>>, <<k, v>> >> \in {q \in Way(n) \X Way(n) : q[1][1] < q[2][1]}
        BY <2>1, <1>8
  <2>3. QED BY <2>2, <1>8 DEF Before
<1>9. QED BY <1>5, <1>6, <1>7, <1>8

LEMMA NextLineIsAt == LineAt'
BY LineIsAt, PTL

\* One snapshot of n, or none, leaves the way, and the others move up by f without passing
\* one another.
MoveUp(n, w, f) ==
    /\ \A k \in Nat : \A v : At(k, n, v) /\ v # w => At(f[k], n, v)'
    /\ \A k \in Nat : \A v : At(k, n, v)' => v # w /\ \E j \in Nat : f[j] = k /\ At(j, n, v)
    /\ \A j, k \in Nat : \A u, v :
           j < k /\ At(j, n, u) /\ At(k, n, v) /\ u # w /\ v # w => f[j] < f[k]

\* What a controller of n holds after a step it held before or made just now.
OnlyNewSnaps(n) ==
    /\ made'[n] >= made[n]
    /\ \A c \in Controllers : NameOf[c] = n /\ Active(c)' =>
           (Active(c) /\ snap'[c] = snap[c]) \/ snap'[c] > made[n]

\* Then the line is short of that snapshot and keeps its order.
LEMMA Moved ==
    ASSUME OrderInv, TypeOK', NEW n \in Names, NEW w, NEW f \in [Nat -> Nat],
           MoveUp(n, w, f), OnlyNewSnaps(n)
    PROVE  /\ WayInv(n)'
           /\ InLine(n)' = InLine(n) \ {w}
           /\ Before(n)' = {p \in Before(n) : p[1] # w /\ p[2] # w}
<1>0. /\ made[n] \in Nat /\ made'[n] \in Nat
      /\ made'[n] >= made[n]
      /\ \A c \in Controllers : snap'[c] \in Nat
      /\ \A c \in Controllers : NameOf[c] = n /\ Active(c)' =>
             (Active(c) /\ snap'[c] = snap[c]) \/ snap'[c] > made[n]
      BY DEF OrderInv, TypeOK, OnlyNewSnaps
<1>a. /\ \A k \in Nat : \A v : At(k, n, v) /\ v # w => At(f[k], n, v)'
      /\ \A k \in Nat : \A v : At(k, n, v)' => v # w /\ \E j \in Nat : f[j] = k /\ At(j, n, v)
      /\ \A j, k \in Nat : \A u, v :
             j < k /\ At(j, n, u) /\ At(k, n, v) /\ u # w /\ v # w => f[j] < f[k]
      BY DEF MoveUp
<1>1. /\ \A v : v \in InLine(n) <=> \E k \in Nat : At(k, n, v)
      /\ \A p : p \in Before(n) <=>
            \E j, k, u, v \in Nat : j < k /\ At(j, n, u) /\ At(k, n, v) /\ p = <<u, v>>
      /\ \A k \in Nat : \A v : At(k, n, v) => v \in Nat
      BY LineIsAt DEF LineAt, OrderInv
<1>2. /\ \A v : v \in InLine(n)' <=> \E k \in Nat : At(k, n, v)'
      /\ \A p : p \in Before(n)' <=>
            \E j, k, u, v \in Nat : j < k /\ At(j, n, u)' /\ At(k, n, v)' /\ p = <<u, v>>
      BY NextLineIsAt DEF LineAt
<1>3. \A k \in Nat : \A v : At(k, n, v) =>
          /\ v \in 1..made[n]
          /\ \A j \in Nat : At(j, n, v) => j = k
          /\ \A c \in Controllers : NameOf[c] = n /\ Active(c) => snap[c] # v
      BY DEF OrderInv, WayInv
<1>4. InLine(n)' = InLine(n) \ {w}
      BY <1>1, <1>2, <1>a
<1>5. ASSUME NEW p, p \in Before(n)' PROVE p \in Before(n) /\ p[1] # w /\ p[2] # w
  <2>1. PICK j, k, u, v \in Nat : j < k /\ At(j, n, u)' /\ At(k, n, v)' /\ p = <<u, v>>
        BY <1>5, <1>2
  <2>2. PICK j0 \in Nat : f[j0] = j /\ At(j0, n, u) /\ u # w
        BY <2>1, <1>a
  <2>3. PICK k0 \in Nat : f[k0] = k /\ At(k0, n, v) /\ v # w
        BY <2>1, <1>a
  <2>4. j0 < k0
        BY <2>1, <2>2, <2>3, <1>a
  <2>5. QED BY <2>1, <2>2, <2>3, <2>4, <1>1
<1>6. ASSUME NEW p, p \in Before(n), p[1] # w, p[2] # w PROVE p \in Before(n)'
  <2>1. PICK j, k, u, v \in Nat : j < k /\ At(j, n, u) /\ At(k, n, v) /\ p = <<u, v>>
        BY <1>6, <1>1
  <2>2. u # w /\ v # w
        BY <2>1, <1>6
  <2>3. At(f[j], n, u)' /\ At(f[k], n, v)' /\ f[j] < f[k] /\ f[j] \in Nat /\ f[k] \in Nat
        BY <2>1, <2>2, <1>a
  <2>4. QED BY <2>1, <2>3, <1>2
<1>7. Before(n)' = {p \in Before(n) : p[1] # w /\ p[2] # w}
      BY <1>5, <1>6
<1>8. ASSUME NEW k \in Nat, NEW v, At(k, n, v)'
      PROVE  /\ v \in 1..made'[n]
             /\ \A j \in Nat : At(j, n, v)' => j = k
             /\ \A c \in Controllers : NameOf[c] = n /\ Active(c)' => snap'[c] # v
  <2>1. PICK k0 \in Nat : f[k0] = k /\ At(k0, n, v)
        BY <1>8, <1>a
  <2>2. v \in 1..made[n] /\ v \in Nat
        BY <2>1, <1>3, <1>0
  <2>3. v \in 1..made'[n]
        BY <2>2, <1>0
  <2>4. \A j \in Nat : At(j, n, v)' => j = k
        BY <2>1, <1>3, <1>a
  <2>5. \A c \in Controllers : NameOf[c] = n /\ Active(c)' => snap'[c] # v
        BY <2>1, <2>2, <1>3, <1>0
  <2>6. QED BY <2>3, <2>4, <2>5
<1>9. WayInv(n)'
      BY <1>8 DEF WayInv
<1>10. QED BY <1>4, <1>7, <1>9

\* Nothing on the way moves.
LEMMA Kept ==
    ASSUME OrderInv, TypeOK', NEW n \in Names,
           \A k \in Nat : \A v : At(k, n, v)' <=> At(k, n, v), OnlyNewSnaps(n)
    PROVE  WayInv(n)' /\ InLine(n)' = InLine(n) /\ Before(n)' = Before(n)
<1>1. /\ \A v : v \in InLine(n) <=> \E k \in Nat : At(k, n, v)
      /\ \A p : p \in Before(n) <=>
            \E j, k, u, v \in Nat : j < k /\ At(j, n, u) /\ At(k, n, v) /\ p = <<u, v>>
      /\ \A k \in Nat : \A v : At(k, n, v) => v \in Nat
      BY LineIsAt DEF LineAt, OrderInv
<1>2. /\ \A v : v \in InLine(n)' <=> \E k \in Nat : At(k, n, v)'
      /\ \A p : p \in Before(n)' <=>
            \E j, k, u, v \in Nat : j < k /\ At(j, n, u)' /\ At(k, n, v)' /\ p = <<u, v>>
      BY NextLineIsAt DEF LineAt
<1> DEFINE f == [k \in Nat |-> k]
<1>3. f \in [Nat -> Nat] /\ \A k \in Nat : f[k] = k
      OBVIOUS
<1> HIDE DEF f
<1>4. \A k \in Nat : \A v : At(k, n, v) => v # None
      BY <1>1, NoneAssumption
<1>5. WayInv(n)'
  <2>1. MoveUp(n, None, f)
        BY <1>3, <1>4 DEF MoveUp
  <2>2. QED BY <1>3, <2>1, Moved
<1>6. InLine(n)' = InLine(n)
      BY <1>1, <1>2
<1>7. Before(n)' = Before(n)
      BY <1>1, <1>2
<1>8. QED BY <1>5, <1>6, <1>7

-----------------------------------------------------------------------------
(* The steps of a controller. *)

\* A controller goes to l with the snapshot x.
Moves(c, l, x) == Goto(c, l) /\ snap' = [snap EXCEPT ![c] = x]

\* What is in the hands of n's controllers after one of all controllers moved.
LEMMA HandedChanges ==
    ASSUME TypeOK, SnapsInv, NEW c \in Controllers, NEW l, NEW x,
           Moves(c, l, x), NEW n \in Names, NEW places \in SUBSET Busy
    PROVE  \A v : v \in HandedBy(n, places)' <=>
               \/ v \in HandedBy(n, places) /\ ~(pc[c] \in places /\ NameOf[c] = n /\ v = snap[c])
               \/ l \in places /\ NameOf[c] = n /\ v = x
<1>1. /\ pc'[c] = l /\ snap'[c] = x
      /\ \A d \in Controllers \ {c} : pc'[d] = pc[d] /\ snap'[d] = snap[d]
      BY DEF TypeOK, Moves, Goto
<1>2. \A d \in Controllers \ {c} :
          pc[d] \in places /\ pc[c] \in places /\ NameOf[d] = NameOf[c] => snap[d] # snap[c]
      BY DEF SnapsInv, Active
<1>3. \A v : v \in HandedBy(n, places) <=>
          \E d \in Controllers : pc[d] \in places /\ NameOf[d] = n /\ snap[d] = v
      BY DEF HandedBy
<1>4. \A v : v \in HandedBy(n, places)' <=>
          \E d \in Controllers : pc'[d] \in places /\ NameOf[d] = n /\ snap'[d] = v
      BY DEF HandedBy
<1>5. CASE NameOf[c] = n
      BY <1>1, <1>2, <1>3, <1>4, <1>5
<1>6. CASE NameOf[c] # n
      BY <1>1, <1>3, <1>4, <1>6
<1>7. QED BY <1>5, <1>6

\* A controller that puts its snapshot down, keeps it in hand or makes a new one.
LEMMA SnapsKept ==
    ASSUME TypeOK, SnapsInv, NEW c \in Controllers, NEW l, NEW x,
           Moves(c, l, x),
           \/ l \notin Busy /\ made' = made
           \/ Active(c) /\ x = snap[c] /\ made' = made
           \/ Snap(c)
    PROVE  SnapsInv' /\ \A n \in Names : OnlyNewSnaps(n)
<1>0. /\ pc'[c] = l /\ snap'[c] = x
      /\ \A d \in Controllers \ {c} : pc'[d] = pc[d] /\ snap'[d] = snap[d]
      /\ \A n \in Names : made[n] \in Nat
      /\ \A d \in Controllers : NameOf[d] \in Names /\ snap[d] \in Nat
      BY NamesAssumption DEF TypeOK, Moves, Goto
<1>1. CASE made' = made
  <2>1. \A d \in Controllers : Active(d)' => Active(d) /\ snap'[d] = snap[d]
    <3>1. CASE l \notin Busy
          BY <3>1, <1>0 DEF Active
    <3>2. CASE Active(c) /\ x = snap[c]
          BY <3>2, <1>0 DEF Active
    <3>3. CASE Snap(c)
          BY <3>3, <1>1, <1>0 DEF Snap, TypeOK
    <3>4. QED BY <3>1, <3>2, <3>3
  <2>2. QED BY <2>1, <1>1, <1>0 DEF SnapsInv, OnlyNewSnaps
<1>2. CASE Snap(c)
  <2> DEFINE m == NameOf[c]
  <2>1. /\ made[m] < MaxSnaps[m] /\ made'[m] = made[m] + 1 /\ snap'[c] = made[m] + 1
        /\ \A n \in Names \ {m} : made'[n] = made[n]
        BY <1>2, <1>0 DEF Snap, TypeOK
  <2>2. MaxSnaps[m] \in Nat /\ m \in Names
        BY <1>0, SizeAssumption
  <2> HIDE DEF m
  <2>3. \A n \in Names : made'[n] <= MaxSnaps[n] /\ made'[n] >= made[n] /\ made'[n] \in Nat
        BY <2>1, <2>2, <1>0, SizeAssumption DEF SnapsInv
  <2>4. \A d \in Controllers \ {c} : Active(d)' =>
            Active(d) /\ snap'[d] = snap[d] /\ snap[d] \in 1..made[NameOf[d]]
        BY <1>0 DEF SnapsInv, Active
  <2>5. \A d \in Controllers : Active(d)' => snap'[d] \in 1..made'[NameOf[d]]
    <3>1. snap'[c] \in 1..made'[m]
          BY <2>1, <2>2, <1>0
    <3>2. QED BY <3>1, <2>3, <2>4, <1>0 DEF m
  <2>6. \A d, e \in Controllers :
            d # e /\ NameOf[d] = NameOf[e] /\ Active(d)' /\ Active(e)' => snap'[d] # snap'[e]
    <3>1. \A d \in Controllers \ {c} : NameOf[d] = m /\ Active(d)' => snap'[d] < snap'[c]
          BY <2>1, <2>2, <2>4, <1>0
    <3>2. \A d \in Controllers \ {c} : NameOf[d] = m /\ Active(d)' => snap'[d] # snap'[c]
          BY <3>1, <2>1, <2>2, <1>0
    <3>3. \A d, e \in Controllers \ {c} :
              d # e /\ NameOf[d] = NameOf[e] /\ Active(d)' /\ Active(e)' => snap'[d] # snap'[e]
          BY <2>4 DEF SnapsInv
    <3>4. QED BY <3>2, <3>3 DEF m
  <2>7. SnapsInv'
        BY <2>3, <2>5, <2>6 DEF SnapsInv
  <2>8. \A n \in Names : OnlyNewSnaps(n)
    <3>1. snap'[c] > made[m]
          BY <2>1, <2>2, <1>0
    <3>2. QED BY <3>1, <2>3, <2>4 DEF OnlyNewSnaps, m
  <2>9. QED BY <2>7, <2>8
<1>3. QED BY <1>1, <1>2

\* A snapshot that is sent comes last in the line of its container, after all the others.
LEMMA SendMoves ==
    ASSUME OrderInv, TypeOK', NEW c \in Controllers, Send(c), SnapsInv', NEW n \in Names,
           OnlyNewSnaps(n)
    PROVE  /\ WayInv(n)'
           /\ InLine(n)' = InLine(n) \cup (IF NameOf[c] = n THEN {snap[c]} ELSE {})
           /\ Before(n)' = Before(n) \cup (IF NameOf[c] = n THEN InLine(n) \X {snap[c]} ELSE {})
<1> DEFINE s == Just(NameOf[c], snap[c])
           last == Len(queue) + 2
           v0 == snap[c]
<1>0. /\ queue \in Seq(Snapshot) /\ s \in Snapshot /\ s.name = NameOf[c] /\ s.ver = v0 /\ v0 \in Nat
      /\ queue' = Append(queue, s) /\ UNCHANGED <<hand, pending, made>>
      BY NamesAssumption DEF OrderInv, TypeOK, Send, Just, Snapshot, batcher
<1>1. /\ Len(queue) \in Nat /\ DOMAIN queue = 1..Len(queue)
      /\ DOMAIN queue' = 1..(Len(queue) + 1)
      /\ queue'[Len(queue) + 1] = s
      /\ \A i \in 1..Len(queue) : queue'[i] = queue[i]
      BY <1>0, QueuePositions
<1> HIDE DEF s
<1>2. ASSUME NEW k \in Nat, NEW v
      PROVE  At(k, n, v)' <=> At(k, n, v) \/ (k = last /\ NameOf[c] = n /\ v = v0)
  <2>1. CASE k = 0 \/ k = 1
        BY <2>1, <1>0, <1>1 DEF At
  <2>2. CASE k > 1 /\ k - 1 \in 1..Len(queue)
        BY <2>2, <1>0, <1>1 DEF At
  <2>3. CASE k = last
        BY <2>3, <1>0, <1>1 DEF At
  <2>4. CASE k > last
        BY <2>4, <1>0, <1>1 DEF At
  <2>5. QED BY <2>1, <2>2, <2>3, <2>4, <1>1
<1>3. CASE NameOf[c] # n
      BY <1>3, <1>2, Kept
<1>4. CASE NameOf[c] = n
  <2>1. /\ \A v : v \in InLine(n) <=> \E k \in Nat : At(k, n, v)
        /\ \A p : p \in Before(n) <=>
              \E j, k, u, v \in Nat : j < k /\ At(j, n, u) /\ At(k, n, v) /\ p = <<u, v>>
        /\ \A k \in Nat : \A v : At(k, n, v) => v \in Nat
        BY LineIsAt DEF LineAt, OrderInv
  <2>2. /\ \A v : v \in InLine(n)' <=> \E k \in Nat : At(k, n, v)'
        /\ \A p : p \in Before(n)' <=>
              \E j, k, u, v \in Nat : j < k /\ At(j, n, u)' /\ At(k, n, v)' /\ p = <<u, v>>
        BY NextLineIsAt DEF LineAt
  <2>3. \A k \in Nat : \A v : At(k, n, v) => k < last
        BY <1>1 DEF At
  <2>4. last \in Nat
        BY <1>1
  <2> HIDE DEF last
  <2>5. \A k \in Nat : \A v : At(k, n, v) =>
            /\ v \in 1..made[n]
            /\ \A j \in Nat : At(j, n, v) => j = k
            /\ \A d \in Controllers : NameOf[d] = n /\ Active(d) => snap[d] # v
        BY DEF OrderInv, WayInv
  <2>6. Active(c) /\ v0 \in 1..made[n] /\ made' = made
        BY <1>0, <1>4 DEF OrderInv, SnapsInv, Send, Active, Busy
  <2>7. \A k \in Nat : ~At(k, n, v0)
        BY <2>5, <2>6, <1>4
  <2>8. \A d \in Controllers : NameOf[d] = n /\ Active(d)' =>
            Active(d) /\ snap'[d] = snap[d] /\ snap[d] # v0
    <3>1. /\ ~Active(c)' /\ \A d \in Controllers \ {c} : pc'[d] = pc[d] /\ snap'[d] = snap[d]
          BY DEF Send, Returned, Goto, Active, Busy, OrderInv, TypeOK
    <3>2. QED BY <3>1, <2>6, <1>4 DEF OrderInv, SnapsInv, Active
  <2>9. ASSUME NEW k \in Nat, NEW v, At(k, n, v)'
        PROVE  /\ v \in 1..made'[n]
               /\ \A j \in Nat : At(j, n, v)' => j = k
               /\ \A d \in Controllers : NameOf[d] = n /\ Active(d)' => snap'[d] # v
    <3>1. CASE At(k, n, v)
      <4>1. v # v0
            BY <3>1, <2>7
      <4>2. QED BY <3>1, <4>1, <1>2, <2>5, <2>6, <2>8
    <3>2. CASE k = last /\ v = v0
          BY <3>2, <1>2, <2>6, <2>7, <2>8
    <3>3. QED BY <3>1, <3>2, <2>9, <1>2
  <2>10. WayInv(n)'
         BY <2>9 DEF WayInv
  <2>11. InLine(n)' = InLine(n) \cup {v0}
         BY <2>1, <2>2, <2>4, <1>2, <1>4
  <2>12. ASSUME NEW p, p \in Before(n)' PROVE p \in Before(n) \cup (InLine(n) \X {v0})
    <3>1. PICK j, k, u, v \in Nat : j < k /\ At(j, n, u)' /\ At(k, n, v)' /\ p = <<u, v>>
          BY <2>12, <2>2
    <3>2. At(j, n, u)
          BY <3>1, <2>3, <2>4, <1>2
    <3>3. CASE At(k, n, v)
          BY <3>1, <3>2, <3>3, <2>1
    <3>4. CASE v = v0
          BY <3>1, <3>2, <3>4, <2>1
    <3>5. QED BY <3>1, <3>3, <3>4, <1>2
  <2>13. ASSUME NEW p, p \in Before(n) PROVE p \in Before(n)'
         BY <2>13, <2>1, <2>2, <1>2
  <2>14. ASSUME NEW u \in InLine(n) PROVE <<u, v0>> \in Before(n)'
    <3>1. PICK j \in Nat : At(j, n, u)
          BY <2>14, <2>1
    <3>2. PICK k \in Nat, v \in Nat : k = last /\ v = v0
          BY <2>4, <1>0
    <3>3. j < k /\ u \in Nat /\ At(j, n, u)' /\ At(k, n, v)'
          BY <3>1, <3>2, <2>1, <2>3, <1>2, <1>4
    <3>4. QED BY <3>2, <3>3, <2>2
  <2>15. Before(n)' = Before(n) \cup (InLine(n) \X {v0})
    <3>1. \A p \in InLine(n) \X {v0} : p \in Before(n)'
          BY <2>14
    <3>2. QED BY <3>1, <2>12, <2>13
  <2>16. QED BY <2>10, <2>11, <2>15, <1>4
<1>5. QED BY <1>3, <1>4

\* What a step of Store is to the line of n.
InOrderStep(n) == UNCHANGED Line(n)!vars \/ Line(n)!Next

Queueing == {"queueing"}
Writing == {"writing", "finishing"}

\* What a step that touches neither the line nor the row is to it.
LEMMA InHandStep ==
    ASSUME NEW n \in Names, InLine(n)' = InLine(n), Before(n)' = Before(n), row'[n] = row[n],
           \/ /\ Fresh(n)' = Fresh(n) /\ HandedBy(n, Writing)' = HandedBy(n, Writing)
           \/ /\ Fresh(n)' = Fresh(n)
              /\ \E v \in HandedBy(n, Writing) : HandedBy(n, Writing)' = HandedBy(n, Writing) \ {v}
           \/ /\ HandedBy(n, Writing)' = HandedBy(n, Writing)
              /\ \E v \in Fresh(n) : Fresh(n)' = Fresh(n) \ {v}
           \/ \E v \in Fresh(n) : /\ Fresh(n)' = Fresh(n) \ {v}
                                  /\ HandedBy(n, Writing)' = HandedBy(n, Writing) \cup {v}
    PROVE  InOrderStep(n)
BY DEF InOrderStep, Line!vars, Line!Next, Line!Hold, Line!Lose, Writing

\* Snapshots not handed over, after a controller of n moved.
LEMMA FreshChanges ==
    ASSUME TypeOK, SnapsInv, NEW n \in Names
    PROVE  /\ \A v : made'[n] = made[n] /\ v \in 1..made[n]
                  /\ HandedBy(n, Queueing)' = HandedBy(n, Queueing) \ {v}
                  => Fresh(n)' = Fresh(n) \ {v}
           /\ made'[n] = made[n] /\ HandedBy(n, Queueing)' = HandedBy(n, Queueing)
                  => Fresh(n)' = Fresh(n)
           /\ made'[n] = made[n] + 1 /\ made[n] < MaxSnaps[n]
                  /\ HandedBy(n, Queueing)' = HandedBy(n, Queueing) \cup {made[n] + 1}
                  => Fresh(n)' = Fresh(n)
           /\ made'[n] = made[n] + 1 /\ made[n] < MaxSnaps[n]
                  /\ HandedBy(n, Queueing)' = HandedBy(n, Queueing)
                  => made[n] + 1 \in Fresh(n) /\ Fresh(n)' = Fresh(n) \ {made[n] + 1}
<1>1. made[n] \in Nat /\ MaxSnaps[n] \in Nat
      BY SizeAssumption DEF TypeOK
<1>2. \A v \in HandedBy(n, Queueing) : v \in 1..made[n]
      BY DEF HandedBy, Queueing, SnapsInv, Active, Busy
<1>3. /\ Fresh(n) = ((made[n] + 1)..MaxSnaps[n]) \cup HandedBy(n, Queueing)
      /\ Fresh(n)' = ((made'[n] + 1)..MaxSnaps[n]) \cup HandedBy(n, Queueing)'
      BY DEF Fresh, Queueing
<1>4. ASSUME NEW v \in 1..made[n], made'[n] = made[n],
             HandedBy(n, Queueing)' = HandedBy(n, Queueing) \ {v}
      PROVE  Fresh(n)' = Fresh(n) \ {v}
  <2>1. v \notin (made[n] + 1)..MaxSnaps[n]
        BY <1>1
  <2>2. QED BY <2>1, <1>3, <1>4
<1>5. made'[n] = made[n] + 1 /\ made[n] < MaxSnaps[n] =>
          /\ (made[n] + 1)..MaxSnaps[n] = {made[n] + 1} \cup ((made'[n] + 1)..MaxSnaps[n])
          /\ made[n] + 1 \notin (made'[n] + 1)..MaxSnaps[n]
          /\ made[n] + 1 \notin HandedBy(n, Queueing)
      BY <1>1, <1>2
<1>6. QED BY <1>3, <1>4, <1>5

\* A controller that makes a snapshot, by persistTicker or at its end.
LEMMA SnapStep ==
    ASSUME OrderInv, TypeOK', NEW c \in Controllers, NEW l \in {"queueing", "finishing"},
           pc[c] = "running", Snap(c), Goto(c, l), UNCHANGED <<queue, hand, pending, row>>
    PROVE  SnapsInv' /\ \A n \in Names : WayInv(n)' /\ InOrderStep(n)
<1> DEFINE m == NameOf[c]
<1>x. PICK x : x = made[m] + 1
      OBVIOUS
<1>0. /\ TypeOK /\ SnapsInv /\ m \in Names /\ made \in [Names -> Nat]
      BY NamesAssumption DEF OrderInv, TypeOK
<1>1. /\ snap' = [snap EXCEPT ![c] = x] /\ made[m] < MaxSnaps[m]
      /\ made'[m] = made[m] + 1 /\ \A n \in Names \ {m} : made'[n] = made[n]
      BY <1>0, <1>x DEF Snap
<1>2. SnapsInv' /\ \A n \in Names : OnlyNewSnaps(n)
  <2>1. Moves(c, l, x)
        BY <1>1 DEF Moves
  <2>2. QED BY <2>1, <1>0, SnapsKept
<1>3. \A n \in Names : WayInv(n)' /\ InLine(n)' = InLine(n) /\ Before(n)' = Before(n)
  <2>1. \A n \in Names : \A k \in Nat : \A v : At(k, n, v)' <=> At(k, n, v)
        BY DEF At
  <2>2. QED BY <2>1, <1>2, Kept
<1>4. ASSUME NEW n \in Names, NEW places \in {Queueing, Writing}
      PROVE  HandedBy(n, places)' =
                 HandedBy(n, places) \cup (IF l \in places /\ m = n THEN {x} ELSE {})
  <2>1. /\ pc[c] \notin places
        /\ places \in SUBSET Busy
        BY DEF Queueing, Writing, Busy
  <2>2. Moves(c, l, x) /\ TypeOK /\ SnapsInv
        BY <1>0, <1>1 DEF Moves
  <2>3. \A v : v \in HandedBy(n, places)' <=>
            \/ v \in HandedBy(n, places) /\ ~(pc[c] \in places /\ NameOf[c] = n /\ v = snap[c])
            \/ l \in places /\ NameOf[c] = n /\ v = x
        BY <2>1, <2>2, HandedChanges
  <2>4. QED BY <2>1, <2>3
<1>5. ASSUME NEW n \in Names PROVE InOrderStep(n)
  <2>0. UNCHANGED row
        OBVIOUS
  <2>1. CASE m # n
    <3>1. /\ HandedBy(n, Queueing)' = HandedBy(n, Queueing)
          /\ HandedBy(n, Writing)' = HandedBy(n, Writing)
          BY <2>1, <1>4
    <3>2. Fresh(n)' = Fresh(n)
          BY <3>1, <2>1, <1>0, <1>1, FreshChanges
    <3>3. QED BY <3>1, <3>2, <2>0, <1>3, InHandStep
  <2>2. CASE m = n /\ l = "queueing"
    <3>1. /\ HandedBy(n, Queueing)' = HandedBy(n, Queueing) \cup {x}
          /\ HandedBy(n, Writing)' = HandedBy(n, Writing)
          BY <2>2, <1>4 DEF Queueing, Writing
    <3>2. Fresh(n)' = Fresh(n)
          BY <3>1, <2>2, <1>0, <1>1, FreshChanges, <1>x
    <3>3. QED BY <3>1, <3>2, <2>0, <1>3, InHandStep
  <2>3. CASE m = n /\ l = "finishing"
    <3>1. /\ HandedBy(n, Queueing)' = HandedBy(n, Queueing)
          /\ HandedBy(n, Writing)' = HandedBy(n, Writing) \cup {x}
          BY <2>3, <1>4 DEF Queueing, Writing
    <3>2. x \in Fresh(n) /\ Fresh(n)' = Fresh(n) \ {x}
          BY <3>1, <2>3, <1>0, <1>1, FreshChanges, <1>x
    <3>3. QED BY <3>1, <3>2, <2>0, <1>3, InHandStep
  <2>4. QED BY <2>1, <2>2, <2>3
<1>6. QED BY <1>2, <1>3, <1>5

\* A controller that puts its snapshot down, as sent or as written or as lost.
LEMMA PutDown ==
    ASSUME OrderInv, TypeOK', NEW c \in Controllers, Active(c), Returned(c), made' = made
    PROVE  /\ SnapsInv' /\ \A n \in Names : OnlyNewSnaps(n)
           /\ \A n \in Names :
                 IF NameOf[c] = n /\ pc[c] = "queueing"
                   THEN /\ snap[c] \in Fresh(n) /\ Fresh(n)' = Fresh(n) \ {snap[c]}
                        /\ HandedBy(n, Writing)' = HandedBy(n, Writing)
                   ELSE /\ Fresh(n)' = Fresh(n)
                        /\ IF NameOf[c] = n
                             THEN /\ snap[c] \in HandedBy(n, Writing)
                                  /\ HandedBy(n, Writing)' = HandedBy(n, Writing) \ {snap[c]}
                             ELSE HandedBy(n, Writing)' = HandedBy(n, Writing)
<1>0. /\ TypeOK /\ SnapsInv /\ NameOf[c] \in Names
      /\ snap[c] \in 1..made[NameOf[c]]
      BY NamesAssumption DEF OrderInv, SnapsInv
<1>1. PICK l \in {"ended", "running"} : Moves(c, l, 0)
      BY DEF Returned, Moves
<1>2. SnapsInv' /\ \A n \in Names : OnlyNewSnaps(n)
  <2>1. l \notin Busy
        BY DEF Busy
  <2>2. QED BY <2>1, <1>0, <1>1, SnapsKept
<1>3. ASSUME NEW n \in Names, NEW places \in {Queueing, Writing}
      PROVE  \A v : v \in HandedBy(n, places)' <=>
                 v \in HandedBy(n, places) /\ ~(pc[c] \in places /\ NameOf[c] = n /\ v = snap[c])
  <2>1. l \notin places /\ places \in SUBSET Busy
        BY DEF Queueing, Writing, Busy
  <2>2. \A v : v \in HandedBy(n, places)' <=>
            \/ v \in HandedBy(n, places) /\ ~(pc[c] \in places /\ NameOf[c] = n /\ v = snap[c])
            \/ l \in places /\ NameOf[c] = n /\ v = 0
        BY <2>1, <1>0, <1>1, HandedChanges
  <2>3. QED BY <2>1, <2>2
<1>4. pc[c] \in Queueing <=> pc[c] \notin Writing
      BY DEF Active, Busy, Queueing, Writing
<1>5. ASSUME NEW n \in Names, NameOf[c] = n, pc[c] = "queueing"
      PROVE  /\ snap[c] \in Fresh(n) /\ Fresh(n)' = Fresh(n) \ {snap[c]}
             /\ HandedBy(n, Writing)' = HandedBy(n, Writing)
  <2>1. HandedBy(n, Queueing)' = HandedBy(n, Queueing) \ {snap[c]}
        BY <1>3, <1>5 DEF Queueing
  <2>2. HandedBy(n, Writing)' = HandedBy(n, Writing)
        BY <1>3, <1>5 DEF Writing
  <2>3. Fresh(n)' = Fresh(n) \ {snap[c]}
        BY <2>1, <1>0, <1>5, FreshChanges
  <2>4. snap[c] \in Fresh(n)
        BY <1>5 DEF Fresh, HandedBy
  <2>5. QED BY <2>2, <2>3, <2>4
<1>6. ASSUME NEW n \in Names, ~(NameOf[c] = n /\ pc[c] = "queueing")
      PROVE  Fresh(n)' = Fresh(n)
  <2>1. HandedBy(n, Queueing)' = HandedBy(n, Queueing)
        BY <1>3, <1>6 DEF Queueing
  <2>2. QED BY <2>1, <1>0, FreshChanges
<1>7. ASSUME NEW n \in Names, NameOf[c] = n, pc[c] # "queueing"
      PROVE  /\ snap[c] \in HandedBy(n, Writing)
             /\ HandedBy(n, Writing)' = HandedBy(n, Writing) \ {snap[c]}
  <2>1. pc[c] \in Writing
        BY <1>4, <1>7 DEF Queueing
  <2>2. HandedBy(n, Writing)' = HandedBy(n, Writing) \ {snap[c]}
        BY <1>3, <1>7, <2>1
  <2>3. snap[c] \in HandedBy(n, Writing)
        BY <2>1, <1>7 DEF HandedBy
  <2>4. QED BY <2>2, <2>3
<1>8. ASSUME NEW n \in Names, NameOf[c] # n
      PROVE  HandedBy(n, Writing)' = HandedBy(n, Writing)
      BY <1>3, <1>8
<1>9. QED BY <1>2, <1>5, <1>6, <1>7, <1>8

\* The line stays when its places do.
LEMMA SameLine ==
    ASSUME OrderInv, TypeOK', UNCHANGED <<queue, hand, pending>>,
           \A n \in Names : OnlyNewSnaps(n)
    PROVE  \A n \in Names : WayInv(n)' /\ InLine(n)' = InLine(n) /\ Before(n)' = Before(n)
<1>1. \A n \in Names : \A k \in Nat : \A v : At(k, n, v)' <=> At(k, n, v)
      BY DEF At
<1>2. QED BY <1>1, Kept

LEMMA SendStep ==
    ASSUME OrderInv, TypeOK', NEW c \in Controllers, Send(c)
    PROVE  SnapsInv' /\ \A n \in Names : WayInv(n)' /\ InOrderStep(n)
<1>1. /\ Active(c) /\ Returned(c) /\ made' = made /\ UNCHANGED row /\ pc[c] = "queueing"
      BY DEF Send, Active, Busy
<1>2. /\ SnapsInv' /\ \A n \in Names : OnlyNewSnaps(n)
      BY <1>1, PutDown
<1>3. ASSUME NEW n \in Names PROVE WayInv(n)' /\ InOrderStep(n)
  <2>1. /\ WayInv(n)'
        /\ InLine(n)' = InLine(n) \cup (IF NameOf[c] = n THEN {snap[c]} ELSE {})
        /\ Before(n)' = Before(n) \cup (IF NameOf[c] = n THEN InLine(n) \X {snap[c]} ELSE {})
        BY <1>2, SendMoves
  <2>2. CASE NameOf[c] = n
    <3>1. /\ snap[c] \in Fresh(n) /\ Fresh(n)' = Fresh(n) \ {snap[c]}
          /\ HandedBy(n, Writing)' = HandedBy(n, Writing)
          BY <2>2, <1>1, PutDown
    <3>2. InLine(n)' = InLine(n) \cup {snap[c]} /\ Before(n)' = Before(n) \cup (InLine(n) \X {snap[c]})
          BY <2>1, <2>2
    <3>3. Line(n)!Queue
          BY <3>1, <3>2, <1>1 DEF Line!Queue, Writing
    <3>4. QED BY <3>3, <2>1 DEF InOrderStep, Line!Next
  <2>3. CASE NameOf[c] # n
    <3>1. Fresh(n)' = Fresh(n) /\ HandedBy(n, Writing)' = HandedBy(n, Writing)
          BY <2>3, <1>1, PutDown
    <3>2. InLine(n)' = InLine(n) /\ Before(n)' = Before(n)
          BY <2>1, <2>3
    <3>3. QED BY <3>1, <3>2, <2>1, <1>1, InHandStep
  <2>4. QED BY <2>2, <2>3
<1>4. QED BY <1>2, <1>3

\* The direct writes, and sends that find no room.
LEMMA WriteStep ==
    ASSUME OrderInv, TypeOK', NEW c \in Controllers, SendFull(c) \/ Write(c) \/ WriteFails(c)
    PROVE  SnapsInv' /\ \A n \in Names : WayInv(n)' /\ InOrderStep(n)
<1>0. UNCHANGED <<queue, hand, pending, made>> /\ Active(c)
      BY DEF SendFull, Write, WriteFails, batcher, Active, Busy
<1>1. CASE Returned(c)
  <2>1. /\ SnapsInv' /\ \A n \in Names : OnlyNewSnaps(n)
        BY <1>0, <1>1, PutDown
  <2>2. \A n \in Names : WayInv(n)' /\ InLine(n)' = InLine(n) /\ Before(n)' = Before(n)
        BY <2>1, <1>0, SameLine
  <2>3. ASSUME NEW n \in Names PROVE InOrderStep(n)
    <3>1. \/ Fresh(n)' = Fresh(n) /\ HandedBy(n, Writing)' = HandedBy(n, Writing) /\ NameOf[c] # n
          \/ /\ snap[c] \in Fresh(n) /\ Fresh(n)' = Fresh(n) \ {snap[c]} /\ pc[c] = "queueing"
             /\ HandedBy(n, Writing)' = HandedBy(n, Writing)
          \/ /\ Fresh(n)' = Fresh(n) /\ snap[c] \in HandedBy(n, Writing) /\ NameOf[c] = n
             /\ HandedBy(n, Writing)' = HandedBy(n, Writing) \ {snap[c]}
          BY <1>0, <1>1, PutDown
    <3>2. CASE row'[n] = row[n]
          BY <3>1, <3>2, <2>2, InHandStep
    <3>3. CASE row'[n] # row[n]
      <4>1. Write(c) /\ row' = [row EXCEPT ![NameOf[c]] = snap[c]] /\ row[NameOf[c]] # None
            BY <3>3 DEF SendFull, Write, WriteFails
      <4>2. NameOf[c] = n /\ row'[n] = snap[c] /\ row[n] # None
            BY <4>1, <3>3 DEF OrderInv, TypeOK
      <4>3. /\ Fresh(n)' = Fresh(n) /\ snap[c] \in HandedBy(n, Writing)
            /\ HandedBy(n, Writing)' = HandedBy(n, Writing) \ {snap[c]}
            BY <3>1, <4>1, <4>2 DEF Write
      <4>4. Line(n)!WriteHeld
            BY <4>2, <4>3, <2>2 DEF Line!WriteHeld, Line!Written, Writing
      <4>5. QED BY <4>4 DEF InOrderStep, Line!Next
    <3>4. QED BY <3>2, <3>3
  <2>4. QED BY <2>1, <2>2, <2>3
<1>2. CASE SendFull(c) /\ Goto(c, "writing") /\ UNCHANGED snap
  <2>0. /\ Moves(c, "writing", snap[c]) /\ pc[c] = "queueing" /\ TypeOK /\ SnapsInv
        /\ snap[c] \in 1..made[NameOf[c]] /\ UNCHANGED row
        BY <1>0, <1>2 DEF Moves, SendFull, OrderInv, TypeOK, SnapsInv
  <2>1. /\ SnapsInv' /\ \A n \in Names : OnlyNewSnaps(n)
        BY <2>0, <1>0, SnapsKept
  <2>2. \A n \in Names : WayInv(n)' /\ InLine(n)' = InLine(n) /\ Before(n)' = Before(n)
        BY <2>1, <1>0, SameLine
  <2>3. ASSUME NEW n \in Names PROVE InOrderStep(n)
    <3>0. Queueing \in SUBSET Busy /\ Writing \in SUBSET Busy
          BY DEF Queueing, Writing, Busy
    <3>1. \A v : v \in HandedBy(n, Queueing)' <=>
              \/ v \in HandedBy(n, Queueing) /\ ~(pc[c] \in Queueing /\ NameOf[c] = n /\ v = snap[c])
              \/ "writing" \in Queueing /\ NameOf[c] = n /\ v = snap[c]
          BY <2>0, <3>0, HandedChanges
    <3>2. \A v : v \in HandedBy(n, Writing)' <=>
              \/ v \in HandedBy(n, Writing) /\ ~(pc[c] \in Writing /\ NameOf[c] = n /\ v = snap[c])
              \/ "writing" \in Writing /\ NameOf[c] = n /\ v = snap[c]
          BY <2>0, <3>0, HandedChanges
    <3>3. CASE NameOf[c] = n
      <4>1. /\ HandedBy(n, Queueing)' = HandedBy(n, Queueing) \ {snap[c]}
            /\ HandedBy(n, Writing)' = HandedBy(n, Writing) \cup {snap[c]}
            BY <2>0, <3>1, <3>2, <3>3 DEF Queueing, Writing
      <4>2. Fresh(n)' = Fresh(n) \ {snap[c]}
            BY <4>1, <2>0, <1>0, <3>3, FreshChanges
      <4>3. snap[c] \in Fresh(n)
            BY <2>0, <3>3 DEF Fresh, HandedBy
      <4>4. QED BY <4>1, <4>2, <4>3, <2>0, <2>2, InHandStep
    <3>4. CASE NameOf[c] # n
      <4>1. /\ HandedBy(n, Queueing)' = HandedBy(n, Queueing)
            /\ HandedBy(n, Writing)' = HandedBy(n, Writing)
            BY <3>1, <3>2, <3>4
      <4>2. Fresh(n)' = Fresh(n)
            BY <4>1, <2>0, <1>0, FreshChanges
      <4>3. QED BY <4>1, <4>2, <2>0, <2>2, InHandStep
    <3>5. QED BY <3>3, <3>4
  <2>4. QED BY <2>1, <2>2, <2>3
<1>3. QED BY <1>1, <1>2 DEF SendFull, Write, WriteFails

\* Steps after which every controller has in hand what it had.
LEMMA SameHands ==
    ASSUME OrderInv, made' = made,
           \A c \in Controllers : (Active(c) \/ Active(c)') => pc'[c] = pc[c] /\ snap'[c] = snap[c]
    PROVE  /\ SnapsInv' /\ \A n \in Names : OnlyNewSnaps(n)
           /\ \A n \in Names : /\ Fresh(n)' = Fresh(n)
                               /\ HandedBy(n, Writing)' = HandedBy(n, Writing)
<1>1. \A c \in Controllers : Active(c)' => Active(c) /\ snap'[c] = snap[c]
      BY DEF Active
<1>2. SnapsInv'
      BY <1>1 DEF OrderInv, SnapsInv
<1>3. \A n \in Names : OnlyNewSnaps(n)
      BY <1>1 DEF OnlyNewSnaps, OrderInv, TypeOK
<1>4. ASSUME NEW n \in Names, NEW places \in {Queueing, Writing}
      PROVE  HandedBy(n, places)' = HandedBy(n, places)
  <2>1. \A v : v \in HandedBy(n, places) <=>
            \E c \in Controllers : pc[c] \in places /\ NameOf[c] = n /\ snap[c] = v
        BY DEF HandedBy
  <2>2. \A v : v \in HandedBy(n, places)' <=>
            \E c \in Controllers : pc'[c] \in places /\ NameOf[c] = n /\ snap'[c] = v
        BY DEF HandedBy
  <2>3. \A c \in Controllers : pc[c] \in places => Active(c)
        BY DEF Active, Busy, Queueing, Writing
  <2>4. \A c \in Controllers : pc'[c] \in places => Active(c)'
        BY DEF Active, Busy, Queueing, Writing
  <2>5. QED BY <2>1, <2>2, <2>3, <2>4
<1>5. \A n \in Names : Fresh(n)' = Fresh(n)
      BY <1>4, FreshChanges DEF OrderInv
<1>6. QED BY <1>2, <1>3, <1>4, <1>5

\* Steps that touch nothing of this.
LEMMA SameAll ==
    ASSUME OrderInv, TypeOK', made' = made, UNCHANGED <<queue, hand, pending, row>>,
           \A c \in Controllers : (Active(c) \/ Active(c)') => pc'[c] = pc[c] /\ snap'[c] = snap[c]
    PROVE  SnapsInv' /\ \A n \in Names : WayInv(n)' /\ InOrderStep(n)
<1>1. /\ SnapsInv' /\ \A n \in Names : OnlyNewSnaps(n)
      /\ \A n \in Names : Fresh(n)' = Fresh(n) /\ HandedBy(n, Writing)' = HandedBy(n, Writing)
      BY SameHands
<1>2. \A n \in Names : WayInv(n)' /\ InLine(n)' = InLine(n) /\ Before(n)' = Before(n)
      BY <1>1, SameLine
<1>3. UNCHANGED row
      OBVIOUS
<1>4. QED BY <1>1, <1>2, <1>3, InHandStep

LEMMA HandStep ==
    ASSUME OrderInv, TypeOK', NEW c \in Controllers, Hand(c)
    PROVE  SnapsInv' /\ \A n \in Names : WayInv(n)' /\ InOrderStep(n)
<1>1. CASE QueueRuntimeUpdate(c)
  <2>1. /\ pc[c] = "running" /\ Snap(c) /\ Goto(c, "queueing")
        /\ UNCHANGED <<queue, hand, pending, row>>
        BY <1>1 DEF QueueRuntimeUpdate, batcher
  <2>2. QED BY <2>1, SnapStep
<1>2. CASE UpdateRuntime(c) /\ Snap(c) /\ Goto(c, "finishing")
  <2>1. /\ pc[c] = "running" /\ UNCHANGED <<queue, hand, pending, row>>
        BY <1>2 DEF UpdateRuntime, batcher
  <2>2. QED BY <2>1, <1>2, SnapStep
<1>3. CASE End(c) \/ (UpdateRuntime(c) /\ Goto(c, "ended") /\ UNCHANGED <<snap, made>>)
  <2>1. /\ pc[c] = "running" /\ Goto(c, "ended") /\ made' = made /\ snap' = snap
        /\ UNCHANGED <<queue, hand, pending, row>>
        BY <1>3 DEF End, UpdateRuntime, batcher
  <2>2. \A d \in Controllers : (Active(d) \/ Active(d)') => pc'[d] = pc[d]
        BY <2>1 DEF Goto, Active, Busy, OrderInv, TypeOK
  <2>3. QED BY <2>1, <2>2, SameAll
<1>4. CASE Send(c)
      BY <1>4, SendStep
<1>5. CASE SendFull(c) \/ Write(c) \/ WriteFails(c)
      BY <1>5, WriteStep
<1>6. QED BY <1>1, <1>2, <1>3, <1>4, <1>5 DEF Hand, UpdateRuntime

-----------------------------------------------------------------------------
(* The steps of the goroutine. *)

\* A snapshot that is received stays between the ones before and behind it.
LEMMA ReceiveStep ==
    ASSUME OrderInv, TypeOK', Receive
    PROVE  SnapsInv' /\ \A n \in Names : WayInv(n)' /\ InOrderStep(n)
<1>0. /\ queue \in Seq(Snapshot) /\ queue # <<>> /\ hand = None
      /\ hand' = Head(queue) /\ queue' = Tail(queue) /\ UNCHANGED <<pending, row, pc, snap, made>>
      BY DEF OrderInv, TypeOK, Receive, writers
<1>1. /\ Len(queue) \in Nat /\ Len(queue) >= 1 /\ Head(queue) = queue[1]
      /\ DOMAIN queue = 1..Len(queue) /\ DOMAIN queue' = 1..(Len(queue) - 1)
      /\ \A i \in 1..(Len(queue) - 1) : queue'[i] = queue[i + 1]
      BY <1>0, QueuePositions
<1>2. queue[1] \in Snapshot /\ queue[1] # None
  <2>1. queue[1] \in Snapshot
        BY <1>0, <1>1
  <2>2. None \notin Snapshot
        BY NoneAssumption DEF Snapshot
  <2>3. QED BY <2>1, <2>2
<1>3. /\ SnapsInv' /\ \A n \in Names : OnlyNewSnaps(n)
      /\ \A n \in Names : Fresh(n)' = Fresh(n) /\ HandedBy(n, Writing)' = HandedBy(n, Writing)
      BY <1>0, SameHands
<1> DEFINE f == [k \in Nat |-> IF k = 0 THEN 0 ELSE k - 1]
<1>4. f \in [Nat -> Nat] /\ \A k \in Nat : f[k] = IF k = 0 THEN 0 ELSE k - 1
      OBVIOUS
<1> HIDE DEF f
<1>5. ASSUME NEW n \in Names PROVE WayInv(n)' /\ InOrderStep(n)
  <2>1. \A v : /\ At(0, n, v)' <=> At(0, n, v)
               /\ ~At(1, n, v)
               /\ \A k \in Nat : k > 0 => (At(k, n, v)' <=> At(k + 1, n, v))
    <3>1. ASSUME NEW v PROVE (At(0, n, v)' <=> At(0, n, v)) /\ ~At(1, n, v)
          BY <1>0 DEF At
    <3>2. ASSUME NEW v PROVE At(1, n, v)' <=> At(2, n, v)
          BY <1>0, <1>1, <1>2 DEF At
    <3>3. ASSUME NEW v, NEW k \in Nat, k > 1 PROVE At(k, n, v)' <=> At(k + 1, n, v)
      <4>1. k - 1 \in DOMAIN queue' <=> k \in DOMAIN queue
            BY <1>1, <3>3
      <4>2. k - 1 \in DOMAIN queue' => queue'[k - 1] = queue[k]
            BY <1>1, <3>3
      <4>3. At(k, n, v)' <=> k - 1 \in DOMAIN queue' /\ queue'[k - 1].name = n /\ v = queue'[k - 1].ver
            BY <3>3 DEF At
      <4>4. At(k + 1, n, v) <=> k \in DOMAIN queue /\ queue[k].name = n /\ v = queue[k].ver
            BY <3>3 DEF At
      <4>5. QED BY <4>1, <4>2, <4>3, <4>4
    <3>4. QED BY <3>1, <3>2, <3>3
  <2>2. \A k \in Nat : \A v : At(k, n, v) => v # None
        BY LineIsAt, NoneAssumption DEF LineAt, OrderInv
  <2>3. ASSUME NEW k \in Nat, NEW v, At(k, n, v) PROVE k # 1 /\ At(f[k], n, v)'
    <3>1. CASE k = 0
          BY <3>1, <2>1, <2>3, <1>4
    <3>2. CASE k > 1
      <4>1. PICK j \in Nat : j = k - 1
            BY <3>2
      <4>2. j > 0 /\ k = j + 1 /\ f[k] = j
            BY <4>1, <3>2, <1>4
      <4>3. QED BY <4>2, <2>1, <2>3
    <3>3. QED BY <3>1, <3>2, <2>1, <2>3
  <2>4. ASSUME NEW k \in Nat, NEW v, At(k, n, v)'
        PROVE  v # None /\ \E j \in Nat : f[j] = k /\ At(j, n, v)
    <3>1. CASE k = 0
          BY <3>1, <2>1, <2>2, <2>4, <1>4
    <3>2. CASE k > 0
      <4>1. k + 1 \in Nat /\ f[k + 1] = k
            BY <3>2, <1>4
      <4>2. At(k + 1, n, v)
            BY <3>2, <2>1, <2>4
      <4>3. QED BY <4>1, <4>2, <2>2
    <3>3. QED BY <3>1, <3>2
  <2>5. \A j, k \in Nat : \A u, v : j < k /\ At(j, n, u) /\ At(k, n, v) => f[j] < f[k]
        BY <2>1, <1>4
  <2>6. MoveUp(n, None, f)
        BY <2>3, <2>4, <2>5 DEF MoveUp
  <2>7. /\ WayInv(n)' /\ InLine(n)' = InLine(n) \ {None}
        /\ Before(n)' = {p \in Before(n) : p[1] # None /\ p[2] # None}
        BY <2>6, <1>3, <1>4, Moved
  <2>8. InLine(n)' = InLine(n) /\ Before(n)' = Before(n)
    <3>1. \A v \in InLine(n) : v # None
          BY <2>2, LineIsAt DEF LineAt, OrderInv
    <3>2. \A p \in Before(n) : p[1] # None /\ p[2] # None
          BY NoneAssumption, LineIsAt DEF LineAt, OrderInv
    <3>3. QED BY <3>1, <3>2, <2>7
  <2>9. QED BY <2>7, <2>8, <1>0, <1>3, InHandStep
<1>6. QED BY <1>3, <1>5

\* What the loss of a snapshot of the line is to it, and its write.
LEMMA LineStep ==
    ASSUME OrderInv, NEW n \in Names, NEW w,
           InLine(n)' = InLine(n) \ {w},
           Before(n)' = {p \in Before(n) : p[1] # w /\ p[2] # w},
           Fresh(n)' = Fresh(n), HandedBy(n, Writing)' = HandedBy(n, Writing),
           \/ row'[n] = row[n]
           \/ /\ w \in InLine(n) /\ \A u \in InLine(n) : <<u, w>> \notin Before(n)
              /\ row'[n] = IF row[n] = None THEN None ELSE w
    PROVE  InOrderStep(n)
<1>0. /\ \A v : v \in InLine(n) <=> \E k \in Nat : At(k, n, v)
      /\ \A p : p \in Before(n) <=>
            \E j, k, u, v \in Nat : j < k /\ At(j, n, u) /\ At(k, n, v) /\ p = <<u, v>>
      BY LineIsAt DEF LineAt, OrderInv
<1>1. CASE w \notin InLine(n) /\ row'[n] = row[n]
  <2>1. ASSUME NEW p \in Before(n) PROVE p[1] # w /\ p[2] # w
    <3>1. PICK j, k, u, v \in Nat : At(j, n, u) /\ At(k, n, v) /\ p = <<u, v>>
          BY <1>0
    <3>2. u \in InLine(n) /\ v \in InLine(n)
          BY <3>1, <1>0
    <3>3. QED BY <3>1, <3>2, <1>1
  <2>2. Before(n)' = Before(n)
        BY <2>1
  <2>3. InLine(n)' = InLine(n)
        BY <1>1
  <2>4. QED BY <2>2, <2>3, <1>1, InHandStep
<1>2. CASE w \in InLine(n) /\ row'[n] = row[n]
  <2>1. Line(n)!Lose
        BY <1>2 DEF Line!Lose, Line!Leaves, Writing
  <2>2. QED BY <2>1 DEF InOrderStep, Line!Next
<1>3. CASE /\ w \in InLine(n) /\ \A u \in InLine(n) : <<u, w>> \notin Before(n)
           /\ row'[n] = IF row[n] = None THEN None ELSE w
  <2>1. Line(n)!WriteNext
        BY <1>3 DEF Line!WriteNext, Line!Written, Line!Leaves, Writing
  <2>2. QED BY <2>1 DEF InOrderStep, Line!Next
<1>4. QED BY <1>1, <1>2, <1>3

\* The snapshot in hand replaces the one of its name in the batch, which is lost, or is
\* itself skipped.
LEMMA JudgeStep ==
    ASSUME OrderInv, TypeOK', Judge
    PROVE  SnapsInv' /\ \A n \in Names : WayInv(n)' /\ InOrderStep(n)
<1>0. /\ hand \in Snapshot /\ hand # None /\ hand.name \in Names /\ hand.ver \in Nat
      /\ hand' = None /\ UNCHANGED <<queue, row, pc, snap, made>>
      /\ pending \in [Names -> Nat \cup {None}]
  <2>1. /\ hand \in Snapshot /\ hand # None /\ hand' = None
        /\ UNCHANGED <<queue, row, pc, snap, made>> /\ pending \in [Names -> Nat \cup {None}]
        BY DEF OrderInv, TypeOK, Judge, writers
  <2>2. QED BY <2>1 DEF Snapshot
<1>1. /\ SnapsInv' /\ \A n \in Names : OnlyNewSnaps(n)
      /\ \A n \in Names : Fresh(n)' = Fresh(n) /\ HandedBy(n, Writing)' = HandedBy(n, Writing)
      BY <1>0, SameHands
<1>a. None \notin Nat
      BY NoneAssumption
<1>2. ASSUME NEW n \in Names PROVE WayInv(n)' /\ InOrderStep(n)
  <2>1. \A k \in Nat : \A v : At(k, n, v) =>
            v \in Nat /\ \A j \in Nat : At(j, n, v) => j = k
        BY LineIsAt DEF LineAt, OrderInv, WayInv
  <2>2. \A v : \A k \in Nat : k > 1 => (At(k, n, v)' <=> At(k, n, v))
        BY <1>0 DEF At
  <2>3. \A v : ~At(1, n, v)'
        BY <1>0 DEF At
  <2>4. \E w : \E f \in [Nat -> Nat] : MoveUp(n, w, f)
    <3>1. CASE hand.name = n /\ n \notin dropped
      <4>1. pending'[n] = hand.ver
            BY <3>1, <1>0 DEF Judge
      <4>2. \A v : /\ At(0, n, v)' <=> v = hand.ver
                   /\ At(1, n, v) <=> v = hand.ver
                   /\ At(0, n, v) => v = pending[n]
                   /\ pending[n] # None => At(0, n, pending[n])
            BY <4>1, <3>1, <1>0, <1>a DEF At
      <4> DEFINE f == [k \in Nat |-> IF k = 1 THEN 0 ELSE k]
      <4>3. f \in [Nat -> Nat] /\ f[1] = 0 /\ f[0] = 0 /\ \A k \in Nat : k > 1 => f[k] = k
            OBVIOUS
      <4> HIDE DEF f
      <4>4. PICK w : w = pending[n]
            OBVIOUS
      <4>5. ASSUME NEW k \in Nat, NEW v, At(k, n, v), v # w
            PROVE  k > 0 /\ At(f[k], n, v)'
        <5>1. k # 0
              BY <4>2, <4>4, <4>5
        <5>2. CASE k = 1
              BY <5>2, <4>2, <4>3, <4>5
        <5>3. CASE k > 1
              BY <5>3, <2>2, <4>3, <4>5
        <5>4. QED BY <5>1, <5>2, <5>3
      <4>6. ASSUME NEW k \in Nat, NEW v, At(k, n, v)'
            PROVE  v # w /\ \E j \in Nat : f[j] = k /\ At(j, n, v)
        <5>1. PICK j \in Nat : j > 0 /\ f[j] = k /\ At(j, n, v)
          <6>1. CASE k = 0
                BY <6>1, <4>2, <4>3, <4>6
          <6>2. CASE k > 1
                BY <6>2, <2>2, <4>3, <4>6
          <6>3. QED BY <6>1, <6>2, <2>3, <4>6
        <5>2. v # w
              BY <5>1, <2>1, <4>2, <4>4, <1>a
        <5>3. QED BY <5>1, <5>2
      <4>7. \A j, k \in Nat : \A u, v :
                j < k /\ At(j, n, u) /\ At(k, n, v) /\ u # w /\ v # w => f[j] < f[k]
            BY <4>3, <4>5
      <4>8. MoveUp(n, w, f)
            BY <4>5, <4>6, <4>7 DEF MoveUp
      <4>9. QED BY <4>3, <4>8
    <3>2. CASE ~(hand.name = n /\ n \notin dropped)
      <4>1. pending'[n] = pending[n]
            BY <3>2, <1>0 DEF Judge
      <4>2. \A v : At(0, n, v)' <=> At(0, n, v)
            BY <4>1 DEF At
      <4> DEFINE f == [k \in Nat |-> k]
      <4>3. f \in [Nat -> Nat] /\ \A k \in Nat : f[k] = k
            OBVIOUS
      <4> HIDE DEF f
      <4>4. PICK w : w = IF hand.name = n THEN hand.ver ELSE None
            OBVIOUS
      <4>5. \A v : At(1, n, v) => v = w
            BY <4>4 DEF At
      <4>6. \A k \in Nat : \A v : At(k, n, v)' <=> At(k, n, v) /\ k # 1
            BY <2>2, <2>3, <4>2
      <4>7. hand.name = n => At(1, n, w)
            BY <4>4, <1>0 DEF At
      <4>8. \A k \in Nat : \A v : At(k, n, v) /\ k # 1 => v # w
            BY <4>4, <4>7, <2>1, <1>a
      <4>9. MoveUp(n, w, f)
            BY <4>3, <4>5, <4>6, <4>8 DEF MoveUp
      <4>10. QED BY <4>3, <4>9
    <3>3. QED BY <3>1, <3>2
  <2>5. PICK w : \E f \in [Nat -> Nat] : MoveUp(n, w, f)
        BY <2>4
  <2>6. /\ WayInv(n)' /\ InLine(n)' = InLine(n) \ {w}
        /\ Before(n)' = {p \in Before(n) : p[1] # w /\ p[2] # w}
        BY <2>5, <1>1, Moved
  <2>7. QED BY <2>6, <1>0, <1>1, LineStep
<1>3. QED BY <1>1, <1>2

\* All that is in the batch is written or lost.
LEMMA FlushStep ==
    ASSUME OrderInv, TypeOK', NEW failed \in SUBSET Names, pending' = None0,
           UNCHANGED <<queue, hand, pc, snap, made>>,
           \A n \in Names : row'[n] =
               IF pending[n] = None \/ row[n] = None \/ n \in failed THEN row[n] ELSE pending[n]
    PROVE  SnapsInv' /\ \A n \in Names : WayInv(n)' /\ InOrderStep(n)
<1>1. /\ SnapsInv' /\ \A n \in Names : OnlyNewSnaps(n)
      /\ \A n \in Names : Fresh(n)' = Fresh(n) /\ HandedBy(n, Writing)' = HandedBy(n, Writing)
      BY SameHands
<1> DEFINE f == [k \in Nat |-> k]
<1>2. f \in [Nat -> Nat] /\ \A k \in Nat : f[k] = k
      OBVIOUS
<1> HIDE DEF f
<1>3. ASSUME NEW n \in Names PROVE WayInv(n)' /\ InOrderStep(n)
  <2>1. \A k \in Nat : \A v : At(k, n, v) =>
            v \in Nat /\ \A j \in Nat : At(j, n, v) => j = k
        BY LineIsAt DEF LineAt, OrderInv, WayInv
  <2>2. PICK w : w = pending[n]
        OBVIOUS
  <2>3. /\ \A v : At(0, n, v) <=> w # None /\ v = w
        /\ \A v : ~At(0, n, v)'
        BY <2>2 DEF At, None0
  <2>4. \A k \in Nat : \A v : k > 0 => (At(k, n, v)' <=> At(k, n, v))
        BY DEF At
  <2>5. \A k \in Nat : \A v : At(k, n, v) /\ k # 0 => v # w
        BY <2>1, <2>3, NoneAssumption
  <2>6. \A k \in Nat : \A v : At(k, n, v)' <=> At(k, n, v) /\ k # 0
        BY <2>3, <2>4
  <2>7. MoveUp(n, w, f)
        BY <1>2, <2>3, <2>5, <2>6 DEF MoveUp
  <2>8. /\ WayInv(n)' /\ InLine(n)' = InLine(n) \ {w}
        /\ Before(n)' = {p \in Before(n) : p[1] # w /\ p[2] # w}
        BY <2>7, <1>1, <1>2, Moved
  <2>9. CASE pending[n] = None \/ n \in failed
    <3>1. row'[n] = row[n]
          BY <2>9
    <3>2. QED BY <3>1, <2>8, <1>1, LineStep
  <2>10. CASE pending[n] # None /\ n \notin failed
    <3>1. row'[n] = IF row[n] = None THEN None ELSE w
          BY <2>10, <2>2
    <3>2. At(0, n, w)
          BY <2>10, <2>2, <2>3
    <3>3. w \in InLine(n)
          BY <3>2, LineIsAt DEF LineAt, OrderInv
    <3>4. ASSUME NEW u, <<u, w>> \in Before(n) PROVE FALSE
      <4>1. PICK j, k, x, y \in Nat : j < k /\ At(k, n, y) /\ <<u, w>> = <<x, y>>
            BY <3>4, LineIsAt DEF LineAt, OrderInv
      <4>2. k = 0
            BY <4>1, <3>2, <2>1
      <4>3. QED BY <4>1, <4>2
    <3>5. QED BY <3>1, <3>3, <3>4, <2>8, <1>1, LineStep
  <2>11. QED BY <2>8, <2>9, <2>10
<1>4. QED BY <1>1, <1>3

LEMMA BatchStep ==
    ASSUME OrderInv, TypeOK', Batch
    PROVE  SnapsInv' /\ \A n \in Names : WayInv(n)' /\ InOrderStep(n)
<1>1. CASE Receive
      BY <1>1, ReceiveStep
<1>2. CASE Judge
      BY <1>2, JudgeStep
<1>3. CASE Tick \/ StopLoop
  <2>1. UNCHANGED <<queue, hand, pending, row, pc, snap, made>>
        BY <1>3 DEF Tick, StopLoop, writers
  <2>2. QED BY <2>1, SameAll
<1>4. CASE Flush
  <2>1. /\ pending' = None0 /\ UNCHANGED <<queue, hand, pc, snap, made>>
        /\ \A n \in Names : row'[n] =
               IF pending[n] = None \/ row[n] = None \/ n \in {} THEN row[n] ELSE pending[n]
        BY <1>4 DEF Flush, writers
  <2>2. {} \in SUBSET Names
        OBVIOUS
  <2>3. QED BY <2>1, <2>2, FlushStep
<1>5. ASSUME NEW failed \in SUBSET Names, FlushFails(failed)
      PROVE  SnapsInv' /\ \A n \in Names : WayInv(n)' /\ InOrderStep(n)
  <2>1. /\ pending' = None0 /\ UNCHANGED <<queue, hand, pc, snap, made>>
        /\ \A n \in Names : row'[n] =
               IF pending[n] = None \/ row[n] = None \/ n \in failed THEN row[n] ELSE pending[n]
        BY <1>5 DEF FlushFails, writers
  <2>2. QED BY <2>1, FlushStep
<1>6. QED BY <1>1, <1>2, <1>3, <1>4, <1>5 DEF Batch

-----------------------------------------------------------------------------
(* Requests and the process. *)

LEMMA UpsertStep ==
    ASSUME OrderInv, TypeOK', NEW m \in Names, NEW c \in Controllers, UpsertContainer(m, c)
    PROVE  SnapsInv' /\ \A n \in Names : WayInv(n)' /\ InOrderStep(n)
<1>0. /\ UNCHANGED <<queue, hand, pending, snap, made>> /\ pc[c] = "unborn" /\ Goto(c, "running")
      /\ \/ UNCHANGED row
         \/ row[m] = None /\ row' = [row EXCEPT ![m] = 0]
      BY DEF UpsertContainer, batcher
<1>1. \A d \in Controllers : (Active(d) \/ Active(d)') => pc'[d] = pc[d]
      BY <1>0 DEF Goto, Active, Busy, OrderInv, TypeOK
<1>2. /\ SnapsInv' /\ \A n \in Names : OnlyNewSnaps(n)
      /\ \A n \in Names : Fresh(n)' = Fresh(n) /\ HandedBy(n, Writing)' = HandedBy(n, Writing)
      BY <1>0, <1>1, SameHands
<1>3. \A n \in Names : WayInv(n)' /\ InLine(n)' = InLine(n) /\ Before(n)' = Before(n)
      BY <1>0, <1>2, SameLine
<1>4. ASSUME NEW n \in Names PROVE InOrderStep(n)
  <2>1. CASE row'[n] = row[n]
        BY <2>1, <1>2, <1>3, InHandStep
  <2>2. CASE row'[n] # row[n]
    <3>1. row[n] = None /\ row'[n] = 0
          BY <2>2, <1>0 DEF OrderInv, TypeOK
    <3>2. Line(n)!Insert
          BY <3>1, <1>2, <1>3 DEF Line!Insert, Writing
    <3>3. QED BY <3>2 DEF InOrderStep, Line!Next
  <2>3. QED BY <2>1, <2>2
<1>5. QED BY <1>2, <1>3, <1>4

LEMMA DeleteStep ==
    ASSUME OrderInv, TypeOK', NEW m \in Names, DeleteContainer(m)
    PROVE  SnapsInv' /\ \A n \in Names : WayInv(n)' /\ InOrderStep(n)
<1>0. /\ UNCHANGED <<queue, hand, pending, pc, snap, made>>
      /\ row' \in {row, [row EXCEPT ![m] = None]}
      BY DEF DeleteContainer, batcher, writers
<1>1. /\ SnapsInv' /\ \A n \in Names : OnlyNewSnaps(n)
      /\ \A n \in Names : Fresh(n)' = Fresh(n) /\ HandedBy(n, Writing)' = HandedBy(n, Writing)
      BY <1>0, SameHands
<1>2. \A n \in Names : WayInv(n)' /\ InLine(n)' = InLine(n) /\ Before(n)' = Before(n)
      BY <1>0, <1>1, SameLine
<1>3. ASSUME NEW n \in Names PROVE InOrderStep(n)
  <2>1. CASE row'[n] = row[n]
        BY <2>1, <1>1, <1>2, InHandStep
  <2>2. CASE row'[n] # row[n]
    <3>1. row'[n] = None
          BY <2>2, <1>0 DEF OrderInv, TypeOK
    <3>2. Line(n)!Delete
          BY <3>1, <1>1, <1>2 DEF Line!Delete, Writing
    <3>3. QED BY <3>2 DEF InOrderStep, Line!Next
  <2>3. QED BY <2>1, <2>2
<1>4. QED BY <1>1, <1>2, <1>3

\* With the process all that was under way is lost.
LEMMA RestartStep ==
    ASSUME OrderInv, TypeOK', Restart
    PROVE  SnapsInv' /\ \A n \in Names : WayInv(n)' /\ InOrderStep(n)
<1>0. /\ \A c \in Controllers : ~Active(c)'
      /\ queue' = <<>> /\ hand' = None /\ pending' = None0 /\ UNCHANGED <<made, row>>
      BY DEF Restart, Active, Busy
<1>1. SnapsInv'
      BY <1>0 DEF OrderInv, SnapsInv
<1>2. ASSUME NEW n \in Names PROVE WayInv(n)' /\ InOrderStep(n)
  <2>1. \A k \in Nat : \A v : ~At(k, n, v)'
        BY <1>0 DEF At, None0
  <2>2. WayInv(n)'
        BY <2>1 DEF WayInv
  <2>3. InLine(n)' = {} /\ Before(n)' = {}
        BY <2>1, NextLineIsAt DEF LineAt
  <2>4. HandedBy(n, Writing)' = {} /\ HandedBy(n, Queueing)' = {}
        BY <1>0 DEF HandedBy, Writing, Queueing, Active, Busy
  <2>5. Fresh(n)' \subseteq Fresh(n)
        BY <2>4, <1>0 DEF Fresh, Queueing
  <2>6. Line(n)!Lose
        BY <2>3, <2>4, <2>5, <1>0 DEF Line!Lose, Writing
  <2>7. QED BY <2>2, <2>6 DEF InOrderStep, Line!Next
<1>3. QED BY <1>1, <1>2

-----------------------------------------------------------------------------
LEMMA InitInOrder ==
    ASSUME Init
    PROVE  OrderInv /\ \A n \in Names : Line(n)!Init
<1>1. TypeOK
      BY Typed
<1>2. SnapsInv
      BY SizeAssumption DEF Init, SnapsInv, Active, Busy
<1>3. DOMAIN queue = {} /\ hand = None /\ pending = None0 /\ row = None0
      BY DEF Init
<1>4. ASSUME NEW n \in Names PROVE WayInv(n) /\ Line(n)!Init
  <2>1. \A k \in Nat : \A v : ~At(k, n, v)
        BY <1>3 DEF At, None0
  <2>2. WayInv(n)
        BY <2>1 DEF WayInv
  <2>3. InLine(n) = {} /\ Before(n) = {}
        BY <2>1, <1>1, LineIsAt DEF LineAt
  <2>4. HandedBy(n, {"queueing"}) = {} /\ HandedBy(n, {"writing", "finishing"}) = {}
        BY DEF Init, HandedBy
  <2>5. Fresh(n) = 1..MaxSnaps[n]
        BY <2>4, SizeAssumption DEF Init, Fresh
  <2>6. row[n] = None
        BY <1>3 DEF None0
  <2>7. QED BY <2>2, <2>3, <2>4, <2>5, <2>6 DEF Line!Init
<1>5. QED BY <1>1, <1>2, <1>4 DEF OrderInv

LEMMA StepInOrder ==
    ASSUME OrderInv, [Next]_vars
    PROVE  OrderInv' /\ \A n \in Names : UNCHANGED Line(n)!vars \/ Line(n)!Next
<1>1. TypeOK'
      BY Typed DEF OrderInv
<1>2. SnapsInv' /\ \A n \in Names : WayInv(n)' /\ InOrderStep(n)
  <2>1. CASE UNCHANGED vars \/ Close \/ CloseDB
    <3>1. UNCHANGED <<queue, hand, pending, row, pc, snap, made>>
          BY <2>1 DEF vars, writers, batcher, Close, CloseDB
    <3>2. QED BY <3>1, <1>1, SameAll
  <2>2. ASSUME NEW n \in Names, UpsertFails(n) \/ DropRuntime(n)
        PROVE  SnapsInv' /\ \A m \in Names : WayInv(m)' /\ InOrderStep(m)
    <3>1. UNCHANGED <<queue, hand, pending, row, pc, snap, made>>
          BY <2>2 DEF UpsertFails, DropRuntime, writers, batcher
    <3>2. QED BY <3>1, <1>1, SameAll
  <2>3. ASSUME NEW n \in Names, Register(n) \/ Unregister(n)
        PROVE  SnapsInv' /\ \A m \in Names : WayInv(m)' /\ InOrderStep(m)
        BY <2>2, <2>3, <1>1, UpsertStep, DeleteStep DEF Register, Unregister
  <2>4. CASE Next
        BY <2>1, <2>3, <2>4, <1>1, HandStep, BatchStep, RestartStep DEF Next
  <2>5. QED BY <2>1, <2>4
<1>3. QED BY <1>1, <1>2 DEF OrderInv, InOrderStep

\* The snapshots of every container reach its row in the order in which they were queued,
\* each at most once, and beside them only direct writes, each once, for any number of
\* controllers and any capacity (sqlite.go:388-398, 427-494): Store implements
\* SnapshotLine.
THEOREM InOrderHolds == Spec => InOrder
<1>1. Init => OrderInv /\ \A n \in Names : Line(n)!Init
      BY InitInOrder
<1>2. OrderInv /\ [Next]_vars => OrderInv' /\ [\A n \in Names : UNCHANGED Line(n)!vars \/ Line(n)!Next]_vars
      BY StepInOrder
<1>3. QED BY <1>1, <1>2, PTL DEF Spec, InOrder
=============================================================================
