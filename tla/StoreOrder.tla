------------------------------- MODULE StoreOrder -------------------------------
(***************************************************************************)
(* Store implements SnapshotLine, for each container by itself.            *)
(***************************************************************************)
EXTENDS Store

\* The queued snapshots on their way to the row of n, each with its place: the batch, the
\* hand, the queue from its head.
Way(n) ==
    {<<0, v>> : v \in {pending[n]} \ {None}}
    \cup {<<1, s.ver>> : s \in {t \in {hand} \ {None} : t.name = n}}
    \cup {<<i + 1, queue[i].ver>> : i \in {j \in DOMAIN queue : queue[j].name = n}}

InLine(n) == {w[2] : w \in Way(n)}
Before(n) ==
    {<<p[1][2], p[2][2]>> : p \in {q \in Way(n) \X Way(n) : q[1][1] < q[2][1]}}

HandedBy(n, places) == {snap[c] : c \in {d \in Controllers : pc[d] \in places /\ NameOf[d] = n}}
Fresh(n) == ((made[n] + 1)..MaxSnaps[n]) \cup HandedBy(n, {"queueing"})

Line(n) == INSTANCE SnapshotLine WITH
    Versions <- 1..MaxSnaps[n],
    fresh <- Fresh(n),
    line <- InLine(n),
    before <- Before(n),
    held <- HandedBy(n, {"writing", "finishing"}),
    row <- row[n]

\* The snapshots of a container reach its row in the order in which they were queued,
\* each at most once, and nothing else does but direct writes, each once: whatever is
\* flushed, dropped, lost or restarted (sqlite.go:388-398, 427-494).
\* This is \A n \in Names : Line(n)!Spec, in the form TLC takes.
InOrder ==
    /\ \A n \in Names : Line(n)!Init
    /\ [][\A n \in Names : UNCHANGED Line(n)!vars \/ Line(n)!Next]_vars
=============================================================================
