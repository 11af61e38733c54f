---------------------------------- MODULE Store ----------------------------------
(***************************************************************************)
(* How a runtime snapshot reaches SQLite (internal/store/sqlite.go): a     *)
(* controller queues one every ten seconds and writes its last one         *)
(* directly; a goroutine collects the queued ones, one per name, and       *)
(* writes them in one transaction.  Controllers of several names, and a    *)
(* replaced controller beside its successor, share the queue.  Module      *)
(* Registry has the requests in full; here a name is registered and        *)
(* unregistered by one call at a time.                                     *)
(*                                                                         *)
(* A snapshot is its name and its version, counted per name; 0 is the row  *)
(* that a registration inserts.                                            *)
(***************************************************************************)
EXTENDS Naturals, Sequences, FiniteSets

CONSTANTS
    Names,        \* containers
    Controllers,  \* the controllers that may be started, each once
    NameOf,       \* the container a controller is for
    None,         \* no row, nothing pending, nothing in hand
    QueueCap,     \* capacity of runtimeQueue
    maxBatchSize,
    MaxSnaps,     \* bound: snapshots of each container
    MaxFaults,    \* bound: failed statements and transactions, and restarts
    MaxDrops      \* bound: deletions

ASSUME NamesAssumption == NameOf \in [Controllers -> Names]
ASSUME NoneAssumption == None \notin Nat /\ None \notin [name : Names, ver : Nat]
ASSUME SizeAssumption ==
    /\ QueueCap \in Nat \ {0} /\ maxBatchSize \in Nat \ {0}
    /\ MaxSnaps \in [Names -> Nat] /\ MaxFaults \in Nat /\ MaxDrops \in Nat

VARIABLES
    pc,        \* where a controller is
    snap,      \* the version of the snapshot it hands over
    queue,     \* runtimeQueue
    loop,      \* where runtimeBatchLoop is
    hand,      \* the snapshot it received and has not judged
    pending,   \* pending: the version to be written, by name
    dropped,   \* droppedRuntimes
    row,       \* container_runtime: the version a row holds
    deleting,  \* Unregister has dropped the name and not yet deleted its rows
    db,        \* "open", then Close: "stopping", then "closed"
    made, faults, drops,
    lastQueued, lastDirect, \* history: versions last queued, last written directly
    lost,      \* history: names whose newest queued snapshot will not be written
    late       \* history: batches that wrote a name since it was dropped

writers == <<pc, snap, made>>
batcher == <<loop, hand, pending>>
bounds == <<faults, drops>>
history == <<lastQueued, lastDirect, lost, late>>
vars == <<writers, queue, batcher, dropped, row, deleting, db, bounds, history>>

Snapshot == [name : Names, ver : Nat]
Just(n, v) == [name |-> n, ver |-> v]
None0 == [n \in Names |-> None]

Init ==
    /\ pc = [c \in Controllers |-> "unborn"] /\ snap = [c \in Controllers |-> 0]
    /\ made = [n \in Names |-> 0]
    /\ queue = <<>> /\ loop = "select" /\ hand = None /\ pending = None0
    /\ dropped = {} /\ row = None0 /\ deleting = [n \in Names |-> FALSE] /\ db = "open"
    /\ faults = 0 /\ drops = 0
    /\ lastQueued = [n \in Names |-> 0] /\ lastDirect = [n \in Names |-> 0]
    /\ lost = {} /\ late = [n \in Names |-> 0]

Goto(c, l) == pc' = [pc EXCEPT ![c] = l]

Fault == faults < MaxFaults /\ faults' = faults + 1 /\ UNCHANGED drops

-----------------------------------------------------------------------------
(* A controller hands over a snapshot. *)

Snap(c) ==
    LET n == NameOf[c]
    IN  /\ made[n] < MaxSnaps[n]
        /\ made' = [made EXCEPT ![n] = @ + 1]
        /\ snap' = [snap EXCEPT ![c] = made[n] + 1]

\* Back in run(), or at its end.
Returned(c) ==
    /\ Goto(c, IF pc[c] = "finishing" THEN "ended" ELSE "running")
    /\ snap' = [snap EXCEPT ![c] = 0]

\* persistTicker: QueueRuntimeUpdate looks whether the name is dropped, and ends if so.
QueueRuntimeUpdate(c) ==
    /\ pc[c] = "running" /\ NameOf[c] \notin dropped
    /\ Snap(c) /\ Goto(c, "queueing")
    /\ UNCHANGED <<queue, batcher, dropped, row, deleting, db, bounds, history>>

\* Mutant: the send waits for no room.
SendAlways(c) ==
    LET n == NameOf[c]
    IN  /\ pc[c] = "queueing"
        /\ queue' = Append(queue, Just(n, snap[c]))
        /\ lastQueued' = [lastQueued EXCEPT ![n] = snap[c]] /\ lost' = lost \ {n}
        /\ Returned(c)
        /\ UNCHANGED <<made, batcher, dropped, row, deleting, db, bounds, lastDirect, late>>

\* The case of the select that sends, when there is room.
Send(c) ==
    LET n == NameOf[c]
    IN  /\ pc[c] = "queueing" /\ Len(queue) < QueueCap
        /\ queue' = Append(queue, Just(n, snap[c]))
        /\ lastQueued' = [lastQueued EXCEPT ![n] = snap[c]] /\ lost' = lost \ {n}
        /\ Returned(c)
        /\ UNCHANGED <<made, batcher, dropped, row, deleting, db, bounds, lastDirect, late>>

\* Its default: UpdateRuntime, which looks again.
SendFull(c) ==
    /\ pc[c] = "queueing" /\ Len(queue) = QueueCap
    /\ IF NameOf[c] \in dropped THEN Returned(c) ELSE Goto(c, "writing") /\ UNCHANGED snap
    /\ UNCHANGED <<made, queue, batcher, dropped, row, deleting, db, bounds, history>>

\* ctx.Done(): UpdateRuntime with the last snapshot.
UpdateRuntime(c) ==
    /\ pc[c] = "running"
    /\ IF NameOf[c] \in dropped
         THEN Goto(c, "ended") /\ UNCHANGED <<snap, made>>
         ELSE Snap(c) /\ Goto(c, "finishing")
    /\ UNCHANGED <<queue, batcher, dropped, row, deleting, db, bounds, history>>

\* The statement: a name without a row is updated nowhere.
Write(c) ==
    LET n == NameOf[c]
    IN  /\ pc[c] \in {"writing", "finishing"} /\ db # "closed"
        /\ IF row[n] = None THEN UNCHANGED <<row, lastDirect>>
           ELSE /\ row' = [row EXCEPT ![n] = snap[c]]
                /\ lastDirect' = [lastDirect EXCEPT ![n] = snap[c]]
        /\ Returned(c)
        /\ UNCHANGED <<made, queue, batcher, dropped, deleting, db, bounds, lastQueued, lost, late>>

\* It fails, always so once the database is closed; nobody reads the error.
WriteFails(c) ==
    /\ pc[c] \in {"writing", "finishing"}
    /\ IF db = "closed" THEN UNCHANGED bounds ELSE Fault
    /\ Returned(c)
    /\ UNCHANGED <<made, queue, batcher, dropped, row, deleting, db, history>>

\* A controller that unregistered its container ends without a last snapshot.
End(c) ==
    /\ pc[c] = "running" /\ Goto(c, "ended")
    /\ UNCHANGED <<snap, made, queue, batcher, dropped, row, deleting, db, bounds, history>>

-----------------------------------------------------------------------------
(* runtimeBatchLoop. *)

Queued(n) == \E i \in DOMAIN queue : queue[i].name = n
InHand(n) == hand # None /\ hand.name = n

Receive ==
    /\ loop = "select" /\ queue # <<>>
    /\ hand' = Head(queue) /\ queue' = Tail(queue) /\ loop' = "judge"
    /\ UNCHANGED <<writers, pending, dropped, row, deleting, db, bounds, history>>

Waiting(p) == {n \in Names : p[n] # None}

\* Mutant: whether the name is dropped is left to those who queue.
JudgeTrusting ==
    /\ loop = "judge" /\ hand' = None
    /\ pending' = [pending EXCEPT ![hand.name] = hand.ver]
    /\ loop' = IF Cardinality(Waiting(pending')) >= maxBatchSize THEN "flush" ELSE "select"
    /\ UNCHANGED <<writers, queue, dropped, row, deleting, db, bounds, history>>

\* Mutant: the snapshot that came first stays.
JudgeFirst ==
    /\ loop = "judge" /\ hand' = None
    /\ IF hand.name \in dropped
         THEN /\ loop' = "select" /\ UNCHANGED pending
              /\ lost' = IF Queued(hand.name) THEN lost ELSE lost \cup {hand.name}
         ELSE /\ pending' = [pending EXCEPT ![hand.name] = IF @ = None THEN hand.ver ELSE @]
              /\ loop' = IF Cardinality(Waiting(pending')) >= maxBatchSize THEN "flush" ELSE "select"
              /\ UNCHANGED lost
    /\ UNCHANGED <<writers, queue, dropped, row, deleting, db, bounds, lastQueued, lastDirect, late>>

\* The snapshot of a dropped name is skipped, another replaces the one of its name.
Judge ==
    /\ loop = "judge" /\ hand' = None
    /\ IF hand.name \in dropped
         THEN /\ loop' = "select" /\ UNCHANGED pending
              /\ lost' = IF Queued(hand.name) THEN lost ELSE lost \cup {hand.name}
         ELSE /\ pending' = [pending EXCEPT ![hand.name] = hand.ver]
              /\ loop' = IF Cardinality(Waiting(pending')) >= maxBatchSize THEN "flush" ELSE "select"
              /\ UNCHANGED lost
    /\ UNCHANGED <<writers, queue, dropped, row, deleting, db, bounds, lastQueued, lastDirect, late>>

\* Mutant: only a full batch is written.
TickWhenFull ==
    /\ loop = "select" /\ Cardinality(Waiting(pending)) >= maxBatchSize /\ loop' = "flush"
    /\ UNCHANGED <<writers, queue, hand, pending, dropped, row, deleting, db, bounds, history>>

\* The ticker; with nothing pending, flush returns.
Tick ==
    /\ loop = "select" /\ Waiting(pending) # {} /\ loop' = "flush"
    /\ UNCHANGED <<writers, queue, hand, pending, dropped, row, deleting, db, bounds, history>>

\* runtimeStop is closed: what is still in the queue stays there.
StopLoop ==
    /\ loop = "select" /\ db = "stopping" /\ loop' = "lastflush"
    /\ UNCHANGED <<writers, queue, hand, pending, dropped, row, deleting, db, bounds, history>>

Flushed == loop' = IF loop = "flush" THEN "select" ELSE "stopped"

\* Mutant: the batch is not emptied.
FlushKeeping ==
    /\ loop \in {"flush", "lastflush"} /\ Flushed
    /\ row' = [n \in Names |->
                  IF pending[n] = None \/ row[n] = None THEN row[n] ELSE pending[n]]
    /\ late' = [n \in Names |-> IF pending[n] # None /\ n \in dropped THEN late[n] + 1 ELSE late[n]]
    /\ UNCHANGED <<writers, queue, hand, pending, dropped, deleting, db, bounds, lastQueued,
                   lastDirect, lost>>

\* One transaction for all of pending.  It does not look at droppedRuntimes.
Flush ==
    /\ loop \in {"flush", "lastflush"} /\ Flushed
    /\ row' = [n \in Names |->
                  IF pending[n] = None \/ row[n] = None THEN row[n] ELSE pending[n]]
    /\ late' = [n \in Names |-> IF pending[n] # None /\ n \in dropped THEN late[n] + 1 ELSE late[n]]
    /\ pending' = None0
    /\ UNCHANGED <<writers, queue, hand, dropped, deleting, db, bounds, lastQueued, lastDirect, lost>>

\* No transaction, a statement that fails among others, or no commit: the names of failed
\* are not written, and all of pending is forgotten.
FlushFails(failed) ==
    /\ loop \in {"flush", "lastflush"} /\ Flushed /\ Fault
    /\ failed # {} /\ failed \subseteq Waiting(pending)
    /\ row' = [n \in Names |->
                  IF pending[n] = None \/ row[n] = None \/ n \in failed THEN row[n] ELSE pending[n]]
    /\ late' = [n \in Names |->
                   IF pending[n] # None /\ n \in dropped \ failed THEN late[n] + 1 ELSE late[n]]
    /\ lost' = lost \cup {n \in failed : ~Queued(n)}
    /\ pending' = None0
    /\ UNCHANGED <<writers, queue, hand, dropped, deleting, db, lastQueued, lastDirect>>

-----------------------------------------------------------------------------
(* Registrations and deletions, as far as they touch the above. *)

\* UpsertContainer: allowRuntime, INSERT ... ON CONFLICT DO NOTHING; then the manager
\* starts a controller.
UpsertContainer(n, c) ==
    /\ ~deleting[n] /\ db # "closed"
    /\ pc[c] = "unborn" /\ NameOf[c] = n /\ Goto(c, "running")
    /\ dropped' = dropped \ {n}
    /\ IF row[n] = None
         THEN row' = [row EXCEPT ![n] = 0] /\ lastDirect' = [lastDirect EXCEPT ![n] = 0]
         ELSE UNCHANGED <<row, lastDirect>>
    /\ UNCHANGED <<snap, made, queue, batcher, deleting, db, bounds, lastQueued, lost, late>>

\* Its statement fails, after allowRuntime.
UpsertFails(n) ==
    /\ ~deleting[n] /\ Fault
    /\ dropped' = dropped \ {n}
    /\ UNCHANGED <<writers, queue, batcher, row, deleting, db, history>>

DropRuntime(n) ==
    /\ ~deleting[n]
    /\ drops < MaxDrops /\ drops' = drops + 1
    /\ dropped' = dropped \cup {n} /\ deleting' = [deleting EXCEPT ![n] = TRUE]
    /\ late' = IF n \in dropped THEN late ELSE [late EXCEPT ![n] = 0]
    /\ UNCHANGED <<writers, queue, batcher, row, db, faults, lastQueued, lastDirect, lost>>

\* The statement may fail, and the foreign key may not hold on this connection: then
\* the row stays.
DeleteContainer(n) ==
    /\ deleting[n] /\ deleting' = [deleting EXCEPT ![n] = FALSE]
    /\ row' \in {row, [row EXCEPT ![n] = None]}
    /\ UNCHANGED <<writers, queue, batcher, dropped, db, bounds, history>>

-----------------------------------------------------------------------------
(* The process. *)

\* main returns: Close, while controllers still run.
Close ==
    /\ db = "open" /\ db' = "stopping"
    /\ UNCHANGED <<writers, queue, batcher, dropped, row, deleting, bounds, history>>

\* runtimeDone is closed, then the database.
CloseDB ==
    /\ db = "stopping" /\ loop = "stopped" /\ db' = "closed"
    /\ UNCHANGED <<writers, queue, batcher, dropped, row, deleting, bounds, history>>

\* A crash, or the exit after Close; a new process.
Restart ==
    /\ Fault
    /\ pc' = [c \in Controllers |-> IF pc[c] = "unborn" THEN "unborn" ELSE "ended"]
    /\ queue' = <<>> /\ loop' = "select" /\ hand' = None /\ pending' = None0
    /\ dropped' = {} /\ deleting' = [n \in Names |-> FALSE] /\ db' = "open"
    /\ lost' = lost \cup {n \in Names : Queued(n) \/ InHand(n) \/ pending[n] # None}
    /\ late' = [n \in Names |-> 0]
    /\ snap' = [c \in Controllers |-> 0]
    /\ UNCHANGED <<made, row, lastQueued, lastDirect>>

-----------------------------------------------------------------------------
Hand(c) == QueueRuntimeUpdate(c) \/ Send(c) \/ SendFull(c) \/ UpdateRuntime(c) \/ Write(c)
              \/ WriteFails(c) \/ End(c)
Batch == Receive \/ Judge \/ Tick \/ StopLoop \/ Flush \/ \E failed \in SUBSET Names : FlushFails(failed)
Register(n) == UpsertFails(n) \/ \E c \in Controllers : UpsertContainer(n, c)
Unregister(n) == DropRuntime(n) \/ DeleteContainer(n)

Next ==
    \/ \E c \in Controllers : Hand(c)
    \/ Batch
    \/ \E n \in Names : Register(n) \/ Unregister(n)
    \/ Close \/ CloseDB \/ Restart

\* The goroutine runs; its select ignores no case that is ready again and again.
Fairness ==
    /\ WF_vars(Judge) /\ WF_vars(Flush \/ \E failed \in SUBSET Names : FlushFails(failed))
    /\ SF_vars(Receive) /\ SF_vars(Tick)

Spec == Init /\ [][Next]_vars /\ Fairness

-----------------------------------------------------------------------------
(* Properties. *)

\* Every variable keeps to its type, and the queue to its capacity.
TypeOK ==
    /\ pc \in [Controllers -> {"unborn", "running", "queueing", "writing", "finishing", "ended"}]
    /\ snap \in [Controllers -> Nat] /\ made \in [Names -> Nat]
    /\ queue \in Seq(Snapshot) /\ Len(queue) <= QueueCap
    /\ loop \in {"select", "judge", "flush", "lastflush", "stopped"}
    /\ hand \in Snapshot \cup {None} /\ (hand # None <=> loop = "judge")
    /\ pending \in [Names -> Nat \cup {None}]
    /\ dropped \subseteq Names /\ row \in [Names -> Nat \cup {None}]
    /\ deleting \in [Names -> BOOLEAN]
    /\ db \in {"open", "stopping", "closed"}
    /\ faults \in 0..MaxFaults /\ drops \in 0..MaxDrops
    /\ lastQueued \in [Names -> Nat] /\ lastDirect \in [Names -> Nat]
    /\ lost \subseteq Names /\ late \in [Names -> Nat]

UnderWay(n) == Queued(n) \/ InHand(n) \/ pending[n] # None

\* Once nothing of a container is under way, its row holds the snapshot that was queued
\* last or the one written directly last - never an older one - unless the newest queued
\* one was lost to a failed transaction, a drop or the end of the process.  Which of the
\* two it holds is not decided: a batch may overwrite a controller's final snapshot
\* (sqlite.go:388-398, 443-482).
SettledRow ==
    \A n \in Names :
        row[n] # None /\ n \notin lost /\ ~UnderWay(n) => row[n] \in {lastQueued[n], lastDirect[n]}

\* After a name was dropped at most one more batch writes its row, the one that was
\* collected before; what is still in the queue is not written (sqlite.go:472, 496-507).
OneLateBatch == \A n \in dropped : late[n] <= 1

Empty == queue = <<>> /\ hand = None /\ Waiting(pending) = {}

\* Once no controller queues any more, what was queued leaves the queue and the batch:
\* it does not wait for a batch to become full, nor for another snapshot; unless the
\* process is asked to stop (sqlite.go:466-491).
Drains ==
    <>[](\A c \in Controllers : pc[c] # "queueing") => []<>(Empty \/ db # "open")
=============================================================================
