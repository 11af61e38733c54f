----------------------------- MODULE RegistryProofs -----------------------------
(***************************************************************************)
(* Machine-checked proofs about Registry, for any number of requests and   *)
(* controllers.                                                            *)
(***************************************************************************)
EXTENDS Registry, TLAPS

\* The state a goroutine goes to is one of its states.
PCs == {"unborn", "running", "stopped", "list", "idle", "done", "failed",
        "allow", "insert", "ensure", "install", "remove", "drop", "delete"}

\* Moving one goroutine moves no other.
LEMMA GotoMoves ==
    ASSUME NEW p \in Procs, NEW l \in PCs, pc \in [Procs -> PCs], Goto(p, l)
    PROVE  /\ pc' \in [Procs -> PCs] /\ pc'[p] = l
           /\ \A q \in Procs \ {p} : pc'[q] = pc[q]
BY DEF Goto

\* Only a controller's own inspection or its birth sets its count of failures free.
Counting ==
    \A c \in Controllers : pc[c] \in {"unborn", "running"} => fails[c] < maxInspectFailures

\* Every step of a request, a controller and the process keeps the types.
LEMMA TypeStep == TypeOK /\ [Next]_vars => TypeOK'
<1> SUFFICES ASSUME TypeOK, [Next]_vars PROVE TypeOK'
    OBVIOUS
<1> USE DEF rows, bounds, process
<1>0. /\ pc \in [Procs -> PCs] /\ cfg \in [Procs -> Cfgs \cup {None}]
      /\ Actors \subseteq Procs /\ Controllers \subseteq Procs /\ Requests \subseteq Actors
      /\ fails \in [Controllers -> 0..maxInspectFailures] /\ Counting
      BY DEF TypeOK, PCs, Procs, Actors, Counting
<1>a. ASSUME NEW p \in Procs, NEW l \in PCs \ {"unborn", "running"}, Goto(p, l), fails' = fails
      PROVE  pc' \in [Procs -> PCs] /\ Counting'
  <2>1. /\ pc' \in [Procs -> PCs] /\ pc'[p] = l
        /\ \A q \in Procs \ {p} : pc'[q] = pc[q]
        BY <1>0, <1>a, GotoMoves
  <2>2. QED BY <2>1, <1>0, <1>a DEF Counting
<1>b. ASSUME pc' \in [Procs -> PCs], Counting',
             UNCHANGED <<cancelled, fails, controllers, rows, dropped, bounds, process>>,
             cfg' \in [Procs -> Cfgs \cup {None}]
      PROVE  TypeOK'
      BY <1>b DEF TypeOK, Counting, PCs
<1>1. ASSUME NEW r \in Requests, PostContainer(r) PROVE TypeOK'
  <2>1. cfg' \in [Procs -> Cfgs \cup {None}]
        BY <1>0, <1>1 DEF PostContainer
  <2>2. pc' \in [Procs -> PCs] /\ Counting'
        BY <1>0, <1>1, <1>a DEF PostContainer, PCs
  <2>3. QED BY <2>1, <2>2, <1>1, <1>b DEF PostContainer
<1>2. ASSUME NEW r \in Requests, DeleteRequest(r) PROVE TypeOK'
  <2>1. pc' \in [Procs -> PCs] /\ Counting'
        BY <1>0, <1>2, <1>a DEF DeleteRequest, PCs
  <2>2. QED BY <2>1, <1>2 DEF DeleteRequest, TypeOK, Counting, PCs
<1>3. ASSUME NEW p \in Actors, ReadConfig(p) PROVE TypeOK'
  <2>1. cfg' \in [Procs -> Cfgs \cup {None}]
        BY <1>0, <1>3 DEF ReadConfig, TypeOK
  <2>2. pc' \in [Procs -> PCs] /\ Counting'
        BY <1>0, <1>3, <1>a DEF ReadConfig, PCs
  <2>3. QED BY <2>1, <2>2, <1>3, <1>b DEF ReadConfig
<1>4. ASSUME NEW p \in Actors, Upsert(p) PROVE TypeOK'
  <2>1. pc' \in [Procs -> PCs] /\ Counting'
        BY <1>0, <1>4, <1>a DEF Upsert, allowRuntime, InsertContainer, EnsureRuntime, ForeignKeyFails, PCs
  <2>2. cfg[p] \in Cfgs \cup {None}
        BY <1>0
  <2>3. QED
        BY <2>1, <2>2, <1>4
        DEF Upsert, allowRuntime, InsertContainer, EnsureRuntime, ForeignKeyFails, TypeOK, Counting, PCs
<1>5. ASSUME NEW p \in Actors, NEW c \in Controllers, Install(p, c) PROVE TypeOK'
  <2>1. cfg' \in [Procs -> Cfgs \cup {None}] /\ pc' \in [Procs -> PCs]
        BY <1>0, <1>5 DEF Install, PCs
  <2>2. Counting'
        BY <1>0, <1>5 DEF Install, Counting
  <2>3. cancelled' \subseteq Controllers /\ controllers' \in Controllers
        BY <1>5 DEF Install, TypeOK
  <2>4. QED BY <2>1, <2>2, <2>3, <1>5 DEF Install, TypeOK, Counting, PCs
<1>6. ASSUME NEW p \in Procs, Unregister(p) PROVE TypeOK'
  <2>1. pc' \in [Procs -> PCs] /\ Counting'
        BY <1>0, <1>6, <1>a DEF Unregister, Remove, DropRuntime, DeleteContainer, Finished, PCs
  <2>2. cancelled' \subseteq Controllers /\ controllers' \in Controllers \cup {None}
        BY <1>6 DEF Unregister, Remove, DropRuntime, DeleteContainer, TypeOK
  <2>3. QED
        BY <2>1, <2>2, <1>6
        DEF Unregister, Remove, DropRuntime, DeleteContainer, TypeOK, Counting, PCs
<1>7. ASSUME NEW p \in Procs, SQLiteFails(p) PROVE TypeOK'
  <2>1. pc' \in [Procs -> PCs] /\ Counting'
        BY <1>0, <1>7, <1>a DEF SQLiteFails, StatementFails, PCs
  <2>2. broken' \in Nat /\ refused' \in Nat /\ refused' + broken' <= MaxFaults
        BY <1>7, BoundAssumption DEF SQLiteFails, StatementFails, TypeOK
  <2>3. QED BY <2>1, <2>2, <1>7 DEF SQLiteFails, StatementFails, TypeOK, Counting, PCs
<1>8. ASSUME NEW c \in Controllers, Controller(c) PROVE TypeOK'
  <2>1. CASE InspectSucceeds(c)
        BY <2>1, <1>0 DEF InspectSucceeds, TypeOK, maxInspectFailures
  <2>2. CASE InspectFails(c)
    <3>1. fails[c] \in 0..2 /\ fails'[c] = fails[c] + 1
          BY <2>2, <1>0 DEF InspectFails, Counting, maxInspectFailures
    <3>2. fails' \in [Controllers -> 0..maxInspectFailures]
          BY <2>2, <1>0, <3>1 DEF InspectFails, maxInspectFailures
    <3>3. pc' \in [Procs -> PCs]
          BY <2>2, <1>0, GotoMoves DEF InspectFails, PCs
    <3>4. Counting'
      <4> SUFFICES ASSUME NEW d \in Controllers, pc'[d] \in {"unborn", "running"}
                   PROVE  fails'[d] < maxInspectFailures
          BY DEF Counting
      <4>1. CASE d = c
            BY <4>1, <2>2, <1>0, <3>1 DEF InspectFails, Goto, maxInspectFailures
      <4>2. CASE d # c
            BY <4>2, <2>2, <1>0 DEF InspectFails, Goto, Counting
      <4>3. QED BY <4>1, <4>2
    <3>5. refused' \in Nat /\ broken' \in Nat /\ refused' + broken' <= MaxFaults
          BY <2>2, BoundAssumption DEF InspectFails, TypeOK
    <3>6. QED BY <2>2, <3>2, <3>3, <3>4, <3>5 DEF InspectFails, TypeOK, Counting, PCs
  <2>3. CASE Stop(c)
    <3>1. pc' \in [Procs -> PCs] /\ Counting'
          BY <1>0, <2>3, <1>a DEF Stop, PCs
    <3>2. QED BY <3>1, <2>3, <1>0, <1>b DEF Stop
  <2>4. QED BY <1>8, <2>1, <2>2, <2>3 DEF Controller
<1>9. CASE StopAll
      BY <1>9 DEF StopAll, TypeOK
<1>10. CASE Restart
  <2>1. pc' \in [Procs -> PCs]
        BY <1>0, <1>10 DEF Restart, PCs
  <2>2. Counting'
        BY <1>0, <1>10, IdentityAssumption DEF Restart, Counting
  <2>3. restarts' \in 0..MaxRestarts
        BY <1>10, BoundAssumption DEF Restart, TypeOK
  <2>4. QED BY <2>1, <2>2, <2>3, <1>10 DEF Restart, TypeOK, Counting, PCs
<1>11. CASE UNCHANGED vars
      BY <1>11 DEF vars, TypeOK
<1>12. QED
      BY <1>1, <1>2, <1>3, <1>4, <1>5, <1>6, <1>7, <1>8, <1>9, <1>10, <1>11 DEF Next

\* The type invariant.
THEOREM TypeCorrect == Spec => []TypeOK
<1>1. Init => TypeOK
  <2> SUFFICES ASSUME Init PROVE TypeOK
      OBVIOUS
  <2>1. /\ pc \in [Procs -> {"unborn", "list", "idle"}]
        /\ cfg \in [Procs -> Cfgs \cup {None}]
        BY DEF Init
  <2>2. fails \in [Controllers -> {0}]
        BY DEF Init
  <2>3. /\ fails \in [Controllers -> 0..maxInspectFailures]
        /\ \A c \in Controllers : fails[c] < maxInspectFailures
        BY <2>2 DEF maxInspectFailures
  <2>4. refused + broken <= MaxFaults /\ restarts \in 0..MaxRestarts
        BY BoundAssumption DEF Init
  <2>5. QED BY <2>1, <2>3, <2>4 DEF Init, TypeOK
<1>2. QED BY <1>1, TypeStep, PTL DEF Spec

-----------------------------------------------------------------------------
\* The map is replaced and the old controller cancelled under one mutex.
LEMMA OneControllerStep == TypeOK /\ OneController /\ [Next]_vars => OneController'
<1> SUFFICES ASSUME TypeOK, OneController, [Next]_vars,
                    NEW d \in Controllers, pc'[d] = "running", d \notin cancelled'
             PROVE  d = controllers'
    BY DEF OneController
<1> USE DEF OneController
<1>0. /\ pc \in [Procs -> PCs] /\ Actors \subseteq Procs /\ Controllers \subseteq Procs
      /\ Requests \subseteq Actors
      BY DEF TypeOK, PCs, Procs, Actors
<1>a. ASSUME NEW p \in Procs, NEW l \in PCs \ {"running"}, Goto(p, l)
      PROVE  pc[d] = "running"
      BY <1>0, <1>a, GotoMoves
<1>1. ASSUME NEW r \in Requests, PostContainer(r) \/ DeleteRequest(r) PROVE d = controllers'
      BY <1>0, <1>1, <1>a DEF PostContainer, DeleteRequest, PCs
<1>2. ASSUME NEW p \in Actors, ReadConfig(p) PROVE d = controllers'
      BY <1>0, <1>2, <1>a DEF ReadConfig, PCs
<1>3. ASSUME NEW p \in Actors, Upsert(p) PROVE d = controllers'
      BY <1>0, <1>3, <1>a
      DEF Upsert, allowRuntime, InsertContainer, EnsureRuntime, ForeignKeyFails, PCs
<1>4. ASSUME NEW p \in Actors, NEW c \in Controllers, Install(p, c) PROVE d = controllers'
  <2>1. CASE d = c
        BY <2>1, <1>4 DEF Install
  <2>2. CASE d # c
    <3>1. pc[d] = "running"
          BY <2>2, <1>4, <1>0 DEF Install
    <3>2. d \notin cancelled /\ d \notin {controllers} \ {None}
          BY <1>4 DEF Install
    <3>3. QED BY <3>1, <3>2, IdentityAssumption
  <2>3. QED BY <2>1, <2>2
<1>5. ASSUME NEW p \in Procs, Unregister(p) PROVE d = controllers'
  <2>1. pc[d] = "running"
        BY <1>0, <1>5, <1>a
        DEF Unregister, Remove, DropRuntime, DeleteContainer, Finished, PCs
  <2>2. CASE Remove(p)
        BY <2>1, <2>2, IdentityAssumption DEF Remove
  <2>3. CASE DropRuntime(p) \/ DeleteContainer(p)
        BY <2>1, <2>3 DEF DropRuntime, DeleteContainer
  <2>4. QED BY <1>5, <2>2, <2>3 DEF Unregister
<1>6. ASSUME NEW p \in Procs, SQLiteFails(p) PROVE d = controllers'
      BY <1>0, <1>6, <1>a DEF SQLiteFails, StatementFails, PCs
<1>7. ASSUME NEW c \in Controllers, Controller(c) PROVE d = controllers'
  <2>1. pc[d] = "running"
        BY <1>0, <1>7, <1>a DEF Controller, InspectSucceeds, InspectFails, Stop, PCs
  <2>2. QED BY <2>1, <1>7 DEF Controller, InspectSucceeds, InspectFails, Stop
<1>8. CASE StopAll
      BY <1>8, IdentityAssumption DEF StopAll
<1>9. CASE Restart
      BY <1>9, <1>0, IdentityAssumption DEF Restart
<1>10. CASE UNCHANGED vars
      BY <1>10 DEF vars
<1>11. QED
      BY <1>1, <1>2, <1>3, <1>4, <1>5, <1>6, <1>7, <1>8, <1>9, <1>10 DEF Next

\* At most one controller of the container is not cancelled.
THEOREM OneControllerHolds == Spec => []OneController
<1>1. Init => OneController
      BY DEF Init, OneController, Procs
<1>2. QED BY <1>1, OneControllerStep, TypeCorrect, PTL DEF Spec

-----------------------------------------------------------------------------
(***************************************************************************)
(* ListedIsServed speaks of quiet states; what holds in every state is     *)
(* that a listed container without a controller has a caller at work that  *)
(* is about to give it one or to delete its row.                           *)
(***************************************************************************)
Pending == \E p \in Procs : pc[p] \in {"ensure", "install", "drop", "delete"}

ServedOrPending ==
    broken = 0 /\ Listening /\ ~stopping /\ Listed => controllers # None \/ Pending

\* A step that ends a call leaves a controller, or no row, or a failure.
LEMMA ServedStep == TypeOK /\ ServedOrPending /\ [Next]_vars => ServedOrPending'
<1> SUFFICES ASSUME TypeOK, ServedOrPending, [Next]_vars,
                    broken' = 0, Listening', ~stopping', Listed', controllers' = None
             PROVE  Pending'
    BY DEF ServedOrPending
<1> USE DEF rows, bounds, process
<1>0. /\ pc \in [Procs -> PCs] /\ Actors \subseteq Procs /\ Controllers \subseteq Procs
      /\ Requests \subseteq Actors /\ Boot \in Procs
      BY DEF TypeOK, PCs, Procs, Actors
<1>a. ASSUME NEW p \in Procs, NEW l \in PCs, Goto(p, l),
             pc[p] \notin {"ensure", "install", "drop", "delete"}, Pending
      PROVE  Pending'
      BY <1>0, <1>a, GotoMoves DEF Pending
<1>b. ASSUME NEW p \in Procs, NEW l \in {"ensure", "install", "drop", "delete"}, Goto(p, l)
      PROVE  Pending'
      BY <1>0, <1>b, GotoMoves DEF Pending, PCs
<1>c. ASSUME NEW p \in Procs, NEW l \in PCs \ {"done", "failed"}, Goto(p, l)
      PROVE  Listening
      BY <1>0, <1>c, GotoMoves DEF Listening
<1>1. ASSUME NEW r \in Requests, PostContainer(r) \/ DeleteRequest(r) PROVE Pending'
  <2>1. Pending
        BY <1>1 DEF PostContainer, DeleteRequest, ServedOrPending, Listed
  <2>2. QED BY <2>1, <1>0, <1>1, <1>a DEF PostContainer, DeleteRequest, PCs
<1>2. ASSUME NEW p \in Actors, ReadConfig(p) PROVE Pending'
  <2>1. Listed /\ Goto(p, "allow")
        BY <1>2 DEF ReadConfig, Listed
  <2>2. Pending
        BY <2>1, <1>0, <1>2, <1>c DEF ReadConfig, ServedOrPending, PCs
  <2>3. QED BY <2>1, <2>2, <1>0, <1>2, <1>a DEF ReadConfig, PCs
<1>3. ASSUME NEW p \in Actors, Upsert(p) PROVE Pending'
  <2>1. CASE allowRuntime(p)
    <3>1. Pending
          BY <2>1, <1>0, <1>c DEF allowRuntime, ServedOrPending, Listed, PCs
    <3>2. QED BY <3>1, <2>1, <1>0, <1>a DEF allowRuntime, PCs
  <2>2. CASE InsertContainer(p) \/ EnsureRuntime(p)
        BY <2>2, <1>0, <1>b DEF InsertContainer, EnsureRuntime
  <2>3. CASE ForeignKeyFails(p)
        BY <2>3 DEF ForeignKeyFails, Listed
  <2>4. QED BY <1>3, <2>1, <2>2, <2>3 DEF Upsert
<1>4. ASSUME NEW p \in Actors, NEW c \in Controllers, Install(p, c) PROVE Pending'
      BY <1>4, IdentityAssumption DEF Install
<1>5. ASSUME NEW p \in Procs, Unregister(p) PROVE Pending'
  <2>1. CASE Remove(p) \/ DropRuntime(p)
        BY <2>1, <1>0, <1>b DEF Remove, DropRuntime
  <2>2. CASE DeleteContainer(p)
        BY <2>2 DEF DeleteContainer, Listed
  <2>3. QED BY <1>5, <2>1, <2>2 DEF Unregister
<1>6. ASSUME NEW p \in Procs, SQLiteFails(p) PROVE Pending'
      BY <1>6 DEF SQLiteFails, StatementFails, TypeOK
<1>7. ASSUME NEW c \in Controllers, Controller(c) PROVE Pending'
  <2>1. Boot # c
        BY IdentityAssumption
  <2>2. Listening /\ pc[c] = "running"
    <3>1. pc'[Boot] = pc[Boot]
          BY <1>0, <1>7, <2>1
          DEF Controller, InspectSucceeds, InspectFails, Stop, Goto
    <3>2. pc[c] = "running"
          BY <1>7 DEF Controller, InspectSucceeds, InspectFails, Stop
    <3>3. QED BY <3>1, <3>2 DEF Listening
  <2>3. Pending
        BY <2>2, <1>7
        DEF Controller, InspectSucceeds, InspectFails, Stop, ServedOrPending, Listed
  <2>4. pc' = pc \/ Goto(c, "remove") \/ Goto(c, "stopped")
        BY <1>7 DEF Controller, InspectSucceeds, InspectFails, Stop
  <2>5. CASE pc' = pc
        BY <2>3, <2>5 DEF Pending
  <2>6. QED BY <2>2, <2>3, <2>4, <2>5, <1>0, <1>a DEF PCs
<1>8. CASE StopAll
      BY <1>8 DEF StopAll
<1>9. CASE Restart
      BY <1>9, <1>0 DEF Restart, Listening
<1>10. CASE UNCHANGED vars
      BY <1>10 DEF vars, ServedOrPending, Listening, Listed, Pending
<1>11. QED
      BY <1>1, <1>2, <1>3, <1>4, <1>5, <1>6, <1>7, <1>8, <1>9, <1>10 DEF Next

\* When no call is under way or failed, a listed container has a controller.
THEOREM ListedIsServedHolds == Spec => []ListedIsServed
<1>1. Init => ServedOrPending
      BY DEF Init, ServedOrPending, Listed
<1>2. ServedOrPending => ListedIsServed
      BY DEF ServedOrPending, ListedIsServed, Pending, Busy
<1>3. QED BY <1>1, <1>2, ServedStep, TypeCorrect, PTL DEF Spec
=============================================================================
