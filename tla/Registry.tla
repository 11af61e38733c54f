-------------------------------- MODULE Registry --------------------------------
(***************************************************************************)
(* Who serves a container: the scaler manager (internal/scaler/manager.go),*)
(* the requests of the HTTP API that call it (internal/api/server.go), the *)
(* rows of one container in SQLite (internal/store/sqlite.go), and its     *)
(* controllers as far as they are started, cancelled and call Unregister   *)
(* themselves.  One container name: nothing here is shared between names   *)
(* but the mutex of the manager, which no call is made under.              *)
(***************************************************************************)
EXTENDS Naturals, FiniteSets

CONSTANTS
    Requests,    \* the requests of the API, each made once
    Boot,        \* LoadAndStart, before the API listens
    Controllers, \* the controllers that may be started, each once
    Cfgs,        \* configurations of the container
    None,        \* no configuration, no controller
    MaxFaults,   \* bound: failures of Docker and of SQLite
    MaxRestarts  \* bound: restarts of the process

ASSUME IdentityAssumption ==
    /\ Boot \notin Requests \cup Controllers /\ Requests \cap Controllers = {}
    /\ None \notin Controllers \cup Cfgs
ASSUME BoundAssumption == MaxFaults \in Nat /\ MaxRestarts \in Nat

maxInspectFailures == 3

Actors == Requests \cup {Boot}
Procs == Actors \cup Controllers

VARIABLES
    pc,           \* of every request and every controller
    cfg,          \* the configuration a request carries or a controller was given
    cancelled,    \* controllers whose context is cancelled
    fails,        \* c.inspectFailures
    controllers,  \* m.controllers: the controller of the name
    cfgRow,       \* the row of table containers
    rtRow,        \* is there a row of container_runtime?
    dropped,      \* s.droppedRuntimes
    refused,      \* inspections that Docker itself refused
    broken,       \* statements that SQLite, or a client that hung up, made fail
    restarts,
    stopping,     \* main has called StopAll and not yet exited
    asked         \* history: somebody asked for the container to be deleted

rows == <<cfgRow, rtRow>>
bounds == <<refused, broken, restarts>>
process == <<stopping, asked>>
vars == <<pc, cfg, cancelled, fails, controllers, rows, dropped, bounds, process>>

Init ==
    /\ pc = [p \in Procs |-> IF p \in Controllers THEN "unborn"
                             ELSE IF p = Boot THEN "list" ELSE "idle"]
    /\ cfg = [p \in Procs |-> None]
    /\ cancelled = {} /\ fails = [c \in Controllers |-> 0]
    /\ controllers = None
    /\ cfgRow = None /\ rtRow = FALSE /\ dropped = FALSE
    /\ refused = 0 /\ broken = 0 /\ restarts = 0 /\ stopping = FALSE /\ asked = FALSE

Goto(p, l) == pc' = [pc EXCEPT ![p] = l]

\* A controller that ran Unregister returns from run().
Finished(p) == IF p \in Controllers THEN "stopped" ELSE "done"

\* ListContainers and GetContainer join the two tables.
Listed == cfgRow # None /\ rtRow

StatementFails(p) ==
    /\ refused + broken < MaxFaults /\ broken' = broken + 1
    /\ Goto(p, IF p \in Controllers THEN "stopped" ELSE "failed")
    /\ UNCHANGED <<cfg, cancelled, fails, controllers, rows, dropped, refused, restarts, process>>

-----------------------------------------------------------------------------
(* Requests arrive once the API listens. *)

Listening == pc[Boot] \in {"done", "failed"}

PostContainer(r) ==
    /\ Listening /\ pc[r] = "idle"
    /\ \E f \in Cfgs : cfg' = [cfg EXCEPT ![r] = f]
    /\ Goto(r, "allow")
    /\ UNCHANGED <<cancelled, fails, controllers, rows, dropped, bounds, process>>

DeleteRequest(r) ==
    /\ Listening /\ pc[r] = "idle"
    /\ asked' = TRUE
    /\ Goto(r, "remove")
    /\ UNCHANGED <<cfg, cancelled, fails, controllers, rows, dropped, bounds, stopping>>

\* The reload request and LoadAndStart: the configuration is read, and used later.
ReadConfig(p) ==
    /\ \/ Listening /\ pc[p] = "idle"
       \/ pc[p] = "list"
    /\ IF Listed
         THEN cfg' = [cfg EXCEPT ![p] = cfgRow] /\ Goto(p, "allow")
         ELSE Goto(p, "done") /\ UNCHANGED cfg
    /\ UNCHANGED <<cancelled, fails, controllers, rows, dropped, bounds, process>>

-----------------------------------------------------------------------------
(* StartOrRestart: the statements of UpsertContainer, then the mutex. *)

allowRuntime(p) ==
    /\ pc[p] = "allow"
    /\ dropped' = FALSE
    /\ Goto(p, "insert")
    /\ UNCHANGED <<cfg, cancelled, fails, controllers, rows, bounds, process>>

InsertContainer(p) ==
    /\ pc[p] = "insert"
    /\ cfgRow' = cfg[p]
    /\ Goto(p, "ensure")
    /\ UNCHANGED <<cfg, cancelled, fails, controllers, rtRow, dropped, bounds, process>>

\* Mutant: a container whose runtime row is there already counts as started.
EnsureIfNew(p) ==
    /\ pc[p] = "ensure"
    /\ rtRow' = TRUE
    /\ Goto(p, IF rtRow THEN "done" ELSE "install")
    /\ UNCHANGED <<cfg, cancelled, fails, controllers, cfgRow, dropped, bounds, process>>

EnsureRuntime(p) ==
    /\ pc[p] = "ensure"
    /\ rtRow' = TRUE
    /\ Goto(p, "install")
    /\ UNCHANGED <<cfg, cancelled, fails, controllers, cfgRow, dropped, bounds, process>>

\* Where the pragma foreign_keys holds, a row whose container was deleted meanwhile is
\* refused, unless there is one already: the request fails without a fault of SQLite.
ForeignKeyFails(p) ==
    /\ pc[p] = "ensure" /\ ~rtRow /\ cfgRow = None
    /\ Goto(p, "failed")
    /\ UNCHANGED <<cfg, cancelled, fails, controllers, rows, dropped, bounds, process>>

\* Mutant: the controller that is replaced keeps running.
InstallBeside(p, c) ==
    /\ pc[p] = "install" /\ pc[c] = "unborn"
    /\ cancelled' = cancelled
    /\ controllers' = c
    /\ cfg' = [cfg EXCEPT ![c] = cfg[p]]
    /\ pc' = [pc EXCEPT ![p] = "done", ![c] = "running"]
    /\ UNCHANGED <<fails, rows, dropped, bounds, process>>

\* Under m.mu: cancel the old one, if any, and put the new one in its place.
Install(p, c) ==
    /\ pc[p] = "install" /\ pc[c] = "unborn"
    /\ cancelled' = cancelled \cup ({controllers} \ {None})
    /\ controllers' = c
    /\ cfg' = [cfg EXCEPT ![c] = cfg[p]]
    /\ pc' = [pc EXCEPT ![p] = "done", ![c] = "running"]
    /\ UNCHANGED <<fails, rows, dropped, bounds, process>>

-----------------------------------------------------------------------------
(* Unregister, called by a request or by a controller.  Its docker unpause is
   part of module Controller: it touches nothing of what is modelled here. *)

Remove(p) ==
    /\ pc[p] = "remove"
    /\ cancelled' = cancelled \cup ({controllers} \ {None})
    /\ controllers' = None
    /\ Goto(p, "drop")
    /\ UNCHANGED <<cfg, fails, rows, dropped, bounds, process>>

DropRuntime(p) ==
    /\ pc[p] = "drop"
    /\ dropped' = TRUE
    /\ Goto(p, "delete")
    /\ UNCHANGED <<cfg, cancelled, fails, controllers, rows, bounds, process>>

\* The pragma foreign_keys holds on the one connection that ran it: on another of
\* the pool the delete does not cascade to container_runtime.
DeleteContainer(p) ==
    /\ pc[p] = "delete"
    /\ cfgRow' = None
    /\ rtRow' \in {FALSE, rtRow}
    /\ Goto(p, Finished(p))
    /\ UNCHANGED <<cfg, cancelled, fails, controllers, dropped, bounds, process>>

-----------------------------------------------------------------------------
(* What a controller does to the registry. *)

InspectSucceeds(c) ==
    /\ pc[c] = "running" /\ c \notin cancelled /\ fails[c] > 0
    /\ fails' = [fails EXCEPT ![c] = 0]
    /\ UNCHANGED <<pc, cfg, cancelled, controllers, rows, dropped, bounds, process>>

\* Mutant: one failure more than the limit is needed.
InspectFailsOneMore(c) ==
    /\ pc[c] = "running"
    /\ IF c \in cancelled
         THEN UNCHANGED refused
         ELSE refused + broken < MaxFaults /\ refused' = refused + 1
    /\ fails' = [fails EXCEPT ![c] = @ + 1]
    /\ IF fails[c] < maxInspectFailures THEN UNCHANGED pc ELSE Goto(c, "remove")
    /\ UNCHANGED <<cfg, cancelled, controllers, rows, dropped, broken, restarts, process>>

\* Under a cancelled context every call fails, and counts.
InspectFails(c) ==
    /\ pc[c] = "running"
    /\ IF c \in cancelled
         THEN UNCHANGED refused
         ELSE refused + broken < MaxFaults /\ refused' = refused + 1
    /\ fails' = [fails EXCEPT ![c] = @ + 1]
    /\ IF fails[c] + 1 < maxInspectFailures THEN UNCHANGED pc ELSE Goto(c, "remove")
    /\ UNCHANGED <<cfg, cancelled, controllers, rows, dropped, broken, restarts, process>>

\* The select saw ctx.Done().
Stop(c) ==
    /\ pc[c] = "running" /\ c \in cancelled
    /\ Goto(c, "stopped")
    /\ UNCHANGED <<cfg, cancelled, fails, controllers, rows, dropped, bounds, process>>

-----------------------------------------------------------------------------
(* The process. *)

StopAll ==
    /\ Listening /\ ~stopping
    /\ stopping' = TRUE
    /\ cancelled' = cancelled \cup ({controllers} \ {None})
    /\ controllers' = None
    /\ UNCHANGED <<pc, cfg, fails, rows, dropped, bounds, asked>>

\* The process ends, by a signal or a crash, and a new one loads what is stored.
Restart ==
    /\ restarts < MaxRestarts /\ restarts' = restarts + 1
    /\ pc' = [p \in Procs |->
                 IF p = Boot THEN "list"
                 ELSE IF pc[p] \in {"idle", "unborn"} THEN pc[p]
                 ELSE IF p \in Controllers THEN "stopped" ELSE "failed"]
    /\ cancelled' = {} /\ controllers' = None
    /\ dropped' = FALSE /\ stopping' = FALSE
    /\ UNCHANGED <<cfg, fails, rows, refused, broken, asked>>

-----------------------------------------------------------------------------
Upsert(p) == allowRuntime(p) \/ InsertContainer(p) \/ EnsureRuntime(p) \/ ForeignKeyFails(p)
Unregister(p) == Remove(p) \/ DropRuntime(p) \/ DeleteContainer(p)
Controller(c) == InspectSucceeds(c) \/ InspectFails(c) \/ Stop(c)
SQLiteFails(p) == pc[p] \in {"insert", "ensure", "delete"} /\ StatementFails(p)

Next ==
    \/ \E r \in Requests : PostContainer(r) \/ DeleteRequest(r)
    \/ \E p \in Actors :
          ReadConfig(p) \/ Upsert(p) \/ \E c \in Controllers : Install(p, c)
    \/ \E p \in Procs : Unregister(p) \/ SQLiteFails(p)
    \/ \E c \in Controllers : Controller(c)
    \/ StopAll \/ Restart

Spec == Init /\ [][Next]_vars

-----------------------------------------------------------------------------
(* Properties. *)

Busy(p) == pc[p] \in {"allow", "insert", "ensure", "install", "remove", "drop", "delete"}

\* Every variable keeps to its type.
TypeOK ==
    /\ pc \in [Procs -> {"unborn", "running", "stopped", "list", "idle", "done", "failed",
                         "allow", "insert", "ensure", "install", "remove", "drop", "delete"}]
    /\ cfg \in [Procs -> Cfgs \cup {None}]
    /\ cancelled \subseteq Controllers
    /\ fails \in [Controllers -> 0..maxInspectFailures]
    /\ \A c \in Controllers : pc[c] \in {"unborn", "running"} => fails[c] < maxInspectFailures
    /\ controllers \in Controllers \cup {None}
    /\ cfgRow \in Cfgs \cup {None} /\ rtRow \in BOOLEAN /\ dropped \in BOOLEAN
    /\ refused \in Nat /\ broken \in Nat /\ refused + broken <= MaxFaults
    /\ restarts \in 0..MaxRestarts /\ stopping \in BOOLEAN /\ asked \in BOOLEAN

\* Two controllers never pause and unpause one container against each other: at
\* most one is not cancelled, the one in the map (manager.go:79-87, 147-152).
OneController ==
    \A c \in Controllers : pc[c] = "running" /\ c \notin cancelled => c = controllers

\* Once every call is over and no statement or client failed, a container that is listed
\* has a controller, however registrations, reloads, deletions and drops were interleaved,
\* those included that a foreign key stopped half-way (manager.go:73-90, 147-156,
\* sqlite.go:209-217).
ListedIsServed ==
    (\A p \in Procs : ~Busy(p)) /\ broken = 0 /\ Listening /\ ~stopping /\ Listed
        => controllers # None

-----------------------------------------------------------------------------
(* What the documents say and the code does not do. *)

\* README: "If Docker inspections fail 3 consecutive times for a container, it is
\* automatically unregistered."  Nothing but that or a DELETE unregisters it.
UnregisteredForCause ==
    [][cfgRow # None /\ cfgRow' = None => asked \/ refused >= maxInspectFailures]_vars

=============================================================================
