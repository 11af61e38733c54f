------------------------------- MODULE Controller -------------------------------
(***************************************************************************)
(* The controller of one container (internal/scaler/controller.go and      *)
(* logic.go): a goroutine that inspects the container, watches its traffic,*)
(* pauses it when nothing was heard for SleepAfter and unpauses it on a    *)
(* packet.  Docker, the packet watcher, the operator of the host and the   *)
(* clock are its environment; the row of table container_runtime is what   *)
(* survives a crash.                                                       *)
(*                                                                         *)
(* Time is kept as ages: every timestamp is the number of ticks that have  *)
(* passed since, up to Cap, beyond which no decision of the code can tell  *)
(* two ages apart.  The model therefore runs for ever in finitely many     *)
(* states.                                                                 *)
(***************************************************************************)
EXTENDS Integers

CONSTANTS
    IPs,          \* the addresses Docker may give the container
    NoIP,         \* no address, or one that net.ParseIP refuses
    SleepAfter,   \* cfg.SleepAfter, in ticks
    BusyWindow,   \* cfg.BusyWindow, in ticks
    MaxCall,      \* bound: ticks a handler may last, from reading the clock to its return
    MaxFaults,    \* bound: failures and outside interferences
    MaxRestarts   \* bound: restarts of the controller

ASSUME AddressAssumption == NoIP \notin IPs
ASSUME TimeAssumption ==
    SleepAfter \in Nat /\ BusyWindow \in Nat /\ MaxCall \in Nat
ASSUME BoundAssumption == MaxFaults \in Nat /\ MaxRestarts \in Nat

maxInspectFailures == 3

Cap == MaxCall + (IF SleepAfter > BusyWindow THEN SleepAfter ELSE BusyWindow + 1)
Never == -1                                 \* a nil *time.Time
Age == 0..Cap
Address == IPs \cup {NoIP}
NoSession == [ip |-> NoIP, pkt |-> FALSE, err |-> FALSE, closed |-> FALSE]

VARIABLES
    pc,         \* where the goroutine of run() is
    cancelled,  \* the context of run() is cancelled
    armed,      \* the call at pc began before the cancellation, so it may still succeed
    rt,         \* c.runtime
    fails,      \* c.inspectFailures
    now,        \* the handler's local `now`: the age of its reading of the clock
    seen,       \* reconcile's local `ip`, read from Docker and not yet acted upon
    sess,       \* watchCancel, packetCh and errCh: the session with the watcher
    row,        \* the persisted runtime
    paused,     \* Docker: is the container paused?
    addr,       \* Docker: its address
    faults,     \* how many of MaxFaults have been spent
    restarts,   \* how many of MaxRestarts have been spent
    silent,     \* history: since the last sign of life this controller knows of
    heard,      \* history: since the last sign of life any controller really saw
    touched     \* history: Docker's paused flag was changed behind the controller's back

local == <<cancelled, armed, rt, fails, now, seen, sess>>
world == <<paused, addr>>
history == <<silent, heard, touched>>
bounds == <<faults, restarts>>
vars == <<pc, local, row, world, bounds, history>>

Runtime ==
    [ip : Address, status : {"busy", "idle", "sleeping", "error"}, paused : BOOLEAN,
     lastTraffic : Age \cup {Never}, lastChange : Age]

Session == [ip : Address, pkt : BOOLEAN, err : BOOLEAN, closed : BOOLEAN]

Calls == {"inspectIP", "inspectPaused", "pause", "notifySleeping", "unpause", "notifyRunning"}

-----------------------------------------------------------------------------
(* The pure decisions of logic.go, on ages. *)

Elapsed(age) == age - now

decideStatus(r, isPaused) ==
    CASE isPaused -> "sleeping"
      [] ~isPaused /\ r.lastTraffic # Never /\ Elapsed(r.lastTraffic) <= BusyWindow -> "busy"
      [] OTHER -> "idle"

IdleSince(r) == IF r.lastTraffic # Never THEN r.lastTraffic ELSE r.lastChange

shouldPause(r, isPaused) ==
    ~isPaused /\ SleepAfter > 0 /\ Elapsed(IdleSince(r)) >= SleepAfter

\* Mutant: every call dates a change, even to the status it already has.
setStatusAlwaysDates(r, at, status) == [r EXCEPT !.status = status, !.lastChange = at]

\* setStatus: the change is dated only when the status really changes.
setStatus(r, at, status) ==
    IF r.status = status THEN r ELSE [r EXCEPT !.status = status, !.lastChange = at]

NewRuntime(at) ==
    [ip |-> NoIP, status |-> "idle", paused |-> FALSE, lastTraffic |-> Never, lastChange |-> at]

-----------------------------------------------------------------------------
Init ==
    /\ pc = "load" /\ cancelled = FALSE /\ armed = TRUE
    /\ row = NewRuntime(0) /\ rt = NewRuntime(0)
    /\ fails = 0 /\ now = 0 /\ seen = NoIP /\ sess = NoSession
    /\ paused \in BOOLEAN /\ addr \in Address
    /\ faults = 0 /\ restarts = 0
    /\ silent = 0 /\ heard = Cap /\ touched = TRUE

\* A Docker or HTTP call begins: under a cancelled context it can only fail.
Call(p) == pc' = p /\ armed' = ~cancelled

Return == pc' = "select" /\ now' = 0 /\ armed' = TRUE

Fault == faults < MaxFaults /\ faults' = faults + 1

\* A call may fail because the context was cancelled, or because Docker says so.
CallFails == IF cancelled THEN UNCHANGED faults ELSE Fault

-----------------------------------------------------------------------------
(* loadPersistedRuntime and the first reconcile. *)

Load ==
    /\ pc = "load"
    /\ rt' \in {row, rt}
    /\ silent' = IdleSince(rt')
    /\ Call("inspectIP") /\ now' = 0
    /\ UNCHANGED <<cancelled, fails, seen, sess, row, world, bounds, heard, touched>>

InspectTick ==
    /\ pc = "select"
    /\ Call("inspectIP")
    /\ UNCHANGED <<cancelled, rt, fails, now, seen, sess, row, world, bounds, history>>

InspectIP ==
    /\ pc = "inspectIP" /\ armed
    /\ seen' = addr
    /\ Call("inspectPaused")
    /\ UNCHANGED <<cancelled, rt, fails, now, sess, row, world, bounds, history>>

\* Mutant: the threshold is one failure late.
DropsOneLate ==
    /\ pc \in {"inspectIP", "inspectPaused"}
    /\ CallFails
    /\ fails' = fails + 1
    /\ rt' = setStatus(rt, now, "error")
    /\ seen' = NoIP
    /\ IF fails + 1 <= maxInspectFailures
         THEN Return
         ELSE pc' = "drop" /\ UNCHANGED <<now, armed>>
    /\ UNCHANGED <<cancelled, sess, row, world, restarts, history>>

handleInspectFailure ==
    /\ pc \in {"inspectIP", "inspectPaused"}
    /\ CallFails
    /\ fails' = fails + 1
    /\ rt' = setStatus(rt, now, "error")
    /\ seen' = NoIP
    /\ IF fails + 1 < maxInspectFailures
         THEN Return
         ELSE pc' = "drop" /\ UNCHANGED <<now, armed>>
    /\ UNCHANGED <<cancelled, sess, row, world, restarts, history>>

\* Mutant: a container that moved keeps its old session.
KeepsOldSession(ip) ==
    CASE ip = NoIP -> NoSession
      [] ip # NoIP /\ sess = NoSession -> [NoSession EXCEPT !.ip = ip]
      [] OTHER -> sess

\* The session reconcile leaves behind, given the address it read.  A replaced
\* session is cancelled and its channels are never read again.
BoundSession(ip) ==
    CASE ip = NoIP /\ rt.ip # NoIP -> NoSession
      [] ip # NoIP /\ (ip # rt.ip \/ sess = NoSession) ->
            [NoSession EXCEPT !.ip = ip]
      [] OTHER -> sess

\* A container the controller left paused is running: dated as traffic.
ResumeNoticed == rt.paused /\ ~paused

\* Mutant: the outside resume is not dated.
ForgetsResume ==
    LET known == [rt EXCEPT !.ip = seen, !.paused = paused]
    IN  setStatus(known, now, decideStatus(known, paused))

\* Mutant: Docker's paused flag is used for the status and not remembered.
ForgetsPaused ==
    LET known == [rt EXCEPT !.ip = seen, !.lastTraffic = IF ResumeNoticed THEN now ELSE @]
    IN  setStatus(known, now, decideStatus(known, paused))

AfterInspection ==
    LET known   == [rt EXCEPT !.ip = seen, !.paused = paused,
                              !.lastTraffic = IF ResumeNoticed THEN now ELSE @]
    IN  setStatus(known, now, decideStatus(known, paused))

InspectPaused ==
    /\ pc = "inspectPaused" /\ armed
    /\ fails' = 0
    /\ sess' = BoundSession(seen)
    /\ rt' = AfterInspection
    /\ seen' = NoIP
    /\ touched' = FALSE
    /\ silent' = IF ResumeNoticed THEN now ELSE silent
    /\ heard' = IF ResumeNoticed THEN now ELSE heard
    /\ IF shouldPause(rt', paused)
         THEN Call("pause") /\ UNCHANGED now
         ELSE Return
    /\ UNCHANGED <<cancelled, row, world, bounds>>

\* Mutant: the runtime is called sleeping and not paused.
PauseUnrecorded ==
    /\ pc = "pause" /\ armed /\ ~paused
    /\ paused' = TRUE
    /\ rt' = setStatus(rt, now, "sleeping")
    /\ Call("notifySleeping")
    /\ UNCHANGED <<cancelled, fails, now, seen, sess, row, addr, bounds, history>>

PauseSucceeds ==
    /\ pc = "pause" /\ armed /\ ~paused
    /\ paused' = TRUE
    /\ rt' = setStatus([rt EXCEPT !.paused = TRUE], now, "sleeping")
    /\ Call("notifySleeping")
    /\ UNCHANGED <<cancelled, fails, now, seen, sess, row, addr, bounds, history>>

\* docker pause of a paused container is refused.  A client killed by the
\* cancellation may have reached the daemon before.
PauseFails ==
    /\ pc = "pause"
    /\ IF paused THEN UNCHANGED faults ELSE CallFails
    /\ paused' \in {paused} \cup (IF cancelled /\ armed THEN {TRUE} ELSE {})
    /\ rt' = setStatus(rt, now, "error")
    /\ Return
    /\ UNCHANGED <<cancelled, fails, seen, sess, row, addr, restarts, history>>

-----------------------------------------------------------------------------
(* The other cases of the select loop. *)

\* The snapshot is queued; the store's batcher writes it within a second, which is here
\* one step.
PersistTick ==
    /\ pc = "select"
    /\ row' = rt
    /\ UNCHANGED <<pc, local, world, bounds, history>>

\* A receive from packetCh.  A closed channel is always ready, and the code does
\* not ask whether it received a packet or the close.
ReceivePacket ==
    /\ pc = "select" /\ (sess.pkt \/ sess.closed)
    /\ sess' = [sess EXCEPT !.pkt = FALSE]
    /\ silent' = 0
    /\ heard' = IF sess.pkt THEN 0 ELSE heard
    /\ LET r == [rt EXCEPT !.lastTraffic = 0]
       IN  IF rt.paused
             THEN rt' = r /\ Call("unpause")
             ELSE rt' = setStatus(r, 0, "busy") /\ UNCHANGED <<pc, armed>>
    /\ UNCHANGED <<cancelled, fails, now, seen, row, world, bounds, touched>>

UnpauseSucceeds ==
    /\ pc = "unpause" /\ armed /\ paused
    /\ paused' = FALSE
    /\ rt' = [rt EXCEPT !.paused = FALSE]
    /\ Call("notifyRunning")
    /\ UNCHANGED <<cancelled, fails, now, seen, sess, row, addr, bounds, history>>

\* Mutant: a failed unpause is taken for a done one.
UnpauseAssumed ==
    /\ pc = "unpause"
    /\ IF paused THEN CallFails ELSE UNCHANGED faults
    /\ paused' \in {paused} \cup (IF cancelled /\ armed THEN {FALSE} ELSE {})
    /\ rt' = setStatus([rt EXCEPT !.paused = FALSE], now, "busy")
    /\ Return
    /\ UNCHANGED <<cancelled, fails, seen, sess, row, addr, restarts, history>>

\* Mutant: the unpause is tried until it works.
UnpauseRetried ==
    /\ pc = "unpause"
    /\ IF paused THEN CallFails ELSE UNCHANGED faults
    /\ paused' \in {paused} \cup (IF cancelled /\ armed THEN {FALSE} ELSE {})
    /\ rt' = setStatus(rt, now, "error")
    /\ IF paused' THEN Call("unpause") /\ UNCHANGED now ELSE Return
    /\ UNCHANGED <<cancelled, fails, seen, sess, row, addr, restarts, history>>

\* The error status is set and at once replaced by busy, both dated now.
UnpauseFails ==
    /\ pc = "unpause"
    /\ IF paused THEN CallFails ELSE UNCHANGED faults
    /\ paused' \in {paused} \cup (IF cancelled /\ armed THEN {FALSE} ELSE {})
    /\ rt' = setStatus(setStatus(rt, now, "error"), now, "busy")
    /\ Return
    /\ UNCHANGED <<cancelled, fails, seen, sess, row, addr, restarts, history>>

\* notifyStatus, whatever its outcome: it changes nothing the controller reads.
notifyStatus ==
    /\ pc \in {"notifySleeping", "notifyRunning"}
    /\ rt' = IF pc = "notifyRunning" THEN setStatus(rt, now, "busy") ELSE rt
    /\ Return
    /\ UNCHANGED <<cancelled, fails, seen, sess, row, world, bounds, history>>

ReceiveError ==
    /\ pc = "select" /\ (sess.err \/ sess.closed)
    /\ sess' = [sess EXCEPT !.err = FALSE]
    /\ rt' = IF sess.err THEN setStatus(rt, 0, "error") ELSE rt
    /\ UNCHANGED <<pc, cancelled, armed, fails, now, seen, row, world, bounds, history>>

\* ctx.Done(): the final write, then the goroutine returns.
Done ==
    /\ pc = "select" /\ cancelled
    /\ row' = rt
    /\ sess' = NoSession
    /\ pc' = "done"
    /\ UNCHANGED <<cancelled, armed, rt, fails, now, seen, world, bounds, history>>

\* c.drop, i.e. Manager.Unregister: unpause, cancel, forget.  No final write.
Drop ==
    /\ pc = "drop"
    /\ paused' \in {FALSE, paused}
    /\ IF paused' /\ paused THEN Fault ELSE UNCHANGED faults
    /\ touched' = TRUE
    /\ cancelled' = TRUE
    /\ row' = NewRuntime(0)
    /\ sess' = NoSession /\ now' = 0
    /\ pc' = "dropped"
    /\ UNCHANGED <<armed, rt, fails, seen, addr, restarts, silent, heard>>

-----------------------------------------------------------------------------
(* The environment. *)

\* Manager.StopAll, Unregister or StartOrRestart cancels the context ...
Cancel ==
    /\ pc \notin {"done", "dropped"} /\ ~cancelled
    /\ cancelled' = TRUE
    /\ UNCHANGED <<pc, armed, rt, fails, now, seen, sess, row, world, bounds, history>>

\* ... and the goroutine that Watcher.Start left behind closes the channels.
CloseSession ==
    /\ cancelled /\ sess # NoSession /\ ~sess.closed
    /\ sess' = [sess EXCEPT !.closed = TRUE]
    /\ UNCHANGED <<pc, cancelled, armed, rt, fails, now, seen, row, world, bounds, history>>

\* The process dies anywhere (or main returns without waiting for its
\* goroutines), or the controller is replaced; a new one starts from the row.
\* A call in flight may still reach the daemon.
Restart ==
    /\ pc # "dropped"
    /\ restarts < MaxRestarts /\ restarts' = restarts + 1
    /\ rt' = NewRuntime(0)
    /\ pc' = "load" /\ cancelled' = FALSE /\ armed' = TRUE
    /\ fails' = 0 /\ now' = 0 /\ seen' = NoIP /\ sess' = NoSession
    /\ paused' \in {paused} \cup (IF pc = "pause" /\ armed THEN {TRUE} ELSE {})
                            \cup (IF pc \in {"unpause", "drop"} /\ armed THEN {FALSE} ELSE {})
    /\ touched' = TRUE
    /\ UNCHANGED <<row, addr, faults, silent, heard>>

\* A packet on the watched address fills the channel's only place, or is dropped.
Packet ==
    /\ sess # NoSession /\ ~sess.closed /\ ~sess.pkt
    /\ sess' = [sess EXCEPT !.pkt = TRUE]
    /\ UNCHANGED <<pc, cancelled, armed, rt, fails, now, seen, row, world, bounds, history>>

WatcherError ==
    /\ sess # NoSession /\ ~sess.closed /\ ~sess.err /\ Fault
    /\ sess' = [sess EXCEPT !.err = TRUE]
    /\ UNCHANGED <<pc, cancelled, armed, rt, fails, now, seen, row, world, restarts, history>>

\* docker pause or unpause typed by the operator, or called by another program.
OutsideToggle ==
    /\ Fault
    /\ paused' = ~paused /\ touched' = TRUE
    /\ UNCHANGED <<pc, local, row, addr, restarts, silent, heard>>

NewAddress ==
    /\ Fault
    /\ addr' \in Address \ {addr}
    /\ UNCHANGED <<pc, local, row, paused, restarts, history>>

Older(age) == IF age = Never THEN Never ELSE IF age < Cap THEN age + 1 ELSE Cap

OlderRuntime(r) ==
    [r EXCEPT !.lastTraffic = Older(r.lastTraffic), !.lastChange = Older(r.lastChange)]

InHandler == pc \in Calls \cup {"load", "drop"}

Tick ==
    /\ InHandler => now < MaxCall
    /\ now' = IF InHandler THEN now + 1 ELSE now
    /\ rt' = OlderRuntime(rt) /\ row' = OlderRuntime(row)
    /\ silent' = Older(silent) /\ heard' = Older(heard)
    /\ UNCHANGED <<pc, cancelled, armed, fails, seen, sess, world, bounds, touched>>

-----------------------------------------------------------------------------
Handler ==
    \/ Load \/ InspectIP \/ handleInspectFailure \/ InspectPaused
    \/ PauseSucceeds \/ PauseFails \/ UnpauseSucceeds \/ UnpauseFails
    \/ notifyStatus \/ Drop

Select == InspectTick \/ PersistTick \/ ReceivePacket \/ ReceiveError \/ Done

Environment ==
    \/ Cancel \/ CloseSession \/ Restart \/ Packet \/ WatcherError
    \/ OutsideToggle \/ NewAddress \/ Tick

Next == Handler \/ Select \/ Environment

\* The goroutine runs; a Go select that is ready for several cases picks one at
\* random, so none that is ready again and again is passed over for ever; time
\* passes.  Nothing is assumed of the traffic, of Docker or of the operator.
Fairness ==
    /\ WF_vars(Handler) /\ WF_vars(CloseSession) /\ SF_vars(Tick)
    /\ SF_vars(InspectTick) /\ SF_vars(ReceivePacket) /\ SF_vars(Done)

Spec == Init /\ [][Next]_vars /\ Fairness
-----------------------------------------------------------------------------
(* Properties. *)

\* Every variable keeps to the values its Go counterpart may have.
TypeOK ==
    /\ pc \in Calls \cup {"load", "select", "drop", "done", "dropped"}
    /\ cancelled \in BOOLEAN /\ armed \in BOOLEAN
    /\ rt \in Runtime /\ row \in Runtime
    /\ fails \in 0..maxInspectFailures
    /\ fails = maxInspectFailures => pc \in {"drop", "dropped"}
    /\ now \in 0..MaxCall
    /\ seen \in Address /\ sess \in Session
    /\ paused \in BOOLEAN /\ addr \in Address
    /\ faults \in 0..MaxFaults /\ restarts \in 0..MaxRestarts
    /\ silent \in Age /\ heard \in Age /\ touched \in BOOLEAN

\* A container is paused only after SleepAfter without a sign of life, counted
\* from the latest packet or outside resume this controller noticed, whatever
\* errors, rebinds and other status changes came between (controller.go:140-149).
ResumeGrace == pc = "pause" => Elapsed(silent) >= SleepAfter

\* While nobody else touches the container, the controller knows whether it is
\* paused whenever it decides what to do next: no failed, cancelled or
\* interleaved call leaves rt.Paused wrong (controller.go:139, 154, 190).
BeliefMatchesDocker == pc = "select" /\ ~cancelled /\ ~touched => rt.paused = paused

\* The session it listens to is the one for the address it last saw; it has none
\* when it saw no address, and hears a closed channel only when cancelled: a
\* packet can never wake the container for an address it gave up
\* (controller.go:106-136).
WatchFollowsAddress ==
    pc = "select" =>
        /\ sess # NoSession => sess.ip = rt.ip
        /\ rt.ip = NoIP => sess = NoSession
        /\ sess.closed => cancelled

\* A runtime that is persisted and later trusted by another controller never
\* calls a running container sleeping nor a paused one idle
\* (controller.go:146-156, 179, 190-195).
Consistent(r) ==
    /\ r.status = "sleeping" => r.paused
    /\ r.status = "idle" => ~r.paused

SnapshotConsistent == Consistent(row)

\* However often calls failed or the operator interfered before, a container
\* that keeps receiving packets does not stay paused (controller.go:180-195).
WakesOnTraffic == []<>sess.pkt => []<>(~paused \/ cancelled)

\* A container that receives no more packets ends up paused (controller.go:149).
FallsAsleep == <>[]~sess.pkt => []<>(paused \/ cancelled)

\* A cancelled controller stops, although every call it makes now fails and its
\* closed packet channel never runs dry: it gives up each call, and its select does
\* not overlook the cancellation (controller.go:168-173, 180-195).
StopsWhenCancelled == cancelled ~> (pc \in {"done", "dropped"} \/ ~cancelled)

-----------------------------------------------------------------------------
(* What the documents say and the code does not do. *)

\* README: "If no traffic is seen for `sleep_after_seconds`, the container is
\* paused."  An inspection that finds the container running and silent for so
\* long pauses it.
PausedWhenSilent ==
    [][InspectPaused /\ ~paused /\ Elapsed(silent) >= SleepAfter => pc' = "pause"]_vars

\* The same sentence, read the other way: a container is paused only if no
\* traffic was seen for so long, whoever saw it.
PausedOnlyWhenSilent == pc = "pause" => Elapsed(heard) >= SleepAfter
=============================================================================
