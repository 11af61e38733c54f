---------------------------- MODULE ControllerProofs ----------------------------
(***************************************************************************)
(* Machine-checked proofs about Controller, for every choice of its        *)
(* constants.  TypeCorrect comes first; ControllerInv is the               *)
(* inductive invariant, and the safety theorems follow from it.            *)
(***************************************************************************)
EXTENDS Controller, TLAPS

\* The facts of arithmetic about the bound on ages that the rest cites.
LEMMA CapFacts ==
    /\ Cap \in Nat /\ MaxCall \in Nat /\ SleepAfter \in Nat /\ BusyWindow \in Nat
    /\ MaxCall + SleepAfter <= Cap
    /\ MaxCall < Cap \/ (SleepAfter > BusyWindow /\ MaxCall + SleepAfter <= Cap)
    /\ MaxCall <= Cap
BY TimeAssumption DEF Cap

\* Time passing keeps an age an age.
LEMMA OlderType ==
    \A x \in Age \cup {Never} :
        /\ Older(x) \in Age \cup {Never}
        /\ x # Never => Older(x) \in Age
BY CapFacts DEF Older, Age, Never

\* A runtime just created is a runtime.
LEMMA NewRuntimeType == NewRuntime(0) \in Runtime
BY CapFacts DEF NewRuntime, Runtime, Address, Age, Never

\* No address is an address value, no session a session value.
LEMMA NoSessionType == NoIP \in Address /\ NoSession \in Session
BY DEF NoSession, Session, Address

\* Time passing keeps a runtime a runtime.
LEMMA OlderRuntimeType == \A r \in Runtime : OlderRuntime(r) \in Runtime
<1>1. TAKE r \in Runtime
<1>2. /\ r.lastTraffic \in Age \cup {Never} /\ r.lastChange \in Age
      BY DEF Runtime
<1>3. /\ Older(r.lastTraffic) \in Age \cup {Never}
      /\ Older(r.lastChange) \in Age
      BY <1>2, OlderType, CapFacts DEF Age, Never
<1>4. QED BY <1>3 DEF OlderRuntime, Runtime

\* setStatus returns a runtime.
LEMMA SetStatusType ==
    \A r \in Runtime, at \in Age, s \in {"busy", "idle", "sleeping", "error"} :
        setStatus(r, at, s) \in Runtime
BY DEF setStatus, Runtime

\* What a controller knows after its inspections is a runtime.
LEMMA AfterInspectionType == TypeOK => AfterInspection \in Runtime
<1> SUFFICES ASSUME TypeOK PROVE AfterInspection \in Runtime
    OBVIOUS
<1> DEFINE known == [rt EXCEPT !.ip = seen, !.paused = paused,
                               !.lastTraffic = IF ResumeNoticed THEN now ELSE @]
<1>1. now \in Age
      BY CapFacts DEF TypeOK, Age
<1>2. known \in Runtime
      BY <1>1 DEF TypeOK, Runtime
<1>3. decideStatus(known, paused) \in {"busy", "idle", "sleeping", "error"}
      BY DEF decideStatus, TypeOK
<1>4. QED BY <1>1, <1>2, <1>3, SetStatusType DEF AfterInspection

\* Binding a session to the address last seen gives a session.
LEMMA BoundSessionType ==
    TypeOK => BoundSession(seen) \in Session
BY DEF TypeOK, BoundSession, NoSession, Session, Address

\* Type correctness: the type invariant is inductive.
THEOREM TypeCorrect == Spec => []TypeOK
<1>1. Init => TypeOK
  <2> SUFFICES ASSUME Init PROVE TypeOK
      OBVIOUS
  <2>1. now \in 0..MaxCall /\ silent \in Age /\ heard \in Age
        BY CapFacts DEF Init, Age
  <2>2. faults \in 0..MaxFaults /\ restarts \in 0..MaxRestarts
        BY BoundAssumption DEF Init
  <2>3. fails \in 0..maxInspectFailures /\ fails # maxInspectFailures
        BY DEF Init, maxInspectFailures
  <2>4. QED
        BY <2>1, <2>2, <2>3, NewRuntimeType, NoSessionType DEF Init, TypeOK
<1>2. TypeOK /\ [Next]_vars => TypeOK'
  <2> SUFFICES ASSUME TypeOK, [Next]_vars PROVE TypeOK'
      OBVIOUS
  <2>0. now \in Age /\ 0 \in Age /\ 0 \in 0..MaxCall
        BY CapFacts DEF TypeOK, Age
  <2>1. faults' = faults \/ Fault => faults' \in 0..MaxFaults
        BY BoundAssumption DEF TypeOK, Fault
  <2> USE DEF TypeOK, Calls, local, world, history, bounds
  <2>2. CASE Load
    <3>1. rt' \in Runtime
          BY <2>2 DEF Load
    <3>2. silent' \in Age
          BY <2>2, <3>1 DEF Load, IdleSince, Runtime, Never
    <3>3. QED BY <2>2, <2>0, <3>1, <3>2 DEF Load, Call
  <2>3. CASE InspectIP
        BY <2>3 DEF InspectIP, Call
  <2>4. CASE handleInspectFailure
    <3>1. rt' \in Runtime
          BY <2>4, <2>0, SetStatusType DEF handleInspectFailure
    <3>2. fails < maxInspectFailures
          BY <2>4 DEF handleInspectFailure, maxInspectFailures
    <3>3. faults' \in 0..MaxFaults
          BY <2>4, <2>1 DEF handleInspectFailure, CallFails
    <3>4. /\ fails' \in 0..maxInspectFailures
          /\ fails' = maxInspectFailures => pc' = "drop"
          BY <2>4, <3>2 DEF handleInspectFailure, maxInspectFailures
    <3>5. QED
          BY <2>4, <2>0, <3>1, <3>3, <3>4, NoSessionType
          DEF handleInspectFailure, Return
  <2>5. CASE InspectPaused
    <3>1. rt' \in Runtime /\ sess' \in Session
          BY <2>5, AfterInspectionType, BoundSessionType DEF InspectPaused
    <3>2. fails' \in 0..maxInspectFailures /\ fails' # maxInspectFailures
          BY <2>5 DEF InspectPaused, maxInspectFailures
    <3>3. /\ pc' \in {"pause", "select"} /\ now' \in 0..MaxCall
          /\ armed' \in BOOLEAN
          BY <2>5, <2>0 DEF InspectPaused, Call, Return
    <3>4. silent' \in Age /\ heard' \in Age
          BY <2>5, <2>0 DEF InspectPaused
    <3>5. QED
          BY <2>5, <3>1, <3>2, <3>3, <3>4, NoSessionType DEF InspectPaused
  <2>6. CASE PauseSucceeds
    <3>1. rt' \in Runtime
      <4>1. [rt EXCEPT !.paused = TRUE] \in Runtime
            BY DEF Runtime
      <4>2. QED BY <4>1, <2>6, <2>0, SetStatusType DEF PauseSucceeds
    <3>2. QED BY <2>6, <3>1 DEF PauseSucceeds, Call
  <2>7. CASE PauseFails
    <3>1. rt' \in Runtime
          BY <2>7, <2>0, SetStatusType DEF PauseFails
    <3>2. faults' \in 0..MaxFaults
          BY <2>7, <2>1 DEF PauseFails, CallFails
    <3>3. QED BY <2>7, <2>0, <3>1, <3>2 DEF PauseFails, Return
  <2>8. CASE UnpauseSucceeds
    <3>1. rt' \in Runtime
          BY <2>8 DEF UnpauseSucceeds, Runtime
    <3>2. QED BY <2>8, <3>1 DEF UnpauseSucceeds, Call
  <2>9. CASE UnpauseFails
    <3>1. rt' \in Runtime
          BY <2>9, <2>0, SetStatusType DEF UnpauseFails
    <3>2. faults' \in 0..MaxFaults
          BY <2>9, <2>1 DEF UnpauseFails, CallFails
    <3>3. QED BY <2>9, <2>0, <3>1, <3>2 DEF UnpauseFails, Return
  <2>10. CASE notifyStatus
    <3>1. rt' \in Runtime
          BY <2>10, <2>0, SetStatusType DEF notifyStatus
    <3>2. QED BY <2>10, <2>0, <3>1 DEF notifyStatus, Return
  <2>11. CASE Drop
    <3>1. faults' \in 0..MaxFaults
          BY <2>11, <2>1 DEF Drop
    <3>2. QED
          BY <2>11, <2>0, <3>1, NewRuntimeType, NoSessionType DEF Drop
  <2>12. CASE InspectTick
        BY <2>12 DEF InspectTick, Call
  <2>13. CASE PersistTick
        BY <2>13 DEF PersistTick
  <2>14. CASE ReceivePacket
    <3>1. [rt EXCEPT !.lastTraffic = 0] \in Runtime
          BY <2>0 DEF Runtime
    <3>2. rt' \in Runtime
          BY <2>14, <3>1, <2>0, SetStatusType DEF ReceivePacket
    <3>3. sess' \in Session
          BY <2>14 DEF ReceivePacket, Session
    <3>4. QED BY <2>14, <2>0, <3>2, <3>3 DEF ReceivePacket, Call
  <2>15. CASE ReceiveError
    <3>1. rt' \in Runtime
          BY <2>15, <2>0, SetStatusType DEF ReceiveError
    <3>2. sess' \in Session
          BY <2>15 DEF ReceiveError, Session
    <3>3. QED BY <2>15, <3>1, <3>2 DEF ReceiveError
  <2>16. CASE Done
        BY <2>16, NoSessionType DEF Done
  <2>17. CASE Cancel
        BY <2>17 DEF Cancel
  <2>18. CASE CloseSession
        BY <2>18 DEF CloseSession, Session
  <2>19. CASE Restart
    <3>1. paused' \in BOOLEAN
          BY <2>19 DEF Restart
    <3>2. restarts' \in 0..MaxRestarts
          BY <2>19, BoundAssumption DEF Restart
    <3>3. fails' \in 0..maxInspectFailures /\ fails' # maxInspectFailures
          BY <2>19 DEF Restart, maxInspectFailures
    <3>4. QED
          BY <2>19, <2>0, <3>1, <3>2, <3>3, NewRuntimeType, NoSessionType
          DEF Restart
  <2>20. CASE Packet
        BY <2>20 DEF Packet, Session
  <2>21. CASE WatcherError
        BY <2>21, <2>1 DEF WatcherError, Session
  <2>22. CASE OutsideToggle
        BY <2>22, <2>1 DEF OutsideToggle
  <2>23. CASE NewAddress
        BY <2>23, <2>1 DEF NewAddress
  <2>24. CASE Tick
    <3>1. rt' \in Runtime /\ row' \in Runtime
          BY <2>24, OlderRuntimeType DEF Tick
    <3>2. silent' \in Age /\ heard' \in Age
          BY <2>24, OlderType, CapFacts DEF Tick, Age, Never
    <3>3. now' \in 0..MaxCall
          BY <2>24, CapFacts DEF Tick, InHandler
    <3>4. QED BY <2>24, <3>1, <3>2, <3>3 DEF Tick
  <2>25. CASE UNCHANGED vars
        BY <2>25 DEF vars
  <2>26. QED
        BY <2>2, <2>3, <2>4, <2>5, <2>6, <2>7, <2>8, <2>9, <2>10, <2>11, <2>12,
           <2>13, <2>14, <2>15, <2>16, <2>17, <2>18, <2>19, <2>20, <2>21, <2>22,
           <2>23, <2>24, <2>25
        DEF Next, Handler, Select, Environment
<1>3. QED BY <1>1, <1>2, PTL DEF Spec

-----------------------------------------------------------------------------
(***************************************************************************)
(* The inductive invariant.  Silence is where it strengthens ResumeGrace:  *)
(* what the code measures (IdleSince) never says more than `silent`, and   *)
(* the clock reading of the current handler is younger than it.            *)
(***************************************************************************)
Silence ==
    /\ pc # "load" => IdleSince(rt) <= silent /\ now <= silent
    /\ pc = "select" => now = 0
    /\ ResumeGrace

Belief ==
    /\ ~touched /\ ~cancelled => rt.paused = paused
    /\ pc = "load" => touched

Watch ==
    /\ sess # NoSession => sess.ip = rt.ip
    /\ rt.ip = NoIP => sess = NoSession
    /\ sess.closed => cancelled
    /\ pc = "load" => sess = NoSession

Snapshots ==
    /\ Consistent(row)
    /\ pc # "notifyRunning" => Consistent(rt)

ControllerInv == TypeOK /\ Silence /\ Belief /\ Watch /\ Snapshots

\* A new status never makes a container look silent for longer than it is.
LEMMA IdleSinceSetStatus ==
    ASSUME NEW r \in Runtime, NEW at \in Age, NEW s \in Age, NEW status,
           IdleSince(r) <= s, at <= s
    PROVE  IdleSince(setStatus(r, at, status)) <= s
BY CapFacts DEF IdleSince, setStatus, Runtime, Age, Never

\* Time passing keeps the order of two ages.
LEMMA OlderMonotone ==
    ASSUME NEW x \in Age, NEW y \in Age, x <= y
    PROVE  Older(x) <= Older(y)
BY CapFacts DEF Older, Age, Never

\* Time passing makes a container look idle for exactly that much longer.
LEMMA IdleSinceOlder ==
    ASSUME NEW r \in Runtime
    PROVE  IdleSince(r) \in Age /\ IdleSince(OlderRuntime(r)) = Older(IdleSince(r))
<1>1. /\ r.lastTraffic \in Age \cup {Never} /\ r.lastChange \in Age
      BY DEF Runtime
<1>2. r.lastTraffic # Never => Older(r.lastTraffic) # Never
      BY <1>1, CapFacts DEF Older, Age, Never
<1>3. r.lastTraffic = Never => Older(r.lastTraffic) = Never
      BY DEF Older
<1>4. /\ OlderRuntime(r).lastTraffic = Older(r.lastTraffic)
      /\ OlderRuntime(r).lastChange = Older(r.lastChange)
      BY DEF OlderRuntime, Runtime
<1>5. QED BY <1>1, <1>2, <1>3, <1>4 DEF IdleSince

\* What a shorter silence already satisfies, a longer one does.
LEMMA LongerStill ==
    ASSUME NEW i \in Int, NEW s \in Int, NEW n \in Int, NEW a \in Int,
           i - n >= a, i <= s
    PROVE  s - n >= a
OBVIOUS

\* No step of the controller or of Docker lets a container look idle for longer
\* than it has been silent.
LEMMA SilenceStep == TypeOK /\ Silence /\ [Next]_vars => Silence'
<1> SUFFICES ASSUME TypeOK, Silence, [Next]_vars PROVE Silence'
    OBVIOUS
<1>0. /\ now \in Age /\ now \in Int /\ silent \in Age /\ rt \in Runtime /\ row \in Runtime
      /\ 0 \in Age /\ 0 <= silent /\ IdleSince(rt) \in Age /\ IdleSince(row) \in Age
      BY CapFacts, IdleSinceOlder DEF TypeOK, Age
<1>a. ASSUME NEW at \in Age, NEW status, pc # "load", at <= silent
      PROVE  IdleSince(setStatus(rt, at, status)) <= silent
      BY <1>0, <1>a, IdleSinceSetStatus DEF Silence
<1> USE DEF Silence, ResumeGrace, Elapsed, local, world, history, bounds
<1>1. CASE Load
  <2>1. rt' \in {row, rt} /\ silent' = IdleSince(rt') /\ now' = 0 /\ pc' = "inspectIP"
        BY <1>1 DEF Load, Call
  <2>2. IdleSince(rt') \in Age
        BY <2>1, <1>0
  <2>3. QED BY <2>1, <2>2, CapFacts DEF Age
<1>2. CASE InspectIP
      BY <1>2 DEF InspectIP, Call
<1>3. CASE handleInspectFailure
  <2>1. IdleSince(rt') <= silent
        BY <1>3, <1>0, <1>a DEF handleInspectFailure
  <2>2. QED BY <1>3, <1>0, <2>1 DEF handleInspectFailure, Return
<1>4. CASE InspectPaused
  <2> DEFINE known == [rt EXCEPT !.ip = seen, !.paused = paused,
                                 !.lastTraffic = IF ResumeNoticed THEN now ELSE @]
  <2>1. known \in Runtime
        BY <1>0 DEF TypeOK, Runtime
  <2>2. silent' \in Age /\ now <= silent'
        BY <1>4, <1>0, CapFacts DEF InspectPaused, Age
  <2>3. IdleSince(known) <= silent'
        BY <1>4, <1>0, CapFacts DEF InspectPaused, IdleSince, Runtime, Age, Never
  <2>4. IdleSince(rt') <= silent'
        BY <1>4, <1>0, <2>1, <2>2, <2>3, IdleSinceSetStatus
        DEF InspectPaused, AfterInspection
  <2>5. IdleSince(rt') \in Age
    <3>1. rt' \in Runtime
          BY <1>4, AfterInspectionType DEF InspectPaused
    <3>2. QED BY <3>1, IdleSinceOlder
  <2>6. CASE shouldPause(rt', paused)
    <3> DEFINE idle == IdleSince(rt')
    <3>1. idle - now >= SleepAfter /\ idle <= silent'
          BY <2>4, <2>6 DEF shouldPause
    <3>2. idle \in Int /\ silent' \in Int /\ SleepAfter \in Int
          BY <2>2, <2>5, CapFacts DEF Age
    <3> HIDE DEF idle
    <3>3. silent' - now >= SleepAfter
          BY <3>1, <3>2, <1>0, LongerStill
    <3>4. QED BY <1>4, <2>6, <2>2, <2>4, <3>3 DEF InspectPaused, Call
  <2>7. CASE ~shouldPause(rt', paused)
        BY <1>4, <2>7, <2>2, <2>4, CapFacts DEF InspectPaused, Return, Age
  <2>8. QED BY <2>6, <2>7
<1>5. CASE PauseSucceeds
  <2> DEFINE r == [rt EXCEPT !.paused = TRUE]
  <2>1. r \in Runtime /\ IdleSince(r) = IdleSince(rt)
        BY <1>0 DEF Runtime, IdleSince
  <2>2. IdleSince(setStatus(r, now, "sleeping")) <= silent
        BY <1>5, <2>1, <1>0, IdleSinceSetStatus DEF PauseSucceeds
  <2>3. QED BY <1>5, <2>2 DEF PauseSucceeds, Call
<1>6. CASE PauseFails
      BY <1>6, <1>0, <1>a DEF PauseFails, Return
<1>7. CASE UnpauseSucceeds
  <2>1. IdleSince(rt') = IdleSince(rt)
        BY <1>7, <1>0 DEF UnpauseSucceeds, IdleSince, Runtime
  <2>2. QED BY <1>7, <2>1 DEF UnpauseSucceeds, Call
<1>8. CASE UnpauseFails
  <2>1. setStatus(rt, now, "error") \in Runtime
        BY <1>0, SetStatusType
  <2>2. IdleSince(setStatus(rt, now, "error")) <= silent
        BY <1>8, <1>0, <1>a DEF UnpauseFails
  <2>3. IdleSince(rt') <= silent
        BY <1>8, <1>0, <2>1, <2>2, IdleSinceSetStatus DEF UnpauseFails
  <2>4. QED BY <1>8, <1>0, <2>3 DEF UnpauseFails, Return
<1>9. CASE notifyStatus
  <2>1. IdleSince(rt') <= silent
        BY <1>9, <1>0, <1>a DEF notifyStatus
  <2>2. QED BY <1>9, <1>0, <2>1 DEF notifyStatus, Return
<1>10. CASE Drop
      BY <1>10, <1>0 DEF Drop
<1>11. CASE InspectTick
      BY <1>11 DEF InspectTick, Call
<1>12. CASE PersistTick
      BY <1>12 DEF PersistTick
<1>13. CASE ReceivePacket
  <2> DEFINE r == [rt EXCEPT !.lastTraffic = 0]
  <2>1. r \in Runtime /\ IdleSince(r) = 0
        BY <1>0 DEF Runtime, IdleSince, Never
  <2>2. IdleSince(setStatus(r, 0, "busy")) <= 0
        BY <2>1, <1>0, IdleSinceSetStatus
  <2>3. rt' = r \/ rt' = setStatus(r, 0, "busy")
        BY <1>13 DEF ReceivePacket
  <2>4. IdleSince(rt') <= 0
        BY <2>1, <2>2, <2>3
  <2>5. QED BY <1>13, <2>4 DEF ReceivePacket, Call
<1>14. CASE ReceiveError
      BY <1>14, <1>0, <1>a DEF ReceiveError
<1>15. CASE Done
      BY <1>15 DEF Done
<1>16. CASE Cancel
      BY <1>16 DEF Cancel
<1>17. CASE CloseSession
      BY <1>17 DEF CloseSession
<1>18. CASE Restart
      BY <1>18 DEF Restart
<1>19. CASE Packet
      BY <1>19 DEF Packet
<1>20. CASE WatcherError
      BY <1>20 DEF WatcherError
<1>21. CASE OutsideToggle
      BY <1>21 DEF OutsideToggle
<1>22. CASE NewAddress
      BY <1>22 DEF NewAddress
<1>23. CASE Tick
  <2>1. rt' = OlderRuntime(rt) /\ silent' = Older(silent) /\ pc' = pc
        BY <1>23 DEF Tick
  <2>2. pc # "load" => IdleSince(rt') <= silent'
        BY <2>1, <1>0, IdleSinceOlder, OlderMonotone
  <2>3. /\ now' = now \/ (now' = now + 1 /\ now < MaxCall)
        /\ pc = "select" => now' = now
        BY <1>23 DEF Tick, InHandler, Calls
  <2>4. /\ silent < Cap => silent' = silent + 1
        /\ silent = Cap => silent' = Cap
        BY <2>1, <1>0, CapFacts DEF Older, Age, Never
  <2>5. pc # "load" => now' <= silent'
        BY <2>3, <2>4, <1>0, CapFacts DEF Age
  <2>6. pc = "pause" => silent' - now' >= SleepAfter
        BY <2>3, <2>4, <1>0, CapFacts DEF Age
  <2>7. QED BY <2>1, <2>2, <2>3, <2>5, <2>6
<1>24. CASE UNCHANGED vars
      BY <1>24 DEF vars
<1>25. QED
      BY <1>1, <1>2, <1>3, <1>4, <1>5, <1>6, <1>7, <1>8, <1>9, <1>10, <1>11, <1>12,
         <1>13, <1>14, <1>15, <1>16, <1>17, <1>18, <1>19, <1>20, <1>21, <1>22, <1>23,
         <1>24
      DEF Next, Handler, Select, Environment

\* Only a look at Docker, or a call that worked, changes what the controller believes.
LEMMA BeliefStep == TypeOK /\ Belief /\ [Next]_vars => Belief'
<1> SUFFICES ASSUME TypeOK, Belief, [Next]_vars PROVE Belief'
    OBVIOUS
<1>0. rt \in Runtime /\ row \in Runtime
      BY DEF TypeOK
<1> USE DEF Belief, local, world, history, bounds
<1>1. CASE Load
      BY <1>1 DEF Load, Call
<1>2. CASE InspectIP
      BY <1>2 DEF InspectIP, Call
<1>3. CASE handleInspectFailure
      BY <1>3, <1>0 DEF handleInspectFailure, Return, setStatus, Runtime
<1>4. CASE InspectPaused
  <2>1. rt'.paused = paused
        BY <1>4, <1>0 DEF InspectPaused, AfterInspection, setStatus, Runtime
  <2>2. pc' # "load" /\ paused' = paused
        BY <1>4 DEF InspectPaused, Call, Return, world
  <2>3. QED BY <2>1, <2>2
<1>5. CASE PauseSucceeds
      BY <1>5, <1>0 DEF PauseSucceeds, Call, setStatus, Runtime
<1>6. CASE PauseFails
      BY <1>6, <1>0 DEF PauseFails, Return, setStatus, Runtime
<1>7. CASE UnpauseSucceeds
      BY <1>7, <1>0 DEF UnpauseSucceeds, Call, Runtime
<1>8. CASE UnpauseFails
      BY <1>8, <1>0 DEF UnpauseFails, Return, setStatus, Runtime
<1>9. CASE notifyStatus
      BY <1>9, <1>0 DEF notifyStatus, Return, setStatus, Runtime
<1>10. CASE Drop
      BY <1>10 DEF Drop
<1>11. CASE InspectTick
      BY <1>11 DEF InspectTick, Call
<1>12. CASE PersistTick
      BY <1>12 DEF PersistTick
<1>13. CASE ReceivePacket
      BY <1>13, <1>0 DEF ReceivePacket, Call, setStatus, Runtime
<1>14. CASE ReceiveError
      BY <1>14, <1>0 DEF ReceiveError, setStatus, Runtime
<1>15. CASE Done
      BY <1>15 DEF Done
<1>16. CASE Cancel
      BY <1>16 DEF Cancel
<1>17. CASE CloseSession
      BY <1>17 DEF CloseSession
<1>18. CASE Restart
      BY <1>18 DEF Restart
<1>19. CASE Packet
      BY <1>19 DEF Packet
<1>20. CASE WatcherError
      BY <1>20 DEF WatcherError
<1>21. CASE OutsideToggle
      BY <1>21 DEF OutsideToggle
<1>22. CASE NewAddress
      BY <1>22 DEF NewAddress
<1>23. CASE Tick
      BY <1>23, <1>0 DEF Tick, OlderRuntime, Runtime
<1>24. CASE UNCHANGED vars
      BY <1>24 DEF vars
<1>25. QED
      BY <1>1, <1>2, <1>3, <1>4, <1>5, <1>6, <1>7, <1>8, <1>9, <1>10, <1>11,
         <1>12, <1>13, <1>14, <1>15, <1>16, <1>17, <1>18, <1>19, <1>20, <1>21,
         <1>22, <1>23, <1>24
      DEF Next, Handler, Select, Environment

\* The session and the address are replaced together.
LEMMA WatchStep == TypeOK /\ Watch /\ [Next]_vars => Watch'
<1> SUFFICES ASSUME TypeOK, Watch, [Next]_vars PROVE Watch'
    OBVIOUS
<1>0. rt \in Runtime /\ row \in Runtime
      BY DEF TypeOK
<1> USE DEF Watch, local, world, history, bounds
<1>1. CASE Load
      BY <1>1 DEF Load, Call, NoSession
<1>2. CASE InspectIP
      BY <1>2 DEF InspectIP, Call
<1>3. CASE handleInspectFailure
      BY <1>3, <1>0 DEF handleInspectFailure, Return, setStatus, Runtime
<1>4. CASE InspectPaused
  <2>1. rt'.ip = seen
        BY <1>4, <1>0 DEF InspectPaused, AfterInspection, setStatus, Runtime
  <2>2. sess' = BoundSession(seen) /\ pc' # "load" /\ cancelled' = cancelled
        BY <1>4 DEF InspectPaused, Call, Return
  <2>3. QED BY <2>1, <2>2 DEF BoundSession, NoSession
<1>5. CASE PauseSucceeds
      BY <1>5, <1>0 DEF PauseSucceeds, Call, setStatus, Runtime
<1>6. CASE PauseFails
      BY <1>6, <1>0 DEF PauseFails, Return, setStatus, Runtime
<1>7. CASE UnpauseSucceeds
      BY <1>7, <1>0 DEF UnpauseSucceeds, Call, Runtime
<1>8. CASE UnpauseFails
      BY <1>8, <1>0 DEF UnpauseFails, Return, setStatus, Runtime
<1>9. CASE notifyStatus
      BY <1>9, <1>0 DEF notifyStatus, Return, setStatus, Runtime
<1>10. CASE Drop
      BY <1>10 DEF Drop, NoSession
<1>11. CASE InspectTick
      BY <1>11 DEF InspectTick, Call
<1>12. CASE PersistTick
      BY <1>12 DEF PersistTick
<1>13. CASE ReceivePacket
  <2>1. rt'.ip = rt.ip
        BY <1>13, <1>0 DEF ReceivePacket, setStatus, Runtime
  <2>2. sess # NoSession
        BY <1>13 DEF ReceivePacket, NoSession
  <2>3. sess'.ip = sess.ip /\ sess'.closed = sess.closed
        BY <1>13 DEF ReceivePacket, TypeOK, Session
  <2>4. QED BY <1>13, <2>1, <2>2, <2>3 DEF ReceivePacket, Call
<1>14. CASE ReceiveError
  <2>1. rt'.ip = rt.ip
        BY <1>14, <1>0 DEF ReceiveError, setStatus, Runtime
  <2>2. sess # NoSession
        BY <1>14 DEF ReceiveError, NoSession
  <2>3. sess'.ip = sess.ip /\ sess'.closed = sess.closed
        BY <1>14 DEF ReceiveError, TypeOK, Session
  <2>4. QED BY <1>14, <2>1, <2>2, <2>3 DEF ReceiveError
<1>15. CASE Done
      BY <1>15 DEF Done, NoSession
<1>16. CASE Cancel
      BY <1>16 DEF Cancel
<1>17. CASE CloseSession
      BY <1>17 DEF CloseSession, TypeOK, Session
<1>18. CASE Restart
      BY <1>18 DEF Restart, NoSession
<1>19. CASE Packet
      BY <1>19 DEF Packet, TypeOK, Session
<1>20. CASE WatcherError
      BY <1>20 DEF WatcherError, TypeOK, Session
<1>21. CASE OutsideToggle
      BY <1>21 DEF OutsideToggle
<1>22. CASE NewAddress
      BY <1>22 DEF NewAddress
<1>23. CASE Tick
      BY <1>23, <1>0 DEF Tick, OlderRuntime, Runtime
<1>24. CASE UNCHANGED vars
      BY <1>24 DEF vars
<1>25. QED
      BY <1>1, <1>2, <1>3, <1>4, <1>5, <1>6, <1>7, <1>8, <1>9, <1>10, <1>11,
         <1>12, <1>13, <1>14, <1>15, <1>16, <1>17, <1>18, <1>19, <1>20, <1>21,
         <1>22, <1>23, <1>24
      DEF Next, Handler, Select, Environment

\* Only between a successful unpause and the busy status are flag and status apart.
LEMMA SnapshotStep == TypeOK /\ Snapshots /\ [Next]_vars => Snapshots'
<1> SUFFICES ASSUME TypeOK, Snapshots, [Next]_vars PROVE Snapshots'
    OBVIOUS
<1>0. rt \in Runtime /\ row \in Runtime
      BY DEF TypeOK
<1> USE DEF Snapshots, Consistent, local, world, history, bounds
<1>1. CASE Load
      BY <1>1 DEF Load, Call
<1>2. CASE InspectIP
      BY <1>2 DEF InspectIP, Call
<1>3. CASE handleInspectFailure
      BY <1>3, <1>0 DEF handleInspectFailure, Return, setStatus, Runtime
<1>4. CASE InspectPaused
  <2> DEFINE known == [rt EXCEPT !.ip = seen, !.paused = paused,
                                 !.lastTraffic = IF ResumeNoticed THEN now ELSE @]
  <2>a. known.paused = paused
        BY <1>0 DEF Runtime
  <2>b. rt' = setStatus(known, now, decideStatus(known, paused))
        BY <1>4 DEF InspectPaused, AfterInspection
  <2>c. known \in Runtime
    <3>1. now \in Age
          BY CapFacts DEF TypeOK, Age
    <3>2. QED BY <3>1, <1>0 DEF TypeOK, Runtime
  <2> HIDE DEF known
  <2>1. rt'.paused = paused /\ rt'.status = decideStatus(known, paused)
    <3> DEFINE s == decideStatus(known, paused)
    <3>1. rt' = IF known.status = s THEN known
                ELSE [known EXCEPT !.status = s, !.lastChange = now]
          BY <2>b DEF setStatus
    <3> HIDE DEF s
    <3>2. rt'.paused = known.paused /\ rt'.status = s
          BY <3>1, <2>c DEF Runtime
    <3>3. QED BY <3>2, <2>a DEF s
  <2>2. Consistent(rt')
        BY <2>1 DEF decideStatus, TypeOK
  <2>3. QED BY <1>4, <2>2 DEF InspectPaused
<1>5. CASE PauseSucceeds
      BY <1>5, <1>0 DEF PauseSucceeds, Call, setStatus, Runtime
<1>6. CASE PauseFails
      BY <1>6, <1>0 DEF PauseFails, Return, setStatus, Runtime
<1>7. CASE UnpauseSucceeds
      BY <1>7, <1>0 DEF UnpauseSucceeds, Call, Runtime
<1>8. CASE UnpauseFails
      BY <1>8, <1>0 DEF UnpauseFails, Return, setStatus, Runtime
<1>9. CASE notifyStatus
      BY <1>9, <1>0 DEF notifyStatus, Return, setStatus, Runtime
<1>10. CASE Drop
      BY <1>10 DEF Drop, NewRuntime
<1>11. CASE InspectTick
      BY <1>11 DEF InspectTick, Call
<1>12. CASE PersistTick
      BY <1>12 DEF PersistTick
<1>13. CASE ReceivePacket
      BY <1>13, <1>0 DEF ReceivePacket, Call, setStatus, Runtime
<1>14. CASE ReceiveError
      BY <1>14, <1>0 DEF ReceiveError, setStatus, Runtime
<1>15. CASE Done
      BY <1>15 DEF Done
<1>16. CASE Cancel
      BY <1>16 DEF Cancel
<1>17. CASE CloseSession
      BY <1>17 DEF CloseSession
<1>18. CASE Restart
      BY <1>18 DEF Restart, NewRuntime
<1>19. CASE Packet
      BY <1>19 DEF Packet
<1>20. CASE WatcherError
      BY <1>20 DEF WatcherError
<1>21. CASE OutsideToggle
      BY <1>21 DEF OutsideToggle
<1>22. CASE NewAddress
      BY <1>22 DEF NewAddress
<1>23. CASE Tick
      BY <1>23, <1>0 DEF Tick, OlderRuntime, Runtime
<1>24. CASE UNCHANGED vars
      BY <1>24 DEF vars
<1>25. QED
      BY <1>1, <1>2, <1>3, <1>4, <1>5, <1>6, <1>7, <1>8, <1>9, <1>10, <1>11,
         <1>12, <1>13, <1>14, <1>15, <1>16, <1>17, <1>18, <1>19, <1>20, <1>21,
         <1>22, <1>23, <1>24
      DEF Next, Handler, Select, Environment

\* The inductive invariant holds in every reachable state.
THEOREM Invariance == Spec => []ControllerInv
<1>1. Init => Silence /\ Belief /\ Watch /\ Snapshots
      BY DEF Init, Silence, ResumeGrace, Belief, Watch, Snapshots, Consistent,
             NewRuntime, NoSession
<1>2. TypeOK /\ Silence /\ Belief /\ Watch /\ Snapshots /\ [Next]_vars
        => (Silence /\ Belief /\ Watch /\ Snapshots)'
      BY SilenceStep, BeliefStep, WatchStep, SnapshotStep
<1>3. QED BY <1>1, <1>2, TypeCorrect, PTL DEF Spec, ControllerInv

\* A container is paused only after SleepAfter without a sign of life.
THEOREM ResumeGraceHolds == Spec => []ResumeGrace
<1>1. ControllerInv => ResumeGrace
      BY DEF ControllerInv, Silence
<1>2. QED BY <1>1, Invariance, PTL

\* Left alone, the controller knows whether its container is paused.
THEOREM BeliefMatches == Spec => []BeliefMatchesDocker
<1>1. ControllerInv => BeliefMatchesDocker
      BY DEF ControllerInv, Belief, BeliefMatchesDocker
<1>2. QED BY <1>1, Invariance, PTL

\* The controller listens to the address it last saw, and to nothing else.
THEOREM WatchFollows == Spec => []WatchFollowsAddress
<1>1. ControllerInv => WatchFollowsAddress
      BY DEF ControllerInv, Watch, WatchFollowsAddress
<1>2. QED BY <1>1, Invariance, PTL

\* Every persisted runtime agrees with itself.
THEOREM SnapshotsConsistent == Spec => []SnapshotConsistent
<1>1. ControllerInv => SnapshotConsistent
      BY DEF ControllerInv, Snapshots, SnapshotConsistent
<1>2. QED BY <1>1, Invariance, PTL
=============================================================================
