--------------------------------- MODULE VScale ---------------------------------
(***************************************************************************)
(* Vertical scaling of one container (internal/vscale): a goroutine that   *)
(* polls the container's statistics, keeps windows of samples, and asks    *)
(* the platform for another CPU or memory limit; the manager that starts,  *)
(* replaces and stops it; its two rows in SQLite.  The platform (package   *)
(* externalresources), Docker and the clock are the environment.           *)
(*                                                                         *)
(* CPU is counted in units of which every max_cpu is a multiple of four,   *)
(* memory in units of which memUpStepMB and memDownStepMB are MemStep.  A  *)
(* cooldown is the time that remains of it, in ticks, counted from the     *)
(* poll that began it: it runs while the platform is waited for.           *)
(***************************************************************************)
EXTENDS Naturals, Sequences, FiniteSets

CONSTANTS
    Cfgs,                 \* the configurations that may be registered
    NoCfg, NoRow,         \* no row in a table
    Usages,               \* a sample of CPU usage: "low" and "high" are beyond the thresholds
    WorkingSets,          \* what the container may use of memory
    UpSize, UpHits,       \* cpuScaleUpWindowSize, cpuScaleUpHits
    DownSize, DownHits,   \* cpuScaleDownWindowSize, cpuScaleDownHits
    MemUpSize, MemUpHits, \* memUpWindowSize, memUpRequiredHits
    MemDownSize,          \* memDownWindowSize
    MemStep,              \* memUpStepMB, memDownStepMB
    CPUCooldown, MemUpCooldown, MemDownCooldown,
    MaxKills,             \* bound: the kernel's OOM counter
    MaxEvents             \* bound: failed reads, lost answers, OOM kills, restarts of the
                          \* container or the process, registrations

\* What StartOrRestart accepts.
Valid(c) ==
    /\ c.minCPU \in Nat \ {0} /\ c.maxCPU \in Nat /\ c.minCPU <= c.maxCPU
    /\ c.maxCPU % 4 = 0
    /\ c.minMem \in Nat \ {0} /\ c.maxMem \in Nat /\ c.minMem <= c.maxMem

\* A snapshot of a controller, as vertical_runtime holds it.
Runtime == [cpu : Nat, mem : Nat, cpuCool : Nat, memCool : Nat]

ASSUME CfgAssumption == \A c \in Cfgs : Valid(c)
ASSUME NoAssumption == NoCfg \notin Cfgs /\ NoRow \notin Runtime
ASSUME SizeAssumption ==
    /\ {UpSize, DownSize, MemUpSize, MemDownSize, MemStep} \subseteq Nat \ {0}
    /\ {UpHits, DownHits, MemUpHits} \subseteq Nat \ {0}
    /\ {CPUCooldown, MemUpCooldown, MemDownCooldown, MaxKills, MaxEvents} \subseteq Nat
    /\ WorkingSets \subseteq Nat /\ Usages \subseteq {"none", "low", "mid", "high"}

maxStatsFailures == 3

VARIABLES
    pc,        \* where the goroutine is; "off": there is none
    cancelled, \* its context is cancelled
    cfg,       \* c.cfg
    rt,        \* c.runtime
    win,       \* cpuUpWindow, cpuDownWindow, memWindow, memLongWindow
    prev,      \* c.prevStats and c.hasPrevStat: the OOM counter read last
    fails,     \* c.statsFailures
    pend,      \* the call of updateResources in progress
    beat,      \* pollTicker: a poll that changes nothing else is still a poll
    cfgRow,    \* the row of table vertical_containers
    row,       \* the row of table vertical_runtime
    limits,    \* the platform: the limits it enforces
    used,      \* the container: its working set
    kills,     \* the container: its OOM counter
    events,
    quiet,     \* history: what remains of the cooldowns the platform has seen begin, or answered
    lost       \* history: the limits about which the controller may be wrong

goroutine == <<pc, cancelled, cfg, rt, win, prev, fails, pend, beat>>
tables == <<cfgRow, row>>
container == <<used, kills>>
history == <<quiet, lost>>
vars == <<goroutine, tables, limits, container, events, history>>

Resources == {"cpu", "mem"}
Unset == 0     \* a limit this service has never asked for
Event == events < MaxEvents /\ events' = events + 1

Min2(a, b) == IF a < b THEN a ELSE b
Max2(a, b) == IF a > b THEN a ELSE b

Empty == [up |-> <<>>, down |-> <<>>, mem |-> <<>>, long |-> <<>>]
NoStats == [has |-> FALSE, kills |-> 0]
NoCall == [what |-> "none", target |-> 0, cooldown |-> 0, oom |-> FALSE]
NewRuntime(c) == [cpu |-> c.minCPU, mem |-> c.minMem, cpuCool |-> 0, memCool |-> 0]

\* A container has just been registered, for the first time.
Init ==
    /\ pc = "load" /\ cancelled = FALSE /\ cfg \in Cfgs /\ rt = NewRuntime(cfg)
    /\ win = Empty /\ prev = NoStats /\ fails = 0 /\ pend = NoCall /\ beat = FALSE
    /\ cfgRow = cfg /\ row = NewRuntime(cfg)
    /\ limits = [r \in Resources |-> Unset]
    /\ used \in WorkingSets /\ kills = 0
    /\ events = 0
    /\ quiet = [r \in Resources |-> 0] /\ lost = {}

-----------------------------------------------------------------------------
(* Windows and targets: cpu.go, mem.go and the arithmetic of controller.go. *)

\* Mutant: the oldest sample stays.
AddOnly(w, v, size) == Append(w, v)

Add(w, v, size) == LET s == Append(w, v) IN IF Len(s) > size THEN Tail(s) ELSE s

\* Reset of the windows of a part.
WithoutCPU(w) == [up |-> <<>>, down |-> <<>>, mem |-> w.mem, long |-> w.long]
WithoutMem(w) == [up |-> w.up, down |-> w.down, mem |-> <<>>, long |-> <<>>]

Count(w, v) == Cardinality({i \in DOMAIN w : w[i] = v})

\* p is the smallest sample that 95 of 100 do not exceed.
P95(w, p) ==
    LET upTo(v) == Cardinality({i \in DOMAIN w : w[i] <= v})
        rank == (95 * Len(w) + 99) \div 100
    IN  upTo(p) >= rank /\ \A i \in DOMAIN w : upTo(w[i]) >= rank => p <= w[i]

\* scaleCPU moves to the next multiple of a quarter of max_cpu, inside the limits.
step(c) == c.maxCPU \div 4
CPUAbove(c, cpu) == Min2((cpu \div step(c) + 1) * step(c), c.maxCPU)
CPUBelow(c, cpu) == Max2(((cpu - 1) \div step(c)) * step(c), c.minCPU)

ClampMem(c, mem) == Max2(Min2(mem, c.maxMem), c.minMem)

\* Mutant: a step down looks at the working set, without headroom.
MemBelowTight(c, mem, p95) ==
    Max2(IF mem > MemStep THEN mem - MemStep ELSE 0, Max2(p95, c.minMem))

\* A step down keeps a headroom of 30% over the working set.
MemBelow(c, mem, p95) ==
    Max2(IF mem > MemStep THEN mem - MemStep ELSE 0,
         Max2((13 * p95 + 9) \div 10, c.minMem))

\* Mutant: what was stored is used as it is.
initCPUUnclamped(c, r) == r

initCPUState(c, r) ==
    [cpu |-> Min2(Max2(r.cpu, c.minCPU), c.maxCPU), mem |-> ClampMem(c, r.mem),
     cpuCool |-> r.cpuCool, memCool |-> r.memCool]

-----------------------------------------------------------------------------
(* The goroutine. *)

Running == pc = "idle"

\* newController, then loadPersistedRuntime and initCPUState.  When the read fails, the
\* controller believes in the smallest limits.
Load ==
    /\ pc = "load" /\ pc' = "idle"
    /\ \/ /\ rt' = initCPUState(cfg, IF cfgRow # NoCfg /\ row # NoRow THEN row ELSE rt)
          /\ UNCHANGED <<events, lost>>
       \/ /\ Event
          /\ rt' = initCPUState(cfg, rt) /\ lost' = Resources
    /\ UNCHANGED <<cancelled, cfg, win, prev, beat, fails, pend, tables, limits, container, quiet>>

\* The call to the platform that scaleCPU or scaleMemory makes.
Ask(what, target, cooldown, oom) ==
    /\ pend' = [what |-> what, target |-> target, cooldown |-> cooldown, oom |-> oom]
    /\ pc' = "updating"

Stay == UNCHANGED <<pc, pend>>

\* Mutant: the windows stay full when the target is the present limit.
scaleCPUKeeping(w, target) ==
    IF target = rt.cpu THEN win' = w /\ Stay
    ELSE win' = w /\ Ask("cpu", target, CPUCooldown, FALSE)

scaleCPU(w, target) ==
    IF target = rt.cpu
      THEN win' = WithoutCPU(w) /\ Stay
      ELSE win' = w /\ Ask("cpu", target, CPUCooldown, FALSE)

scaleMemory(target, cooldown, oom) ==
    LET t == ClampMem(cfg, target)
    IN  IF t = rt.mem THEN Stay ELSE Ask("mem", t, cooldown, oom)

\* w: the windows after the CPU part.  StartOrRestart made the limits sound.
handleMemoryScale(w, oom) ==
    LET level == IF 100 * used >= 85 * rt.mem THEN "high" ELSE "mid"
        mem == IF used > 0 THEN Add(w.mem, level, MemUpSize) ELSE w.mem
        long == Add(w.long, used, MemDownSize)
        full == Len(long) = MemDownSize
        up == used > 0 /\ Len(mem) = MemUpSize /\ Count(mem, "high") >= MemUpHits
    IN  \/ /\ oom
           /\ win' = w /\ scaleMemory(2 * rt.mem, MemUpCooldown, TRUE)
        \/ /\ ~oom /\ rt.memCool > 0
           /\ win' = [w EXCEPT !.mem = <<>>] /\ Stay
        \/ /\ ~oom /\ rt.memCool = 0 /\ up
           /\ win' = [w EXCEPT !.mem = mem] /\ scaleMemory(rt.mem + MemStep, MemUpCooldown, FALSE)
        \/ /\ ~oom /\ rt.memCool = 0 /\ ~up
           /\ win' = [up |-> w.up, down |-> w.down, mem |-> mem, long |-> long]
           /\ \E p95 \in {long[i] : i \in DOMAIN long} :
                  /\ P95(long, p95)
                  /\ IF full /\ p95 > 0 /\ 2 * p95 <= rt.mem
                       THEN scaleMemory(MemBelow(cfg, rt.mem, p95), MemDownCooldown, FALSE)
                       ELSE Stay

\* handleScale with an answer of Docker.  The CPU usage that cpuUsagePercent finds is
\* "none" when there is nothing to compare with, or the counters went back.
Poll(usage) ==
    /\ Running /\ ~cancelled
    /\ usage # "none" => prev.has
    /\ prev' = [has |-> TRUE, kills |-> kills]
    /\ fails' = 0
    /\ UNCHANGED <<cancelled, cfg, rt, tables, limits, container, events, history>>
    /\ LET oom == kills > prev.kills
           cooling == rt.cpuCool > 0
           w == IF cooling THEN WithoutCPU(win)
                ELSE IF usage = "none" THEN win
                ELSE [up |-> Add(win.up, usage, UpSize), down |-> Add(win.down, usage, DownSize),
                      mem |-> win.mem, long |-> win.long]
           judged == usage # "none" /\ ~cooling
           up == judged /\ Len(w.up) = UpSize /\ Count(w.up, "high") >= UpHits
           down == judged /\ Len(w.down) = DownSize /\ Count(w.down, "low") >= DownHits
       IN  \/ up /\ scaleCPU(w, CPUAbove(cfg, rt.cpu))
           \/ ~up /\ down /\ scaleCPU(w, CPUBelow(cfg, rt.cpu))
           \/ ~up /\ ~down /\ handleMemoryScale(w, oom)
    /\ beat' = (~beat /\ UNCHANGED <<pc, win, prev, fails>>)

-----------------------------------------------------------------------------
(* Answers of the platform. *)

Applied == [limits EXCEPT ![pend.what] = pend.target]

\* Mutant: a change starts no cooldown.
Uncooled(r) == IF pend.what = "cpu" THEN [r EXCEPT !.cpu = pend.target]
               ELSE [r EXCEPT !.mem = pend.target]

Scaled(r) ==
    IF pend.what = "cpu"
    THEN [cpu |-> pend.target, mem |-> r.mem, cpuCool |-> pend.cooldown, memCool |-> r.memCool]
    ELSE [cpu |-> r.cpu, mem |-> pend.target, cpuCool |-> r.cpuCool, memCool |-> pend.cooldown]

\* The limit was applied: its cooldown is seen to begin when it changes.
Apply ==
    /\ limits' = Applied
    /\ quiet' = IF Applied = limits THEN quiet ELSE [quiet EXCEPT ![pend.what] = pend.cooldown]

\* An answer begins a cooldown even if nothing changed.
UpdateSucceeds ==
    /\ pc = "updating" /\ pc' = "idle" /\ pend' = NoCall
    /\ limits' = Applied /\ quiet' = [quiet EXCEPT ![pend.what] = pend.cooldown]
    /\ rt' = Scaled(rt)
    /\ win' = IF pend.what = "cpu" THEN WithoutCPU(win) ELSE WithoutMem(win)
    /\ lost' = lost \ {pend.what}
    /\ UNCHANGED <<cancelled, cfg, prev, beat, fails, tables, container, events>>

\* No id, no connection, or a refusal, as often as the platform likes: nothing changes, the
\* windows stay full, and the next poll asks again.
UpdateRefused ==
    /\ pc = "updating" /\ pc' = "idle" /\ pend' = NoCall
    /\ UNCHANGED <<cancelled, cfg, rt, win, prev, beat, fails, tables, limits, container,
                   events, history>>

\* The platform applied the limit, but its answer never came: to the controller, a refusal.
AnswerLost ==
    /\ pc = "updating" /\ pc' = "idle" /\ pend' = NoCall
    /\ IF cancelled THEN UNCHANGED events ELSE Event
    /\ Apply /\ lost' = lost \cup {pend.what}
    /\ UNCHANGED <<cancelled, cfg, rt, win, prev, beat, fails, tables, container>>

-----------------------------------------------------------------------------
(* The end of a controller, and the manager. *)

\* The goroutine returned: nothing of it is left.
Ended(c) ==
    /\ pc' = "off" /\ cancelled' = FALSE /\ cfg' = c /\ rt' = NewRuntime(c)
    /\ win' = Empty /\ prev' = NoStats /\ fails' = 0 /\ pend' = NoCall
    /\ beat' = FALSE

Store(r) == row' = IF row = NoRow THEN NoRow ELSE r

persist ==
    /\ Running /\ ~cancelled
    /\ Store(rt)
    /\ UNCHANGED <<goroutine, cfgRow, limits, container, events, history>>

\* Mutant: a cancelled controller leaves without writing.
DoneUnwritten ==
    /\ Running /\ cancelled
    /\ Ended(cfg)
    /\ UNCHANGED <<tables, limits, container, events, history>>

\* ctx.Done(): the last snapshot is written.
Done ==
    /\ Running /\ cancelled
    /\ Store(rt)
    /\ Ended(cfg)
    /\ UNCHANGED <<cfgRow, limits, container, events, history>>

\* The rows go; with the pragma foreign_keys off on the connection, only the first.
DeleteVertical ==
    /\ cfgRow' = NoCfg
    /\ row' \in {NoRow, row}

\* Unregister, by the drop of a controller or by a DELETE: the rows go, what was asked
\* of the platform stays in force there.
Unregister == DeleteVertical /\ lost' = Resources

\* Docker did not answer, or the context was cancelled; the third time in a row the
\* controller unregisters its container and ends without a snapshot.
PollFails ==
    /\ Running
    /\ IF cancelled THEN UNCHANGED events ELSE Event
    /\ \/ /\ fails + 1 < maxStatsFailures /\ fails' = fails + 1
          /\ UNCHANGED <<pc, cancelled, cfg, rt, win, prev, beat, pend, tables, lost>>
       \/ fails + 1 = maxStatsFailures /\ Ended(cfg) /\ Unregister
    /\ UNCHANGED <<limits, container, quiet>>

\* Whatever runs is cancelled.
CancelRunning == cancelled' = (pc # "off")

\* DELETE /v1/vertical/containers/{name}
DeleteRequest ==
    /\ cfgRow # NoCfg
    /\ CancelRunning /\ Unregister
    /\ UNCHANGED <<pc, cfg, rt, win, prev, beat, fails, pend, limits, container, events, quiet>>

\* StopAll
Stop ==
    /\ pc # "off" /\ ~cancelled /\ cancelled' = TRUE
    /\ UNCHANGED <<pc, cfg, rt, win, prev, beat, fails, pend, tables, limits, container,
                   events, history>>

Begin(c) ==
    /\ pc' = "load" /\ cancelled' = FALSE /\ cfg' = c /\ rt' = NewRuntime(c)
    /\ win' = Empty /\ prev' = NoStats /\ fails' = 0 /\ pend' = NoCall
    /\ beat' = FALSE

\* What becomes of a call in progress when its controller is cancelled or killed.
Interrupted ==
    IF pc = "updating" THEN Apply \/ UNCHANGED <<limits, quiet>> ELSE UNCHANGED <<limits, quiet>>

\* A registration: the rows are written, and a running controller is replaced without
\* waiting for its last snapshot.  One that comes after the new controller has loaded
\* counts as not written.
StartOrRestart(c) ==
    /\ Event
    /\ cfgRow' = c
    /\ row' \in IF row = NoRow THEN {NewRuntime(c)}
               ELSE IF pc \in {"idle", "updating"} THEN {row, rt} ELSE {row}
    /\ Begin(c)
    /\ Interrupted
    /\ lost' = Resources
    /\ UNCHANGED container

\* The process ends, perhaps before the last snapshot is written, and a new one starts
\* what the tables hold.  An end that finds no controller at work is not counted.
Restart ==
    /\ IF pc = "off" THEN UNCHANGED events ELSE Event
    /\ lost' = IF pc = "off" THEN lost ELSE Resources
    /\ Interrupted
    /\ IF cfgRow # NoCfg /\ row # NoRow
         THEN Begin(cfgRow)
         ELSE Ended(cfg)
    /\ UNCHANGED <<tables, container>>

-----------------------------------------------------------------------------
(* The container and the clock. *)

UsageChanges ==
    /\ used' \in WorkingSets
    /\ UNCHANGED <<goroutine, tables, limits, kills, events, history>>

OOMKill ==
    /\ kills < MaxKills /\ kills' = kills + 1 /\ Event
    /\ UNCHANGED <<goroutine, tables, limits, used, history>>

ContainerRestarts ==
    /\ Event
    /\ kills' = 0
    /\ UNCHANGED <<goroutine, tables, limits, used, history>>

Less(n) == IF n = 0 THEN 0 ELSE n - 1
Cooler(r) ==
    [cpu |-> r.cpu, mem |-> r.mem, cpuCool |-> Less(r.cpuCool), memCool |-> Less(r.memCool)]

\* Every cooldown is a point in time, in the tables and in a call too.
Tick ==
    /\ rt' = Cooler(rt)
    /\ row' = IF row = NoRow THEN NoRow ELSE Cooler(row)
    /\ pend' = [pend EXCEPT !.cooldown = Less(@)]
    /\ quiet' = [r \in Resources |-> Less(quiet[r])]
    /\ UNCHANGED <<pc, cancelled, cfg, win, prev, beat, fails, cfgRow, limits, container,
                   events, lost>>

-----------------------------------------------------------------------------
Polls == \E usage \in Usages : Poll(usage)

Next ==
    \/ Load \/ Polls \/ UpdateSucceeds \/ UpdateRefused \/ AnswerLost \/ persist \/ Done \/ PollFails
    \/ DeleteRequest \/ Stop \/ Restart
    \/ \E c \in Cfgs : StartOrRestart(c)
    \/ UsageChanges \/ OOMKill \/ ContainerRestarts \/ Tick

\* The goroutine goes on: it loads, its ticker ticks, its calls end, granted or refused; and
\* time passes.  The platform owes it nothing.
Fairness == WF_vars(Load \/ Polls \/ UpdateSucceeds \/ UpdateRefused) /\ WF_vars(Tick)

Spec == Init /\ [][Next]_vars /\ Fairness

-----------------------------------------------------------------------------
(* Properties. *)

Windows ==
    [up : Seq({"low", "mid", "high"}), down : Seq({"low", "mid", "high"}),
     mem : Seq({"mid", "high"}), long : Seq(WorkingSets)]

\* Every variable keeps to its type, every window to its size.
TypeOK ==
    /\ pc \in {"off", "load", "idle", "updating"} /\ cancelled \in BOOLEAN
    /\ cfg \in Cfgs /\ rt \in Runtime
    /\ win \in Windows
    /\ Len(win.up) <= UpSize /\ Len(win.down) <= DownSize
    /\ Len(win.mem) <= MemUpSize /\ Len(win.long) <= MemDownSize
    /\ beat \in BOOLEAN /\ prev \in [has : BOOLEAN, kills : 0..MaxKills]
    /\ fails \in 0..(maxStatsFailures - 1)
    /\ pend \in [what : {"none", "cpu", "mem"}, target : Nat, cooldown : Nat, oom : BOOLEAN]
    /\ (pc = "updating" <=> pend.what # "none")
    /\ cfgRow \in Cfgs \cup {NoCfg} /\ row \in Runtime \cup {NoRow}
    /\ limits \in [Resources -> Nat]
    /\ used \in WorkingSets /\ kills \in 0..MaxKills
    /\ events \in 0..MaxEvents
    /\ quiet \in [Resources -> Nat] /\ lost \subseteq Resources

Within(c, what, n) ==
    IF what = "cpu" THEN n \in c.minCPU..c.maxCPU ELSE n \in c.minMem..c.maxMem

\* Whatever was stored, sampled or killed, the platform is never asked for a limit
\* outside the configuration, and never for the one already believed in force
\* (controller.go:67-86, 158-196, 260-280).
AsksWithinLimits ==
    pc = "updating" =>
        /\ Within(cfg, pend.what, pend.target)
        /\ pend.target # (IF pend.what = "cpu" THEN rt.cpu ELSE rt.mem)

\* The controller knows the limits in force, through polls, failed calls, cooldowns
\* and orderly restarts, until an answer is lost, the process is killed or the
\* container is registered anew; and knows them again after the next answered change
\* (controller.go:59-65, 99-101, 185-195).
KnowsLimits ==
    pc \in {"idle", "updating"} =>
        /\ "cpu" \in lost \/ limits["cpu"] \in {Unset, rt.cpu}
        /\ "mem" \in lost \/ limits["mem"] \in {Unset, rt.mem}

\* The platform sees no second change of a limit before the cooldown of the first, or of
\* the last answer, is over, counted from the poll that asked for it, not even across an
\* orderly restart; but for an OOM, and while the controller does not know the limit
\* (controller.go:113, 134-136, 191-192, 229-232, 275-276).
ChangesSpaced ==
    [][\A what \in Resources :
          limits'[what] # limits[what] =>
              quiet[what] = 0 \/ what \in lost \/ (what = "mem" /\ pend.oom)]_vars

\* A step down is asked for only after a whole window of samples since the last change
\* of the limit, and leaves 95 of 100 of them a headroom of 30%
\* (controller.go:243-257, mem.go:68-83).
KeepsHeadroom ==
    pend.what = "mem" /\ pend.target < rt.mem =>
        LET roomy == {i \in DOMAIN win.long : 13 * win.long[i] <= 10 * pend.target}
        IN  /\ Len(win.long) = MemDownSize
            /\ 100 * Cardinality(roomy) >= 95 * MemDownSize

Starving ==
    pc \in {"idle", "updating"} /\ ~cancelled /\ 100 * used >= 85 * cfg.maxMem

\* The platform does not refuse a CPU limit for ever that it is asked for again and again.
GrantsCPU == SF_vars(UpdateSucceeds /\ pend.what = "cpu")

AsksForMore == pend.what = "mem" /\ pend.target > rt.mem

\* A container that keeps needing more than 85% of max_mem_mb gets max_mem_mb, or the
\* platform is asked for more memory again and again, whatever the CPU samples are and
\* however often CPU limits are changed, refused for a while, or already at their end: the
\* early returns of the CPU part do not starve the memory part of the poll.  A platform that
\* never again grants a CPU limit is excepted: there they do (controller.go:137-154, 179-188).
StarvedAsksForMemory ==
    GrantsCPU /\ <>[]Starving => []<>(rt.mem = cfg.maxMem \/ AsksForMore)

-----------------------------------------------------------------------------
(* What the documents say and the code does not do. *)

\* README: "OOM -> x2".  A poll that sees a new OOM asks for twice the memory, unless
\* max_mem_mb is reached.
OOMDoubles ==
    [][prev.has /\ prev'.kills > prev.kills
         => \/ rt.mem = cfg.maxMem
            \/ pend'.what = "mem" /\ pend'.target = Min2(2 * rt.mem, cfg.maxMem)]_vars
=============================================================================
