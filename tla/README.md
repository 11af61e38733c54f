# A verification project for hubfly-scale

hubfly-scale pauses containers nobody talks to, wakes them on the first packet, and scales CPU and memory limits of others.
It is one Go process.  Its decisions are taken by goroutines that wait for Docker, for `tcpdump`, for an HTTP platform and for
SQLite, and that are cancelled, replaced and restarted while they wait.  This directory models those decisions in TLA+, checks
the models with TLC and proves the central safety properties with TLAPS.

`PROJECT.json` lists every run, every property with a mutant of the code that breaks it, the source lines behind every definition,
the hazards of the code, and the theorems.

## Inventory

| part | state it keeps | operations | correct when |
|---|---|---|---|
| controller of a container, `internal/scaler/controller.go`, `logic.go` | runtime (address, status, paused, last traffic, last change), failure count, the watcher session | periodic inspection, pause, unpause on a packet, error, persist, cancellation, drop | it pauses only silent containers, knows whether its container is paused, listens to the present address, wakes it on traffic, stops when told |
| watcher, `internal/traffic/tcpdump_watcher.go` | registered sessions, desired filter, a channel of one filter, the running `tcpdump` | Start, unregister, the capture loop, notification | no filter is lost or overtaken, no send on a closed channel, an active session is captured |
| scaler manager, `internal/scaler/manager.go` | name → cancel function | StartOrRestart, Unregister, StopAll, LoadAndStart | one controller per name, and one for every listed name |
| container API, `internal/api/server.go` | none | register, delete, reload, list, bandwidth | see manager |
| store, `internal/store/sqlite.go` | tables of containers, runtimes, vertical configurations and runtimes, bandwidth; the set of dropped runtimes; a queue and batch of runtime updates | statements, each on its own | a row is not older than what was written last; a deleted name gets at most one late write; what is queued is written |
| vertical scaler, `internal/vscale` | limits believed in, cooldowns, four windows, previous statistics, failure count | poll, scale CPU, scale memory, persist, start, stop, drop | asks within the configuration, spaced by cooldowns, knows the limits in force, leaves headroom, does not starve |
| bandwidth limiters, `internal/bandwidth`, and their two tables | qdiscs, filters and `ifb` devices of the host | apply, re-apply at the start | what was answered is stored and in force, whatever was left behind before |
| clients, `internal/docker`, `externalresources`, `externalstatus` | none | calls that fail, hang until cancelled, or lose their answer | - |
| process, `cmd/hubfly-scale/main.go` | - | load, apply stored limits, listen, stop | nothing waits for the goroutines at the end |

How they interact: the API and `main` call the managers; a manager starts one goroutine per name and cancels it through its context;
a controller calls the watcher (channels back), Docker (processes killed by the context), the status client and the store, and may
call `Manager.Unregister` on its own container.  The managers' mutex protects the map only: every store statement and Docker call
is made outside it.  The watcher's mutex is held *while* a filter is put into its channel.

Hard behaviours: two goroutines of one name alive at once (a cancelled one is not waited for); calls killed after the daemon obeyed;
failures caused by the program's own cancellation; a Go `select` that may pick any ready case, closed channels being always ready;
state read before a call and used after it; a stored runtime older than what happened; a channel operation that blocks under a lock.

## Modules

| module | models | notes |
|---|---|---|
| `Controller` | one controller and its environment | `pc` is the place where `run` waits: the select or one of the calls; an action is what the code does between two such places |
| `MCController`, `ControllerProofs` | instances; proofs | |
| `FilterQueue` | abstract: filters arrive in order, only an outdated one may be skipped | |
| `Watcher` | sessions, mutex, filter channel, capture loop, `tcpdump` | refines `FilterQueue` |
| `MCWatcher`, `WatcherProofs` | instances; proofs, the refinement included | |
| `Registry` | manager, requests, the two rows of a name, and its controllers as far as they are started, cancelled and drop themselves | each SQL statement and each critical section is an action |
| `MCRegistry`, `RegistryProofs` | instances; proofs | |
| `VScale` | the vertical scaler of one container, its manager, its rows and the platform | |
| `MCVScale`, `VScaleProofs` | instances; proofs | |
| `SnapshotLine` | abstract: a snapshot is handed over once; queued ones of a container reach its row in order, at most once; held ones at any time, once | |
| `Store` | the dropped set, the queue, the batcher and the direct writes of runtime snapshots | |
| `StoreOrder` | `Store` shown to implement `SnapshotLine`, for each container | the mapping is `Way`, by places |
| `MCStore`, `StoreProofs`, `StoreOrderProofs` | instances; proofs, the refinement included | |
| `Bandwidth` | both limiters command by command, the requests and the start that run them, the host they change | |
| `MCBandwidth`, `BandwidthProofs` | instances; proofs | |

### Controller

`rt` is `c.runtime`, `fails` is `c.inspectFailures`, `sess` the locals `watchCancel`, `packetCh` and `errCh`, `row` the persisted runtime,
`paused` and `addr` what Docker would answer.  A timestamp is the number of ticks since, capped at `Cap`, so the model runs for ever in
finitely many states; `now` is the age of the reading of the clock that `reconcile` took at its start and keeps using, so that slow
calls are visible.  `armed` tells whether a call began before the cancellation and may still succeed; afterwards `exec.CommandContext`
makes it fail.  `silent`, `heard` and `touched` are history variables that no guard reads.  `InspectPaused` is the rest of `reconcile`
after the second inspection, rebinding and decision included, up to `docker pause`.  `Drop` and `Restart` model an `Unregister` by the
controller itself and a crash, an exit or a replacement.  A queued snapshot is written at once (the batcher may delay it by a second);
`Start` of the watcher is taken to return (run `watcher_start` shows when it does not).

### Watcher

`phase[s]` says where the caller of `Start` and the goroutine it left behind are; `mu` and `step` where the holder of the mutex is in
`updateFilterLocked`, whose `default` branch is two more steps (`DrainFilter`, `SendFilter`) because the capture loop can run between
them.  `capture` is the `tcpdump` the loop can still cancel, `dying` the cancelled ones, whose output may still be read; one that is cancelled before
its `tcpdump` runs reports an error (`CancelledEnds`), as the code does not look at the context there.  Readers of the
mutex do not block inside and are single steps.  A session that is started a second time is another session.

### Registry

`pc[p]` is the next statement of a request, of the boot, or of a controller that runs `Unregister`.  `allowRuntime`, the two inserts, the
critical section, `DropRuntime` and the delete are separate actions, so that every interleaving of two requests is there.  The second
insert may find its container deleted meanwhile and is then refused by the foreign key (`ForeignKeyFails`).  A delete may or may not cascade to the runtime row: the pragma is set on one connection of the pool.  Names do not interact, so one name is enough.

### VScale

A poll is `Poll(usage)`: the windows, the CPU decision, and only if that one made no decision the memory decision.  A call to the
platform is in progress while `pc = "updating"`, and it ends in one of three ways: granted (`UpdateSucceeds`), refused without effect
(`UpdateRefused`, any number of times), or applied with the answer lost (`AnswerLost`, a counted event).  A window is the
sequence of its last samples, which is what the ring buffer of `cpu.go` and `mem.go` holds, its order aside, and nothing reads its order.
CPU is an integer in units in which `max_cpu` is a multiple of four, as `scaleCPU` steps by a quarter of it; memory is in units of which `memUpStepMB` is `MemStep`.
Time passes during a call as well; a cooldown counts from the poll that began it, as in the code.  The model starts when a container has just been registered for the first time.
`quiet` and `lost` are history: what remains of the cooldowns the platform has seen begin or answered, and the limits about which the controller has
been given no answer.  One controller is modelled at a time: a replaced controller's final write counts either as done before the new one loads or as
never done, and the manager's calls are single steps.  `Manager.Touch` is called by nobody and is left out.

### Store

A snapshot is a name and a version; versions are counted per container in the order in which its controllers take them.  `pc[c]` is where a
controller is between two shared effects: `QueueRuntimeUpdate` looks at the dropped set and only then sends (`Send`), or finds the queue full
(`SendFull`) and looks again before it writes; the final `UpdateRuntime` looks and then writes.  `hand` is what the batcher has received and
not yet looked up in the dropped set.  A flush is one transaction and therefore one step; it does not look at the dropped set.  `FlushFails` is any of its
ignored errors: no transaction, no statement, one failed execution among others, no commit.  Several controllers of one container
may be alive, as a replaced one is not waited for.  A registration and a deletion are `allowRuntime` with the insert, and `DropRuntime` with the later
delete; `Registry` has them statement by statement.  `Close` stops the batcher while controllers still run, which `main` does not wait for: what is
then in the queue is lost.  The batcher runs from the start (`NewSQLiteStore`).  `lost`, `late`, `lastQueued` and
`lastDirect` are history.

`StoreOrder` refines `SnapshotLine` for each container.  `Way` gives every queued snapshot under way its place - the batch, the hand, the positions of the queue -
and the line is the set of these snapshots with the order of their places: a queue that loses its head changes no place's order.  The snapshots that passed the check of a
direct write are those held; those not yet made, and those a controller is about to send, are fresh.  In the abstract specification a held snapshot may be written at any time: that is the overtaking the code allows, and all of it.

### Bandwidth

A limit is a set of places, one for each `tc` or `ip` command that `Apply` may run.  `LimitContainer` and `LimitNetwork` say of a place its command, and the place that
follows when it succeeds and when it fails (`Try`; `Quiet` when the error is ignored, `Must` when it is returned).  `at[w]` is the place of a worker - a request, or `applyStoredBandwidth` at
the start - and `port[w]` the port of the bridge it has come to.  A request runs its commands one at a time, interleaved with others, and stores the limit last.  `Accepts` and `Effect` are the host: a device has one root qdisc and one place for a qdisc of incoming packets,
`ingress` or `clsact`; `add` refuses when there is one, `del` when there is none of that kind.  A command may also fail by itself, and a client that leaves
kills the one that is running.  A restart may keep the host or begin with a bare one; then stored limits are applied in `applyStoredBandwidth`'s order.
Lookups (docker inspect, nsenter, `ip -o link`) change nothing and find the device or fail.  A container stands for the host's end of its veth pair, which it
keeps.  `fair` and `clean` are history: workers nobody disturbs, and targets whose last limit was applied undisturbed and answered.

Two things this model makes visible and the properties spell out: a container's ingress limit cannot be applied while the network's `clsact` qdisc sits on its veth
(`del ingress` does not remove it, the following `add` is refused; the exception in `LeftoversDoNotMatter`), and a network's ingress limit
silently replaces the redirection of its containers, whose ingress limit is then not in force (the network's request is one that touches theirs, so `clean` loses them).

## Runs

| run | expects | shows |
|---|---|---|
| `controller_safety` | pass | `ResumeGrace`, `BeliefMatchesDocker`, `WatchFollowsAddress`, `SnapshotConsistent` over all interleavings |
| `controller_live` | pass | `WakesOnTraffic`, `FallsAsleep`, `StopsWhenCancelled` |
| `controller_silent` | violation | a failed inspection restarts the silence of a container that never had traffic |
| `controller_reload` | violation | a reload or crash pauses a container that had traffic |
| `watcher` | pass | `LatestFilterWins`, `NoSendOnClosed`, the refinement `KeepsOrder`, the liveness `ActiveIsCaptured` |
| `watcher_start` | violation | `Start` may block for ever, holding the mutex |
| `registry` | pass | `OneController`, `ListedIsServed` |
| `registry_drop` | violation | a cancelled controller unregisters a healthy container |
| `vscale` | pass | `AsksWithinLimits`, `KnowsLimits`, `KeepsHeadroom`, `ChangesSpaced`, the liveness `StarvedAsksForMemory` |
| `store` | pass | `SettledRow`, `OneLateBatch`, the refinement `InOrder`, the liveness `Drains` |
| `bandwidth` | pass | `StoredIsInForce`, `LeftoversDoNotMatter`, `NoBlackHole` |
| `vscale_oom` | violation | an OOM seen by a poll that scales CPU does not double memory |

### Bounds

- `controller_safety`: two addresses (a move away and back), `SleepAfter` 2 and `BusyWindow` 1 (busy, idle and due are three different ages),
  calls of up to one tick, one fault, one restart.  A fault is a refused call, a watcher error, an outside pause or a move; with the calls
  that fail for free under cancellation, three failures in a row and the drop are reached.
- `controller_live`: one address and instantaneous calls, since liveness needs neither; one fault.  With `MaxCall = 0` the ticks fall between handlers.
- `watcher`: two sessions are enough for a full channel and a session that leaves while another comes; two addresses tell filters apart.  Each session
  is used once, so the behaviours are finite in their calls and infinite in packets.
- `registry`: three requests race, three controllers may exist, two configurations, one restart, three faults (the limit of inspections).
  `registry_drop` is the same with two requests and two faults: fewer than the limit, so Docker's refusals alone cannot cause the drop.  The shortest
  trace has none of them; with two real refusals before the signal one cancelled inspection suffices.
- `vscale`, `vscale_oom`: windows of two samples (three, twelve, four and 360 in the code), thresholds as in the code, cooldowns of one and two ticks (memory down
  longer than up), working sets at and above half of the maximum, and one event: an OOM kill, a failed poll, a lost answer, a forced restart, another registration or a
  restart of the container.  Refused updates, orderly stops, deletions and starts from the rows are not counted.  In `vscale` one configuration (`FreeBoth`) leaves both CPU and memory
  free, so that the two compete for a poll, and its ends are no multiples of the steps; the other (`Fixed`) moves nothing and has all its limits outside the first, so a registration
  under either finds stored limits that must be clamped.  CPU samples (`Usages`) are none, low or high there; one between the thresholds counts for neither window and is used in `vscale_oom`,
  whose configuration (`FreeSteps`) has more CPU steps.
  With one event the windows fill, empty and fill again around it; a second one would multiply a graph of a million states, and `VScaleProofs` covers any number for the safety properties.
  `beat` makes a poll that finds nothing new a step, so that fairness can ask for the next one and a poll that starves memory is seen.
  The proportions of the thresholds are those of the code; the lengths of windows only count samples.
- `store`: a queue of two and batches of two, so that both become full; two controllers of one container, which overlap as a replaced one and its successor do, and one of another,
  which shares queue and batch; two snapshots of the first container and one of the second; one fault (a failed statement or transaction, or a restart) and one drop.
- `bandwidth`: two containers in the network and one outside; two requests that may ask for either direction or both, one of them for less than half a kbit, of which `formatRate` makes one;
  two faults, so that what one leaves behind meets another; one restart, of the process or of the host.
- Every bound is a constant and appears in a guard: `MaxFaults`, `MaxRestarts`, `MaxCall`, `MaxKills`, `MaxEvents`, `MaxSnaps`, `MaxDrops`.  `SYMMETRY` is used only in runs
  without temporal properties.
- Deadlock is not checked in `watcher` (the code does deadlock, see `watcher_start`; and it stops when every session is closed) nor in `registry`, `store` and `bandwidth` (every request, controller and snapshot is used once and the process comes to rest).

### What the properties leave open

`BeliefMatchesDocker` does not speak of cancelled controllers, whose calls may be killed after the daemon obeyed; `WatchFollowsAddress` is about the address last seen, not the one Docker
has given since; `OneController` and `ListedIsServed` say that a container is served by one controller, not by which configuration, nor that a deletion outlives a reload that had read the
row before; `SettledRow` lets a batch overwrite a controller's final write, and `OneLateBatch` counts batches, not the direct write that each controller may have checked before a drop; `KnowsLimits`
is silent between a lost answer and the next one.  In each case the code permits what is left open, and the hazard in `PROJECT.json` says so.

### Fairness

`Controller`: the goroutine's handlers are weakly fair, because Docker calls end and goroutines are scheduled; the cases of the select are
strongly fair, because Go picks a ready case at random, so none that is ready again and again is ignored for ever; time passes.  Nothing is
assumed of packets, the operator or Docker's answers, whose faults are bounded by `MaxFaults`.  `Watcher`: the holder of the mutex and the capture loop
run; a goroutine that waits for a Go mutex gets it in the end, hence strong fairness for `unregister`; a started `tcpdump` captures or dies.
`ActiveIsCaptured` is conditional on the mutex being free again and again, which the deadlock of `watcher_start` refutes.  `VScale`: the controller loads, its ticker
ticks, its calls end, granted or refused, and time passes; the platform owes it nothing.  Under that alone memory can be starved: a platform that refuses every CPU update leaves the CPU windows full,
and each poll asks for CPU again and returns (TLC shows the loop when the assumption is taken away).  `StarvedAsksForMemory` therefore states its assumption itself, `GrantsCPU`: a CPU update asked for again and again
is granted some time.  Memory updates may be refused for ever; the property then says that they are asked for again and again.  `Store`: the
batcher's goroutine runs, and its select ignores neither a queue nor a ticker that is ready again and again; of the controllers nothing is assumed but that `Drains` speaks
of the time when none is in the middle of a send.

## Findings

1. **`Watcher.Start` can block for ever** (`tcpdump_watcher.go:102`, run `watcher_start`).  The capture loop receives between the failed send and the drain;
   the drain waits for a filter which only a holder of the mutex could send.  All later calls wait for the mutex.
2. **A cancelled controller can unregister its container** (`controller.go:206`, run `registry_drop`), since its own cancellation makes inspections fail.
3. **A replaced or restarted controller forgets traffic** (`controller.go:61`, run `controller_reload`).
4. **A failed inspection restarts the silence** of a container without traffic (`controller.go:207`, run `controller_silent`).
5. **An OOM is spent when CPU is scaled** in the same poll (`vscale/controller.go:127`, run `vscale_oom`).

The README of the repository also gives other constants than `vscale/cpu.go` and `mem.go` for steps, windows and cooldowns; the models follow the code.

## Proofs

TLAPS proves, for every value of the constants that the named assumptions allow:

- `ControllerProofs`: type correctness, `ResumeGrace`, `BeliefMatchesDocker`, `WatchFollowsAddress`, `SnapshotConsistent`.  The inductive invariant
  `ControllerInv` has one part for each.  `Silence`: what the code measures (`IdleSince`) never says more than the history `silent`, and the handler's reading of the
  clock is no older than it - so what `shouldPause` decides on `IdleSince` is true of `silent`, also when a status change is dated.  `Belief`: the belief
  is right at every place, not only at the select, while nobody else touches the container and the context lives; a fresh controller counts as touched until its first
  inspection.  `Watch`: the session is the one of the runtime's address at every place.  `Snapshots`: the runtime itself is consistent at every place but `notifyRunning`,
  where it is unpaused and still called sleeping; the row is a copy of it taken elsewhere.  Each action has a step of its own.
- `WatcherProofs`: type correctness with `LatestFilterWins` and `NoSendOnClosed`, and the refinement of `FilterQueue`.  `WatcherInv` adds `Holder` (the session that
  holds the mutex is starting or unregistering, and a filter is replaced only in an emptied channel) and `Registered` (a registered session is in a phase before its
  removal).  The refinement maps the channel, and the filter still to be sent by the holder of the mutex, to the queue; every step is a `Put`, a `Skip`, a `Take` or a stutter.
- `RegistryProofs`: type correctness, `OneController`, which is inductive with it, and `ListedIsServed`, which speaks of quiet states; its strengthening `ServedOrPending`
  says of every state that a listed container has a controller, or some caller is about to install one or to delete the row.

- `StoreProofs`: type correctness, `SettledRow`, `OneLateBatch`.  `StoreInv` adds `NewestQueued` (the youngest snapshot of a container in the queue, else the one in hand,
  else the one in the batch, is the one queued last, unless that was lost) - so when the last of them is written the row holds it - and `LateInv` (a dropped name that has been
  written since has nothing left in the batch, and nothing new gets into it).
- `StoreOrderProofs`: the refinement `InOrder`, for any containers, controllers and capacities.  `OrderInv` says that a snapshot is in one place only: what controllers have in hand was
  made for their container and differs from one to the other (`SnapsInv`), and what is on its way was made, is nowhere else on its way and in no controller's hands (`WayInv`).  Without it the line, a
  set, could lose two snapshots at once.  `Moved` does what all steps of the goroutine have in common: when one snapshot, or none, leaves and the others keep their order, the line is
  short of that one and ordered as before.  `ReceiveStep`, `JudgeStep` and `FlushStep` say how the places move; `SendMoves` that a new one comes last; `PutDown` and `SnapStep` what controllers
  give up and take up.  Every step is then a step of `SnapshotLine` or a stutter, for each container.
- `BandwidthProofs`: type correctness, `StoredIsInForce`, `NoBlackHole` and the action property `LeftoversDoNotMatter`, for any containers, any order and number of ports, any requests, limits, faults
  and restarts.  The heart of `BandwidthInv` is `Progress`: for each place of a limit, what a worker that nobody disturbs finds on the host there - deleted qdiscs before the ones that are added, the rate on the
  device before the redirection to it, the ports before this one redirected already - so that no command it needs is refused (`ContainerAccepted`, `NetworkAccepted`) and the limit is in force at the last place.
  `ContainerRuns`, `NetworkRuns` and `PortRuns` show it command by command for those that succeed, `ContainerRefused` and `NetworkRefused` for those whose failure is not the end.  That others leave these
  devices alone takes `Alone` (what two workers touch is disjoint, or neither counts as undisturbed), and `Apart` (a command changes only what its limit touches); `Undisturbed` is the same for limits already in
  force.  `LinksInv` is an invariant of all workers, disturbed or not: behind the `up` of a limit its `ifb` is up.  `BootInv` says why the start, which stores nothing, ends with what is stored in force: no request is
  served before.
- `VScaleProofs`: type correctness, `AsksWithinLimits`, `KnowsLimits`, `KeepsHeadroom`, `ChangesSpaced`, for all configurations, window sizes, thresholds of hits, steps and cooldowns.
  First the arithmetic: a step up or down of the CPU stays inside the limits (`CPUTargets`), clamping does (`Clamped`, `InitState`), a step down to the 95th percentile and 30% leaves 95 of
  100 samples their headroom (`BelowIsRoomy`, by counting).  From it follows what one poll may ask for (`PollOutcome`).  `VScaleInv` then ties the limits in force and what remains of their
  cooldowns to `Belief`: what the controller believes, or, between two controllers, what the next one will find in the row (`KnowsInv`).  Without the row in it the
  invariant would not survive an orderly restart.

The assumptions are those stated in the modules: identities are distinct, the ports of a bridge are distinct containers, durations and bounds are naturals, configurations are valid.
Only model-checked: the liveness properties `WakesOnTraffic`, `FallsAsleep`, `StopsWhenCancelled`, `ActiveIsCaptured`, `StarvedAsksForMemory` and `Drains`, because reasoning under fairness is
beyond the prover.  Every invariant, action property and refinement of the passing runs is proved.

## Not modelled

- Parsing and encoding in the clients and of what `ip` prints; environment variables and the `.env` file; logging; the bodies of HTTP answers; the migration of the database.
- IPv6 addresses, which the watcher does not recognise; `sleep_after_seconds` so large that it wraps around.
- A DELETE's unpause racing the controller it is about to cancel; a second vertical controller of the same name finishing beside its replacement.
- Interface indexes that coincide: `ifb` devices are named by them, a container's is counted in its own namespace (`limiter.go:237`), so two containers may be given the same device.
  `Bandwidth` assumes that they differ (`IndexAssumption`).
- A container that restarts, and with it loses its veth and its limits, which nothing applies again before the next start of the process.
- Names are independent of each other except in `Store`, `Watcher` and `Bandwidth`, which share a queue, a capture and a bridge; the other modules have one.

What could be modelled next: the unpause of a DELETE as a step of its own in `Controller`, and two controllers of one name in `VScale`.
