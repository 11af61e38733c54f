-------------------------------- MODULE Watcher --------------------------------
(***************************************************************************)
(* The traffic watcher (internal/traffic/tcpdump_watcher.go): sessions     *)
(* that callers start and cancel, one filter computed from all of them,    *)
(* handed through a channel of capacity 1 to the capture loop, which runs  *)
(* one tcpdump at a time; each captured line is handed to the sessions of  *)
(* the addresses in it.  A filter is the set of its addresses, the empty   *)
(* set being "".                                                           *)
(***************************************************************************)
EXTENDS Naturals, Sequences

CONSTANTS
    Sessions,     \* the sessions that may be started, each once
    IPs,          \* the addresses they may watch
    NoOne         \* nobody holds the mutex

ASSUME NoOneAssumption == NoOne \notin Sessions

VARIABLES
    phase,          \* of each session: what Start and the goroutine it leaves do
    ip,             \* the address of each session
    packetCh, errCh,\* the sessions whose channel, of capacity 1, holds something
    sessions,       \* w.sessions
    desiredFilter,  \* w.desiredFilter
    filterCh,       \* w.filterCh
    mu,             \* the writer that holds w.mu; readers never block inside
    step,           \* where the holder of w.mu is in updateFilterLocked
    got,            \* the filter captureLoop received last
    switching,      \* captureLoop has received `got` and not yet acted upon it
    capture,        \* the tcpdump that captureLoop can still cancel
    dying,          \* the cancelled tcpdumps that have not yet ended
    failing         \* a runCapture is on its way to broadcastError

callers == <<phase, ip>>
channels == <<packetCh, errCh>>
registry == <<sessions, desiredFilter>>
lock == <<mu, step>>
tcpdump == <<capture, dying, failing>>
vars == <<callers, channels, registry, filterCh, lock, got, switching, tcpdump>>

Filter == SUBSET IPs
NoCapture == [filter |-> {}, state |-> "none"]

Init ==
    /\ phase = [s \in Sessions |-> "new"]
    /\ ip \in [Sessions -> IPs]
    /\ packetCh = {} /\ errCh = {}
    /\ sessions = {} /\ desiredFilter = {}
    /\ filterCh = <<>>
    /\ mu = NoOne /\ step = "idle"
    /\ got = {} /\ switching = FALSE
    /\ capture = NoCapture /\ dying = {} /\ failing = FALSE

-----------------------------------------------------------------------------
(* Start and unregister, up to the channel operations. *)

buildFilter(set) == {ip[s] : s \in set}

\* What a caller does next when it gives the mutex back.
Released(s) == [phase EXCEPT ![s] = IF @ = "starting" THEN "active" ELSE "closing"]

\* Under the mutex, up to the select of updateFilterLocked: nothing to do when
\* the filter stays the same.
UpdateFilter(s, set, now, after) ==
    /\ sessions' = set
    /\ desiredFilter' = buildFilter(set)
    /\ IF desiredFilter' = desiredFilter
         THEN phase' = [phase EXCEPT ![s] = after] /\ UNCHANGED lock
         ELSE phase' = [phase EXCEPT ![s] = now] /\ mu' = s /\ step' = "select"
    /\ UNCHANGED <<ip, channels, filterCh, got, switching, tcpdump>>

Start(s) ==
    /\ phase[s] = "new" /\ mu = NoOne
    /\ UpdateFilter(s, sessions \cup {s}, "starting", "active")

\* The context given to Start is cancelled.
Cancel(s) ==
    /\ phase[s] = "active"
    /\ phase' = [phase EXCEPT ![s] = "cancelled"]
    /\ UNCHANGED <<ip, channels, registry, filterCh, lock, got, switching, tcpdump>>

\* Mutant: the session of an address that others watch too stays registered.
UnregisterLast(s) ==
    /\ phase[s] = "cancelled" /\ mu = NoOne
    /\ LET others == {t \in sessions \ {s} : ip[t] = ip[s]}
       IN  UpdateFilter(s, IF others = {} THEN sessions \ {s} ELSE sessions,
                        "unregistering", "closing")

unregister(s) ==
    /\ phase[s] = "cancelled" /\ mu = NoOne
    /\ UpdateFilter(s, sessions \ {s}, "unregistering", "closing")

\* close(packetCh), close(errCh), after the mutex was given back.
Close(s) ==
    /\ phase[s] = "closing"
    /\ phase' = [phase EXCEPT ![s] = "closed"]
    /\ UNCHANGED <<ip, channels, registry, filterCh, lock, got, switching, tcpdump>>

-----------------------------------------------------------------------------
(* The select of updateFilterLocked, by the holder of the mutex. *)

Release == mu' = NoOne /\ step' = "idle" /\ phase' = Released(mu)

\* Mutant: the channel has a place more.
SendBeside ==
    /\ mu # NoOne /\ step \in {"select", "replace"}
    /\ Len(filterCh) <= 1
    /\ filterCh' = Append(filterCh, desiredFilter)
    /\ Release
    /\ UNCHANGED <<ip, channels, registry, got, switching, tcpdump>>

\* case w.filterCh <- filter
SendFilter ==
    /\ mu # NoOne /\ step \in {"select", "replace"}
    /\ filterCh = <<>>
    /\ filterCh' = <<desiredFilter>>
    /\ Release
    /\ UNCHANGED <<ip, channels, registry, got, switching, tcpdump>>

\* Mutant: the default case keeps the old filter instead of replacing it.
KeepOldFilter ==
    /\ mu # NoOne /\ step = "select" /\ filterCh # <<>>
    /\ Release
    /\ UNCHANGED <<ip, channels, registry, filterCh, got, switching, tcpdump>>

\* default: the channel was full when the select looked ...
ChannelFull ==
    /\ mu # NoOne /\ step = "select" /\ filterCh # <<>>
    /\ step' = "drain"
    /\ UNCHANGED <<callers, channels, registry, filterCh, mu, got, switching, tcpdump>>

\* ... and the receive blocks if the capture loop was faster.
DrainFilter ==
    /\ mu # NoOne /\ step = "drain" /\ filterCh # <<>>
    /\ filterCh' = Tail(filterCh)
    /\ step' = "replace"
    /\ UNCHANGED <<callers, channels, registry, mu, got, switching, tcpdump>>

-----------------------------------------------------------------------------
(* captureLoop and runCapture. *)

Receive ==
    /\ ~switching /\ filterCh # <<>>
    /\ got' = Head(filterCh) /\ filterCh' = Tail(filterCh)
    /\ switching' = TRUE
    /\ UNCHANGED <<callers, channels, registry, lock, tcpdump>>

\* Mutant: a capture that is running is left alone.
SwitchIfNone ==
    /\ switching /\ switching' = FALSE
    /\ capture' = IF got = {} THEN NoCapture
                  ELSE IF capture # NoCapture THEN capture
                  ELSE [filter |-> got, state |-> "starting"]
    /\ UNCHANGED <<callers, channels, registry, filterCh, lock, got, dying, failing>>

\* Mutant: the loop puts the filter back, to have its tcpdump started again.
SwitchAndRetry ==
    /\ switching /\ switching' = FALSE
    /\ dying' = dying \cup
          (IF capture.state \in {"starting", "running"} THEN {capture} ELSE {})
    /\ capture' = IF got = {} THEN NoCapture ELSE [filter |-> got, state |-> "starting"]
    /\ filterCh' = IF filterCh = <<>> THEN <<got>> ELSE filterCh
    /\ UNCHANGED <<callers, channels, registry, lock, got, failing>>

Switch ==
    /\ switching /\ switching' = FALSE
    /\ dying' = dying \cup
          (IF capture.state \in {"starting", "running"} THEN {capture} ELSE {})
    /\ capture' = IF got = {} THEN NoCapture ELSE [filter |-> got, state |-> "starting"]
    /\ UNCHANGED <<callers, channels, registry, filterCh, lock, got, failing>>

TcpdumpStarts ==
    /\ capture.state = "starting"
    /\ capture' = [capture EXCEPT !.state = "running"]
    /\ UNCHANGED <<callers, channels, registry, filterCh, lock, got, switching, dying, failing>>

\* It cannot be started, fails, or ends with status 0 and is not reported.
\* Nobody starts it again: desiredFilter has not changed.
TcpdumpEnds ==
    /\ capture.state \in {"starting", "running"}
    /\ capture' = [capture EXCEPT !.state = "dead"]
    /\ failing' \in {TRUE, failing}
    /\ UNCHANGED <<callers, channels, registry, filterCh, lock, got, switching, dying>>

\* Only what goes wrong before tcpdump has started is reported although it was cancelled.
CancelledEnds ==
    /\ \E c \in dying :
           /\ dying' = dying \ {c}
           /\ failing' \in IF c.state = "starting" THEN {TRUE, failing} ELSE {failing}
    /\ UNCHANGED <<callers, channels, registry, filterCh, lock, got, switching, capture>>

broadcastError ==
    /\ failing /\ mu = NoOne
    /\ failing' = FALSE
    /\ errCh' = errCh \cup sessions
    /\ UNCHANGED <<callers, packetCh, registry, filterCh, lock, got, switching, capture, dying>>

\* A line with address a, from the running tcpdump or from what a cancelled one
\* had already written.
notifyIP(a) ==
    /\ mu = NoOne
    /\ \/ capture.state = "running" /\ a \in capture.filter
       \/ \E c \in dying : a \in c.filter
    /\ packetCh' = packetCh \cup {s \in sessions : ip[s] = a}
    /\ UNCHANGED <<callers, errCh, registry, filterCh, lock, got, switching, tcpdump>>

\* The caller of Start receives from its channels.
Consume(s) ==
    /\ s \in packetCh \cup errCh
    /\ \/ s \in packetCh /\ packetCh' = packetCh \ {s} /\ UNCHANGED errCh
       \/ s \in errCh /\ errCh' = errCh \ {s} /\ UNCHANGED packetCh
    /\ UNCHANGED <<callers, registry, filterCh, lock, got, switching, tcpdump>>

-----------------------------------------------------------------------------
Update == SendFilter \/ ChannelFull \/ DrainFilter

Loop == Receive \/ Switch

Tcpdump == TcpdumpStarts \/ TcpdumpEnds \/ CancelledEnds \/ broadcastError

Next ==
    \/ Update \/ Loop \/ Tcpdump
    \/ \E s \in Sessions :
          Start(s) \/ Cancel(s) \/ unregister(s) \/ Close(s) \/ Consume(s)
    \/ \E a \in IPs : notifyIP(a)

\* Goroutines that can run do; a Go mutex is handed to every waiter in the end; a
\* started tcpdump begins to capture, a killed one ends.
Fairness ==
    /\ WF_vars(Update) /\ WF_vars(Loop)
    /\ WF_vars(TcpdumpStarts) /\ WF_vars(CancelledEnds)
    /\ \A s \in Sessions : SF_vars(unregister(s)) /\ WF_vars(Close(s))

Spec == Init /\ [][Next]_vars /\ Fairness

-----------------------------------------------------------------------------
(* Properties. *)

\* Every variable keeps to its type, the filter channel to its capacity.
TypeOK ==
    /\ phase \in [Sessions -> {"new", "starting", "active", "cancelled",
                               "unregistering", "closing", "closed"}]
    /\ ip \in [Sessions -> IPs]
    /\ packetCh \subseteq Sessions /\ errCh \subseteq Sessions /\ sessions \subseteq Sessions
    /\ desiredFilter \in Filter /\ got \in Filter
    /\ filterCh \in Seq(Filter) /\ Len(filterCh) <= 1
    /\ mu \in Sessions \cup {NoOne}
    /\ step \in {"idle", "select", "drain", "replace"}
    /\ switching \in BOOLEAN /\ failing \in BOOLEAN
    /\ capture \in [filter : Filter, state : {"none", "starting", "running", "dead"}]
    /\ dying \subseteq [filter : Filter, state : {"starting", "running"}]

\* The filter that the channel, the capture loop and tcpdump hold between them.
InFlight ==
    IF filterCh # <<>> THEN Head(filterCh) ELSE IF switching THEN got ELSE capture.filter

\* Whenever the mutex is free, the last filter on its way to tcpdump is the one of
\* the registered sessions: no interleaving of callers with the capture loop
\* loses an update (tcpdump_watcher.go:93-105, 127-141).
LatestFilterWins ==
    /\ desiredFilter = buildFilter(sessions)
    /\ mu = NoOne => InFlight = desiredFilter

\* notifyIP and broadcastError never send on a channel that unregister closed: a
\* session they can reach under the mutex is not closed yet (tcpdump_watcher.go:76-91).
NoSendOnClosed ==
    \A s \in sessions : phase[s] \notin {"closing", "closed"}

\* The channel between the callers and the loop implements the queue of filters.
Queue == INSTANCE FilterQueue WITH
    queue <- filterCh \o (IF mu = NoOne THEN <<>> ELSE <<desiredFilter>>),
    have <- got

KeepsOrder == Queue!Spec

Captured(s) == capture.state = "running" /\ ip[s] \in capture.filter

\* As long as callers get the mutex, a session that stays active is captured, unless
\* tcpdump died (tcpdump_watcher.go:127-141).
ActiveIsCaptured ==
    []<>(mu = NoOne) =>
        \A s \in Sessions :
            phase[s] = "active" ~>
                (Captured(s) \/ phase[s] # "active" \/ capture.state = "dead")

-----------------------------------------------------------------------------
(* What the documents say and the code does not do. *)

\* tcpdump_watcher.go: "Start returns two channels".  A caller that got the mutex
\* returns from Start.
StartReturns == \A s \in Sessions : phase[s] = "starting" ~> phase[s] # "starting"
=============================================================================
