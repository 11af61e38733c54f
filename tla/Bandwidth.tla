-------------------------------- MODULE Bandwidth --------------------------------
(***************************************************************************)
(* Bandwidth limits (internal/bandwidth, the two bandwidth handlers of     *)
(* internal/api, applyStoredBandwidth of main): a limit is a sequence of   *)
(* tc and ip commands, some of whose errors are ignored, and then a row.   *)
(* Requests overlap, commands fail, clients leave and the process or the   *)
(* host ends between any two commands.                                     *)
(*                                                                         *)
(* A container stands for the host's end of its veth pair.  Interface      *)
(* indexes, by which ifb devices are named and the veth is found, are      *)
(* taken to differ.  Limits are in tenths of a kbit/s.                     *)
(***************************************************************************)
EXTENDS Naturals, Sequences, FiniteSets

CONSTANTS
    Containers,
    Bridge,       \* the bridge of a network
    Ports,        \* the containers in it, in the order `ip` lists them
    Ifb,          \* the ifb device of a container or of the bridge
    Requests, Boot,
    Asked,        \* the limits a request may ask for
    None,
    MaxFaults,    \* bound: commands that fail by themselves, clients that leave
    MaxRestarts   \* bound: ends of the process or of the host

Targets == Containers \cup {Bridge}
Workers == Requests \cup {Boot}
Ifbs == {Ifb[t] : t \in Targets}
Devices == Targets \cup Ifbs

Rates == Nat \ {0}
Job == {j \in [who : Targets, egress : Nat, ingress : Nat] : j.egress > 0 \/ j.ingress > 0}
Qdisc == [rate : Rates \cup {None}, leaf : BOOLEAN]

ASSUME IdentityAssumption ==
    /\ Bridge \notin Containers /\ Boot \notin Requests /\ Targets \cap Ifbs = {}
    /\ None \notin Ifbs /\ None \notin Nat /\ None \notin Job /\ None \notin Qdisc
ASSUME IndexAssumption == \A t, u \in Targets : t # u => Ifb[t] # Ifb[u]
ASSUME PortsAssumption ==
    /\ Ports \in Seq(Containers) /\ Ports # <<>>
    /\ \A m, n \in DOMAIN Ports : m # n => Ports[m] # Ports[n]
ASSUME AskedAssumption == \A r \in Requests : Asked[r] \subseteq Job
ASSUME BoundsAssumption == MaxFaults \in Nat /\ MaxRestarts \in Nat

VARIABLES
    root,    \* of a device: its root qdisc, [rate, leaf], or None
    slot,    \* of a veth or the bridge: its qdisc for incoming packets, and where a filter redirects
    link,    \* of an ifb: "absent", "down" or "up"
    stored,  \* bandwidth_limits and network_bandwidth_limits
    at,      \* of a worker: "new", the command it is about to run, "ok" or "failed"
    port,    \* the bridge port it has come to
    job,     \* the limit it applies
    gone,    \* requests whose client has left
    boot,    \* where applyStoredBandwidth is: "containers", "networks", "done"
    todo,    \* limits of the list it goes through
    faults, restarts,
    fair,    \* history: workers that no other and no failed deletion disturbs
    clean    \* history: targets whose last limit was applied undisturbed, and answered

host == <<root, slot, link>>
worker == <<at, port, job>>
bounds == <<faults, restarts>>
vars == <<host, stored, worker, gone, boot, todo, bounds, fair, clean>>

NoSlot == [kind |-> "none", to |-> None]
Bare == [root |-> [d \in Devices |-> None],
         slot |-> [d \in Targets |-> NoSlot],
         link |-> [i \in Ifbs |-> "absent"]]

Init ==
    /\ root = Bare.root /\ slot = Bare.slot /\ link = Bare.link /\ stored = [t \in Targets |-> None]
    /\ at = [w \in Workers |-> "new"] /\ port = [w \in Workers |-> 0] /\ job = [w \in Workers |-> None]
    /\ gone = {} /\ boot = "done" /\ todo = {} /\ faults = 0 /\ restarts = 0
    /\ fair = {} /\ clean = {}

-----------------------------------------------------------------------------
(* The commands of a limit: l is the place of one of them, and each says    *)
(* which follows when it succeeds and which when it fails.                  *)

Cmd(op, dev, arg) == [op |-> op, dev |-> dev, arg |-> arg]
Try(c, ok, fail) == [cmd |-> c, ok |-> ok, fail |-> fail]
Quiet(c, next) == Try(c, next, next)
Must(c, next) == Try(c, next, "failed")

\* Mutant: less than half a kbit is no kbit.
formatRateAny(m) == (m + 5) \div 10

\* kbit, rounded, and at least one.
formatRate(m) == IF (m + 5) \div 10 < 1 THEN 1 ELSE (m + 5) \div 10

\* Mutant: a device that is there is taken to be up.
ensureIFBOnce(l, i, next) ==
    CASE l = "show"    -> Try(Cmd("show", i, None), next, "addlink")
      [] l = "addlink" -> Must(Cmd("addlink", i, None), "up")
      [] l = "up"      -> Must(Cmd("up", i, None), next)

ensureIFB(l, i, next) ==
    CASE l = "show"    -> Try(Cmd("show", i, None), "up", "addlink")
      [] l = "addlink" -> Must(Cmd("addlink", i, None), "up")
      [] l = "up"      -> Must(Cmd("up", i, None), next)

EnsurePlaces == {"show", "addlink", "up"}

\* Mutant: the ifb keeps its qdisc.
applyIngressLimitAgain(l, c, m) ==
    CASE l \in EnsurePlaces -> ensureIFB(l, Ifb[c], "addslot")
      [] l = "addslot" -> Must(Cmd("addslot", c, "ingress"), "u32")
      [] l = "u32"     -> Must(Cmd("u32", c, Ifb[c]), "tbfifb")
      [] l = "tbfifb"  -> Must(Cmd("tbf", Ifb[c], formatRate(m)), "upsert")

applyIngressLimit(l, c, m) ==
    CASE l \in EnsurePlaces -> ensureIFB(l, Ifb[c], "delifb")
      [] l = "delifb"  -> Quiet(Cmd("delroot", Ifb[c], None), "addslot")
      [] l = "addslot" -> Must(Cmd("addslot", c, "ingress"), "u32")
      [] l = "u32"     -> Must(Cmd("u32", c, Ifb[c]), "tbfifb")
      [] l = "tbfifb"  -> Must(Cmd("tbf", Ifb[c], formatRate(m)), "upsert")

IngressPlaces == EnsurePlaces \cup {"delifb", "addslot", "u32", "tbfifb"}

\* Mutant: the redirection goes only where another is to come.
LimitContainerPart(j, l) ==
    CASE l = "look"    -> Must(Cmd("look", j.who, None), "delroot")
      [] l = "delroot" -> Quiet(Cmd("delroot", j.who, None), IF j.egress > 0 THEN "tbf" ELSE "delslot")
      [] l = "tbf"     -> Must(Cmd("tbf", j.who, formatRate(j.egress)),
                               IF j.ingress > 0 THEN "delslot" ELSE "upsert")
      [] l = "delslot" -> Quiet(Cmd("delslot", j.who, "ingress"), "show")
      [] l \in IngressPlaces -> applyIngressLimit(l, j.who, j.ingress)

\* Limiter.Apply: first the process, the index and the veth are looked up.
LimitContainer(j, l) ==
    CASE l = "look"    -> Must(Cmd("look", j.who, None), "delroot")
      [] l = "delroot" -> Quiet(Cmd("delroot", j.who, None), "delslot")
      [] l = "delslot" -> Quiet(Cmd("delslot", j.who, "ingress"), IF j.egress > 0 THEN "tbf" ELSE "show")
      [] l = "tbf"     -> Must(Cmd("tbf", j.who, formatRate(j.egress)),
                               IF j.ingress > 0 THEN "show" ELSE "upsert")
      [] l \in IngressPlaces -> applyIngressLimit(l, j.who, j.ingress)

ContainerPlaces == {"look", "delroot", "delslot", "tbf"} \cup IngressPlaces

\* htb without a class caps nothing.  The leaf is fq_codel or, where there is none, sfq.
applySharedCap(l, places, d, m, next) ==
    CASE l = places[1] -> Must(Cmd("htb", d, None), places[2])
      [] l = places[2] -> Must(Cmd("class", d, formatRate(m)), places[3])
      [] l = places[3] -> Must(Cmd("leaf", d, None), next)

BridgeCap == <<"htb", "class", "leaf">>
IfbCap == <<"htbifb", "classifb", "leafifb">>

\* One port: clsact with matchall, or else ingress with u32, for IPv4 and then for IPv6.
RedirectPort(l, p, i, next) ==
    CASE l = "delingress" -> Quiet(Cmd("delslot", p, "ingress"), "delclsact")
      [] l = "delclsact"  -> Quiet(Cmd("delslot", p, "clsact"), "addclsact")
      [] l = "addclsact"  -> Try(Cmd("addslot", p, "clsact"), "matchall", "undo")
      [] l = "matchall"   -> Try(Cmd("matchall", p, i), next, "undo")
      [] l = "undo"       -> Quiet(Cmd("delslot", p, "clsact"), "addingress")
      [] l = "addingress" -> Must(Cmd("addslot", p, "ingress"), "u32v4")
      [] l = "u32v4"      -> Must(Cmd("u32", p, i), "u32v6")
      [] l = "u32v6"      -> Must(Cmd("u32", p, i), next)

PortPlaces ==
    {"delingress", "delclsact", "addclsact", "matchall", "undo", "addingress", "u32v4", "u32v6"}

\* n is the port it has come to, Ports[n] its device.
applyIngressRedirectOnPorts(l, n, i) ==
    CASE l = "list" -> Must(Cmd("look", Bridge, None), "delingress")
      [] l \in PortPlaces ->
             RedirectPort(l, Ports[n], i, IF n < Len(Ports) THEN "delingress" ELSE IfbCap[1])

\* NetworkLimiter.Apply.
LimitNetwork(j, l, n) ==
    CASE l = "look"      -> Must(Cmd("look", Bridge, None), "delroot")
      [] l = "delroot"   -> Quiet(Cmd("delroot", Bridge, None), "delslot")
      [] l = "delslot"   -> Quiet(Cmd("delslot", Bridge, "ingress"), "delslot2")
      [] l = "delslot2"  -> Quiet(Cmd("delslot", Bridge, "clsact"), "delifb")
      [] l = "delifb"    -> Quiet(Cmd("delroot", Ifb[Bridge], None), BridgeCap[1])
      [] l \in {"htb", "class", "leaf"} ->
             applySharedCap(l, BridgeCap, Bridge, IF j.egress > 0 THEN j.egress ELSE j.ingress,
                            IF j.ingress > 0 THEN "show" ELSE "upsert")
      [] l \in EnsurePlaces -> ensureIFB(l, Ifb[Bridge], "list")
      [] l \in {"list"} \cup PortPlaces -> applyIngressRedirectOnPorts(l, n, Ifb[Bridge])
      [] l \in {"htbifb", "classifb", "leafifb"} ->
             applySharedCap(l, IfbCap, Ifb[Bridge], j.ingress, "upsert")

NetworkPlaces ==
    {"look", "delroot", "delslot", "delslot2", "delifb", "htb", "class", "leaf", "list",
     "htbifb", "classifb", "leafifb"} \cup EnsurePlaces \cup PortPlaces

Apply(j, l, n) == IF j.who = Bridge THEN LimitNetwork(j, l, n) ELSE LimitContainer(j, l)

-----------------------------------------------------------------------------
(* The host: what a command finds, and what it does. *)

Exists(d) == d \in Ifbs => link[d] # "absent"

\* One root qdisc and one for incoming packets to a device, neither added nor deleted
\* under another's name.
Accepts(c) ==
    \/ c.op = "delroot" /\ root[c.dev] # None
    \/ c.op = "delslot" /\ slot[c.dev].kind = c.arg
    \/ c.op \in {"tbf", "htb"} /\ Exists(c.dev) /\ root[c.dev] = None
    \/ c.op = "class" /\ root[c.dev] # None /\ root[c.dev].rate = None
    \/ c.op = "leaf" /\ root[c.dev] # None /\ root[c.dev].rate # None /\ ~root[c.dev].leaf
    \/ c.op = "addslot" /\ slot[c.dev].kind = "none"
    \/ c.op = "matchall" /\ slot[c.dev].kind # "none" /\ Exists(c.arg)
    \/ c.op = "u32" /\ slot[c.dev].kind = "ingress" /\ Exists(c.arg)
    \/ c.op \in {"show", "up"} /\ Exists(c.dev)
    \/ c.op = "addlink" /\ ~Exists(c.dev)
    \/ c.op \in {"look", "upsert"}

Root(c) ==
    CASE c.op = "tbf" -> [rate |-> c.arg, leaf |-> TRUE]
      [] c.op = "htb" -> [rate |-> None, leaf |-> FALSE]
      [] c.op = "class" -> [rate |-> c.arg, leaf |-> FALSE]
      [] c.op = "leaf" -> [root[c.dev] EXCEPT !.leaf = TRUE]
      [] c.op = "delroot" -> None

Slot(c) ==
    CASE c.op = "addslot" -> [kind |-> c.arg, to |-> None]
      [] c.op \in {"matchall", "u32"} -> [slot[c.dev] EXCEPT !.to = c.arg]
      [] c.op = "delslot" -> NoSlot

Effect(c) ==
    \/ /\ c.op \in {"delroot", "tbf", "htb", "class", "leaf"}
       /\ root' = [root EXCEPT ![c.dev] = Root(c)] /\ UNCHANGED <<slot, link, stored>>
    \/ /\ c.op \in {"delslot", "addslot", "matchall", "u32"}
       /\ slot' = [slot EXCEPT ![c.dev] = Slot(c)] /\ UNCHANGED <<root, link, stored>>
    \/ /\ c.op \in {"addlink", "up"}
       /\ link' = [link EXCEPT ![c.dev] = IF c.op = "up" THEN "up" ELSE "down"]
       /\ UNCHANGED <<root, slot, stored>>
    \/ /\ c.op = "upsert"
       /\ stored' = [stored EXCEPT ![c.dev] = c.arg] /\ UNCHANGED host
    \/ c.op \in {"show", "look"} /\ UNCHANGED <<host, stored>>

-----------------------------------------------------------------------------
(* A worker.  Touches, fair and clean are not in the program: they tell which  *)
(* limits nothing disturbed, the ones the properties speak of.                *)

\* History: the targets whose limit the commands of j may disturb.
Touches(j) ==
    IF j.who = Bridge
      THEN {Bridge} \cup (IF j.ingress > 0 THEN {Ports[n] : n \in DOMAIN Ports} ELSE {})
      ELSE {j.who} \cup (IF \E n \in DOMAIN Ports : Ports[n] = j.who THEN {Bridge} ELSE {})

Idle == {"new", "ok", "failed"}
Busy(v) == at[v] \notin Idle

Begin(w, j) ==
    LET others == {v \in Workers : Busy(v) /\ Touches(job[v]) \cap Touches(j) # {}}
    IN  /\ at' = [at EXCEPT ![w] = "look"] /\ port' = [port EXCEPT ![w] = 0]
        /\ job' = [job EXCEPT ![w] = j]
        /\ fair' = IF others = {} THEN fair \cup {w} ELSE fair \ (others \cup {w})
        /\ clean' = clean \ Touches(j)

\* POST .../bandwidth: the limit is applied, then stored, then answered.
Request(r) ==
    /\ boot = "done" /\ at[r] = "new"
    /\ \E j \in Asked[r] : Begin(r, j)
    /\ UNCHANGED <<host, stored, gone, boot, todo, bounds>>

\* What w is about to run: a command of its limit or, after the last, the statement that
\* stores it.
Now(w) ==
    IF at[w] = "upsert" THEN Must(Cmd("upsert", job[w].who, job[w]), "ok")
                        ELSE Apply(job[w], at[w], port[w])

\* The start applies what is stored already, and stores nothing.
Advance(w, l) ==
    /\ at' = [at EXCEPT ![w] = IF w = Boot /\ l = "upsert" THEN "ok" ELSE l]
    /\ port' = [port EXCEPT ![w] = IF l = "delingress" THEN @ + 1 ELSE @]

\* History: nothing disturbed the limit that is now answered for.
Answered(w) == clean' = IF at'[w] = "ok" /\ w \in fair THEN clean \cup {job[w].who} ELSE clean

Runs(w) ==
    /\ Busy(w) /\ w \notin gone /\ Accepts(Now(w).cmd) /\ Effect(Now(w).cmd)
    /\ Advance(w, Now(w).ok) /\ Answered(w)
    /\ UNCHANGED <<job, gone, boot, todo, bounds, fair>>

\* The command finds nothing to delete, or something in its way; or the client has left,
\* and it is not run.
Refused(w) ==
    /\ Busy(w) /\ (w \in gone \/ ~Accepts(Now(w).cmd))
    /\ Advance(w, Now(w).fail) /\ Answered(w)
    /\ UNCHANGED <<host, stored, job, gone, boot, todo, bounds, fair>>

\* It fails by itself.  A port that cannot have the one redirection gets the other.
Fails(w) ==
    /\ Busy(w) /\ w \notin gone /\ faults < MaxFaults /\ faults' = faults + 1
    /\ Advance(w, Now(w).fail)
    /\ fair' = IF Now(w).cmd.op \in {"addslot", "matchall"} THEN fair ELSE fair \ {w}
    /\ UNCHANGED <<host, stored, job, gone, boot, todo, restarts, clean>>

\* The client leaves: the command is killed, and may have had its effect.
Leaves(r) ==
    /\ Busy(r) /\ r \notin gone /\ faults < MaxFaults /\ faults' = faults + 1
    /\ gone' = gone \cup {r} /\ fair' = fair \ {r} /\ Advance(r, Now(r).fail)
    /\ \/ UNCHANGED <<host, stored>>
       \/ Accepts(Now(r).cmd) /\ Effect(Now(r).cmd)
    /\ UNCHANGED <<job, boot, todo, restarts, clean>>

-----------------------------------------------------------------------------
(* The process. *)

\* A crash or an exit; the host may end with it.
Restart ==
    /\ restarts < MaxRestarts /\ restarts' = restarts + 1
    /\ at' = [w \in Workers |-> IF w = Boot THEN "new" ELSE IF Busy(w) THEN "failed" ELSE at[w]]
    /\ port' = [w \in Workers |-> 0] /\ fair' = {}
    /\ \/ UNCHANGED <<host, clean>>
       \/ root' = Bare.root /\ slot' = Bare.slot /\ link' = Bare.link /\ clean' = {}
    /\ boot' = "containers" /\ todo' = {c \in Containers : stored[c] # None}
    /\ UNCHANGED <<stored, job, gone, faults>>

\* A list cannot be read: what is left is not applied.
ListFails ==
    /\ boot # "done" /\ ~Busy(Boot) /\ faults < MaxFaults /\ faults' = faults + 1
    /\ boot' = "done" /\ todo' = {}
    /\ UNCHANGED <<host, stored, worker, gone, restarts, fair, clean>>

Reapply(t) ==
    /\ ~Busy(Boot) /\ t \in todo /\ todo' = todo \ {t}
    /\ Begin(Boot, stored[t])
    /\ UNCHANGED <<host, stored, gone, boot, bounds>>

\* Failures are logged; after the containers come the networks, then the server listens.
NextList ==
    /\ boot # "done" /\ ~Busy(Boot) /\ todo = {}
    /\ \/ boot = "containers" /\ boot' = "networks" /\ todo' = {t \in {Bridge} : stored[t] # None}
       \/ boot = "networks" /\ boot' = "done" /\ UNCHANGED todo
    /\ UNCHANGED <<host, stored, worker, gone, bounds, fair, clean>>

-----------------------------------------------------------------------------
Serve(r) == Request(r) \/ Leaves(r)
Work(w) == Runs(w) \/ Refused(w) \/ Fails(w)

Next ==
    \/ \E r \in Requests : Serve(r)
    \/ \E w \in Workers : Work(w)
    \/ \E t \in Targets : Reapply(t)
    \/ Restart \/ ListFails \/ NextList

Spec == Init /\ [][Next]_vars

-----------------------------------------------------------------------------
(* Properties. *)

\* Every variable keeps to its type; no rate is zero, which tc would refuse.
TypeOK ==
    /\ root \in [Devices -> Qdisc \cup {None}]
    /\ slot \in [Targets -> [kind : {"none", "ingress", "clsact"}, to : Ifbs \cup {None}]]
    /\ link \in [Ifbs -> {"absent", "down", "up"}]
    /\ stored \in [Targets -> Job \cup {None}]
    /\ \A t \in Targets : stored[t] # None => stored[t].who = t
    /\ at \in [Workers -> Idle \cup ContainerPlaces \cup NetworkPlaces \cup {"upsert"}]
    /\ port \in [Workers -> 0..Len(Ports)]
    /\ job \in [Workers -> Job \cup {None}]
    /\ gone \subseteq Requests /\ boot \in {"containers", "networks", "done"} /\ todo \subseteq Targets
    /\ faults \in 0..MaxFaults /\ restarts \in 0..MaxRestarts
    /\ fair \subseteq Workers /\ clean \subseteq Targets

Quiescent(t) == \A w \in Workers : Busy(w) => t \notin Touches(job[w])
Rate(d) == IF root[d] = None THEN None ELSE root[d].rate
Redirected(d, i) == slot[d].to = i /\ link[i] = "up"

ContainerLimited(c, j) ==
    /\ Rate(c) = IF j.egress > 0 THEN formatRate(j.egress) ELSE None
    /\ IF j.ingress > 0 THEN Redirected(c, Ifb[c]) /\ Rate(Ifb[c]) = formatRate(j.ingress)
                        ELSE slot[c].to # Ifb[c]

NetworkLimited(j) ==
    /\ Rate(Bridge) = formatRate(IF j.egress > 0 THEN j.egress ELSE j.ingress)
    /\ Rate(Ifb[Bridge]) = IF j.ingress > 0 THEN formatRate(j.ingress) ELSE None
    /\ j.ingress > 0 => \A n \in DOMAIN Ports : Redirected(Ports[n], Ifb[Bridge])

\* A limit that was applied undisturbed and answered, or applied again at the start, is the
\* one that is stored and the one in force on the devices, whatever was in force or was
\* left half-way before (limiter.go:34-80, network_limiter.go:24-73, main.go:185-227).
StoredIsInForce ==
    \A t \in clean :
        Quiescent(t) => IF t = Bridge THEN NetworkLimited(stored[t]) ELSE ContainerLimited(t, stored[t])

\* What an earlier limit left behind - complete, half applied, of before a restart -
\* never stands in the way of the next: an undisturbed one fails by itself only where a
\* container's redirection meets the network's on the same veth
\* (limiter.go:65-66, 242, network_limiter.go:46-49, 104-105).
LeftoversDoNotMatter ==
    [][\A w \in Workers :
          w \in fair /\ Refused(w) /\ at'[w] = "failed" =>
              Now(w).cmd.op = "addslot" /\ slot[job[w].who].kind = "clsact"]_vars

\* Packets are never redirected to a device that is down and drops them
\* (limiter.go:239-248, 259-267, network_limiter.go:60-63).
NoBlackHole == \A d \in Targets : slot[d].to # None => link[slot[d].to] = "up"
=============================================================================
